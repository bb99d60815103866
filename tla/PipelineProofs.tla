---------------------------- MODULE PipelineProofs ----------------------------
(***************************************************************************)
(* Theorems about VerificationPipeline for any requests, keys, nodes,      *)
(* windows and bounds.  PipelineInv says what the record of a job, of a    *)
(* request, of a task and of a node's processor implies about the others;  *)
(* one lemma per action keeps it.  EvidenceKept adds the evidence files    *)
(* and the deadlines, and the last section maps every action to a step of  *)
(* TaskLifecycle or to none.                                               *)
(***************************************************************************)
EXTENDS VerificationPipeline, FiniteSetTheorems, TLAPS

(***************************************************************************)
(* The inductive invariant                                                 *)
(***************************************************************************)
JobRecord == [state : {"absent", "waiting", "active", "delayed", "completed", "failed"},
  worker : Nodes \union {NoOne}, attempts : 0 .. Attempts, runs : Runs \union {NoRun},
  stalls : 0 .. MaxStalls + 1, result : {"none", "queued", "skipped", "sealed"}]

\* A Bull job counts its runs: each ended in a failed attempt or in a stall, but for the one
\* that is active or completed it; a job that may still run has both to spare.
JobGood(j) ==
  /\ j \in JobRecord
  /\ j.runs = j.attempts + j.stalls + (IF j.state \in {"active", "completed"} THEN 1 ELSE 0)
  /\ j.state \in {"waiting", "active", "delayed"} => j.attempts < Attempts /\ j.stalls <= MaxStalls
  /\ j.result # "none" => j.state = "completed"

JobsGood == job \in [Tasks -> JobRecord] /\ \A t \in Tasks : JobGood(job[t])

RequestPcs == {"idle", "submitting", "queueing", "tracing", "done"}

Routes == {"none", "v1", "legacy"}

Codes == {0, 200, 201, 400, 500, 502}

RequestRecord == [pc : RequestPcs, route : Routes, task : Tasks \union {NoTask}, status : Codes]

Enqueued == {t \in Tasks : job[t].state # "absent"}

\* A handler that has its task has created it; it queues the job of that task, and answers
\* after the job is queued.
RequestGood(q, created, queued) ==
  /\ q.pc # "done" => q.status = 0
  /\ q.pc = "queueing" => q.task \in created \ queued
  /\ q.pc = "tracing" \/ q.status \in {200, 201} => q.task \in queued

\* No two handlers are about to queue a job of one task.
OneHandlerPerTask ==
  \A r, s \in Requests :
    At(r, "queueing") /\ At(s, "queueing") /\ request[r].task = request[s].task => r = s

RequestsGood ==
  /\ request \in [Requests -> RequestRecord] /\ idem \in [Keys -> Tasks \union {NoTask}]
  /\ \A r \in Requests : RequestGood(request[r], Created, Enqueued)
  /\ OneHandlerPerTask /\ ReplaysRepeatAnAnswer

TaskStates == {"absent", "open", "reveal"}

Seals == [Nodes -> Runs \union {NoRun}]

ChainRecord == [state : TaskStates, createdAt : Nat, commitDeadline : Nat,
  revealDeadline : Nat, seal : Seals, opened : SUBSET Nodes]

\* Tasks are numbered in the order of their creation, only what is created is
\* sealed, and only what is sealed is opened.
ChainGood ==
  /\ chain \in [Tasks -> ChainRecord]
  /\ \E k \in 0 .. MaxTasks : Created = 1 .. k
  /\ \A t \in Tasks, n \in Nodes :
       /\ n \in chain[t].opened => chain[t].seal[n] # NoRun
       /\ chain[t].seal[n] # NoRun => t \in Created

WorkPcs == {"free", "evaluating", "sealing", "confirming"}

WorkRecord == [pc : WorkPcs, task : Tasks \union {NoTask}, run : Runs \union {NoRun}]

Files == Tasks \X Runs \X (0 .. MaxClock)

\* A processor runs a job of a task on the chain.  While it waits for the confirmation of its
\* commitment, that commitment is on the chain, not opened, and no reveal is pending.
WorkGood(n) ==
  work[n].pc # "free" =>
    /\ work[n].task \in Enqueued /\ work[n].run \in Runs
    /\ work[n].pc = "confirming" =>
         /\ chain[work[n].task].seal[n] = work[n].run
         /\ n \notin chain[work[n].task].opened
         /\ timer[n][work[n].task] = NoTimer

NodesGood ==
  /\ work \in [Nodes -> WorkRecord]
  /\ store \in [Nodes -> [Tasks -> Runs \union {NoRun}]]
  /\ timer \in [Nodes -> [Tasks -> Nat \union {NoTimer}]]
  /\ evidence \in [Nodes -> SUBSET Files]
  /\ \A n \in Nodes : WorkGood(n)

JobsAreOnTasks == Enqueued \subseteq Created

PipelineInv ==
  /\ clock \in 0 .. MaxClock /\ faults \in 0 .. MaxFaults
  /\ JobsGood /\ RequestsGood /\ ChainGood /\ NodesGood
  /\ JobsAreOnTasks /\ SealedJobsAreOnChain

(***************************************************************************)
(* Constants, types and the record of a job                                *)
(***************************************************************************)
\* What the constants are, one by one.
LEMMA PipelineConstants ==
  /\ MaxTasks \in Nat /\ MaxClock \in Nat /\ MaxFaults \in Nat
  /\ Attempts \in Nat /\ Attempts > 0 /\ MaxStalls \in Nat
  /\ RevealSpan \in Nat /\ RevealDelay \in Nat /\ Retention \in Nat
  /\ CommitSpans \subseteq Nat
  /\ KeyOf \in [Requests -> Keys \union {NoKey}] /\ NoKey \notin Keys /\ NoOne \notin Nodes
BY PipelineAssumption

\* No task has the number that stands for none, and no run has.
LEMMA NoSuchNumber == NoTask \notin Tasks /\ NoRun \notin Runs /\ NoTimer \notin Nat
BY PipelineConstants DEF NoTask, Tasks, NoRun, Runs, NoTimer

\* The parts of the invariant type every variable.
LEMMA PipelineTyped == PipelineInv => PipelineTypeOK
BY DEF PipelineInv, PipelineTypeOK, JobsGood, JobRecord, RequestsGood, RequestRecord,
       RequestPcs, Routes, Codes, ChainGood, ChainRecord, TaskStates, Seals, NodesGood,
       WorkRecord, WorkPcs, Files

\* The fields of a job's record.
LEMMA JobFields ==
  ASSUME NEW j, j \in JobRecord
  PROVE  /\ j.state \in {"absent", "waiting", "active", "delayed", "completed", "failed"}
         /\ j.worker \in Nodes \union {NoOne} /\ j.attempts \in Nat /\ j.stalls \in Nat
         /\ j.runs \in Nat /\ j.result \in {"none", "queued", "skipped", "sealed"}
         /\ j.attempts <= Attempts /\ j.stalls <= MaxStalls + 1
         /\ j.runs <= Attempts + MaxStalls
BY PipelineConstants DEF JobRecord, Runs, NoRun

\* A new job has run not at all.
LEMMA NewJobGood == JobGood(NewJob) /\ NewJob.state = "waiting" /\ NewJob.result = "none"
<1>1. NewJob \in JobRecord
  BY PipelineConstants DEF NewJob, JobRecord, NoRun
<1> QED BY <1>1, PipelineConstants DEF NewJob, JobGood

\* A job that is taken has one run more.
LEMMA TakenGood ==
  ASSUME NEW t \in Tasks, NEW w \in Nodes \union {NoOne}, JobsGood, job[t].state = "waiting"
  PROVE  /\ JobGood(TakenBy(t, w)) /\ TakenBy(t, w).state = "active"
         /\ TakenBy(t, w).result = "none"
         /\ job[t].runs + 1 \in Runs
<1>1. job[t] \in JobRecord /\ JobGood(job[t])
  BY DEF JobsGood
<1> DEFINE j == job[t]
<1>2. /\ j.attempts \in Nat /\ j.stalls \in Nat /\ j.runs \in Nat
      /\ j.attempts < Attempts /\ j.stalls <= MaxStalls /\ j.runs = j.attempts + j.stalls
      /\ j.result = "none"
  BY <1>1, JobFields DEF JobGood
<1>3. j.runs + 1 \in Runs
  BY <1>2, PipelineConstants DEF Runs
<1>4. TakenBy(t, w) = [j EXCEPT !.state = "active", !.worker = w, !.runs = j.runs + 1]
  BY DEF TakenBy
<1>5. TakenBy(t, w) \in JobRecord
  BY <1>1, <1>3, <1>4 DEF JobRecord
<1>6. /\ TakenBy(t, w).state = "active" /\ TakenBy(t, w).runs = j.runs + 1
      /\ TakenBy(t, w).attempts = j.attempts /\ TakenBy(t, w).stalls = j.stalls
      /\ TakenBy(t, w).result = j.result
  BY <1>1, <1>4 DEF JobRecord
<1> QED BY <1>2, <1>3, <1>5, <1>6 DEF JobGood

\* A job changes in a way that keeps its record good.
LEMMA JobUpdated ==
  ASSUME NEW t \in Tasks, NEW j, JobsGood, JobGood(j), job' = [job EXCEPT ![t] = j]
  PROVE  JobsGood' /\ job'[t] = j /\ \A u \in Tasks : u # t => job'[u] = job[u]
<1> USE DEF JobsGood
<1>1. job' \in [Tasks -> JobRecord]
  BY DEF JobGood
<1>2. job'[t] = j /\ \A u \in Tasks : u # t => job'[u] = job[u]
  OBVIOUS
<1>3. \A u \in Tasks : JobGood(job'[u])
  BY <1>2
<1> QED BY <1>1, <1>2, <1>3

(***************************************************************************)
(* The jobs: one moves at a time                                           *)
(***************************************************************************)
Unsettled == {"waiting", "active", "delayed"}

Settled == {"completed", "failed"}

\* One job moves on: it was in the queue, and is queued or settled now.
MovesOne(t) ==
  /\ job[t].state \in Unsettled /\ job'[t].state \in Unsettled \union Settled
  /\ \A u \in Tasks : u # t => job'[u] = job[u]

JobsMove == UNCHANGED job \/ \E t \in Tasks : MovesOne(t)

NoneSealed == \A t \in Tasks : job'[t].result = "sealed" => job[t].result = "sealed"

\* The step keeps the records good, and no job but one moves.
JobsStep == JobsGood' /\ JobsMove

\* A job that nobody touches.
LEMMA JobsUntouched ==
  ASSUME JobsGood, UNCHANGED job
  PROVE  JobsStep /\ NoneSealed
BY DEF JobsStep, JobsGood, JobsMove, NoneSealed

\* An attempt that throws counts as one, if the worker still has the job.
LEMMA FailedByGood ==
  ASSUME NEW n, NEW t \in Tasks, JobsGood, job' = FailedBy(n, t)
  PROVE  JobsStep /\ NoneSealed
<1>1. CASE ~Holds(n, t)
  BY <1>1, JobsUntouched DEF FailedBy
<1>2. CASE Holds(n, t)
  <2>1. job[t] \in JobRecord /\ JobGood(job[t])
    BY DEF JobsGood
  <2> DEFINE j == job[t]
             k == [j EXCEPT !.worker = NoOne, !.attempts = j.attempts + 1,
                     !.state = IF j.attempts + 1 < Attempts THEN "delayed" ELSE "failed"]
  <2>2. /\ j.attempts \in Nat /\ j.stalls \in Nat /\ j.runs \in Nat
        /\ j.attempts < Attempts /\ j.stalls <= MaxStalls
        /\ j.runs = j.attempts + j.stalls + 1 /\ j.result = "none" /\ j.state = "active"
    BY <1>2, <2>1, JobFields DEF JobGood, Holds
  <2>3. job' = [job EXCEPT ![t] = k]
    BY <1>2 DEF FailedBy, JobsGood
  <2>3a. j.attempts + 1 \in 0 .. Attempts
    BY <2>2, PipelineConstants
  <2>4. k \in JobRecord
    BY <2>1, <2>3a DEF JobRecord
  <2>5. /\ k.attempts = j.attempts + 1 /\ k.stalls = j.stalls /\ k.runs = j.runs
        /\ k.result = "none"
        /\ k.state = IF j.attempts + 1 < Attempts THEN "delayed" ELSE "failed"
    BY <2>1, <2>2 DEF JobRecord
  <2> HIDE DEF k
  <2>6. JobGood(k)
    BY <2>2, <2>4, <2>5, PipelineConstants DEF JobGood
  <2>7. JobsGood' /\ job'[t] = k /\ \A u \in Tasks : u # t => job'[u] = job[u]
    BY <2>3, <2>6, JobUpdated
  <2>8. MovesOne(t)
    BY <2>2, <2>5, <2>7 DEF MovesOne, Unsettled, Settled
  <2> QED BY <2>5, <2>7, <2>8 DEF JobsStep, JobsMove, NoneSealed
<1> QED BY <1>1, <1>2

\* A handler that returns completes the job, if the worker still has it.
LEMMA CompletedAsGood ==
  ASSUME NEW n, NEW t \in Tasks, NEW res \in {"skipped", "sealed"}, JobsGood,
         job' = CompletedAs(n, t, res)
  PROVE  /\ JobsStep
         /\ \A u \in Tasks : job'[u].result = "sealed" =>
              job[u].result = "sealed" \/ (u = t /\ res = "sealed")
<1>1. CASE ~Holds(n, t)
  BY <1>1, JobsUntouched DEF CompletedAs, NoneSealed
<1>2. CASE Holds(n, t)
  <2>1. job[t] \in JobRecord /\ JobGood(job[t])
    BY DEF JobsGood
  <2> DEFINE j == job[t]
             k == [j EXCEPT !.state = "completed", !.worker = NoOne, !.result = res]
  <2>2. /\ j.attempts \in Nat /\ j.stalls \in Nat /\ j.runs \in Nat
        /\ j.runs = j.attempts + j.stalls + 1 /\ j.state = "active"
    BY <1>2, <2>1, JobFields DEF JobGood, Holds
  <2>3. job' = [job EXCEPT ![t] = k]
    BY <1>2 DEF CompletedAs, JobsGood
  <2>4. k \in JobRecord
    BY <2>1 DEF JobRecord
  <2>5. /\ k.attempts = j.attempts /\ k.stalls = j.stalls /\ k.runs = j.runs
        /\ k.result = res /\ k.state = "completed"
    BY <2>1 DEF JobRecord
  <2> HIDE DEF k
  <2>6. JobGood(k)
    BY <2>2, <2>4, <2>5 DEF JobGood
  <2>7. JobsGood' /\ job'[t] = k /\ \A u \in Tasks : u # t => job'[u] = job[u]
    BY <2>3, <2>6, JobUpdated
  <2>8. MovesOne(t)
    BY <2>2, <2>5, <2>7 DEF MovesOne, Unsettled, Settled
  <2> QED BY <2>5, <2>7, <2>8 DEF JobsStep, JobsMove
<1> QED BY <1>1, <1>2

\* A job that stalls is waiting again, or failed when it stalled too often.
LEMMA StallGood ==
  ASSUME NEW t \in Tasks, JobsGood, Stall(t)
  PROVE  JobsStep /\ NoneSealed
<1>1. job[t] \in JobRecord /\ JobGood(job[t])
  BY DEF JobsGood
<1> DEFINE j == job[t]
           k == [j EXCEPT !.worker = NoOne, !.stalls = j.stalls + 1,
                   !.state = IF j.stalls < MaxStalls THEN "waiting" ELSE "failed"]
<1>2. /\ j.attempts \in Nat /\ j.stalls \in Nat /\ j.runs \in Nat
      /\ j.attempts < Attempts /\ j.stalls <= MaxStalls
      /\ j.runs = j.attempts + j.stalls + 1 /\ j.result = "none" /\ j.state = "active"
  BY <1>1, JobFields DEF JobGood, Stall
<1>3. job' = [job EXCEPT ![t] = k]
  BY DEF Stall, JobsGood
<1>3a. j.stalls + 1 \in 0 .. MaxStalls + 1
  BY <1>2, PipelineConstants
<1>4. k \in JobRecord
  BY <1>1, <1>3a DEF JobRecord
<1>5. /\ k.attempts = j.attempts /\ k.stalls = j.stalls + 1 /\ k.runs = j.runs
      /\ k.result = "none"
      /\ k.state = IF j.stalls < MaxStalls THEN "waiting" ELSE "failed"
  BY <1>1, <1>2 DEF JobRecord
<1> HIDE DEF k
<1>6. JobGood(k)
  BY <1>2, <1>4, <1>5, PipelineConstants DEF JobGood
<1>7. JobsGood' /\ job'[t] = k /\ \A u \in Tasks : u # t => job'[u] = job[u]
  BY <1>3, <1>6, JobUpdated
<1>8. MovesOne(t)
  BY <1>2, <1>5, <1>7 DEF MovesOne, Unsettled, Settled
<1> QED BY <1>5, <1>7, <1>8 DEF JobsStep, JobsMove, NoneSealed

\* The backoff ends: the job waits again.
LEMMA BackoffGood ==
  ASSUME NEW t \in Tasks, JobsGood, BackoffEnds(t)
  PROVE  JobsStep /\ NoneSealed
<1>1. job[t] \in JobRecord /\ JobGood(job[t])
  BY DEF JobsGood
<1> DEFINE j == job[t]
           k == [j EXCEPT !.state = "waiting"]
<1>2. /\ j.attempts < Attempts /\ j.stalls <= MaxStalls
      /\ j.runs = j.attempts + j.stalls + 0 /\ j.result = "none" /\ j.state = "delayed"
  BY <1>1 DEF JobGood, BackoffEnds
<1>3. job' = [job EXCEPT ![t] = k]
  BY DEF BackoffEnds, JobsGood
<1>4. k \in JobRecord
  BY <1>1 DEF JobRecord
<1>5. /\ k.attempts = j.attempts /\ k.stalls = j.stalls /\ k.runs = j.runs
      /\ k.result = "none" /\ k.state = "waiting"
  BY <1>1, <1>2 DEF JobRecord
<1> HIDE DEF k
<1>6. JobGood(k)
  BY <1>2, <1>4, <1>5 DEF JobGood
<1>7. JobsGood' /\ job'[t] = k /\ \A u \in Tasks : u # t => job'[u] = job[u]
  BY <1>3, <1>6, JobUpdated
<1>8. MovesOne(t)
  BY <1>2, <1>5, <1>7 DEF MovesOne, Unsettled, Settled
<1> QED BY <1>5, <1>7, <1>8 DEF JobsStep, JobsMove, NoneSealed

\* The API's own worker completes the job at once.
LEMMA ApiProcessGood ==
  ASSUME NEW t \in Tasks, JobsGood, apiProcess(t)
  PROVE  JobsStep /\ NoneSealed
<1> DEFINE j == TakenBy(t, NoOne)
           k == [j EXCEPT !.state = "completed", !.result = "queued"]
<1>1. job[t].state = "waiting" /\ job' = [job EXCEPT ![t] = k]
  BY DEF apiProcess
<1>2. JobGood(j) /\ j.state = "active"
  BY <1>1, TakenGood
<1> HIDE DEF j
<1>3. k \in JobRecord /\ k.state = "completed" /\ k.result = "queued"
      /\ k.attempts = j.attempts /\ k.stalls = j.stalls /\ k.runs = j.runs
  BY <1>2 DEF JobGood, JobRecord
<1> HIDE DEF k
<1>4. JobGood(k)
  BY <1>2, <1>3 DEF JobGood
<1>5. JobsGood' /\ job'[t] = k /\ \A u \in Tasks : u # t => job'[u] = job[u]
  BY <1>1, <1>4, JobUpdated
<1>6. MovesOne(t)
  BY <1>1, <1>3, <1>5 DEF MovesOne, Unsettled, Settled
<1> QED BY <1>3, <1>5, <1>6 DEF JobsStep, JobsMove, NoneSealed

\* A node takes the job.
LEMMA TakeJobGood ==
  ASSUME NEW t \in Tasks, NEW n \in Nodes, JobsGood, takeJob(n, t)
  PROVE  JobsStep /\ NoneSealed
<1>1. job[t].state = "waiting" /\ job' = [job EXCEPT ![t] = TakenBy(t, n)]
  BY DEF takeJob
<1>2. JobGood(TakenBy(t, n)) /\ TakenBy(t, n).state = "active" /\ TakenBy(t, n).result = "none"
  BY <1>1, TakenGood
<1>3. /\ JobsGood' /\ job'[t] = TakenBy(t, n)
      /\ \A u \in Tasks : u # t => job'[u] = job[u]
  BY <1>1, <1>2, JobUpdated
<1>4. MovesOne(t)
  BY <1>1, <1>2, <1>3 DEF MovesOne, Unsettled, Settled
<1> QED BY <1>2, <1>3, <1>4 DEF JobsStep, JobsMove, NoneSealed

(***************************************************************************)
(* The requests: one handler moves at a time                               *)
(***************************************************************************)
\* A job that moves was in the queue, and still has a record there.
LEMMA EnqueuedKept ==
  ASSUME JobsMove
  PROVE  Enqueued' = Enqueued
BY DEF JobsMove, MovesOne, Unsettled, Settled, Enqueued

\* The handlers keep what they know while others create tasks and move jobs.
LEMMA RequestsKept ==
  ASSUME RequestsGood, UNCHANGED apiVars, Created \subseteq Created', Enqueued' = Enqueued
  PROVE  RequestsGood'
<1>1. request' = request /\ idem' = idem
  BY DEF apiVars
<1>2. \A r \in Requests : RequestGood(request'[r], Created', Enqueued')
  BY <1>1 DEF RequestsGood, RequestGood
<1>3. OneHandlerPerTask' /\ ReplaysRepeatAnAnswer'
  BY <1>1 DEF RequestsGood, OneHandlerPerTask, ReplaysRepeatAnAnswer, At
<1> QED BY <1>1, <1>2, <1>3 DEF RequestsGood

\* The map gives only what it gave, or what this handler answers.
MapRepeats(r, q) ==
  \A k \in Keys, t \in Tasks :
    idem'[k] = t \/ (KeyOf[r] = k /\ q.status = 200 /\ q.task = t) =>
      idem[k] = t \/ (KeyOf[r] = k /\ q.status = 201 /\ q.task = t)

Replays(q) == q.status = 200

\* One handler moves on to a record that is good; the tasks of the others stay as they were.
LEMMA RequestUpdated ==
  ASSUME RequestsGood, NEW r \in Requests, NEW q \in RequestRecord,
         request' = [request EXCEPT ![r] = q], request[r].pc # "done",
         RequestGood(q, Created', Enqueued'),
         Created \subseteq Created', Enqueued \subseteq Enqueued',
         \A s \in Requests : s # r /\ At(s, "queueing") =>
           request[s].task \notin Enqueued' /\ (q.pc = "queueing" => request[s].task # q.task),
         idem' \in [Keys -> Tasks \union {NoTask}], MapRepeats(r, q)
  PROVE  RequestsGood'
<1>1. /\ request \in [Requests -> RequestRecord]
      /\ \A s \in Requests : RequestGood(request[s], Created, Enqueued)
      /\ OneHandlerPerTask /\ ReplaysRepeatAnAnswer
  BY DEF RequestsGood
<1>2. /\ request' \in [Requests -> RequestRecord] /\ request'[r] = q
      /\ \A s \in Requests : s # r => request'[s] = request[s]
  BY <1>1
<1>3. \A s \in Requests : RequestGood(request'[s], Created', Enqueued')
  <2> SUFFICES ASSUME NEW s \in Requests, s # r
               PROVE  RequestGood(request[s], Created', Enqueued')
    BY <1>2
  <2>1. RequestGood(request[s], Created, Enqueued)
    BY <1>1
  <2> QED BY <2>1 DEF RequestGood, At
<1>4. OneHandlerPerTask'
  BY <1>1, <1>2 DEF OneHandlerPerTask, At
<1>5. ReplaysRepeatAnAnswer'
  <2> SUFFICES ASSUME NEW k \in Keys, NEW t \in Tasks,
                      \/ idem'[k] = t
                      \/ \E s \in Requests : KeyOf[s] = k /\ request'[s].status = 200
                                               /\ request'[s].task = t
               PROVE  \E s \in Requests : KeyOf[s] = k /\ request'[s].status = 201
                                            /\ request'[s].task = t
    BY DEF ReplaysRepeatAnAnswer
  <2>1. request[r].status = 0
    BY <1>1 DEF RequestGood
  <2>2. \/ idem[k] = t
        \/ \E s \in Requests : KeyOf[s] = k /\ request[s].status = 200 /\ request[s].task = t
        \/ KeyOf[r] = k /\ q.status = 201 /\ q.task = t
    BY <1>2 DEF MapRepeats
  <2>3. \/ \E s \in Requests : KeyOf[s] = k /\ request[s].status = 201 /\ request[s].task = t
        \/ KeyOf[r] = k /\ q.status = 201 /\ q.task = t
    BY <1>1, <2>2 DEF ReplaysRepeatAnAnswer
  <2> QED BY <1>2, <2>1, <2>3
<1> QED BY <1>2, <1>3, <1>4, <1>5 DEF RequestsGood

\* The handlers that are about to queue a job find none there.
OthersWait(r) ==
  \A s \in Requests : s # r /\ At(s, "queueing") => request[s].task \notin Enqueued'

\* The same for a handler that answers or goes on without queueing, and without the map.
LEMMA RequestMoved ==
  ASSUME RequestsGood, NEW r \in Requests, NEW q \in RequestRecord,
         request' = [request EXCEPT ![r] = q], request[r].pc # "done",
         RequestGood(q, Created', Enqueued'), q.pc # "queueing", ~Replays(q),
         Created \subseteq Created', Enqueued \subseteq Enqueued', OthersWait(r), idem' = idem
  PROVE  RequestsGood'
<1>1. \A s \in Requests : s # r /\ At(s, "queueing") =>
        request[s].task \notin Enqueued' /\ (q.pc = "queueing" => request[s].task # q.task)
  BY DEF OthersWait
<1>2. idem' \in [Keys -> Tasks \union {NoTask}]
  BY DEF RequestsGood
<1>3. MapRepeats(r, q)
  BY DEF MapRepeats, Replays
<1> QED BY <1>1, <1>2, <1>3, RequestUpdated

\* What the other handlers see of a step that leaves chain and queue alone.
LEMMA NothingQueued ==
  ASSUME RequestsGood, NEW r \in Requests, chain' = chain, job' = job
  PROVE  Created' = Created /\ Enqueued' = Enqueued /\ OthersWait(r)
<1>1. Created' = Created /\ Enqueued' = Enqueued
  BY DEF Created, Enqueued
<1> QED BY <1>1 DEF OthersWait, RequestsGood, RequestGood, At

Errors == {400, 500}

\* An error is an answer without a task.
LEMMA ErrorAnswered ==
  ASSUME RequestsGood, NEW r \in Requests, NEW code \in Errors, request[r].pc # "done",
         Answer(r, code, NoTask), idem' = idem,
         Created \subseteq Created', Enqueued \subseteq Enqueued', OthersWait(r)
  PROVE  RequestsGood'
<1>1. /\ request[r] \in RequestRecord /\ code \in Codes /\ "done" \in RequestPcs
      /\ NoTask \in Tasks \union {NoTask}
  BY DEF RequestsGood, Codes, RequestPcs, Errors
<1>2. PICK q : q = [request[r] EXCEPT !.pc = "done", !.task = NoTask, !.status = code]
  OBVIOUS
<1>3. q \in RequestRecord /\ q.pc = "done" /\ q.status = code
  BY <1>1, <1>2 DEF RequestRecord
<1>4. request' = [request EXCEPT ![r] = q]
  BY <1>2 DEF Answer, RequestsGood
<1>5. RequestGood(q, Created', Enqueued') /\ ~Replays(q) /\ q.pc # "queueing"
  BY <1>3 DEF RequestGood, Replays, Errors
<1>6. q \in RequestRecord
  BY <1>3
<1> QED BY <1>4, <1>5, <1>6, RequestMoved

\* Refused and admitted requests have no task.
LEMMA AdmittedGood ==
  ASSUME RequestsGood, NEW r \in Requests, NEW path \in {"v1", "legacy"}, At(r, "idle"),
         Refused(r, path) \/ Admitted(r, path), chain' = chain, job' = job, idem' = idem
  PROVE  RequestsGood'
<1>1. /\ request[r] \in RequestRecord /\ RequestGood(request[r], Created, Enqueued)
      /\ request[r].pc = "idle" /\ NoTask \in Tasks \union {NoTask}
      /\ {"submitting", "done"} \subseteq RequestPcs /\ path \in Routes /\ 400 \in Codes
  BY DEF RequestsGood, At, RequestPcs, Routes, Codes
<1>2. CASE Refused(r, path)
  <2>1. PICK q : q = [pc |-> "done", route |-> path, task |-> NoTask, status |-> 400]
    OBVIOUS
  <2>2. q \in RequestRecord /\ q.pc = "done" /\ q.status = 400
    BY <1>1, <2>1 DEF RequestRecord
  <2>3. request' = [request EXCEPT ![r] = q]
    BY <1>2, <2>1 DEF Refused
  <2>4. RequestGood(q, Created', Enqueued') /\ ~Replays(q) /\ q.pc # "queueing"
    BY <2>2 DEF RequestGood, Replays
  <2>5. request[r].pc # "done" /\ q \in RequestRecord
    BY <1>1, <2>2
  <2> QED BY <2>3, <2>4, <2>5, RequestMoved, NothingQueued
<1>3. CASE Admitted(r, path)
  <2>1. PICK q : q = [request[r] EXCEPT !.pc = "submitting", !.route = path]
    OBVIOUS
  <2>2. q \in RequestRecord /\ q.pc = "submitting" /\ q.status = request[r].status
    BY <1>1, <2>1 DEF RequestRecord
  <2>3. request' = [request EXCEPT ![r] = q]
    BY <1>3, <2>1 DEF Admitted, RequestsGood
  <2>4. RequestGood(q, Created', Enqueued') /\ ~Replays(q) /\ q.pc # "queueing"
    BY <1>1, <2>2 DEF RequestGood, Replays
  <2>5. request[r].pc # "done" /\ q \in RequestRecord
    BY <1>1, <2>2
  <2> QED BY <2>3, <2>4, <2>5, RequestMoved, NothingQueued
<1> QED BY <1>2, <1>3

\* The replay gives the task that an earlier answer gave.
LEMMA PostV1Good ==
  ASSUME RequestsGood, NEW r \in Requests, postV1Verify(r)
  PROVE  RequestsGood'
<1>1. At(r, "idle") /\ chain' = chain /\ job' = job /\ idem' = idem
  BY DEF postV1Verify
<1>2. CASE Refused(r, "v1") \/ Admitted(r, "v1")
  BY <1>1, <1>2, AdmittedGood
<1>3. CASE /\ StoredResponse(r) # NoTask
           /\ request' = [request EXCEPT ![r] = [pc |-> "done", route |-> "v1",
                                                 task |-> StoredResponse(r), status |-> 200]]
  <2>1. KeyOf[r] \in Keys /\ StoredResponse(r) = idem[KeyOf[r]]
    BY <1>3 DEF StoredResponse
  <2>2. PICK t \in Tasks : t = idem[KeyOf[r]]
    BY <1>3, <2>1 DEF RequestsGood
  <2>3. PICK q : q = [pc |-> "done", route |-> "v1", task |-> t, status |-> 200]
    OBVIOUS
  <2>4. q \in RequestRecord /\ q.pc = "done" /\ q.status = 200 /\ q.task = t
    <3>1. "done" \in RequestPcs /\ "v1" \in Routes /\ 200 \in Codes
      BY DEF RequestPcs, Routes, Codes
    <3> QED BY <2>3, <3>1 DEF RequestRecord
  <2>5. request' = [request EXCEPT ![r] = q]
    BY <1>3, <2>1, <2>2, <2>3
  <2>6. \E s \in Requests : request[s].status = 201 /\ request[s].task = t
    BY <2>1, <2>2 DEF RequestsGood, ReplaysRepeatAnAnswer
  <2>7. t \in Enqueued
    BY <2>6 DEF RequestsGood, RequestGood
  <2>8. Created' = Created /\ Enqueued' = Enqueued
    BY <1>1 DEF Created, Enqueued
  <2>9. RequestGood(q, Created', Enqueued')
    BY <2>4, <2>7, <2>8 DEF RequestGood
  <2>10. \A s \in Requests : s # r /\ At(s, "queueing") =>
           request[s].task \notin Enqueued' /\ (q.pc = "queueing" => request[s].task # q.task)
    BY <2>4, <2>8 DEF RequestsGood, RequestGood, At
  <2>11. idem' \in [Keys -> Tasks \union {NoTask}]
    BY <1>1 DEF RequestsGood
  <2>12. MapRepeats(r, q)
    BY <1>1, <2>2, <2>4 DEF MapRepeats
  <2>13. request[r].pc # "done" /\ q \in RequestRecord
    BY <1>1, <2>4 DEF At
  <2> QED
    BY <2>5, <2>8, <2>9, <2>10, <2>11, <2>12, <2>13, RequestUpdated
<1> QED BY <1>1, <1>2, <1>3 DEF postV1Verify

\* The old route knows no keys.
LEMMA PostGood ==
  ASSUME RequestsGood, NEW r \in Requests, postVerify(r)
  PROVE  RequestsGood'
BY AdmittedGood DEF postVerify

\* Requests in flight when the API dies get no answer.
LEMMA ApiCrashGood ==
  ASSUME RequestsGood, ApiCrash
  PROVE  RequestsGood'
<1>1. /\ chain' = chain /\ job' = job /\ idem' = [k \in Keys |-> NoTask]
      /\ request' = [r \in Requests |->
           IF request[r].pc \in {"idle", "done"} THEN request[r]
           ELSE [request[r] EXCEPT !.pc = "done", !.task = NoTask, !.status = 502]]
  BY DEF ApiCrash
<1>2. Created' = Created /\ Enqueued' = Enqueued
  BY <1>1 DEF Created, Enqueued
<1>3. ASSUME NEW r \in Requests
      PROVE  /\ request'[r] \in RequestRecord
             /\ \/ request'[r] = request[r] /\ request[r].pc \in {"idle", "done"}
                \/ /\ request[r].status = 0
                   /\ request'[r].pc = "done" /\ request'[r].status = 502
  <2>1. request[r] \in RequestRecord /\ RequestGood(request[r], Created, Enqueued)
    BY DEF RequestsGood
  <2>2. 502 \in Codes /\ "done" \in RequestPcs /\ NoTask \in Tasks \union {NoTask}
    BY DEF Codes, RequestPcs
  <2>3. CASE request[r].pc \in {"idle", "done"}
    BY <1>1, <2>1, <2>3
  <2>4. CASE request[r].pc \notin {"idle", "done"}
    <3>1. request'[r] = [request[r] EXCEPT !.pc = "done", !.task = NoTask, !.status = 502]
      BY <1>1, <2>4
    <3>2. PICK q \in RequestRecord : q = request[r]
      BY <2>1
    <3>0. PICK code \in Codes : code = 502
      BY <2>2
    <3>3. PICK a : a = [q EXCEPT !.pc = "done", !.task = NoTask, !.status = code]
      OBVIOUS
    <3>4. a \in RequestRecord /\ a.pc = "done" /\ a.status = code
      BY <2>2, <3>3 DEF RequestRecord
    <3>5. request'[r] = a
      BY <3>0, <3>1, <3>2, <3>3
    <3> QED BY <2>1, <2>4, <3>0, <3>4, <3>5 DEF RequestGood
  <2> QED BY <2>3, <2>4
<1>4. request' \in [Requests -> RequestRecord] /\ idem' \in [Keys -> Tasks \union {NoTask}]
  <2>1. \A r \in Requests : request'[r] \in RequestRecord
    BY <1>3
  <2>2. request' = [r \in Requests |-> request'[r]]
    <3>1. PICK f : f = [r \in Requests |->
            IF request[r].pc \in {"idle", "done"} THEN request[r]
            ELSE [request[r] EXCEPT !.pc = "done", !.task = NoTask, !.status = 502]]
      OBVIOUS
    <3>2. f = [r \in Requests |-> f[r]]
      BY <3>1
    <3> QED BY <1>1, <3>1, <3>2
  <2>3. idem' \in [Keys -> Tasks \union {NoTask}]
    BY <1>1
  <2> QED BY <2>1, <2>2, <2>3
<1>5. \A r \in Requests : RequestGood(request'[r], Created', Enqueued')
  BY <1>2, <1>3 DEF RequestsGood, RequestGood
<1>6. OneHandlerPerTask'
  BY <1>3 DEF RequestsGood, OneHandlerPerTask, At
<1>7. ReplaysRepeatAnAnswer'
  <2>0. \A k \in Keys, t \in Tasks : idem'[k] # t
    BY <1>1, NoSuchNumber
  <2> SUFFICES ASSUME NEW k \in Keys, NEW t \in Tasks, NEW r \in Requests,
                      KeyOf[r] = k, request'[r].status = 200, request'[r].task = t
               PROVE  \E s \in Requests : KeyOf[s] = k /\ request'[s].status = 201
                                            /\ request'[s].task = t
    BY <2>0 DEF ReplaysRepeatAnAnswer
  <2>1. request'[r] = request[r]
    BY <1>3
  <2>2. PICK s \in Requests : KeyOf[s] = k /\ request[s].status = 201 /\ request[s].task = t
    BY <2>1 DEF RequestsGood, ReplaysRepeatAnAnswer
  <2>3. request'[s] = request[s]
    BY <1>3, <2>2
  <2> QED BY <2>2, <2>3
<1> QED BY <1>4, <1>5, <1>6, <1>7 DEF RequestsGood

(***************************************************************************)
(* The chain: one task changes at a time                                   *)
(***************************************************************************)
\* The fields of a task's record.
LEMMA ChainFields ==
  ASSUME NEW c \in ChainRecord
  PROVE  /\ c.state \in TaskStates /\ c.createdAt \in Nat /\ c.commitDeadline \in Nat
         /\ c.revealDeadline \in Nat /\ c.seal \in Seals /\ c.opened \subseteq Nodes
BY DEF ChainRecord

OthersKept(t) == \A u \in Tasks : u # t => chain'[u] = chain[u]

\* What a step of the marketplace does to one task: create it, take a commitment, close the
\* commit window or open an evaluation.
CreatesOne(t) ==
  /\ t \in Tasks \ Created /\ OthersKept(t) /\ chain'[t].state = "open"
  /\ chain'[t].seal = chain[t].seal /\ chain'[t].opened = chain[t].opened

SealsOne(n, t) ==
  /\ t \in Created /\ OthersKept(t) /\ chain[t].state = "open" /\ chain[t].seal[n] = NoRun
  /\ chain'[t].state \in {"open", "reveal"}
  /\ chain'[t].seal = [chain[t].seal EXCEPT ![n] = work[n].run]
  /\ chain'[t].opened = chain[t].opened /\ chain'[t].createdAt = chain[t].createdAt

OpensOne(n, t) ==
  /\ t \in Created /\ OthersKept(t) /\ chain[t].state = "reveal"
  /\ chain[t].seal[n] # NoRun /\ n \notin chain[t].opened
  /\ chain'[t].state = "reveal" /\ chain'[t].opened = chain[t].opened \union {n}
  /\ chain'[t].seal = chain[t].seal /\ chain'[t].createdAt = chain[t].createdAt

ClosesOne(t) ==
  /\ t \in Created /\ OthersKept(t) /\ chain[t].state = "open" /\ chain'[t].state = "reveal"
  /\ chain'[t].opened = chain[t].opened
  /\ chain'[t].seal = chain[t].seal /\ chain'[t].createdAt = chain[t].createdAt

\* One task's record changes.
LEMMA ChainUpdated ==
  ASSUME chain \in [Tasks -> ChainRecord], NEW t \in Tasks, NEW c \in ChainRecord,
         chain' = [chain EXCEPT ![t] = c]
  PROVE  chain' \in [Tasks -> ChainRecord] /\ chain'[t] = c /\ OthersKept(t)
BY DEF OthersKept

\* A record that was on the chain stays there.
LEMMA CreatedKept ==
  ASSUME NEW t \in Created, OthersKept(t), chain'[t].state # "absent"
  PROVE  Created' = Created
BY DEF Created, OthersKept

\* The new task is the next number: it was not created before.
LEMMA CreateTaskGood ==
  ASSUME ChainGood, clock \in Nat, NEW t \in Tasks, NEW span \in CommitSpans,
         createTask(t, span)
  PROVE  /\ ChainGood' /\ CreatesOne(t) /\ Created' = Created \union {t}
         /\ chain'[t].createdAt = clock
<1>1. PICK k \in 0 .. MaxTasks : Created = 1 .. k
  BY DEF ChainGood
<1>2. Cardinality(1 .. k) = k
  <2>1. k \in Int
    BY <1>1, PipelineConstants
  <2>2. Cardinality(1 .. k) = IF 1 > k THEN 0 ELSE k - 1 + 1
    BY <2>1, FS_Interval
  <2> QED BY <1>1, <2>1, <2>2, PipelineConstants
<1>3. t = k + 1 /\ t \notin Created /\ k + 1 \in 0 .. MaxTasks
  BY <1>1, <1>2, PipelineConstants DEF createTask, Tasks
<1>4. chain[t] \in ChainRecord
  BY DEF ChainGood
<1>5. PICK c0 \in ChainRecord : c0 = chain[t]
  BY <1>4
<1>6. PICK cd, rd : cd = clock + span /\ rd = clock + span + RevealSpan
  OBVIOUS
<1>7. cd \in Nat /\ rd \in Nat
  BY <1>6, PipelineConstants
<1>8. PICK c : c = [c0 EXCEPT !.state = "open", !.createdAt = clock, !.commitDeadline = cd,
                              !.revealDeadline = rd]
  OBVIOUS
<1>9. /\ c \in ChainRecord /\ c.state = "open" /\ c.createdAt = clock
      /\ c.seal = c0.seal /\ c.opened = c0.opened
  <2>1. "open" \in TaskStates
    BY DEF TaskStates
  <2> QED BY <1>7, <1>8, <2>1 DEF ChainRecord
<1>10. chain' = [chain EXCEPT ![t] = c]
  BY <1>5, <1>6, <1>8 DEF createTask, ChainGood
<1>11. chain' \in [Tasks -> ChainRecord] /\ chain'[t] = c /\ OthersKept(t)
  BY <1>9, <1>10, ChainUpdated DEF ChainGood
<1>12. CreatesOne(t)
  BY <1>3, <1>5, <1>9, <1>11 DEF CreatesOne
<1>13. Created' = Created \union {t}
  BY <1>9, <1>11 DEF Created, OthersKept
<1>14. Created' = 1 .. (k + 1)
  BY <1>1, <1>3, <1>13, PipelineConstants
<1>15. \A u \in Tasks, n \in Nodes :
         /\ n \in chain'[u].opened => chain'[u].seal[n] # NoRun
         /\ chain'[u].seal[n] # NoRun => u \in Created'
  BY <1>5, <1>9, <1>11, <1>13 DEF ChainGood, OthersKept
<1> QED BY <1>3, <1>6, <1>9, <1>11, <1>12, <1>13, <1>14, <1>15 DEF ChainGood

\* A commitment is taken once per node while the task takes any.
LEMMA SealedGood ==
  ASSUME ChainGood, NEW n \in Nodes, NEW t \in Tasks, CommitAccepted(n, t),
         chain' = Sealed(n, t), work[n].run \in Runs
  PROVE  ChainGood' /\ SealsOne(n, t) /\ Created' = Created
<1>1. /\ chain[t].state = "open" /\ chain[t].seal[n] = NoRun /\ t \in Created
      /\ chain \in [Tasks -> ChainRecord]
  BY DEF CommitAccepted, Created, ChainGood
<1>2. PICK c0 \in ChainRecord : c0 = chain[t]
  BY <1>1
<1>3. PICK seal, state :
        /\ seal = [c0.seal EXCEPT ![n] = work[n].run]
        /\ state = IF Cardinality({m \in Nodes : seal[m] # NoRun}) = MaxEvals
                   THEN "reveal" ELSE c0.state
  OBVIOUS
<1>4. seal \in Seals /\ state \in {"open", "reveal"} /\ state \in TaskStates
  BY <1>1, <1>2, <1>3, ChainFields DEF Seals, TaskStates
<1>5. PICK c : c = [c0 EXCEPT !.seal = seal, !.state = state]
  OBVIOUS
<1>6. /\ c \in ChainRecord /\ c.state = state /\ c.seal = seal /\ c.opened = c0.opened
      /\ c.createdAt = c0.createdAt
  BY <1>4, <1>5 DEF ChainRecord
<1>7. chain' = [chain EXCEPT ![t] = c]
  BY <1>1, <1>2, <1>3, <1>5 DEF Sealed
<1>8. chain' \in [Tasks -> ChainRecord] /\ chain'[t] = c /\ OthersKept(t)
  BY <1>1, <1>6, <1>7, ChainUpdated
<1>9. SealsOne(n, t)
  BY <1>1, <1>2, <1>3, <1>4, <1>6, <1>8 DEF SealsOne
<1>10. Created' = Created
  BY <1>1, <1>4, <1>6, <1>8, CreatedKept
<1>11. \A u \in Tasks, m \in Nodes :
         /\ m \in chain'[u].opened => chain'[u].seal[m] # NoRun
         /\ chain'[u].seal[m] # NoRun => u \in Created'
  <2> SUFFICES ASSUME NEW m \in Nodes, m \in c.opened PROVE seal[m] # NoRun
    BY <1>1, <1>6, <1>8, <1>10 DEF ChainGood, OthersKept
  <2>1. c0.seal[m] # NoRun
    BY <1>2, <1>6 DEF ChainGood
  <2> QED BY <1>2, <1>3, <2>1, NoSuchNumber, ChainFields DEF Seals
<1> QED BY <1>8, <1>9, <1>10, <1>11 DEF ChainGood

\* An evaluation is opened once, when the task is in its reveal window.
LEMMA OpenedGood ==
  ASSUME ChainGood, NEW n \in Nodes, NEW t \in Tasks, RevealAccepted(n, t),
         chain' = [chain EXCEPT ![t].opened = @ \union {n}]
  PROVE  ChainGood' /\ OpensOne(n, t) /\ Created' = Created
<1>1. /\ chain[t].state = "reveal" /\ chain[t].seal[n] # NoRun /\ n \notin chain[t].opened
      /\ t \in Created /\ chain \in [Tasks -> ChainRecord]
  BY DEF RevealAccepted, Created, ChainGood
<1>2. PICK c0 \in ChainRecord : c0 = chain[t]
  BY <1>1
<1>3. PICK opened : opened = c0.opened \union {n}
  OBVIOUS
<1>4. opened \in SUBSET Nodes
  BY <1>3, ChainFields
<1>5. PICK c : c = [c0 EXCEPT !.opened = opened]
  OBVIOUS
<1>6. /\ c \in ChainRecord /\ c.state = c0.state /\ c.seal = c0.seal /\ c.opened = opened
      /\ c.createdAt = c0.createdAt
  BY <1>4, <1>5 DEF ChainRecord
<1>7. chain' = [chain EXCEPT ![t] = c]
  BY <1>1, <1>2, <1>3, <1>5
<1>8. chain' \in [Tasks -> ChainRecord] /\ chain'[t] = c /\ OthersKept(t)
  BY <1>1, <1>6, <1>7, ChainUpdated
<1>9. OpensOne(n, t)
  BY <1>1, <1>2, <1>3, <1>6, <1>8 DEF OpensOne
<1>10. Created' = Created
  BY <1>1, <1>2, <1>6, <1>8, CreatedKept
<1>11. \A u \in Tasks, m \in Nodes :
         /\ m \in chain'[u].opened => chain'[u].seal[m] # NoRun
         /\ chain'[u].seal[m] # NoRun => u \in Created'
  BY <1>1, <1>2, <1>3, <1>6, <1>8, <1>10 DEF ChainGood, OthersKept
<1> QED BY <1>8, <1>9, <1>10, <1>11 DEF ChainGood

\* Somebody closes the commit window.
LEMMA OpenRevealGood ==
  ASSUME ChainGood, NEW t \in Tasks, openReveal(t)
  PROVE  ChainGood' /\ ClosesOne(t) /\ Created' = Created
<1>1. /\ chain[t].state = "open" /\ t \in Created /\ chain \in [Tasks -> ChainRecord]
      /\ chain' = [chain EXCEPT ![t].state = "reveal"]
  BY DEF openReveal, Created, ChainGood
<1>2. PICK c0 \in ChainRecord : c0 = chain[t]
  BY <1>1
<1>3. PICK c : c = [c0 EXCEPT !.state = "reveal"]
  OBVIOUS
<1>4. /\ c \in ChainRecord /\ c.state = "reveal" /\ c.seal = c0.seal /\ c.opened = c0.opened
      /\ c.createdAt = c0.createdAt
  <2>1. "reveal" \in TaskStates
    BY DEF TaskStates
  <2> QED BY <1>3, <2>1 DEF ChainRecord
<1>5. chain' = [chain EXCEPT ![t] = c]
  BY <1>1, <1>2, <1>3
<1>6. chain' \in [Tasks -> ChainRecord] /\ chain'[t] = c /\ OthersKept(t)
  BY <1>1, <1>4, <1>5, ChainUpdated
<1>7. ClosesOne(t)
  BY <1>1, <1>2, <1>4, <1>6 DEF ClosesOne
<1>8. Created' = Created
  BY <1>1, <1>4, <1>6, CreatedKept
<1>9. \A u \in Tasks, m \in Nodes :
        /\ m \in chain'[u].opened => chain'[u].seal[m] # NoRun
        /\ chain'[u].seal[m] # NoRun => u \in Created'
  BY <1>1, <1>2, <1>4, <1>6, <1>8 DEF ChainGood, OthersKept
<1> QED BY <1>6, <1>7, <1>8, <1>9 DEF ChainGood

\* A step that leaves the chain alone.
LEMMA ChainUntouched ==
  ASSUME chain' = chain
  PROVE  (ChainGood => ChainGood') /\ Created' = Created
BY DEF ChainGood, Created

(***************************************************************************)
(* The handlers that create, queue and answer                              *)
(***************************************************************************)
\* The transaction creates the task that the handler goes on with, or nobody learns of it.
LEMMA SubmitGood ==
  ASSUME RequestsGood, ChainGood, clock \in Nat, JobsAreOnTasks, NEW r \in Requests,
         submitVerificationJob(r)
  PROVE  RequestsGood'
<1>1. /\ request[r] \in RequestRecord /\ request[r].pc = "submitting"
      /\ request[r].status = 0 /\ job' = job /\ idem' = idem
  BY DEF RequestsGood, RequestGood, submitVerificationJob, At
<1>2. Enqueued' = Enqueued /\ OthersWait(r)
  BY <1>1 DEF Enqueued, OthersWait, RequestsGood, RequestGood, At
<1>3. ASSUME NEW t \in Tasks, NEW span \in CommitSpans, createTask(t, span),
             request' = [request EXCEPT ![r].pc = "queueing", ![r].task = t]
      PROVE  RequestsGood'
  <2>1. t \in Tasks \ Created /\ Created' = Created \union {t}
    BY <1>3, CreateTaskGood DEF CreatesOne
  <2>2. PICK q0 \in RequestRecord : q0 = request[r]
    BY <1>1
  <2>3. PICK q : q = [q0 EXCEPT !.pc = "queueing", !.task = t]
    OBVIOUS
  <2>4. q \in RequestRecord /\ q.pc = "queueing" /\ q.task = t /\ q.status = q0.status
    <3>1. "queueing" \in RequestPcs /\ t \in Tasks \union {NoTask}
      BY DEF RequestPcs
    <3> QED BY <2>3, <3>1 DEF RequestRecord
  <2>5. request' = [request EXCEPT ![r] = q]
    BY <1>3, <2>2, <2>3 DEF RequestsGood
  <2>6. RequestGood(q, Created', Enqueued')
    BY <1>1, <1>2, <2>1, <2>2, <2>4 DEF RequestGood, JobsAreOnTasks
  <2>7. \A s \in Requests : s # r /\ At(s, "queueing") =>
          request[s].task \notin Enqueued' /\ (q.pc = "queueing" => request[s].task # q.task)
    BY <1>2, <2>1, <2>4 DEF OthersWait, RequestsGood, RequestGood, At
  <2>8. MapRepeats(r, q) /\ idem' \in [Keys -> Tasks \union {NoTask}]
    BY <1>1, <2>2, <2>4 DEF MapRepeats, RequestsGood
  <2>9. q \in RequestRecord /\ request[r].pc # "done" /\ Created \subseteq Created'
        /\ Enqueued \subseteq Enqueued'
    BY <1>1, <1>2, <2>1, <2>4
  <2> QED BY <2>5, <2>6, <2>7, <2>8, <2>9, RequestUpdated
<1>4. ASSUME Answer(r, 500, NoTask), Created \subseteq Created' PROVE RequestsGood'
  <2>1. 500 \in Errors /\ request[r].pc # "done" /\ Enqueued \subseteq Enqueued'
    BY <1>1, <1>2 DEF Errors
  <2>2. PICK code \in Errors : code = 500
    BY <2>1
  <2>3. Answer(r, code, NoTask)
    BY <1>4, <2>2
  <2> HIDE <2>2
  <2> QED BY <1>1, <1>2, <1>4, <2>1, <2>3, ErrorAnswered
<1>5. ASSUME NEW t \in Tasks, NEW span \in CommitSpans, createTask(t, span)
      PROVE  Created \subseteq Created'
  BY <1>5, CreateTaskGood
<1>6. chain' = chain => Created \subseteq Created'
  BY ChainUntouched
<1> QED BY <1>3, <1>4, <1>5, <1>6 DEF submitVerificationJob

\* The job is queued, or it is not, and the client is told.
LEMMA QueueGood ==
  ASSUME RequestsGood, JobsGood, NEW r \in Requests, queueVerificationJob(r)
  PROVE  /\ RequestsGood' /\ JobsGood' /\ NoneSealed /\ request[r].task \in Created
         /\ Enqueued' = Enqueued \/ Enqueued' = Enqueued \union {request[r].task}
         /\ \/ job' = job
            \/ /\ job[request[r].task].state = "absent"
               /\ job'[request[r].task].state = "waiting"
               /\ \A u \in Tasks : u # request[r].task => job'[u] = job[u]
<1> DEFINE t == request[r].task
<1>1. /\ request[r] \in RequestRecord /\ request[r].pc = "queueing"
      /\ request[r].status = 0 /\ t \in Created \ Enqueued /\ t \in Tasks
      /\ chain' = chain /\ idem' = idem
  BY DEF RequestsGood, RequestGood, queueVerificationJob, At, Created
<1>2. Created' = Created
  BY <1>1 DEF Created
<1>3. PICK t0 \in Tasks : t0 = t
  BY <1>1
<1>4. ASSUME job' = [job EXCEPT ![t] = NewJob]
      PROVE  /\ JobsGood' /\ NoneSealed /\ job'[t].state = "waiting"
             /\ \A u \in Tasks : u # t => job'[u] = job[u]
  <2>1. job' = [job EXCEPT ![t0] = NewJob]
    BY <1>3, <1>4
  <2>2. JobsGood' /\ job'[t0] = NewJob /\ \A u \in Tasks : u # t0 => job'[u] = job[u]
    BY <2>1, NewJobGood, JobUpdated
  <2> QED BY <1>3, <2>2, NewJobGood DEF NoneSealed
<1>5. ASSUME job' = [job EXCEPT ![t] = NewJob] PROVE Enqueued' = Enqueued \union {t}
  BY <1>1, <1>4, <1>5 DEF Enqueued
<1>6. ASSUME job' = job PROVE JobsGood' /\ NoneSealed /\ Enqueued' = Enqueued
  BY <1>6, JobsUntouched DEF JobsStep, Enqueued
<1>7. job' = job \/ job' = [job EXCEPT ![t] = NewJob]
  BY DEF queueVerificationJob
<1>8. \A s \in Requests : s # r /\ At(s, "queueing") =>
        request[s].task \notin Enqueued \union {t}
  BY <1>1 DEF RequestsGood, RequestGood, OneHandlerPerTask, At
<1>9. Enqueued \subseteq Enqueued' /\ OthersWait(r)
  BY <1>5, <1>6, <1>7, <1>8 DEF OthersWait
<1>10. CASE Answer(r, 500, NoTask)
  <2>1. 500 \in Errors /\ request[r].pc # "done" /\ Created \subseteq Created'
    BY <1>1, <1>2 DEF Errors
  <2>2. PICK code \in Errors : code = 500
    BY <2>1
  <2>3. Answer(r, code, NoTask)
    BY <1>10, <2>2
  <2> HIDE <2>2
  <2>4. RequestsGood'
    BY <1>1, <1>9, <2>1, <2>3, ErrorAnswered
  <2> QED BY <1>1, <1>4, <1>5, <1>6, <1>7, <2>4 DEF Enqueued
<1>11. CASE job' = [job EXCEPT ![t] = NewJob] /\ request' = [request EXCEPT ![r].pc = "tracing"]
  <2>1. PICK q0 \in RequestRecord : q0 = request[r]
    BY <1>1
  <2>2. PICK q : q = [q0 EXCEPT !.pc = "tracing"]
    OBVIOUS
  <2>3. q \in RequestRecord /\ q.pc = "tracing" /\ q.task = q0.task /\ q.status = q0.status
    <3>1. "tracing" \in RequestPcs
      BY DEF RequestPcs
    <3> QED BY <2>2, <3>1 DEF RequestRecord
  <2>4. request' = [request EXCEPT ![r] = q]
    BY <1>11, <2>1, <2>2 DEF RequestsGood
  <2>5. RequestGood(q, Created', Enqueued') /\ ~Replays(q) /\ q.pc # "queueing"
    BY <1>1, <1>5, <1>11, <2>1, <2>3 DEF RequestGood, Replays
  <2>6. q \in RequestRecord /\ request[r].pc # "done" /\ Created \subseteq Created'
        /\ idem' = idem
    BY <1>1, <1>2, <2>3
  <2>7. RequestsGood'
    BY <1>9, <2>4, <2>5, <2>6, RequestMoved
  <2> QED BY <1>1, <1>4, <1>5, <1>11, <2>7 DEF Enqueued
<1> QED BY <1>10, <1>11 DEF queueVerificationJob

\* The answer names the task that was queued, and is recorded together with being given.
LEMMA AnswerGood ==
  ASSUME RequestsGood, NEW r \in Requests, answerV1(r) \/ answerLegacy(r)
  PROVE  RequestsGood'
<1>1. /\ request[r] \in RequestRecord /\ request[r].pc = "tracing"
      /\ request[r].status = 0 /\ request[r].task \in Enqueued
      /\ chain' = chain /\ job' = job
  BY DEF RequestsGood, RequestGood, answerV1, answerLegacy, At
<1>2. Created' = Created /\ Enqueued' = Enqueued /\ OthersWait(r)
  BY <1>1, NothingQueued
<1>3. CASE Answer(r, 500, NoTask) /\ idem' = idem
  <2>1. 500 \in Errors /\ request[r].pc # "done" /\ Created \subseteq Created'
        /\ Enqueued \subseteq Enqueued'
    BY <1>1, <1>2 DEF Errors
  <2>2. PICK code \in Errors : code = 500
    BY <2>1
  <2>3. Answer(r, code, NoTask)
    BY <1>3, <2>2
  <2> HIDE <2>2
  <2> QED BY <1>2, <1>3, <2>1, <2>3, ErrorAnswered
<1>4. CASE /\ Answer(r, 201, request[r].task)
           /\ \/ idem' = idem
              \/ KeyOf[r] \in Keys /\ idem' = [idem EXCEPT ![KeyOf[r]] = request[r].task]
  <2>1. PICK t \in Tasks : t = request[r].task
    BY <1>1 DEF Enqueued
  <2>2. PICK q0 \in RequestRecord : q0 = request[r]
    BY <1>1
  <2>3. PICK code \in Codes : code = 201
    BY DEF Codes
  <2>4. PICK q : q = [q0 EXCEPT !.pc = "done", !.task = t, !.status = code]
    OBVIOUS
  <2>5. q \in RequestRecord /\ q.pc = "done" /\ q.task = t /\ q.status = code
    <3>1. "done" \in RequestPcs /\ t \in Tasks \union {NoTask}
      BY DEF RequestPcs
    <3> QED BY <2>4, <3>1 DEF RequestRecord
  <2>6. request' = [request EXCEPT ![r] = q]
    BY <1>4, <2>1, <2>2, <2>3, <2>4 DEF Answer, RequestsGood
  <2>7. RequestGood(q, Created', Enqueued')
    BY <1>1, <1>2, <2>1, <2>3, <2>5 DEF RequestGood
  <2>8. \A s \in Requests : s # r /\ At(s, "queueing") =>
          request[s].task \notin Enqueued' /\ (q.pc = "queueing" => request[s].task # q.task)
    BY <1>2, <2>5 DEF OthersWait
  <2>9. MapRepeats(r, q) /\ idem' \in [Keys -> Tasks \union {NoTask}]
    BY <1>4, <2>1, <2>3, <2>5 DEF MapRepeats, RequestsGood
  <2>10. q \in RequestRecord /\ request[r].pc # "done" /\ Created \subseteq Created'
         /\ Enqueued \subseteq Enqueued'
    BY <1>1, <1>2, <2>5
  <2> QED BY <2>6, <2>7, <2>8, <2>9, <2>10, RequestUpdated
<1> QED BY <1>3, <1>4 DEF answerV1, answerLegacy

(***************************************************************************)
(* The API process, the queue and the world keep the invariant             *)
(***************************************************************************)
\* Commitments stay, and nothing is opened.
SealsKept ==
  \A t \in Tasks, n \in Nodes :
    /\ chain[t].seal[n] # NoRun => chain'[t].seal[n] = chain[t].seal[n]
    /\ n \in chain'[t].opened => n \in chain[t].opened

Counters == clock \in 0 .. MaxClock /\ faults \in 0 .. MaxFaults

FaultsCounted == faults' = faults \/ Fault

\* A fault is counted, up to the bound.
LEMMA CountersKept ==
  ASSUME Counters, clock' = clock, FaultsCounted
  PROVE  Counters'
BY PipelineConstants DEF Counters, Fault, FaultsCounted

\* What a node has to do stays good while its own record and timers stay.
LEMMA WorkKept ==
  ASSUME NEW n \in Nodes, WorkGood(n), work'[n] = work[n], timer'[n] = timer[n],
         Enqueued \subseteq Enqueued',
         \A t \in Tasks : chain[t].seal[n] # NoRun => chain'[t].seal[n] = chain[t].seal[n],
         \A t \in Tasks : n \in chain'[t].opened => n \in chain[t].opened
  PROVE  WorkGood(n)'
BY NoSuchNumber DEF WorkGood, Enqueued

\* A step of another process.
LEMMA NodesKept ==
  ASSUME NodesGood, UNCHANGED nodeVars, Enqueued \subseteq Enqueued', SealsKept
  PROVE  NodesGood'
<1>1. work' = work /\ store' = store /\ timer' = timer /\ evidence' = evidence
  BY DEF nodeVars
<1>2. ASSUME NEW n \in Nodes PROVE WorkGood(n)'
  <2>1. WorkGood(n)
    BY DEF NodesGood
  <2> QED BY <1>1, <2>1, WorkKept DEF SealsKept
<1> QED BY <1>1, <1>2 DEF NodesGood

\* Jobs and timers of others stay as they are.
LEMMA SealedKept ==
  ASSUME SealedJobsAreOnChain, NoneSealed, SealsKept,
         \A n \in Nodes, t \in Tasks : timer'[n][t] # NoTimer => timer[n][t] # NoTimer
  PROVE  SealedJobsAreOnChain'
BY NoSuchNumber DEF SealedJobsAreOnChain, NoneSealed, SealsKept

\* Nothing happens to the chain.
LEMMA SealsUntouched == chain' = chain => SealsKept
BY DEF SealsKept

\* The steps of the marketplace other than a reveal keep the commitments.
LEMMA SealsKeptByOne ==
  ASSUME NEW t \in Tasks, ChainGood,
         CreatesOne(t) \/ ClosesOne(t) \/ \E n \in Nodes : SealsOne(n, t)
  PROVE  SealsKept
<1>1. CASE CreatesOne(t) \/ ClosesOne(t)
  BY <1>1 DEF CreatesOne, ClosesOne, SealsKept, OthersKept
<1>2. ASSUME NEW n \in Nodes, SealsOne(n, t) PROVE SealsKept
  <2>1. chain[t].seal \in Seals
    BY ChainFields DEF ChainGood
  <2> QED BY <1>2, <2>1 DEF SealsOne, SealsKept, OthersKept, Seals
<1> QED BY <1>1, <1>2

\* The jobs in the queue are of tasks on the chain.
LEMMA JobsStayOnTasks ==
  ASSUME JobsAreOnTasks, Created \subseteq Created', Enqueued' = Enqueued
  PROVE  JobsAreOnTasks'
BY DEF JobsAreOnTasks

\* A free processor has nothing to do.
LEMMA FreeGood == Free \in WorkRecord /\ Free.pc = "free"
<1>1. "free" \in WorkPcs /\ NoTask \in Tasks \union {NoTask} /\ NoRun \in Runs \union {NoRun}
  BY DEF WorkPcs
<1> QED BY <1>1 DEF Free, WorkRecord

-----------------------------------------------------------------------------
\* A step of a handler that leaves the queue and the chain alone.
LEMMA ApiQuiet ==
  ASSUME PipelineInv, RequestsGood', clock' = clock, FaultsCounted,
         chain' = chain, job' = job, UNCHANGED nodeVars
  PROVE  PipelineInv'
<1>1. Created' = Created /\ Enqueued' = Enqueued /\ ChainGood' /\ SealsKept
  BY ChainUntouched, SealsUntouched DEF Enqueued, PipelineInv
<1>2. JobsGood' /\ NoneSealed
  BY JobsUntouched DEF PipelineInv, JobsStep
<1>3. NodesGood' /\ JobsAreOnTasks'
  BY <1>1, NodesKept, JobsStayOnTasks DEF PipelineInv
<1>4. timer' = timer
  BY DEF nodeVars
<1>5. SealedJobsAreOnChain'
  BY <1>1, <1>2, <1>4, SealedKept DEF PipelineInv
<1>6. Counters'
  BY CountersKept DEF Counters, PipelineInv
<1> QED BY <1>1, <1>2, <1>3, <1>5, <1>6 DEF PipelineInv, Counters

\* A step of the queue.
LEMMA QueueQuiet ==
  ASSUME PipelineInv, JobsStep, NoneSealed, clock' = clock, FaultsCounted,
         UNCHANGED apiVars, chain' = chain, UNCHANGED nodeVars
  PROVE  PipelineInv'
<1>1. Created' = Created /\ Enqueued' = Enqueued /\ ChainGood' /\ SealsKept
  BY ChainUntouched, SealsUntouched, EnqueuedKept DEF PipelineInv, JobsStep
<1>2. NodesGood' /\ JobsAreOnTasks'
  BY <1>1, NodesKept, JobsStayOnTasks DEF PipelineInv
<1>3. timer' = timer
  BY DEF nodeVars
<1>4. SealedJobsAreOnChain'
  BY <1>1, <1>3, SealedKept DEF PipelineInv
<1>5. Counters'
  BY CountersKept DEF Counters, PipelineInv
<1>6. RequestsGood'
  BY <1>1, RequestsKept DEF PipelineInv
<1> QED BY <1>1, <1>2, <1>4, <1>5, <1>6 DEF PipelineInv, Counters, JobsStep

\* The handlers of the API keep the invariant.
LEMMA ApiKeeps ==
  ASSUME PipelineInv, NEW r \in Requests,
         postV1Verify(r) \/ postVerify(r) \/ answerV1(r) \/ answerLegacy(r)
  PROVE  PipelineInv'
<1>1. RequestsGood'
  BY PostV1Good, PostGood, AnswerGood DEF PipelineInv
<1>2. /\ clock' = clock /\ FaultsCounted
      /\ chain' = chain /\ job' = job /\ UNCHANGED nodeVars
  BY DEF postV1Verify, postVerify, answerV1, answerLegacy, FaultsCounted
<1> QED BY <1>1, <1>2, ApiQuiet

\* So does the end of the process.
LEMMA CrashKeeps ==
  ASSUME PipelineInv, ApiCrash
  PROVE  PipelineInv'
<1>1. RequestsGood'
  BY ApiCrashGood DEF PipelineInv
<1>2. /\ clock' = clock /\ FaultsCounted
      /\ chain' = chain /\ job' = job /\ UNCHANGED nodeVars
  BY DEF ApiCrash, FaultsCounted
<1> QED BY <1>1, <1>2, ApiQuiet

\* So does the transaction that creates a task.
LEMMA SubmitKeeps ==
  ASSUME PipelineInv, NEW r \in Requests, submitVerificationJob(r)
  PROVE  PipelineInv'
<1>1. /\ clock' = clock /\ FaultsCounted /\ job' = job /\ UNCHANGED nodeVars
      /\ clock \in Nat
  BY PipelineConstants DEF submitVerificationJob, FaultsCounted, PipelineInv
<1>2. RequestsGood'
  BY <1>1, SubmitGood DEF PipelineInv
<1>3. ChainGood' /\ Created \subseteq Created' /\ SealsKept
  <2>1. CASE chain' = chain
    BY <2>1, ChainUntouched, SealsUntouched DEF PipelineInv
  <2>2. ASSUME NEW t \in Tasks, NEW span \in CommitSpans, createTask(t, span)
        PROVE  ChainGood' /\ Created \subseteq Created' /\ SealsKept
    <3>1. ChainGood' /\ CreatesOne(t) /\ Created' = Created \union {t}
      BY <1>1, <2>2, CreateTaskGood DEF PipelineInv
    <3> QED BY <3>1, SealsKeptByOne DEF PipelineInv
  <2> QED BY <2>1, <2>2 DEF submitVerificationJob
<1>4. Enqueued' = Enqueued /\ JobsGood' /\ NoneSealed
  BY <1>1, JobsUntouched DEF PipelineInv, JobsStep, Enqueued
<1>5. NodesGood' /\ JobsAreOnTasks' /\ timer' = timer
  BY <1>1, <1>3, <1>4, NodesKept, JobsStayOnTasks DEF PipelineInv, nodeVars
<1>6. SealedJobsAreOnChain'
  BY <1>3, <1>4, <1>5, SealedKept DEF PipelineInv
<1>7. Counters'
  BY <1>1, CountersKept DEF Counters, PipelineInv
<1> QED BY <1>2, <1>3, <1>4, <1>5, <1>6, <1>7 DEF PipelineInv, Counters

\* So does queueing the job.
LEMMA QueueKeeps ==
  ASSUME PipelineInv, NEW r \in Requests, queueVerificationJob(r)
  PROVE  PipelineInv'
<1>1. /\ clock' = clock /\ FaultsCounted /\ chain' = chain /\ UNCHANGED nodeVars
  BY DEF queueVerificationJob, FaultsCounted
<1>2. /\ RequestsGood' /\ JobsGood' /\ NoneSealed /\ request[r].task \in Created
      /\ Enqueued' = Enqueued \/ Enqueued' = Enqueued \union {request[r].task}
  BY QueueGood DEF PipelineInv
<1>3. Created' = Created /\ ChainGood' /\ SealsKept
  BY <1>1, ChainUntouched, SealsUntouched DEF PipelineInv
<1>4. NodesGood' /\ JobsAreOnTasks' /\ timer' = timer
  BY <1>1, <1>2, <1>3, NodesKept DEF PipelineInv, nodeVars, JobsAreOnTasks
<1>5. SealedJobsAreOnChain'
  BY <1>2, <1>3, <1>4, SealedKept DEF PipelineInv
<1>6. Counters'
  BY <1>1, CountersKept DEF Counters, PipelineInv
<1> QED BY <1>2, <1>3, <1>4, <1>5, <1>6 DEF PipelineInv, Counters

\* So do the timers of the queue and the API's own worker.
LEMMA QueueStepKeeps ==
  ASSUME PipelineInv, NEW t \in Tasks, QueueStep(t) \/ apiProcess(t)
  PROVE  PipelineInv'
<1>1. JobsStep /\ NoneSealed
  <2>1. JobsGood
    BY DEF PipelineInv
  <2>2. BackoffEnds(t) \/ Stall(t) \/ apiProcess(t)
    BY DEF QueueStep, StallFound, BusyTooLong
  <2> QED BY <2>1, <2>2, BackoffGood, StallGood, ApiProcessGood
<1>2. /\ clock' = clock /\ FaultsCounted
      /\ UNCHANGED apiVars /\ chain' = chain /\ UNCHANGED nodeVars
  BY DEF QueueStep, BackoffEnds, StallFound, BusyTooLong, Stall, apiProcess, FaultsCounted
<1> QED BY <1>1, <1>2, QueueQuiet

\* So do the end of a commit window and a tick of the clock.
LEMMA WorldKeeps ==
  ASSUME PipelineInv, Tick \/ \E t \in Tasks : openReveal(t)
  PROVE  PipelineInv'
<1>1. UNCHANGED apiVars /\ job' = job /\ UNCHANGED nodeVars /\ faults' = faults
  BY DEF Tick, openReveal
<1>2. Counters'
  BY <1>1, PipelineConstants DEF Tick, openReveal, Counters, PipelineInv
<1>3. Created' = Created /\ ChainGood' /\ SealsKept
  <2>1. CASE Tick
    BY <2>1, ChainUntouched, SealsUntouched DEF PipelineInv, Tick
  <2>2. ASSUME NEW t \in Tasks, openReveal(t) PROVE Created' = Created /\ ChainGood' /\ SealsKept
    BY <2>2, OpenRevealGood, SealsKeptByOne DEF PipelineInv
  <2> QED BY <2>1, <2>2
<1>4. Enqueued' = Enqueued /\ JobsGood' /\ NoneSealed
  BY <1>1, JobsUntouched DEF PipelineInv, JobsStep, Enqueued
<1>5. NodesGood' /\ JobsAreOnTasks' /\ timer' = timer
  BY <1>1, <1>3, <1>4, NodesKept, JobsStayOnTasks DEF PipelineInv, nodeVars
<1>6. SealedJobsAreOnChain'
  BY <1>3, <1>4, <1>5, SealedKept DEF PipelineInv
<1>7. RequestsGood'
  BY <1>1, <1>3, <1>4, RequestsKept DEF PipelineInv
<1> QED BY <1>2, <1>3, <1>4, <1>5, <1>6, <1>7 DEF PipelineInv, Counters

(***************************************************************************)
(* A node: taking a job, a crash, the retention job                        *)
(***************************************************************************)
Stores == [Nodes -> [Tasks -> Runs \union {NoRun}]]

Timers == [Nodes -> [Tasks -> Nat \union {NoTimer}]]

Archives == [Nodes -> SUBSET Files]

\* What a node's step has to keep.
NodeFrame(n) ==
  /\ UNCHANGED apiVars /\ Counters'
  /\ Created' = Created /\ JobsStep /\ ChainGood'
  /\ work' \in [Nodes -> WorkRecord] /\ store' \in Stores /\ timer' \in Timers
  /\ evidence' \in Archives
  /\ \A m \in Nodes \ {n} : work'[m] = work[m] /\ timer'[m] = timer[m]
  /\ \A m \in Nodes \ {n}, t \in Tasks :
       /\ chain[t].seal[m] # NoRun => chain'[t].seal[m] = chain[t].seal[m]
       /\ m \in chain'[t].opened => m \in chain[t].opened

\* With its own work good and the timers answered for, the invariant holds.
LEMMA NodeMoves ==
  ASSUME PipelineInv, NEW n \in Nodes, NodeFrame(n), WorkGood(n)', SealedJobsAreOnChain'
  PROVE  PipelineInv'
<1>1. Enqueued' = Enqueued
  BY EnqueuedKept DEF NodeFrame, JobsStep
<1>2. RequestsGood' /\ JobsAreOnTasks'
  BY <1>1, RequestsKept, JobsStayOnTasks DEF NodeFrame, PipelineInv
<1>3. ASSUME NEW m \in Nodes PROVE WorkGood(m)'
  <2>1. CASE m = n
    BY <2>1
  <2>2. CASE m # n
    <3>1. WorkGood(m)
      BY DEF PipelineInv, NodesGood
    <3> QED BY <1>1, <2>2, <3>1, WorkKept DEF NodeFrame
  <2> QED BY <2>1, <2>2
<1>4. NodesGood'
  BY <1>3 DEF NodesGood, NodeFrame, Stores, Timers, Archives
<1> QED
  BY <1>2, <1>4 DEF PipelineInv, NodeFrame, Counters, JobsStep

\* The types of the node's variables, and of what it works on.
LEMMA NodeTyped ==
  ASSUME PipelineInv
  PROVE  /\ work \in [Nodes -> WorkRecord] /\ store \in Stores /\ timer \in Timers
         /\ evidence \in Archives /\ JobsGood /\ ChainGood /\ SealedJobsAreOnChain
         /\ \A n \in Nodes : work[n].pc # "free" =>
              work[n].task \in Tasks /\ work[n].run \in Runs /\ work[n].task \in Enqueued
BY DEF PipelineInv, NodesGood, Stores, Timers, Archives, WorkGood, Enqueued

\* The fields of a processor's record.
LEMMA WorkFields ==
  ASSUME NEW w \in WorkRecord, NEW step \in WorkPcs
  PROVE  /\ [w EXCEPT !.pc = step] \in WorkRecord /\ [w EXCEPT !.pc = step].pc = step
         /\ [w EXCEPT !.pc = step].task = w.task /\ [w EXCEPT !.pc = step].run = w.run
BY DEF WorkRecord

\* A node that is done with its job, and has not touched the chain or its timers.
LEMMA FreeMoves ==
  ASSUME PipelineInv, NEW n \in Nodes, work' = [work EXCEPT ![n] = Free],
         JobsStep, NoneSealed, UNCHANGED apiVars, Counters', chain' = chain,
         store' \in Stores, evidence' \in Archives, timer' \in Timers,
         \A m \in Nodes, t \in Tasks : timer'[m][t] = timer[m][t] \/ timer'[m][t] = NoTimer,
         \A m \in Nodes \ {n} : timer'[m] = timer[m]
  PROVE  PipelineInv'
<1>1. Created' = Created /\ ChainGood' /\ SealsKept
  BY ChainUntouched, SealsUntouched DEF PipelineInv
<1>2. work' \in [Nodes -> WorkRecord] /\ work'[n].pc = "free"
      /\ \A m \in Nodes \ {n} : work'[m] = work[m]
  BY FreeGood, NodeTyped
<1>3. WorkGood(n)'
  BY <1>2 DEF WorkGood
<1>4. NodeFrame(n)
  BY <1>1, <1>2 DEF NodeFrame, SealsKept
<1>5. SealedJobsAreOnChain'
  BY <1>1, SealedKept, NodeTyped
<1> QED BY <1>3, <1>4, <1>5, NodeMoves

\* A node takes a job: its run is counted.
LEMMA TakeJobKeeps ==
  ASSUME PipelineInv, NEW n \in Nodes, NEW t \in Tasks, takeJob(n, t)
  PROVE  PipelineInv'
<1>1. /\ UNCHANGED apiVars /\ clock' = clock /\ faults' = faults /\ chain' = chain
      /\ store' = store /\ timer' = timer /\ evidence' = evidence
      /\ job[t].state = "waiting"
      /\ work' = [work EXCEPT ![n] = [pc |-> "evaluating", task |-> t, run |-> job[t].runs + 1]]
  BY DEF takeJob
<1>2. JobsStep /\ NoneSealed /\ job[t].runs + 1 \in Runs
  BY <1>1, TakeJobGood, TakenGood, NodeTyped
<1>3. PICK k \in Runs : k = job[t].runs + 1
  BY <1>2
<1>4. PICK w : w = [pc |-> "evaluating", task |-> t, run |-> k]
  OBVIOUS
<1>5. w \in WorkRecord /\ w.pc = "evaluating" /\ w.task = t /\ w.run = k
  <2>1. "evaluating" \in WorkPcs /\ t \in Tasks \union {NoTask} /\ k \in Runs \union {NoRun}
    BY DEF WorkPcs
  <2> QED BY <1>4, <2>1 DEF WorkRecord
<1>6. work' = [work EXCEPT ![n] = w]
  BY <1>1, <1>3, <1>4
<1>7. work' \in [Nodes -> WorkRecord] /\ work'[n] = w /\ \A m \in Nodes \ {n} : work'[m] = work[m]
  BY <1>5, <1>6, NodeTyped
<1>8. t \in Enqueued /\ Enqueued' = Enqueued
  BY <1>1, <1>2, EnqueuedKept DEF Enqueued, JobsStep
<1>9. WorkGood(n)'
  BY <1>5, <1>7, <1>8 DEF WorkGood
<1>10. Created' = Created /\ ChainGood' /\ SealsKept /\ Counters'
  <2>1. Counters'
    BY <1>1 DEF PipelineInv, Counters
  <2> QED BY <1>1, <2>1, ChainUntouched, SealsUntouched DEF PipelineInv
<1>11. NodeFrame(n)
  BY <1>1, <1>2, <1>7, <1>10, NodeTyped DEF NodeFrame, SealsKept
<1>12. SealedJobsAreOnChain'
  BY <1>1, <1>2, <1>10, SealedKept, NodeTyped
<1> QED BY <1>9, <1>11, <1>12, NodeMoves

\* A crash loses the work, the salts and the timers of the node.
LEMMA NodeCrashKeeps ==
  ASSUME PipelineInv, NEW n \in Nodes, NodeCrash(n)
  PROVE  PipelineInv'
<1>1. /\ UNCHANGED apiVars /\ clock' = clock /\ Fault /\ chain' = chain /\ job' = job
      /\ evidence' = evidence /\ work' = [work EXCEPT ![n] = Free]
      /\ store' = [store EXCEPT ![n] = [t \in Tasks |-> NoRun]]
      /\ timer' = [timer EXCEPT ![n] = [t \in Tasks |-> NoTimer]]
  BY DEF NodeCrash
<1>2. store' \in Stores /\ timer' \in Timers /\ evidence' \in Archives
  BY <1>1, NodeTyped DEF Stores, Timers
<1>3. \A m \in Nodes \ {n} : timer'[m] = timer[m]
  BY <1>1, NodeTyped DEF Timers
<1>4. \A m \in Nodes, t \in Tasks : timer'[m][t] = timer[m][t] \/ timer'[m][t] = NoTimer
  BY <1>1, NodeTyped DEF Timers
<1>5. JobsStep /\ NoneSealed
  BY <1>1, JobsUntouched, NodeTyped
<1>6. Counters'
  BY <1>1, CountersKept DEF Counters, PipelineInv, FaultsCounted
<1> QED BY <1>1, <1>2, <1>3, <1>4, <1>5, <1>6, FreeMoves

\* Retention only removes files.
LEMMA PurgeKeeps ==
  ASSUME PipelineInv, NEW n \in Nodes, purgeEncryptedEvidence(n)
  PROVE  PipelineInv'
<1>1. /\ UNCHANGED apiVars /\ clock' = clock /\ faults' = faults /\ chain' = chain /\ job' = job
      /\ work' = work /\ store' = store /\ timer' = timer
      /\ evidence' = [evidence EXCEPT ![n] = {f \in @ : clock - f[3] <= Retention}]
  BY DEF purgeEncryptedEvidence
<1>2. evidence' \in Archives
  BY <1>1, NodeTyped DEF Archives
<1>3. Created' = Created /\ ChainGood' /\ SealsKept /\ Counters'
  <2>1. Counters'
    BY <1>1 DEF PipelineInv, Counters
  <2> QED BY <1>1, <2>1, ChainUntouched, SealsUntouched DEF PipelineInv
<1>4. JobsStep /\ NoneSealed
  BY <1>1, JobsUntouched, NodeTyped
<1>5. NodeFrame(n)
  BY <1>1, <1>2, <1>3, <1>4, NodeTyped DEF NodeFrame, SealsKept
<1>6. Enqueued' = Enqueued
  BY <1>1 DEF Enqueued
<1>7. WorkGood(n)'
  <2>1. WorkGood(n)
    BY DEF PipelineInv, NodesGood
  <2> QED BY <1>1, <1>3, <1>6, <2>1, WorkKept DEF SealsKept
<1>8. SealedJobsAreOnChain'
  BY <1>1, <1>3, <1>4, SealedKept, NodeTyped
<1> QED BY <1>5, <1>7, <1>8, NodeMoves

(***************************************************************************)
(* A node: evaluating, committing, revealing; the theorems                 *)
(***************************************************************************)
\* The file of a run is one of the files there can be.
LEMMA EvidenceFileTyped ==
  ASSUME PipelineInv, NEW n \in Nodes, work[n].pc # "free"
  PROVE  EvidenceFile(n) \subseteq Files
BY NodeTyped DEF EvidenceFile, Files, PipelineInv

\* A node's archive grows by what it stores.
LEMMA ArchiveGrows ==
  ASSUME PipelineInv, NEW n \in Nodes, NEW kept, kept \subseteq Files,
         evidence' = [evidence EXCEPT ![n] = @ \union kept]
  PROVE  evidence' \in Archives
BY NodeTyped DEF Archives

\* A handler that ends before the commitment leaves nothing on the chain.
LEMMA StopKeeps ==
  ASSUME PipelineInv, NEW n \in Nodes, NEW outcome, NEW kept, kept \subseteq Files,
         work[n].pc # "free", Stop(n, outcome, kept), timer' = timer,
         UNCHANGED apiVars, chain' = chain, Counters'
  PROVE  PipelineInv'
<1>1. PICK t \in Tasks : t = work[n].task
  BY NodeTyped
<1>2. JobsStep /\ NoneSealed
  <2>1. JobsGood
    BY NodeTyped
  <2>2. CASE job' = FailedBy(n, t)
    BY <2>1, <2>2, FailedByGood
  <2>3. CASE job' = CompletedAs(n, t, "skipped")
    <3>1. PICK res \in {"skipped", "sealed"} : res = "skipped"
      OBVIOUS
    <3>2. job' = CompletedAs(n, t, res)
      BY <2>3, <3>1
    <3> QED BY <2>1, <3>1, <3>2, CompletedAsGood DEF NoneSealed
  <2> QED BY <1>1, <2>2, <2>3 DEF Stop
<1>3. /\ work' = [work EXCEPT ![n] = Free] /\ store' = store
      /\ evidence' = [evidence EXCEPT ![n] = @ \union kept]
  BY DEF Stop
<1>4. evidence' \in Archives /\ store' \in Stores /\ timer' \in Timers
  BY <1>3, ArchiveGrows, NodeTyped
<1>5. \A m \in Nodes, u \in Tasks : timer'[m][u] = timer[m][u] \/ timer'[m][u] = NoTimer
  OBVIOUS
<1> QED BY <1>2, <1>3, <1>4, <1>5, FreeMoves

\* Evaluating ends the handler, or leaves the node with a salt to commit with.
LEMMA EvaluateKeeps ==
  ASSUME PipelineInv, NEW n \in Nodes, evaluate(n)
  PROVE  PipelineInv'
<1>1. /\ UNCHANGED apiVars /\ clock' = clock /\ faults' = faults /\ chain' = chain
      /\ timer' = timer /\ work[n].pc = "evaluating"
  BY DEF evaluate
<1>2. Counters'
  BY <1>1 DEF PipelineInv, Counters
<1>3. {} \subseteq Files /\ EvidenceFile(n) \subseteq Files
  BY <1>1, EvidenceFileTyped
<1>4. CASE \E o \in {"throw", "return"} : Stop(n, o, {}) \/ Stop(n, o, EvidenceFile(n))
  BY <1>1, <1>2, <1>3, <1>4, StopKeeps
<1>5. CASE /\ prepareCommit(n) /\ job' = job
           /\ evidence' = [evidence EXCEPT ![n] = @ \union EvidenceFile(n)]
  <2>1. /\ work' = [work EXCEPT ![n].pc = "sealing"]
        /\ store' = [store EXCEPT ![n][work[n].task] = work[n].run]
    BY <1>5 DEF prepareCommit
  <2>2. PICK w0 \in WorkRecord : w0 = work[n]
    BY NodeTyped
  <2>3. PICK w : w = [w0 EXCEPT !.pc = "sealing"]
    OBVIOUS
  <2>4. w \in WorkRecord /\ w.pc = "sealing" /\ w.task = w0.task /\ w.run = w0.run
    <3>1. "sealing" \in WorkPcs
      BY DEF WorkPcs
    <3> QED BY <2>3, <3>1, WorkFields
  <2>5. work' = [work EXCEPT ![n] = w]
    BY <2>1, <2>2, <2>3, NodeTyped
  <2>6. work' \in [Nodes -> WorkRecord] /\ work'[n] = w
        /\ \A m \in Nodes \ {n} : work'[m] = work[m]
    BY <2>4, <2>5, NodeTyped
  <2>7. work[n].task \in Tasks /\ work[n].run \in Runs /\ work[n].task \in Enqueued
    BY <1>1, NodeTyped
  <2>8. store' \in Stores
    BY <2>1, <2>7, NodeTyped DEF Stores
  <2>9. evidence' \in Archives /\ timer' \in Timers
    BY <1>1, <1>3, <1>5, ArchiveGrows, NodeTyped
  <2>10. JobsStep /\ NoneSealed /\ Enqueued' = Enqueued
    BY <1>5, JobsUntouched, NodeTyped DEF Enqueued
  <2>11. WorkGood(n)'
    BY <2>2, <2>4, <2>6, <2>7, <2>10 DEF WorkGood
  <2>12. Created' = Created /\ ChainGood' /\ SealsKept
    BY <1>1, ChainUntouched, SealsUntouched DEF PipelineInv
  <2>13. NodeFrame(n)
    BY <1>1, <1>2, <2>6, <2>8, <2>9, <2>10, <2>12 DEF NodeFrame, SealsKept
  <2>14. SealedJobsAreOnChain'
    BY <1>1, <2>10, <2>12, SealedKept, NodeTyped
  <2> QED BY <2>11, <2>13, <2>14, NodeMoves
<1> QED BY <1>4, <1>5 DEF evaluate, QueryStage, BundleStage, ProgramStage

\* The commitment is mined, for the first time, or the handler throws.
LEMMA CommitKeeps ==
  ASSUME PipelineInv, NEW n \in Nodes, commitEvaluation(n)
  PROVE  PipelineInv'
<1>1. /\ UNCHANGED apiVars /\ clock' = clock /\ FaultsCounted
      /\ store' = store /\ timer' = timer /\ evidence' = evidence /\ work[n].pc = "sealing"
  BY DEF commitEvaluation, FaultsCounted
<1>2. Counters'
  BY <1>1, CountersKept DEF PipelineInv, Counters
<1>3. PICK t \in Tasks : t = work[n].task
  BY <1>1, NodeTyped
<1>4. work[n].run \in Runs /\ t \in Enqueued
  BY <1>1, <1>3, NodeTyped
<1>5. CASE /\ job' = FailedBy(n, work[n].task) /\ work' = [work EXCEPT ![n] = Free]
           /\ chain' = chain
  <2>1. JobsStep /\ NoneSealed
    BY <1>3, <1>5, FailedByGood, NodeTyped
  <2>2. store' \in Stores /\ timer' \in Timers /\ evidence' \in Archives
    BY <1>1, NodeTyped
  <2> QED BY <1>1, <1>2, <1>5, <2>1, <2>2, FreeMoves
<1>6. CASE /\ CommitAccepted(n, work[n].task) /\ chain' = Sealed(n, work[n].task)
           /\ work' = [work EXCEPT ![n].pc = "confirming"] /\ job' = job
  <2>1. CommitAccepted(n, t) /\ chain' = Sealed(n, t)
    BY <1>3, <1>6
  <2>2. ChainGood' /\ SealsOne(n, t) /\ Created' = Created
    BY <1>4, <2>1, SealedGood DEF PipelineInv
  <2>3. PICK w0 \in WorkRecord : w0 = work[n]
    BY NodeTyped
  <2>4. PICK w : w = [w0 EXCEPT !.pc = "confirming"]
    OBVIOUS
  <2>5. w \in WorkRecord /\ w.pc = "confirming" /\ w.task = w0.task /\ w.run = w0.run
    <3>1. "confirming" \in WorkPcs
      BY DEF WorkPcs
    <3> QED BY <2>4, <3>1, WorkFields
  <2>6. work' = [work EXCEPT ![n] = w]
    BY <1>6, <2>3, <2>4, NodeTyped
  <2>7. work' \in [Nodes -> WorkRecord] /\ work'[n] = w
        /\ \A m \in Nodes \ {n} : work'[m] = work[m]
    BY <2>5, <2>6, NodeTyped
  <2>8. JobsStep /\ NoneSealed /\ Enqueued' = Enqueued
    BY <1>6, JobsUntouched, NodeTyped DEF Enqueued
  <2>9. SealsKept
    BY <2>2, SealsKeptByOne DEF PipelineInv
  <2>10. timer[n][t] = NoTimer /\ n \notin chain[t].opened
    BY <2>2 DEF SealsOne, PipelineInv, SealedJobsAreOnChain, ChainGood
  <2>11. chain'[t].seal[n] = work[n].run /\ chain'[t].opened = chain[t].opened
    <3>1. chain[t].seal \in Seals
      BY ChainFields, NodeTyped DEF ChainGood
    <3> QED BY <2>2, <3>1 DEF SealsOne, Seals
  <2>12. WorkGood(n)'
    BY <1>1, <1>3, <1>4, <2>3, <2>5, <2>7, <2>8, <2>10, <2>11 DEF WorkGood
  <2>13. NodeFrame(n)
    BY <1>1, <1>2, <2>2, <2>7, <2>8, <2>9, NodeTyped DEF NodeFrame, SealsKept
  <2>14. SealedJobsAreOnChain'
    BY <1>1, <2>8, <2>9, SealedKept, NodeTyped
  <2> QED BY <2>12, <2>13, <2>14, NodeMoves
<1> QED BY <1>5, <1>6 DEF commitEvaluation

\* A reveal is scheduled for a commitment that is confirmed.
LEMMA ScheduleKeeps ==
  ASSUME PipelineInv, NEW n \in Nodes, scheduleReveal(n)
  PROVE  PipelineInv'
<1>1. /\ UNCHANGED apiVars /\ clock' = clock /\ FaultsCounted /\ chain' = chain
      /\ store' = store /\ evidence' = evidence /\ work[n].pc = "confirming"
      /\ work' = [work EXCEPT ![n] = Free]
  BY DEF scheduleReveal, FaultsCounted
<1>2. Counters'
  BY <1>1, CountersKept DEF PipelineInv, Counters
<1>3. PICK t \in Tasks : t = work[n].task
  BY <1>1, NodeTyped
<1>4. store' \in Stores /\ evidence' \in Archives
  BY <1>1, NodeTyped
<1>5. CASE job' = FailedBy(n, work[n].task) /\ timer' = timer
  <2>1. JobsStep /\ NoneSealed
    BY <1>3, <1>5, FailedByGood, NodeTyped
  <2>2. timer' \in Timers
    BY <1>5, NodeTyped
  <2> QED BY <1>1, <1>2, <1>4, <1>5, <2>1, <2>2, FreeMoves
<1>6. CASE /\ job' = CompletedAs(n, work[n].task, "sealed")
           /\ timer' = [timer EXCEPT ![n][work[n].task] = clock + RevealDelay]
  <2>1. PICK res \in {"skipped", "sealed"} : res = "sealed"
    OBVIOUS
  <2>2. job' = CompletedAs(n, t, res)
    BY <1>3, <1>6, <2>1
  <2>3. /\ JobsStep
        /\ \A u \in Tasks : u # t /\ job'[u].result = "sealed" => job[u].result = "sealed"
    BY <2>2, CompletedAsGood, NodeTyped
  <2>4. PICK due \in Nat : due = clock + RevealDelay
    BY PipelineConstants DEF PipelineInv
  <2>5. timer' = [timer EXCEPT ![n][t] = due]
    BY <1>3, <1>6, <2>4
  <2>6. /\ timer' \in Timers /\ \A m \in Nodes \ {n} : timer'[m] = timer[m]
        /\ \A u \in Tasks : u # t => timer'[n][u] = timer[n][u]
    BY <2>5, NodeTyped DEF Timers
  <2>7. chain[t].seal[n] # NoRun /\ n \notin chain[t].opened
    <3>1. WorkGood(n)
      BY DEF PipelineInv, NodesGood
    <3> QED BY <1>1, <1>3, <3>1, NoSuchNumber DEF WorkGood
  <2>8. work' \in [Nodes -> WorkRecord] /\ work'[n].pc = "free"
        /\ \A m \in Nodes \ {n} : work'[m] = work[m]
    BY <1>1, FreeGood, NodeTyped
  <2>9. WorkGood(n)'
    BY <2>8 DEF WorkGood
  <2>10. Created' = Created /\ ChainGood' /\ SealsKept
    BY <1>1, ChainUntouched, SealsUntouched DEF PipelineInv
  <2>11. NodeFrame(n)
    BY <1>1, <1>2, <1>4, <2>3, <2>6, <2>8, <2>10 DEF NodeFrame, SealsKept
  <2>12. SealedJobsAreOnChain'
    <3>1. \A u \in Tasks : job'[u].result = "sealed" => \E m \in Nodes : chain[u].seal[m] # NoRun
      BY <2>3, <2>7, NodeTyped DEF SealedJobsAreOnChain
    <3>2. \A m \in Nodes, u \in Tasks : timer'[m][u] # NoTimer =>
            chain[u].seal[m] # NoRun /\ m \notin chain[u].opened
      BY <2>6, <2>7, NodeTyped DEF SealedJobsAreOnChain
    <3> QED BY <1>1, <3>1, <3>2 DEF SealedJobsAreOnChain
  <2> QED BY <2>9, <2>11, <2>12, NodeMoves
<1> QED BY <1>5, <1>6 DEF scheduleReveal

\* The timer fires and is gone, whether the reveal is accepted or not.
LEMMA RevealKeeps ==
  ASSUME PipelineInv, NEW n \in Nodes, NEW t \in Tasks, revealEvaluationForJob(n, t)
  PROVE  PipelineInv'
<1>1. /\ UNCHANGED apiVars /\ clock' = clock /\ FaultsCounted /\ job' = job
      /\ work' = work /\ evidence' = evidence /\ timer[n][t] # NoTimer
      /\ timer' = [timer EXCEPT ![n][t] = NoTimer]
  BY DEF revealEvaluationForJob, FaultsCounted
<1>2. Counters'
  BY <1>1, CountersKept DEF PipelineInv, Counters
<1>3. /\ timer' \in Timers /\ timer'[n][t] = NoTimer
      /\ \A m \in Nodes \ {n} : timer'[m] = timer[m]
      /\ \A u \in Tasks : u # t => timer'[n][u] = timer[n][u]
  BY <1>1, NodeTyped DEF Timers
<1>4. store' \in Stores
  <2>1. store' = store \/ store' = [store EXCEPT ![n][t] = NoRun]
    BY DEF revealEvaluationForJob
  <2> QED BY <2>1, NodeTyped DEF Stores
<1>5. /\ ChainGood' /\ Created' = Created
      /\ chain' = chain \/ OpensOne(n, t)
  <2>1. CASE chain' = chain
    BY <2>1, ChainUntouched DEF PipelineInv
  <2>2. CASE RevealAccepted(n, t) /\ chain' = [chain EXCEPT ![t].opened = @ \union {n}]
    BY <2>2, OpenedGood DEF PipelineInv
  <2> QED BY <2>1, <2>2 DEF revealEvaluationForJob
<1>6. \A u \in Tasks, m \in Nodes :
        /\ chain'[u].seal = chain[u].seal
        /\ m \in chain'[u].opened => m \in chain[u].opened \/ (m = n /\ u = t)
  BY <1>5 DEF OpensOne, OthersKept
<1>7. JobsStep /\ NoneSealed /\ Enqueued' = Enqueued
  BY <1>1, JobsUntouched, NodeTyped DEF Enqueued
<1>8. WorkGood(n)'
  <2>1. WorkGood(n)
    BY DEF PipelineInv, NodesGood
  <2>2. work[n].pc = "confirming" => work[n].task # t /\ work[n].task \in Tasks
    BY <1>1, <2>1 DEF WorkGood, Enqueued
  <2> QED BY <1>1, <1>3, <1>6, <1>7, <2>1, <2>2 DEF WorkGood
<1>9. NodeFrame(n)
  BY <1>1, <1>2, <1>3, <1>4, <1>5, <1>6, <1>7, NodeTyped DEF NodeFrame
<1>10. SealedJobsAreOnChain'
  <2>1. \A u \in Tasks : job'[u].result = "sealed" => \E m \in Nodes : chain'[u].seal[m] # NoRun
    BY <1>6, <1>7, NodeTyped DEF SealedJobsAreOnChain, NoneSealed
  <2>2. \A m \in Nodes, u \in Tasks : timer'[m][u] # NoTimer =>
          timer[m][u] # NoTimer /\ ~(m = n /\ u = t)
    BY <1>3
  <2> QED BY <1>6, <2>1, <2>2, NodeTyped DEF SealedJobsAreOnChain
<1> QED BY <1>8, <1>9, <1>10, NodeMoves

-----------------------------------------------------------------------------
\* Nothing has happened when the services start.
LEMMA InitPipelineInv == PipelineInit => PipelineInv
<1> SUFFICES ASSUME PipelineInit PROVE PipelineInv
  OBVIOUS
<1>1. clock \in 0 .. MaxClock /\ faults \in 0 .. MaxFaults
  BY PipelineConstants DEF PipelineInit
<1>2. JobsGood
  <2>1. [NewJob EXCEPT !.state = "absent"] \in JobRecord
    BY NewJobGood DEF JobGood, JobRecord
  <2>2. JobGood([NewJob EXCEPT !.state = "absent"])
    BY <2>1 DEF JobGood, NewJob
  <2> QED BY <2>1, <2>2 DEF PipelineInit, JobsGood
<1>3. Enqueued = {} /\ Created = {}
  BY DEF PipelineInit, Enqueued, Created, NewJob
<1>4. RequestsGood
  <2>1. IdleRequest \in RequestRecord
    BY DEF IdleRequest, RequestRecord, RequestPcs, Routes, Codes
  <2>2. RequestGood(IdleRequest, Created, Enqueued) /\ IdleRequest.pc = "idle"
        /\ IdleRequest.status = 0
    BY DEF IdleRequest, RequestGood
  <2>3. /\ request \in [Requests -> RequestRecord] /\ idem \in [Keys -> Tasks \union {NoTask}]
        /\ \A r \in Requests : request[r] = IdleRequest
        /\ \A k \in Keys : idem[k] = NoTask
    BY <2>1 DEF PipelineInit
  <2>4. OneHandlerPerTask
    BY <2>2, <2>3 DEF OneHandlerPerTask, At
  <2>5. ReplaysRepeatAnAnswer
    BY <2>2, <2>3, NoSuchNumber DEF ReplaysRepeatAnAnswer
  <2> QED BY <2>2, <2>3, <2>4, <2>5 DEF RequestsGood
<1>5. ChainGood
  <2>1. PICK c : c = [state |-> "absent", createdAt |-> 0, commitDeadline |-> 0,
                       revealDeadline |-> 0,
                      seal |-> [n \in Nodes |-> NoRun], opened |-> {}]
    OBVIOUS
  <2>2. c \in ChainRecord /\ c.opened = {} /\ \A n \in Nodes : c.seal[n] = NoRun
    <3>1. "absent" \in TaskStates /\ [n \in Nodes |-> NoRun] \in Seals
      BY DEF TaskStates, Seals
    <3> QED BY <2>1, <3>1 DEF ChainRecord
  <2>3. chain = [t \in Tasks |-> c]
    BY <2>1 DEF PipelineInit
  <2>4. Created = 1 .. 0 /\ 0 \in 0 .. MaxTasks
    BY <1>3, PipelineConstants
  <2> QED BY <2>2, <2>3, <2>4 DEF ChainGood
<1>6. NodesGood
  <2>1. \A n \in Nodes : work[n] = Free
    BY DEF PipelineInit
  <2>2. work \in [Nodes -> WorkRecord] /\ \A n \in Nodes : WorkGood(n)
    BY <2>1, FreeGood DEF PipelineInit, WorkGood
  <2> QED BY <2>2 DEF PipelineInit, NodesGood
<1>7. SealedJobsAreOnChain
  BY DEF PipelineInit, SealedJobsAreOnChain, NewJob
<1> QED BY <1>1, <1>2, <1>3, <1>4, <1>5, <1>6, <1>7 DEF PipelineInv, JobsAreOnTasks

\* Every step keeps the invariant.
LEMMA NextPipelineInv == PipelineInv /\ [PipelineNext]_vars => PipelineInv'
<1> SUFFICES ASSUME PipelineInv, [PipelineNext]_vars PROVE PipelineInv'
  OBVIOUS
<1>1. CASE UNCHANGED vars
  <2>1. /\ RequestsGood' /\ clock' = clock /\ FaultsCounted
        /\ chain' = chain /\ job' = job /\ UNCHANGED nodeVars
    BY <1>1, RequestsKept
       DEF vars, apiVars, nodeVars, FaultsCounted, PipelineInv, Created, Enqueued
  <2> QED BY <2>1, ApiQuiet
<1>2. ASSUME NEW r \in Requests, postV1Verify(r) \/ postVerify(r) \/ ApiStep(r)
      PROVE  PipelineInv'
  BY <1>2, ApiKeeps, SubmitKeeps, QueueKeeps DEF ApiStep
<1>3. ASSUME NEW t \in Tasks, QueueStep(t) \/ apiProcess(t) \/ openReveal(t)
      PROVE  PipelineInv'
  BY <1>3, QueueStepKeeps, WorldKeeps
<1>4. ASSUME NEW n \in Nodes, NEW t \in Tasks, takeJob(n, t) \/ revealEvaluationForJob(n, t)
      PROVE  PipelineInv'
  BY <1>4, TakeJobKeeps, RevealKeeps
<1>5. ASSUME NEW n \in Nodes, NodeStep(n) \/ NodeCrash(n) \/ purgeEncryptedEvidence(n)
      PROVE  PipelineInv'
  BY <1>5, EvaluateKeeps, CommitKeeps, ScheduleKeeps, NodeCrashKeeps, PurgeKeeps DEF NodeStep
<1> QED
  BY <1>1, <1>2, <1>3, <1>4, <1>5, CrashKeeps, WorldKeeps DEF PipelineNext

\* The invariant holds in every state the pipeline reaches.
THEOREM PipelineInvariant == PipelineSpec => []PipelineInv
<1> QED
  BY InitPipelineInv, NextPipelineInv, PTL DEF PipelineSpec

\* AnswersAreKept: types, answers that stay true, and replays that repeat them.
THEOREM AnswersAreKeptAlways == PipelineSpec => []AnswersAreKept
<1>1. PipelineInv => AnswersAreKept
  <2> SUFFICES ASSUME PipelineInv PROVE AnswersAreKept
    OBVIOUS
  <2>1. PipelineTypeOK
    BY PipelineTyped
  <2>2. AnswersAreQueued
    <3>1. \A r \in Requests : request[r].status \in {200, 201} => request[r].task \in Enqueued
      BY DEF PipelineInv, RequestsGood, RequestGood
    <3> QED BY <3>1 DEF AnswersAreQueued, PipelineInv, JobsAreOnTasks, Enqueued
  <2>3. ReplaysRepeatAnAnswer
    BY DEF PipelineInv, RequestsGood
  <2> QED BY <2>1, <2>2, <2>3 DEF AnswersAreKept
<1> QED
  BY <1>1, PipelineInvariant, PTL

\* SealedJobsAreOnChain: a job completed as sealed has its commitment, and every pending
\* reveal is of a commitment that is mined and not opened.
THEOREM SealedJobsAreOnChainAlways == PipelineSpec => []SealedJobsAreOnChain
<1>1. PipelineInv => SealedJobsAreOnChain
  BY DEF PipelineInv
<1> QED
  BY <1>1, PipelineInvariant, PTL

(***************************************************************************)
(* The evidence behind what is sealed                                      *)
(***************************************************************************)
\* There is a file of the run.
HasFile(files, t, run) == \E f \in files : f[1] = t /\ f[2] = run

Underway == {"sealing", "confirming"}

\* A commitment of the run is on its way, or on the chain.
Sealing(n, t, run) ==
  \/ work[n].pc \in Underway /\ work[n].task = t /\ work[n].run = run
  \/ chain[t].seal[n] = run

CreationsPast == \A t \in Created : chain[t].createdAt <= clock

FilesGood ==
  \A n \in Nodes : \A f \in evidence[n] :
    f[1] \in Created /\ chain[f[1]].createdAt <= f[3]

FilesKept ==
  StoresEvidence => \A n \in Nodes, t \in Tasks, run \in Runs :
    Sealing(n, t, run) /\ clock <= chain[t].createdAt + Retention =>
      HasFile(evidence[n], t, run)

\* A task is created before any file of it is written; hence what is sealed, or about to be,
\* keeps its file for Retention from then on.
EvidenceKept == CreationsPast /\ FilesGood /\ FilesKept

\* The time of a task's creation does not change.
CreationsStay ==
  \A t \in Created : t \in Created' /\ chain'[t].createdAt = chain[t].createdAt

\* New tasks are created no later than now.
CreationsTimed ==
  \A t \in Created' : t \in Created \/ chain'[t].createdAt <= clock'

\* A file that is new is of now; one that is gone was past its retention.
FilesAged ==
  \A n \in Nodes :
    /\ \A f \in evidence'[n] : f \in evidence[n] \/ (f[1] \in Created /\ f[3] = clock)
    /\ \A f \in evidence[n] : f \in evidence'[n] \/ clock - f[3] > Retention

\* What is sealed now was before, or has its file now.
SealingFiled ==
  StoresEvidence => \A n \in Nodes, t \in Tasks, run \in Runs :
    Sealing(n, t, run)' => Sealing(n, t, run) \/ HasFile(evidence'[n], t, run)

\* Only tasks on the chain are committed to.
LEMMA SealingCreated ==
  ASSUME PipelineInv, NEW n \in Nodes, NEW t \in Tasks, NEW run \in Runs, Sealing(n, t, run)
  PROVE  t \in Created
<1>1. JobsAreOnTasks /\ ChainGood /\ WorkGood(n)
  BY DEF PipelineInv, NodesGood
<1>2. CASE work[n].pc \in Underway /\ work[n].task = t
  BY <1>1, <1>2 DEF WorkGood, JobsAreOnTasks, Underway
<1>3. CASE chain[t].seal[n] = run
  BY <1>1, <1>3, NoSuchNumber DEF ChainGood
<1> QED BY <1>2, <1>3 DEF Sealing

\* What a step has to do for the evidence.
LEMMA EvidenceMoves ==
  ASSUME PipelineInv, clock' \in Nat, EvidenceKept, clock' >= clock,
         CreationsStay, CreationsTimed, FilesAged, SealingFiled
  PROVE  EvidenceKept'
<1>1. clock \in Nat /\ ChainGood /\ evidence \in Archives /\ Created \subseteq Tasks
  BY PipelineConstants, NodeTyped DEF PipelineInv, Created
<1>2. \A t \in Tasks : chain[t].createdAt \in Nat
  BY <1>1, ChainFields DEF ChainGood
<1>3. Retention \in Nat /\ MaxClock \in Nat
  BY PipelineConstants
<1>4. \A n \in Nodes : \A f \in evidence[n] : f[3] \in Nat /\ f[1] \in Tasks
  BY <1>1, <1>3 DEF Archives, Files
<1>5. CreationsPast'
  <2> SUFFICES ASSUME NEW t \in Created', t \in Created
               PROVE  chain'[t].createdAt <= clock'
    BY DEF CreationsPast, CreationsTimed
  <2>1. chain'[t].createdAt = chain[t].createdAt
        /\ chain[t].createdAt <= clock /\ chain[t].createdAt \in Nat
    BY <1>1, <1>2 DEF CreationsStay, EvidenceKept, CreationsPast
  <2> QED BY <1>1, <1>3, <2>1
<1>6. FilesGood'
  <2> SUFFICES ASSUME NEW n \in Nodes, NEW f \in evidence'[n]
               PROVE  f[1] \in Created' /\ chain'[f[1]].createdAt <= f[3]
    BY DEF FilesGood
  <2>1. f[1] \in Created /\ chain[f[1]].createdAt <= f[3]
    BY DEF FilesAged, EvidenceKept, FilesGood, CreationsPast
  <2> QED BY <2>1 DEF CreationsStay
<1>7. FilesKept'
  <2> SUFFICES ASSUME StoresEvidence, NEW n \in Nodes, NEW t \in Tasks, NEW run \in Runs,
                      Sealing(n, t, run)', clock' <= chain'[t].createdAt + Retention
               PROVE  HasFile(evidence'[n], t, run)
    BY DEF FilesKept
  <2>1. CASE Sealing(n, t, run)
    <3>1. t \in Created /\ chain'[t].createdAt = chain[t].createdAt
      BY <2>1, SealingCreated DEF CreationsStay
    <3>2. clock <= chain[t].createdAt + Retention /\ clock' <= chain[t].createdAt + Retention
      BY <1>1, <1>2, <1>3, <3>1
    <3>3. PICK f \in evidence[n] : f[1] = t /\ f[2] = run
      BY <2>1, <3>2 DEF EvidenceKept, FilesKept, HasFile
    <3>4. chain[t].createdAt <= f[3]
      BY <3>3 DEF EvidenceKept, FilesGood
    <3>5. ~(clock - f[3] > Retention)
      BY <1>1, <1>2, <1>3, <1>4, <3>2, <3>4
    <3> QED BY <3>3, <3>5 DEF FilesAged, HasFile
  <2> QED BY <2>1 DEF SealingFiled
<1> QED BY <1>5, <1>6, <1>7 DEF EvidenceKept

SealsStay == \A t \in Tasks : chain'[t].seal = chain[t].seal

NoneStarts == \A n \in Nodes : work'[n] = work[n] \/ work'[n].pc \notin Underway

\* A step that commits to nothing new and leaves the files alone.
LEMMA EvidenceQuiet ==
  ASSUME PipelineInv, clock' \in Nat, EvidenceKept, clock' >= clock, evidence' = evidence,
         CreationsStay, CreationsTimed, SealsStay, NoneStarts
  PROVE  EvidenceKept'
<1>1. SealingFiled
  BY DEF SealingFiled, Sealing, SealsStay, NoneStarts
<1>2. FilesAged
  BY DEF FilesAged
<1> QED BY <1>1, <1>2, EvidenceMoves

\* A step that leaves the clock and the chain alone, too.
LEMMA EvidenceStill ==
  ASSUME PipelineInv, EvidenceKept, clock' = clock, chain' = chain, evidence' = evidence,
         NoneStarts
  PROVE  EvidenceKept'
<1>1. clock \in Nat /\ CreationsStay /\ CreationsTimed /\ SealsStay
  BY PipelineConstants DEF PipelineInv, CreationsStay, CreationsTimed, SealsStay, Created
<1> QED BY <1>1, EvidenceQuiet

\* The steps of the API process, the queue and the world.
LEMMA ApiKeepsEvidence ==
  ASSUME PipelineInv, EvidenceKept, NEW r \in Requests,
         postV1Verify(r) \/ postVerify(r) \/ ApiStep(r)
  PROVE  EvidenceKept'
<1>1. clock' = clock /\ work' = work /\ evidence' = evidence /\ clock \in Nat
  BY PipelineConstants
     DEF postV1Verify, postVerify, ApiStep, submitVerificationJob, queueVerificationJob,
         answerV1, answerLegacy, nodeVars, PipelineInv
<1>2. NoneStarts
  BY <1>1 DEF NoneStarts
<1>3. CASE chain' = chain
  BY <1>1, <1>2, <1>3, EvidenceStill
<1>4. ASSUME NEW t \in Tasks, NEW span \in CommitSpans, createTask(t, span)
      PROVE  EvidenceKept'
  <2>1. /\ CreatesOne(t) /\ Created' = Created \union {t}
        /\ chain'[t].createdAt = clock
    BY <1>1, <1>4, CreateTaskGood DEF PipelineInv
  <2>2. CreationsStay /\ SealsStay
    BY <2>1 DEF CreatesOne, OthersKept, CreationsStay, SealsStay, Created
  <2>3. chain'[t].createdAt <= clock'
    BY <1>1, <2>1
  <2>4. CreationsTimed
    BY <2>1, <2>3 DEF CreationsTimed
  <2> QED BY <1>1, <1>2, <2>2, <2>4, EvidenceQuiet
<1>5. chain' = chain \/ \E t \in Tasks, span \in CommitSpans : createTask(t, span)
  BY DEF postV1Verify, postVerify, ApiStep, submitVerificationJob, queueVerificationJob,
         answerV1, answerLegacy
<1> QED BY <1>3, <1>4, <1>5

\* So do the end of the API process, the queue, the clock and the close of a commit window.
LEMMA WorldKeepsEvidence ==
  ASSUME PipelineInv, EvidenceKept,
         \/ ApiCrash \/ Tick
         \/ \E t \in Tasks : QueueStep(t) \/ apiProcess(t) \/ openReveal(t)
  PROVE  EvidenceKept'
<1>1. clock \in Nat /\ work' = work /\ evidence' = evidence
  <2>1. clock \in Nat
    BY PipelineConstants DEF PipelineInv
  <2> QED
    BY <2>1
       DEF ApiCrash, Tick, QueueStep, BackoffEnds, StallFound, BusyTooLong, Stall, apiProcess,
           openReveal, nodeVars
<1>2. NoneStarts
  BY <1>1 DEF NoneStarts
<1>3. CASE clock' = clock /\ chain' = chain
  BY <1>1, <1>2, <1>3, EvidenceStill
<1>4. CASE Tick
  <2>1. clock' >= clock /\ clock' \in Nat /\ chain' = chain
    BY <1>1, <1>4 DEF Tick
  <2>2. CreationsStay /\ CreationsTimed /\ SealsStay
    BY <2>1 DEF CreationsStay, CreationsTimed, SealsStay, Created
  <2> QED BY <1>1, <1>2, <2>1, <2>2, EvidenceQuiet
<1>5. ASSUME NEW t \in Tasks, openReveal(t) PROVE EvidenceKept'
  <2>1. ClosesOne(t) /\ Created' = Created
    BY <1>5, OpenRevealGood DEF PipelineInv
  <2>2. CreationsStay /\ CreationsTimed /\ SealsStay
    BY <2>1 DEF ClosesOne, OthersKept, CreationsStay, CreationsTimed, SealsStay, Created
  <2>3. clock' = clock
    BY <1>5 DEF openReveal
  <2> QED BY <1>1, <1>2, <2>2, <2>3, EvidenceQuiet
<1> QED
  BY <1>3, <1>4, <1>5
     DEF ApiCrash, QueueStep, BackoffEnds, StallFound, BusyTooLong, Stall, apiProcess

\* A node that commits to nothing new: it takes a job, schedules a reveal, reveals, or dies.
LEMMA IdleKeepsEvidence ==
  ASSUME PipelineInv, EvidenceKept, NEW n \in Nodes,
         \/ scheduleReveal(n) \/ NodeCrash(n)
         \/ \E t \in Tasks : takeJob(n, t) \/ revealEvaluationForJob(n, t)
  PROVE  EvidenceKept'
<1>1. clock \in Nat /\ clock' = clock /\ evidence' = evidence
  <2>1. clock \in Nat
    BY PipelineConstants DEF PipelineInv
  <2> QED BY <2>1 DEF scheduleReveal, NodeCrash, takeJob, revealEvaluationForJob
<1>2. NoneStarts
  <2>1. \/ work' = work \/ work' = [work EXCEPT ![n] = Free]
        \/ \E t \in Tasks, run \in Nat :
             work' = [work EXCEPT ![n] = [pc |-> "evaluating", task |-> t, run |-> run]]
    <3>1. \A t \in Tasks : job[t].runs + 1 \in Nat
      BY JobFields, NodeTyped DEF JobsGood
    <3> QED BY <3>1 DEF scheduleReveal, NodeCrash, takeJob, revealEvaluationForJob
  <2> QED BY <2>1, FreeGood, NodeTyped DEF NoneStarts, Underway
<1>3. CASE chain' = chain
  BY <1>1, <1>2, <1>3, EvidenceStill
<1>4. ASSUME NEW t \in Tasks, RevealAccepted(n, t),
             chain' = [chain EXCEPT ![t].opened = @ \union {n}]
      PROVE  EvidenceKept'
  <2>1. OpensOne(n, t) /\ Created' = Created
    BY <1>4, OpenedGood DEF PipelineInv
  <2>2. CreationsStay /\ CreationsTimed /\ SealsStay
    BY <2>1 DEF OpensOne, OthersKept, CreationsStay, CreationsTimed, SealsStay, Created
  <2> QED BY <1>1, <1>2, <2>2, EvidenceQuiet
<1> QED
  BY <1>3, <1>4 DEF scheduleReveal, NodeCrash, takeJob, revealEvaluationForJob

\* The commitment is of the run that was about to be sealed.
LEMMA CommitKeepsEvidence ==
  ASSUME PipelineInv, EvidenceKept, NEW n \in Nodes, commitEvaluation(n)
  PROVE  EvidenceKept'
<1>1. clock' = clock /\ evidence' = evidence /\ work[n].pc = "sealing"
  BY DEF commitEvaluation
<1>2. CASE work' = [work EXCEPT ![n] = Free] /\ chain' = chain
  <2>1. NoneStarts
    BY <1>2, FreeGood, NodeTyped DEF NoneStarts, Underway
  <2> QED BY <1>1, <1>2, <2>1, EvidenceStill
<1>3. CASE /\ CommitAccepted(n, work[n].task) /\ chain' = Sealed(n, work[n].task)
           /\ work' = [work EXCEPT ![n].pc = "confirming"]
  <2>1. PICK t \in Tasks : t = work[n].task
    BY <1>1, NodeTyped
  <2>2. PICK run \in Runs : run = work[n].run
    BY <1>1, NodeTyped
  <2>3. SealsOne(n, t) /\ Created' = Created
    BY <1>3, <2>1, <2>2, SealedGood DEF PipelineInv
  <2>4. PICK w0 \in WorkRecord : w0 = work[n]
    BY NodeTyped
  <2>5. PICK w : w = [w0 EXCEPT !.pc = "confirming"]
    OBVIOUS
  <2>6. w.task = t /\ w.run = run
    BY <2>1, <2>2, <2>4, <2>5 DEF WorkRecord
  <2>7. work' = [work EXCEPT ![n] = w]
    BY <1>3, <2>4, <2>5, NodeTyped
  <2>8. work'[n] = w /\ \A m \in Nodes \ {n} : work'[m] = work[m]
    BY <2>7, NodeTyped
  <2>9. Sealing(n, t, run)
    BY <1>1, <2>1, <2>2 DEF Sealing, Underway
  <2>10. chain[t].seal \in Seals
    BY ChainFields, NodeTyped DEF ChainGood
  <2>11. /\ chain'[t].seal[n] = run
         /\ \A m \in Nodes \ {n} : chain'[t].seal[m] = chain[t].seal[m]
         /\ \A u \in Tasks \ {t} : chain'[u] = chain[u]
    BY <2>2, <2>3, <2>10 DEF SealsOne, Seals, OthersKept
  <2>12. SealingFiled
    BY <2>6, <2>8, <2>9, <2>11 DEF SealingFiled, Sealing
  <2>13. CreationsStay /\ CreationsTimed /\ FilesAged
    BY <1>1, <2>3 DEF SealsOne, OthersKept, CreationsStay, CreationsTimed, FilesAged, Created
  <2>14. clock \in Nat
    BY PipelineConstants DEF PipelineInv
  <2> QED BY <1>1, <2>12, <2>13, <2>14, EvidenceMoves
<1> QED BY <1>2, <1>3 DEF commitEvaluation

\* A node stores the evidence of its run before it has a salt to commit with.
LEMMA EvaluateKeepsEvidence ==
  ASSUME PipelineInv, EvidenceKept, NEW n \in Nodes, evaluate(n)
  PROVE  EvidenceKept'
<1>1. clock' = clock /\ chain' = chain /\ work[n].pc = "evaluating"
  BY DEF evaluate
<1>2. PICK t \in Tasks : t = work[n].task
  BY <1>1, NodeTyped
<1>3. PICK run \in Runs : run = work[n].run
  BY <1>1, NodeTyped
<1>4. t \in Created /\ clock \in Nat
  BY <1>1, <1>2, PipelineConstants, NodeTyped DEF PipelineInv, JobsAreOnTasks
<1>5. PICK files : files = EvidenceFile(n)
  OBVIOUS
<1>6. \A f \in files : f[1] = t /\ f[2] = run /\ f[3] = clock
  BY <1>2, <1>3, <1>5 DEF EvidenceFile
<1>7. ASSUME evidence' = [evidence EXCEPT ![n] = @ \union files] \/ evidence' = evidence
      PROVE  FilesAged /\ CreationsStay /\ CreationsTimed
  BY <1>1, <1>4, <1>6, <1>7, NodeTyped
     DEF FilesAged, CreationsStay, CreationsTimed, Created, Archives
<1>8. CASE \E o \in {"throw", "return"} : Stop(n, o, {}) \/ Stop(n, o, EvidenceFile(n))
  <2>1. /\ work' = [work EXCEPT ![n] = Free]
        /\ evidence' = [evidence EXCEPT ![n] = @ \union files] \/ evidence' = evidence
    BY <1>5, <1>8, NodeTyped DEF Stop, Archives
  <2>2. SealingFiled
    BY <1>1, <2>1, FreeGood, NodeTyped DEF SealingFiled, Sealing, Underway
  <2> QED BY <1>1, <1>4, <1>7, <2>1, <2>2, EvidenceMoves
<1>9. CASE /\ prepareCommit(n)
           /\ evidence' = [evidence EXCEPT ![n] = @ \union EvidenceFile(n)]
  <2>1. evidence' = [evidence EXCEPT ![n] = @ \union files]
    BY <1>5, <1>9
  <2>2. CASE ~StoresEvidence
    <3>1. SealingFiled
      BY <2>2 DEF SealingFiled
    <3> QED BY <1>1, <1>4, <1>7, <2>1, <3>1, EvidenceMoves
  <2>3. CASE StoresEvidence
    <3>1. files = {<<t, run, clock>>}
      BY <1>2, <1>3, <1>5, <2>3 DEF EvidenceFile
    <3>2. HasFile(evidence'[n], t, run)
      <4>1. evidence'[n] = evidence[n] \union files
        BY <2>1, NodeTyped DEF Archives
      <4>2. PICK f : f = <<t, run, clock>>
        OBVIOUS
      <4>3. f \in evidence'[n] /\ f[1] = t /\ f[2] = run
        BY <3>1, <4>1, <4>2
      <4> QED BY <4>3 DEF HasFile
    <3>3. PICK w0 \in WorkRecord : w0 = work[n]
      BY NodeTyped
    <3>4. PICK w : w = [w0 EXCEPT !.pc = "sealing"]
      OBVIOUS
    <3>5. w.task = t /\ w.run = run
      BY <1>2, <1>3, <3>3, <3>4 DEF WorkRecord
    <3>6. work' = [work EXCEPT ![n] = w]
      BY <1>9, <3>3, <3>4, NodeTyped DEF prepareCommit
    <3>7. work'[n] = w /\ \A m \in Nodes \ {n} : work'[m] = work[m]
      BY <3>6, NodeTyped
    <3>8. SealingFiled
      BY <1>1, <3>2, <3>5, <3>7 DEF SealingFiled, Sealing
    <3> QED BY <1>1, <1>4, <1>7, <2>1, <3>8, EvidenceMoves
  <2> QED BY <2>2, <2>3
<1> QED BY <1>8, <1>9 DEF evaluate, QueryStage, BundleStage, ProgramStage

\* The retention job deletes what is older than Retention.
LEMMA PurgeKeepsEvidence ==
  ASSUME PipelineInv, EvidenceKept, NEW n \in Nodes, purgeEncryptedEvidence(n)
  PROVE  EvidenceKept'
<1>1. /\ clock' = clock /\ chain' = chain /\ work' = work /\ clock \in Nat
      /\ evidence' = [evidence EXCEPT ![n] = {f \in @ : clock - f[3] <= Retention}]
  <2>1. clock \in Nat
    BY PipelineConstants DEF PipelineInv
  <2> QED BY <2>1 DEF purgeEncryptedEvidence
<1>2. \A f \in evidence[n] : f[3] \in Nat
  BY PipelineConstants, NodeTyped DEF Archives, Files
<1>3. \A f \in evidence[n] : clock - f[3] <= Retention \/ clock - f[3] > Retention
  BY <1>1, <1>2, PipelineConstants
<1>4. FilesAged
  BY <1>1, <1>3, NodeTyped DEF FilesAged, Archives
<1>5. CreationsStay /\ CreationsTimed /\ SealingFiled
  BY <1>1 DEF CreationsStay, CreationsTimed, SealingFiled, Sealing, Created
<1> QED BY <1>1, <1>4, <1>5, EvidenceMoves

\* Nothing is created, stored or sealed at the start.
LEMMA InitEvidence == PipelineInit => EvidenceKept
<1> SUFFICES ASSUME PipelineInit PROVE EvidenceKept
  OBVIOUS
<1>1. Created = {} /\ \A n \in Nodes : evidence[n] = {}
  BY DEF PipelineInit, Created
<1>2. \A n \in Nodes : work[n].pc \notin Underway
  BY FreeGood DEF PipelineInit, Underway
<1>3. \A t \in Tasks, n \in Nodes : chain[t].seal[n] = NoRun
  BY DEF PipelineInit
<1> QED
  BY <1>1, <1>2, <1>3, NoSuchNumber
     DEF EvidenceKept, CreationsPast, FilesGood, FilesKept, Sealing

\* Every step keeps the evidence.
LEMMA NextEvidence ==
  PipelineInv /\ EvidenceKept /\ [PipelineNext]_vars => EvidenceKept'
<1> SUFFICES ASSUME PipelineInv, EvidenceKept, [PipelineNext]_vars PROVE EvidenceKept'
  OBVIOUS
<1>1. CASE UNCHANGED vars
  BY <1>1, EvidenceStill DEF vars, NoneStarts
<1>2. ASSUME NEW r \in Requests, postV1Verify(r) \/ postVerify(r) \/ ApiStep(r)
      PROVE  EvidenceKept'
  BY <1>2, ApiKeepsEvidence
<1>3. ASSUME NEW n \in Nodes,
             \/ NodeStep(n) \/ NodeCrash(n) \/ purgeEncryptedEvidence(n)
             \/ \E t \in Tasks : takeJob(n, t) \/ revealEvaluationForJob(n, t)
      PROVE  EvidenceKept'
  BY <1>3, IdleKeepsEvidence, EvaluateKeepsEvidence, CommitKeepsEvidence, PurgeKeepsEvidence
     DEF NodeStep
<1> QED
  BY <1>1, <1>2, <1>3, WorldKeepsEvidence DEF PipelineNext

\* EvidenceIsRetained, for all windows and retention periods: what is sealed was stored first,
\* and stays for Retention from the creation of its task on, so that a task whose windows are
\* no longer keeps its evidence to the last reveal.
THEOREM EvidenceStaysRetained == PipelineSpec => []EvidenceIsRetained
<1>1. PipelineInv /\ EvidenceKept => EvidenceIsRetained
  <2> SUFFICES ASSUME PipelineInv, EvidenceKept, StoresEvidence, NEW t \in Tasks,
                      NEW n \in Nodes, chain[t].seal[n] # NoRun,
                      clock <= chain[t].createdAt + Retention
               PROVE  \E f \in evidence[n] : f[1] = t /\ f[2] = chain[t].seal[n]
    BY DEF EvidenceIsRetained
  <2>1. chain[t].seal \in Seals
    BY ChainFields, NodeTyped DEF ChainGood
  <2>2. chain[t].seal[n] \in Runs
    BY <2>1 DEF Seals
  <2> QED
    BY <2>2 DEF EvidenceKept, FilesKept, Sealing, HasFile
<1>2. PipelineInit => EvidenceKept
  BY InitEvidence
<1>3. PipelineInv /\ EvidenceKept /\ [PipelineNext]_vars => EvidenceKept'
  BY NextEvidence
<1> QED
  BY <1>1, <1>2, <1>3, PipelineInvariant, PTL DEF PipelineSpec

(***************************************************************************)
(* The pipeline implements the lifecycle                                   *)
(***************************************************************************)
\* What the lifecycle sees of the pipeline.
Stages == [t \in Tasks |-> StageOf(t)]

SealedBy == [t \in Tasks |-> {n \in Nodes : chain[t].seal[n] # NoRun}]

ClosedTasks == {t \in Tasks : chain[t].state = "reveal"}

OpenedBy == [t \in Tasks |-> chain[t].opened]

Seen == <<Stages, SealedBy, ClosedTasks, OpenedBy>>

\* The stage of a task, from its record on the chain and its job.
StageFrom(c, j) ==
  IF c.state = "absent" THEN "absent"
  ELSE IF j.state = "absent" THEN "created"
  ELSE IF j.state \in Unsettled THEN "queued" ELSE "settled"

\* A job of a task that is on the chain is queued or settled.
LEMMA StageIs ==
  ASSUME PipelineInv, NEW t \in Tasks
  PROVE  StageOf(t) = StageFrom(chain[t], job[t])
<1>1. /\ job[t].state \in {"absent", "waiting", "active", "delayed", "completed", "failed"}
      /\ job[t].state # "absent" => chain[t].state # "absent"
  BY JobFields, NodeTyped DEF JobsGood, PipelineInv, JobsAreOnTasks, Enqueued, Created
<1> QED BY <1>1 DEF StageOf, StageFrom, Unsettled

\* The same, after a step that keeps the invariant.
LEMMA StageWillBe ==
  ASSUME PipelineInv', NEW t \in Tasks
  PROVE  StageOf(t)' = StageFrom(chain'[t], job'[t])
<1>1. /\ job'[t].state \in {"absent", "waiting", "active", "delayed", "completed", "failed"}
      /\ job'[t].state # "absent" => chain'[t].state # "absent"
  <2>1. JobsGood' /\ JobsAreOnTasks'
    BY DEF PipelineInv
  <2>2. job'[t] \in JobRecord
    BY <2>1 DEF JobsGood
  <2> QED BY <2>1, <2>2, JobFields DEF JobsAreOnTasks, Enqueued, Created
<1> QED BY <1>1 DEF StageOf, StageFrom, Unsettled

\* A step of the lifecycle, or none.
Mapped == Lifecycle!LifecycleNext \/ UNCHANGED Seen

\* One task moves to another stage, and the others stay.
StageMoves(t, from, to) ==
  /\ Stages[t] = from /\ Stages' = [Stages EXCEPT ![t] = to]
  /\ UNCHANGED <<SealedBy, ClosedTasks, OpenedBy>>

\* What the lifecycle allows, in terms of what it sees.
LEMMA LifecycleStages ==
  ASSUME NEW t \in Tasks,
         \/ StageMoves(t, "absent", "created") \/ StageMoves(t, "created", "queued")
         \/ StageMoves(t, "queued", "settled")
  PROVE  Mapped
<1>1. StageMoves(t, "absent", "created") => Lifecycle!Create(t)
  BY DEF StageMoves, Lifecycle!Create, Stages, SealedBy, ClosedTasks, OpenedBy
<1>2. StageMoves(t, "created", "queued") => Lifecycle!Enqueue(t)
  BY DEF StageMoves, Lifecycle!Enqueue, Stages, SealedBy, ClosedTasks, OpenedBy
<1>3. StageMoves(t, "queued", "settled") => Lifecycle!Settle(t)
  BY DEF StageMoves, Lifecycle!Settle, Stages, SealedBy, ClosedTasks, OpenedBy
<1> QED BY <1>1, <1>2, <1>3 DEF Mapped, Lifecycle!LifecycleNext

\* One task's record or job changes: its stage follows, the others' stay.
LEMMA StageUpdated ==
  ASSUME PipelineInv, PipelineInv', NEW t \in Tasks,
         \A u \in Tasks : u # t => chain'[u] = chain[u] /\ job'[u] = job[u]
  PROVE  /\ Stages' = [Stages EXCEPT ![t] = StageFrom(chain'[t], job'[t])]
         /\ Stages[t] = StageFrom(chain[t], job[t])
<1>1. \A u \in Tasks : Stages'[u] = StageFrom(chain'[u], job'[u])
  BY StageWillBe DEF Stages
<1>2. \A u \in Tasks : Stages[u] = StageFrom(chain[u], job[u])
  BY StageIs DEF Stages
<1>3. \A u \in Tasks : u # t => Stages'[u] = Stages[u]
  BY <1>1, <1>2
<1>4. Stages = [u \in Tasks |-> Stages[u]] /\ Stages' = [u \in Tasks |-> Stages'[u]]
  BY DEF Stages
<1> QED BY <1>1, <1>2, <1>3, <1>4

\* A stage that stays.
LEMMA StageStays ==
  ASSUME NEW t \in Tasks, Stages' = [Stages EXCEPT ![t] = Stages[t]]
  PROVE  Stages' = Stages
<1>1. Stages = [u \in Tasks |-> Stages[u]] /\ Stages' = [u \in Tasks |-> Stages'[u]]
  BY DEF Stages
<1> QED BY <1>1

\* The chain stays, and so does all that the lifecycle sees but for the stages.
LEMMA MarksStay == chain' = chain => UNCHANGED <<SealedBy, ClosedTasks, OpenedBy>>
BY DEF SealedBy, ClosedTasks, OpenedBy

\* Neither the chain nor the queue changes: the lifecycle sees nothing.
LEMMA NothingSeen ==
  ASSUME chain' = chain, job' = job
  PROVE  Mapped
<1>1. Stages' = Stages
  BY DEF Stages, StageOf
<1> QED BY <1>1, MarksStay DEF Mapped, Seen

\* A job that moves settles, or the lifecycle sees nothing.
LEMMA JobsSeen ==
  ASSUME PipelineInv, PipelineInv', JobsMove, chain' = chain
  PROVE  Mapped
<1>1. CASE job' = job
  BY <1>1, NothingSeen
<1>2. ASSUME NEW t \in Tasks, MovesOne(t) PROVE Mapped
  <2>1. /\ Stages' = [Stages EXCEPT ![t] = StageFrom(chain'[t], job'[t])]
        /\ Stages[t] = StageFrom(chain[t], job[t])
    BY <1>2, StageUpdated DEF MovesOne
  <2>2. chain[t].state # "absent"
    BY <1>2 DEF MovesOne, PipelineInv, JobsAreOnTasks, Enqueued, Created, Unsettled
  <2>3. Stages[t] = "queued"
    BY <1>2, <2>1, <2>2 DEF StageFrom, MovesOne, Unsettled
  <2>4. StageFrom(chain'[t], job'[t]) \in {"queued", "settled"}
    BY <1>2, <2>2 DEF StageFrom, MovesOne, Unsettled, Settled
  <2>5. UNCHANGED <<SealedBy, ClosedTasks, OpenedBy>>
    BY MarksStay
  <2>6. CASE StageFrom(chain'[t], job'[t]) = "settled"
    BY <2>1, <2>3, <2>5, <2>6, LifecycleStages DEF StageMoves
  <2>7. CASE StageFrom(chain'[t], job'[t]) = "queued"
    BY <2>1, <2>3, <2>5, <2>7, StageStays DEF Mapped, Seen
  <2> QED BY <2>4, <2>6, <2>7
<1> QED BY <1>1, <1>2 DEF JobsMove

\* A created task whose job is queued.
LEMMA QueueSeen ==
  ASSUME PipelineInv, PipelineInv', NEW r \in Requests, queueVerificationJob(r)
  PROVE  Mapped
<1>1. chain' = chain
  BY DEF queueVerificationJob
<1>2. PICK t \in Tasks : t = request[r].task /\ t \in Created
  BY QueueGood DEF PipelineInv, Created
<1>3. CASE job' = job
  BY <1>1, <1>3, NothingSeen
<1>4. CASE /\ job[t].state = "absent" /\ job'[t].state = "waiting"
           /\ \A u \in Tasks : u # t => job'[u] = job[u]
  <2>1. /\ Stages' = [Stages EXCEPT ![t] = StageFrom(chain'[t], job'[t])]
        /\ Stages[t] = StageFrom(chain[t], job[t])
    BY <1>1, <1>4, StageUpdated
  <2>2. Stages[t] = "created" /\ StageFrom(chain'[t], job'[t]) = "queued"
    BY <1>1, <1>2, <1>4, <2>1 DEF StageFrom, Created, Unsettled
  <2>3. StageMoves(t, "created", "queued")
    BY <1>1, <2>1, <2>2, MarksStay DEF StageMoves
  <2> QED BY <2>3, LifecycleStages
<1>5. \/ job' = job
      \/ /\ job[t].state = "absent" /\ job'[t].state = "waiting"
         /\ \A u \in Tasks : u # t => job'[u] = job[u]
  BY <1>2, QueueGood DEF PipelineInv
<1> QED BY <1>3, <1>4, <1>5

\* A new task has no commitments, and is not queued.
LEMMA CreateSeen ==
  ASSUME PipelineInv, PipelineInv', NEW t \in Tasks, CreatesOne(t), job' = job
  PROVE  Mapped
<1>1. \A u \in Tasks : u # t => chain'[u] = chain[u] /\ job'[u] = job[u]
  BY DEF CreatesOne, OthersKept
<1>2. /\ Stages' = [Stages EXCEPT ![t] = StageFrom(chain'[t], job'[t])]
      /\ Stages[t] = StageFrom(chain[t], job[t])
  BY <1>1, StageUpdated
<1>3. chain[t].state = "absent" /\ job[t].state = "absent"
  BY DEF CreatesOne, Created, PipelineInv, JobsAreOnTasks, Enqueued
<1>4. Stages[t] = "absent" /\ StageFrom(chain'[t], job'[t]) = "created"
  BY <1>2, <1>3 DEF StageFrom, CreatesOne
<1>5. UNCHANGED <<SealedBy, ClosedTasks, OpenedBy>>
  BY <1>1, <1>3 DEF CreatesOne, SealedBy, ClosedTasks, OpenedBy
<1>6. StageMoves(t, "absent", "created")
  BY <1>2, <1>4, <1>5 DEF StageMoves
<1> QED BY <1>6, LifecycleStages

\* Jobs stay, and no task is new: the stages stay.
LEMMA StagesStay ==
  ASSUME PipelineInv, PipelineInv', job' = job, Created' = Created
  PROVE  Stages' = Stages
<1>1. \A t \in Tasks : (chain'[t].state = "absent") = (chain[t].state = "absent")
  BY DEF Created
<1>2. \A t \in Tasks : StageFrom(chain'[t], job'[t]) = StageFrom(chain[t], job[t])
  BY <1>1 DEF StageFrom
<1>3. \A t \in Tasks : StageOf(t)' = StageOf(t)
  BY <1>2, StageIs, StageWillBe
<1> QED BY <1>3 DEF Stages

\* A commitment is sealed once per node, on a task that is queued and not closed.
LEMMA SealSeen ==
  ASSUME PipelineInv, PipelineInv', NEW n \in Nodes, NEW t \in Enqueued, SealsOne(n, t),
         Created' = Created, job' = job, work[n].run \in Runs
  PROVE  Mapped
<1>1. t \in Tasks /\ Stages' = Stages
  BY StagesStay DEF Enqueued
<1>2. chain[t].seal \in Seals
  BY <1>1, ChainFields, NodeTyped DEF ChainGood
<1>3. /\ chain'[t].seal[n] # NoRun
      /\ \A m \in Nodes \ {n} : chain'[t].seal[m] = chain[t].seal[m]
  BY <1>2, NoSuchNumber DEF SealsOne, Seals
<1>4. SealedBy' = [SealedBy EXCEPT ![t] = @ \union {n}]
  <2>1. \A u \in Tasks \ {t} : SealedBy'[u] = SealedBy[u]
    BY DEF SealedBy, SealsOne, OthersKept
  <2>2. SealedBy'[t] = SealedBy[t] \union {n}
    BY <1>1, <1>3 DEF SealedBy
  <2>3. /\ SealedBy = [u \in Tasks |-> SealedBy[u]]
        /\ SealedBy' = [u \in Tasks |-> SealedBy'[u]]
    BY DEF SealedBy
  <2> QED BY <1>1, <2>1, <2>2, <2>3
<1>5. ClosedTasks' \in {ClosedTasks, ClosedTasks \union {t}} /\ t \notin ClosedTasks
  BY DEF ClosedTasks, SealsOne, OthersKept
<1>6. OpenedBy' = OpenedBy
  BY DEF OpenedBy, SealsOne, OthersKept
<1>7. Stages[t] \in {"queued", "settled"} /\ n \notin SealedBy[t]
  <2>1. Stages[t] = StageFrom(chain[t], job[t]) /\ job[t].state # "absent"
    BY <1>1, StageIs DEF Stages, Enqueued
  <2> QED BY <1>1, <2>1 DEF StageFrom, SealsOne, SealedBy
<1>8. Lifecycle!Seal(n, t)
  BY <1>1, <1>4, <1>5, <1>6, <1>7
     DEF Lifecycle!Seal, Stages, SealedBy, ClosedTasks, OpenedBy
<1> QED BY <1>1, <1>8 DEF Mapped, Lifecycle!LifecycleNext

\* An evaluation that was sealed is opened once, after the task was closed.
LEMMA OpenSeen ==
  ASSUME PipelineInv, PipelineInv', NEW n \in Nodes, NEW t \in Tasks, OpensOne(n, t),
         Created' = Created, job' = job
  PROVE  Mapped
<1>1. Stages' = Stages
  BY StagesStay
<1>2. SealedBy' = SealedBy /\ ClosedTasks' = ClosedTasks /\ t \in ClosedTasks
  BY DEF SealedBy, ClosedTasks, OpensOne, OthersKept
<1>3. OpenedBy' = [OpenedBy EXCEPT ![t] = @ \union {n}]
  <2>1. \A u \in Tasks \ {t} : OpenedBy'[u] = OpenedBy[u]
    BY DEF OpenedBy, OpensOne, OthersKept
  <2>2. OpenedBy'[t] = OpenedBy[t] \union {n}
    BY DEF OpenedBy, OpensOne
  <2>3. /\ OpenedBy = [u \in Tasks |-> OpenedBy[u]]
        /\ OpenedBy' = [u \in Tasks |-> OpenedBy'[u]]
    BY DEF OpenedBy
  <2> QED BY <2>1, <2>2, <2>3
<1>4. n \in SealedBy[t] \ OpenedBy[t]
  BY DEF SealedBy, OpenedBy, OpensOne
<1>5. Lifecycle!Open(n, t)
  BY <1>1, <1>2, <1>3, <1>4
     DEF Lifecycle!Open, Stages, SealedBy, ClosedTasks, OpenedBy
<1> QED BY <1>5 DEF Mapped, Lifecycle!LifecycleNext

\* The commit window of a task on the chain is closed.
LEMMA CloseSeen ==
  ASSUME PipelineInv, PipelineInv', NEW t \in Tasks, ClosesOne(t), Created' = Created, job' = job
  PROVE  Mapped
<1>1. Stages' = Stages
  BY StagesStay
<1>2. SealedBy' = SealedBy /\ OpenedBy' = OpenedBy
  BY DEF SealedBy, OpenedBy, ClosesOne, OthersKept
<1>3. ClosedTasks' = ClosedTasks \union {t} /\ t \notin ClosedTasks
  BY DEF ClosedTasks, ClosesOne, OthersKept
<1>4. Stages[t] # "absent"
  <2>1. Stages[t] = StageFrom(chain[t], job[t]) /\ chain[t].state # "absent"
    BY StageIs DEF Stages, ClosesOne
  <2> QED BY <2>1 DEF StageFrom
<1>5. Lifecycle!Close(t)
  BY <1>1, <1>2, <1>3, <1>4
     DEF Lifecycle!Close, Stages, SealedBy, ClosedTasks, OpenedBy
<1> QED BY <1>5 DEF Mapped, Lifecycle!LifecycleNext

\* The steps of the API process, the clock and the queue, as the lifecycle sees them.
LEMMA ApiMapped ==
  ASSUME PipelineInv, PipelineInv', NEW r \in Requests,
         postV1Verify(r) \/ postVerify(r) \/ ApiStep(r)
  PROVE  Mapped
<1>1. CASE queueVerificationJob(r)
  BY <1>1, QueueSeen
<1>2. CASE submitVerificationJob(r)
  <2>1. job' = job /\ clock \in Nat
    <3>1. clock \in Nat
      BY PipelineConstants DEF PipelineInv
    <3> QED BY <1>2, <3>1 DEF submitVerificationJob
  <2>2. ASSUME NEW t \in Tasks, NEW span \in CommitSpans, createTask(t, span) PROVE Mapped
    <3>1. CreatesOne(t)
      BY <2>1, <2>2, CreateTaskGood DEF PipelineInv
    <3> QED BY <2>1, <3>1, CreateSeen
  <2>3. chain' = chain \/ \E t \in Tasks, span \in CommitSpans : createTask(t, span)
    BY <1>2 DEF submitVerificationJob
  <2> QED BY <2>1, <2>2, <2>3, NothingSeen
<1>3. CASE chain' = chain /\ job' = job
  BY <1>3, NothingSeen
<1> QED
  BY <1>1, <1>2, <1>3 DEF ApiStep, postV1Verify, postVerify, answerV1, answerLegacy

\* The queue, the API's own worker, and whoever closes a commit window.
LEMMA QueueMapped ==
  ASSUME PipelineInv, PipelineInv', NEW t \in Tasks,
         QueueStep(t) \/ apiProcess(t) \/ openReveal(t)
  PROVE  Mapped
<1>1. CASE BackoffEnds(t) \/ Stall(t) \/ apiProcess(t)
  <2>1. JobsStep
    BY <1>1, BackoffGood, StallGood, ApiProcessGood, NodeTyped
  <2>2. chain' = chain
    BY <1>1 DEF BackoffEnds, Stall, apiProcess
  <2> QED BY <2>1, <2>2, JobsSeen DEF JobsStep
<1>2. CASE openReveal(t)
  <2>1. ClosesOne(t) /\ Created' = Created
    BY <1>2, OpenRevealGood, NodeTyped
  <2>2. job' = job
    BY <1>2 DEF openReveal
  <2> QED BY <2>1, <2>2, CloseSeen
<1> QED BY <1>1, <1>2 DEF QueueStep, StallFound, BusyTooLong

\* The steps of a node in which only a job moves.
LEMMA WorkMapped ==
  ASSUME PipelineInv, PipelineInv', NEW n \in Nodes,
         \/ evaluate(n) \/ scheduleReveal(n) \/ NodeCrash(n) \/ purgeEncryptedEvidence(n)
         \/ \E t \in Tasks : takeJob(n, t)
  PROVE  Mapped
<1>1. chain' = chain
  BY DEF evaluate, scheduleReveal, NodeCrash, purgeEncryptedEvidence, takeJob
<1>2. ASSUME NEW t \in Tasks, takeJob(n, t) PROVE Mapped
  BY <1>1, <1>2, TakeJobGood, JobsSeen, NodeTyped DEF JobsStep
<1>3. CASE NodeCrash(n) \/ purgeEncryptedEvidence(n)
  BY <1>1, <1>3, NothingSeen DEF NodeCrash, purgeEncryptedEvidence
<1>4. CASE evaluate(n) \/ scheduleReveal(n)
  <2>1. PICK t \in Tasks : t = work[n].task
    BY <1>4, NodeTyped DEF evaluate, scheduleReveal
  <2>2. \/ job' = job \/ job' = FailedBy(n, t)
        \/ \E res \in {"skipped", "sealed"} : job' = CompletedAs(n, t, res)
    BY <1>4, <2>1 DEF evaluate, scheduleReveal, Stop
  <2>3. JobsMove
    BY <2>2, FailedByGood, CompletedAsGood, NodeTyped DEF JobsStep, JobsMove
  <2> QED BY <1>1, <2>3, JobsSeen
<1> QED BY <1>2, <1>3, <1>4

\* A commitment that is mined is sealed, a reveal that is accepted opens.
LEMMA ChainMapped ==
  ASSUME PipelineInv, PipelineInv', NEW n \in Nodes,
         commitEvaluation(n) \/ \E t \in Tasks : revealEvaluationForJob(n, t)
  PROVE  Mapped
<1>1. CASE commitEvaluation(n)
  <2>1. work[n].pc # "free"
    BY <1>1 DEF commitEvaluation
  <2>2. PICK t \in Tasks : t = work[n].task
    BY <2>1, NodeTyped
  <2>3. t \in Enqueued /\ work[n].run \in Runs
    BY <2>1, <2>2, NodeTyped
  <2>4. CASE job' = FailedBy(n, t) /\ chain' = chain
    BY <2>4, FailedByGood, JobsSeen, NodeTyped DEF JobsStep
  <2>5. CASE CommitAccepted(n, t) /\ chain' = Sealed(n, t) /\ job' = job
    BY <2>3, <2>5, SealedGood, SealSeen, NodeTyped
  <2> QED BY <1>1, <2>2, <2>4, <2>5 DEF commitEvaluation
<1>2. ASSUME NEW t \in Tasks, revealEvaluationForJob(n, t) PROVE Mapped
  <2>1. job' = job
    BY <1>2 DEF revealEvaluationForJob
  <2>2. CASE chain' = chain
    BY <2>1, <2>2, NothingSeen
  <2>3. CASE RevealAccepted(n, t) /\ chain' = [chain EXCEPT ![t].opened = @ \union {n}]
    BY <2>1, <2>3, OpenedGood, OpenSeen, NodeTyped
  <2> QED BY <1>2, <2>2, <2>3 DEF revealEvaluationForJob
<1> QED BY <1>1, <1>2

\* At the start there are no tasks.
LEMMA InitMapped == PipelineInit => Lifecycle!LifecycleInit
<1> SUFFICES ASSUME PipelineInit PROVE Lifecycle!LifecycleInit
  OBVIOUS
<1>1. \A t \in Tasks : chain[t].state = "absent" /\ chain[t].opened = {}
  BY DEF PipelineInit
<1>2. \A t \in Tasks, n \in Nodes : chain[t].seal[n] = NoRun
  BY DEF PipelineInit
<1>3. Stages = [t \in Tasks |-> "absent"]
  <2>1. \A t \in Tasks : StageOf(t) = "absent"
    <3>1. PipelineInv
      BY InitPipelineInv
    <3> QED BY <1>1, <3>1, StageIs DEF StageFrom
  <2> QED BY <2>1 DEF Stages
<1>4. SealedBy = [t \in Tasks |-> {}] /\ OpenedBy = [t \in Tasks |-> {}] /\ ClosedTasks = {}
  BY <1>1, <1>2 DEF SealedBy, OpenedBy, ClosedTasks
<1> QED
  BY <1>3, <1>4 DEF Lifecycle!LifecycleInit, Stages, SealedBy, OpenedBy, ClosedTasks

\* Every step of the pipeline is a step of the lifecycle or none.
LEMMA NextMapped ==
  PipelineInv /\ PipelineInv' /\ [PipelineNext]_vars
    => [Lifecycle!LifecycleNext]_(Lifecycle!lifecycle)
<1> SUFFICES ASSUME PipelineInv, PipelineInv', [PipelineNext]_vars PROVE Mapped
  BY DEF Mapped, Seen, Lifecycle!lifecycle, Stages, SealedBy, ClosedTasks, OpenedBy
<1>1. CASE UNCHANGED vars \/ ApiCrash \/ Tick
  <2>1. chain' = chain /\ job' = job
    BY <1>1 DEF vars, ApiCrash, Tick
  <2> QED BY <2>1, NothingSeen
<1>2. ASSUME NEW r \in Requests, postV1Verify(r) \/ postVerify(r) \/ ApiStep(r)
      PROVE  Mapped
  BY <1>2, ApiMapped
<1>3. ASSUME NEW t \in Tasks, QueueStep(t) \/ apiProcess(t) \/ openReveal(t)
      PROVE  Mapped
  BY <1>3, QueueMapped
<1>4. ASSUME NEW n \in Nodes,
             \/ NodeStep(n) \/ NodeCrash(n) \/ purgeEncryptedEvidence(n)
             \/ \E t \in Tasks : takeJob(n, t) \/ revealEvaluationForJob(n, t)
      PROVE  Mapped
  BY <1>4, WorkMapped, ChainMapped DEF NodeStep
<1> QED
  BY <1>1, <1>2, <1>3, <1>4 DEF PipelineNext

\* ImplementsLifecycle: whatever stalls, is retried, lost or restarted, a task is created,
\* queued and settled once, in this order, and an evaluation is sealed and opened once.
THEOREM PipelineImplementsLifecycle == PipelineSpec => ImplementsLifecycle
<1> QED
  BY InitMapped, NextMapped, PipelineInvariant, PTL
     DEF PipelineSpec, ImplementsLifecycle, Lifecycle!LifecycleSpec
===============================================================================
