---------------------------- MODULE ServiceProofs ----------------------------
(***************************************************************************)
(* Theorems about the services.  They share no state, so each has its own  *)
(* inductive invariant, named after it, and a section of its own: what is  *)
(* kept of each record, the lemmas about one operation, then the theorem,  *)
(* for every value of the constants, about every behaviour of the service  *)
(* alone.                                                                  *)
(***************************************************************************)
EXTENDS ValidatorService, WebhookDelivery, RecordIndexer, MeteredRuntime,
        ProviderRouting, ReliableClient, ProgramRuns, DecisionGate,
        SumTheorems, SequenceTheorems

(***************************************************************************)
(* Validator service                                                       *)
(***************************************************************************)
\* What is kept of a receipt, and of the summary of a validator.
Issued == [id : Requests \X Nat, request : Requests, verdict : Verdicts, validator : Validators]

Summaries == [{"total", "PASS", "FAIL", "PARTIAL"} -> Nat]

\* The file of a validator has what its memory has, at any time between two steps.
SoundDb(d) == d.mem = d.disk

\* A poll has a list of requests there are; one that posts has a receipt in the file.
SoundPoll(p) ==
  /\ poll[p].pc \in {"idle", "loop", "verifying", "posting"}
  /\ poll[p].pc # "idle" => poll[p].queue \subseteq DOMAIN created
  /\ poll[p].pc = "verifying" => poll[p].queue # {}
  /\ poll[p].pc = "posting" =>
       LET c == poll[p].receipt IN
       /\ c \in Issued /\ c.validator = Owner[p] /\ c.id[1] = c.request
       /\ status[c.request] # "none" /\ <<c.id, c.request>> \in db[Owner[p]].mem.receipts

\* The receipts of a request, and what its status says of them.
SoundHistory(r) ==
  /\ history[r] \in Seq(Issued)
  /\ \A i \in DOMAIN history[r] :
       /\ history[r][i].request = r /\ history[r][i].id[1] = r
       /\ <<history[r][i].id, r>> \in db[history[r][i].validator].mem.receipts
  /\ history[r] # <<>> =>
       /\ status[r] # "none"
       /\ status[r] = "FAILED" <=> history[r][Len(history[r])].verdict = "FAIL"

SoundSummary(v) ==
  /\ \A answer \in Verdicts : /\ IsFiniteSet(Received(v, answer))
                               /\ summary[v][answer] = Cardinality(Received(v, answer))
  /\ summary[v].total = summary[v].PASS + summary[v].FAIL + summary[v].PARTIAL

ValidatorInv ==
  /\ created \in Seq(Requests) /\ \A i \in DOMAIN created : status[created[i]] # "none"
  /\ DOMAIN status = Requests /\ DOMAIN history = Requests /\ now \in Nat
  /\ summary \in [Validators -> Summaries]
  /\ DOMAIN db = Validators /\ DOMAIN poll = Polls
  /\ \A v \in Validators : SoundDb(db[v]) /\ SoundSummary(v)
  /\ \A p \in Polls : SoundPoll(p)
  /\ \A r \in Requests : SoundHistory(r)

\* A plugin gives one of the three verdicts (the plugins' verify).
LEMMA VerdictsAreVerdicts ==
  ASSUME NEW r \in Requests
  PROVE  runVerification(r) \subseteq Verdicts
<1>1. \A total, n : scoreFromMatches(total, n) \in Verdicts
  BY DEF scoreFromMatches, Verdicts
<1>2. deterministicVerdicts(r) \subseteq Verdicts
  <2> SUFFICES ASSUME NEW x \in deterministicVerdicts(r) PROVE x \in Verdicts
    OBVIOUS
  <2> DEFINE total == IF Expected[r] = 0 THEN 1 ELSE Expected[r]
             answer(run, n) == IF run = "exit 0" THEN scoreFromMatches(total, n) ELSE "FAIL"
  <2>1. deterministicVerdicts(r) = {answer(run, n) : run \in runCommand, n \in Matched(r)}
    BY DEF deterministicVerdicts, runCommand
  <2>2. \A run, n : answer(run, n) \in Verdicts
    BY <1>1 DEF Verdicts
  <2> HIDE DEF answer
  <2> QED BY <2>1, <2>2
<1>3. testSuiteVerdicts \subseteq Verdicts
  <2> SUFFICES ASSUME NEW x \in testSuiteVerdicts PROVE x \in Verdicts
    OBVIOUS
  <2> DEFINE answer(run, same) == IF run = "exit 0" /\ same = "same" THEN "PASS" ELSE "FAIL"
  <2>1. testSuiteVerdicts =
          {answer(run, artifacts) : run \in runCommand, artifacts \in hashArtifacts}
    BY DEF testSuiteVerdicts, runCommand, hashArtifacts
  <2>2. \A run, same : answer(run, same) \in Verdicts
    BY DEF Verdicts
  <2> HIDE DEF answer
  <2> QED BY <2>1, <2>2
<1>4. teeOrZkVerdicts \subseteq Verdicts
  BY DEF teeOrZkVerdicts, Verdicts
<1>5. Plugin[r] \in {"deterministic", "test-suite", "tee_or_zk"}
  BY ValidatorAssumption
<1> QED
  BY <1>2, <1>3, <1>4, <1>5 DEF runVerification

\* The request a poll has come to is one of its list (the loop of pollOnce).
LEMMA FirstIsListed ==
  ASSUME NEW queue, queue \subseteq DOMAIN created, queue # {}, created \in Seq(Requests)
  PROVE  \E i \in queue : First(queue) = created[i]
<1>1. queue \subseteq Nat
  OBVIOUS
<1>2. PICK n \in queue : \A m \in queue : ~(m < n)
  BY <1>1, LeastNatural
<1>3. \A m \in queue : n <= m
  BY <1>1, <1>2
<1>4. (CHOOSE i \in queue : \A j \in queue : i <= j) \in queue
  BY <1>3
<1> QED
  BY <1>4 DEF First

\* A receipt the validator writes replaces none of another request (storeReceipt).
LEMMA PersistedKeeps ==
  ASSUME NEW d, SoundDb(d), NEW r, NEW id, id[1] = r
  PROVE  /\ SoundDb(Persisted(d, r, id))
         /\ <<id, r>> \in Persisted(d, r, id).mem.receipts
         /\ \A x, y : x[1] = y /\ <<x, y>> \in d.mem.receipts =>
                      <<x, y>> \in Persisted(d, r, id).mem.receipts
BY DEF Persisted, SoundDb

\* What the file has of a receipt stays when other receipts and requests come.
LEMMA HistoryStays ==
  ASSUME ValidatorInv, NEW r \in Requests, history' = history,
         status'[r] = status[r],
         \A v \in Validators : \A x, y : x[1] = y /\ <<x, y>> \in db[v].mem.receipts =>
                                  <<x, y>> \in db'[v].mem.receipts
  PROVE  SoundHistory(r)'
<1>1. SoundHistory(r)
  BY DEF ValidatorInv
<1>2. \A i \in DOMAIN history[r] : history[r][i].validator \in Validators
  <2>1. \A i \in DOMAIN history[r] : history[r][i] \in Issued
    BY <1>1 DEF SoundHistory
  <2> QED BY <2>1 DEF Issued
<1> QED
  BY <1>1, <1>2 DEF SoundHistory

\* The summaries are of the receipts alone.
LEMMA SummariesStay ==
  ASSUME ValidatorInv, NEW v \in Validators, summary' = summary, history' = history
  PROVE  SoundSummary(v)'
<1>1. \A answer : Received(v, answer)' = Received(v, answer)
  BY DEF Received
<1> QED
  BY <1>1 DEF ValidatorInv, SoundSummary

\* A request is created once, and none had a receipt before.
LEMMA CreateIsKept ==
  ASSUME ValidatorInv, NEW r \in Requests, createValidationRequest(r)
  PROVE  ValidatorInv'
<1>1. /\ status[r] = "none" /\ status' = [status EXCEPT ![r] = "PENDING"]
      /\ created' = Append(created, r) /\ UNCHANGED <<history, summary, db, poll, now>>
  BY DEF createValidationRequest
<1>2. /\ created' \in Seq(Requests) /\ DOMAIN created \subseteq DOMAIN created'
      /\ \A i \in DOMAIN created : created'[i] = created[i]
      /\ \A i \in DOMAIN created' : i \in DOMAIN created \/ created'[i] = r
  BY <1>1 DEF ValidatorInv
<1>3. /\ DOMAIN status' = Requests /\ status'[r] = "PENDING"
      /\ \A q \in Requests : q # r => status'[q] = status[q]
      /\ \A q \in Requests : status[q] # "none" => status'[q] = status[q]
  BY <1>1 DEF ValidatorInv
<1>4. \A i \in DOMAIN created' : status'[created'[i]] # "none"
  BY <1>2, <1>3 DEF ValidatorInv
<1>5. \A q \in Requests : SoundHistory(q)'
  <2> SUFFICES ASSUME NEW q \in Requests PROVE SoundHistory(q)'
    OBVIOUS
  <2>1. CASE q # r
    BY <1>1, <1>3, <2>1, HistoryStays
  <2>2. CASE q = r
    <3>1. history[r] = <<>>
      BY <1>1 DEF ValidatorInv, SoundHistory
    <3> QED BY <1>1, <2>2, <3>1 DEF SoundHistory
  <2> QED BY <2>1, <2>2
<1>6. \A p \in Polls : SoundPoll(p)'
  <2> SUFFICES ASSUME NEW p \in Polls PROVE SoundPoll(p)'
    OBVIOUS
  <2>1. SoundPoll(p)
    BY DEF ValidatorInv
  <2>2. poll[p].pc = "posting" => poll[p].receipt.request \in Requests
    BY <2>1 DEF SoundPoll, Issued
  <2> QED BY <1>1, <1>2, <1>3, <2>1, <2>2 DEF SoundPoll
<1>7. \A v \in Validators : SoundSummary(v)'
  BY <1>1, SummariesStay
<1> QED
  BY <1>1, <1>2, <1>3, <1>4, <1>5, <1>6, <1>7 DEF ValidatorInv

\* A step of a poll that neither writes nor posts.
LEMMA PollStepKeeps ==
  ASSUME ValidatorInv, NEW p \in Polls, NEW x, poll' = [poll EXCEPT ![p] = x], SoundPoll(p)',
         UNCHANGED <<created, status, history, summary, db, now>>
  PROVE  ValidatorInv'
<1>1. \A q \in Polls : SoundPoll(q)'
  <2> SUFFICES ASSUME NEW q \in Polls, q # p PROVE SoundPoll(q)'
    OBVIOUS
  <2>1. poll'[q] = poll[q] /\ SoundPoll(q)
    BY DEF ValidatorInv
  <2> QED BY <2>1 DEF SoundPoll
<1>2. DOMAIN poll' = Polls
  BY DEF ValidatorInv
<1>3. \A r \in Requests : SoundHistory(r)'
  BY HistoryStays
<1>4. \A v \in Validators : SoundSummary(v)'
  BY SummariesStay
<1> QED
  BY <1>1, <1>2, <1>3, <1>4 DEF ValidatorInv

\* A poll that ends, or has come to the end of its list.
LEMMA IdleKeeps ==
  ASSUME ValidatorInv, NEW p \in Polls, poll' = [poll EXCEPT ![p] = Idle],
         UNCHANGED <<created, status, history, summary, db, now>>
  PROVE  ValidatorInv'
<1>1. poll'[p] = Idle
  BY DEF ValidatorInv
<1>2. poll'[p].pc = "idle"
  BY <1>1 DEF Idle
<1>3. SoundPoll(p)'
  BY <1>2 DEF SoundPoll
<1> QED
  BY <1>3, PollStepKeeps

\* The list is of requests there are.
LEMMA FetchIsKept ==
  ASSUME ValidatorInv, NEW p \in Polls, fetchPendingRequests(p)
  PROVE  ValidatorInv'
<1>1. PICK x : x = [pc |-> "loop", queue |-> PendingRequests]
  OBVIOUS
<1>2. /\ poll' = [poll EXCEPT ![p] = x]
      /\ UNCHANGED <<created, status, history, summary, db, now>>
  BY <1>1 DEF fetchPendingRequests
<1>3. poll'[p] = x
  BY <1>2 DEF ValidatorInv
<1>4. PendingRequests \subseteq DOMAIN created
  BY DEF PendingRequests
<1>5. SoundPoll(p)'
  BY <1>1, <1>2, <1>3, <1>4 DEF SoundPoll
<1> QED
  BY <1>2, <1>5, PollStepKeeps

\* The processed ones of the list are left out; what is handed to a plugin is not processed.
LEMMA NextIsKept ==
  ASSUME ValidatorInv, NEW p \in Polls, nextRequest(p)
  PROVE  /\ ValidatorInv'
         /\ poll'[p].pc = "verifying" =>
              First(poll'[p].queue) \notin db[Owner[p]].disk.processed
<1> DEFINE left == {i \in poll[p].queue : ~isProcessed(Owner[p], created[i])}
<1>1. UNCHANGED <<created, status, history, summary, db, now>> /\ poll[p].pc = "loop"
  BY DEF nextRequest
<1>2. left \subseteq DOMAIN created
  BY <1>1 DEF ValidatorInv, SoundPoll
<1>3. CASE left = {}
  <2>1. poll' = [poll EXCEPT ![p] = Idle]
    BY <1>3 DEF nextRequest
  <2>2. poll'[p].pc # "verifying"
    BY <2>1 DEF ValidatorInv, Idle
  <2> QED BY <1>1, <2>1, <2>2, IdleKeeps
<1>4. CASE left # {}
  <2>1. PICK x : x = [pc |-> "verifying", queue |-> left]
    OBVIOUS
  <2>2. poll' = [poll EXCEPT ![p] = x]
    BY <1>4, <2>1 DEF nextRequest
  <2>3. poll'[p] = x
    BY <2>2 DEF ValidatorInv
  <2>4. x.pc = "verifying" /\ x.queue = left
    BY <2>1
  <2> HIDE DEF left
  <2>5. SoundPoll(p)'
    BY <1>1, <1>2, <1>4, <2>3, <2>4 DEF SoundPoll
  <2>6. ValidatorInv'
    BY <1>1, <2>2, <2>5, PollStepKeeps
  <2>7. PICK i \in left : First(left) = created[i]
    BY <1>2, <1>4, FirstIsListed DEF ValidatorInv
  <2>8. First(left) \notin db[Owner[p]].mem.processed
    BY <2>7 DEF left, isProcessed
  <2>9. db[Owner[p]].mem = db[Owner[p]].disk
    BY ValidatorAssumption DEF ValidatorInv, SoundDb
  <2>10. First(poll'[p].queue) = First(left)
    BY <1>1, <2>3, <2>4 DEF First
  <2> QED BY <2>6, <2>8, <2>9, <2>10
<1> QED
  BY <1>3, <1>4

\* The answer of a plugin is in the file before it is posted.
LEMMA VerifyIsKept ==
  ASSUME ValidatorInv, NEW p \in Polls, verificationEnds(p)
  PROVE  ValidatorInv' /\ poll'[p].pc = "posting"
<1> DEFINE v == Owner[p]
           r == First(poll[p].queue)
           id == <<r, now>>
<1>1. poll[p].pc = "verifying" /\ UNCHANGED <<created, status, history, summary, now>>
  BY DEF verificationEnds
<1>2. v \in Validators
  BY ValidatorAssumption
<1>3. SoundPoll(p) /\ created \in Seq(Requests)
  BY DEF ValidatorInv
<1>4. PICK i \in poll[p].queue : r = created[i]
  BY <1>1, <1>3, FirstIsListed DEF SoundPoll
<1>5. i \in DOMAIN created
  BY <1>1, <1>3, <1>4 DEF SoundPoll
<1>6. r \in Requests /\ status[r] # "none"
  BY <1>3, <1>4, <1>5 DEF ValidatorInv
<1>7. PICK answer \in runVerification(r) :
        /\ db' = [db EXCEPT ![v] = Persisted(db[v], r, id)]
        /\ poll' = [poll EXCEPT ![p] =
             [pc |-> "posting", queue |-> {j \in poll[p].queue : created[j] # r},
              receipt |-> [id |-> id, request |-> r, verdict |-> answer, validator |-> v]]]
  BY DEF verificationEnds
<1>8. id \in Requests \X Nat /\ id[1] = r
  BY <1>6 DEF ValidatorInv
<1> HIDE DEF v, r, id
<1>9. PICK c : c = [id |-> id, request |-> r, verdict |-> answer, validator |-> v]
  OBVIOUS
<1>10. c \in Issued
  BY <1>2, <1>6, <1>7, <1>8, <1>9, VerdictsAreVerdicts DEF Issued
<1>11. c.request = r /\ c.id = id /\ c.validator = v
  BY <1>9
<1>12. PICK x : x = [pc |-> "posting", queue |-> {j \in poll[p].queue : created[j] # r},
                    receipt |-> c]
  OBVIOUS
<1>13. x.pc = "posting" /\ x.receipt = c /\ x.queue \subseteq poll[p].queue
  BY <1>12
<1>14. poll'[p] = x /\ DOMAIN poll' = Polls /\ \A q \in Polls : q # p => poll'[q] = poll[q]
  BY <1>7, <1>9, <1>12 DEF ValidatorInv
<1>15. SoundDb(db[v])
  BY <1>2 DEF ValidatorInv
<1>16. /\ SoundDb(Persisted(db[v], r, id))
       /\ <<id, r>> \in Persisted(db[v], r, id).mem.receipts
       /\ \A a, b : a[1] = b /\ <<a, b>> \in db[v].mem.receipts =>
                      <<a, b>> \in Persisted(db[v], r, id).mem.receipts
  BY <1>8, <1>15, PersistedKeeps
<1>17. /\ DOMAIN db' = Validators /\ db'[v] = Persisted(db[v], r, id)
       /\ \A w \in Validators : w # v => db'[w] = db[w]
  BY <1>2, <1>7 DEF ValidatorInv
<1>18. \A w \in Validators : \A a, b : a[1] = b /\ <<a, b>> \in db[w].mem.receipts =>
                                       <<a, b>> \in db'[w].mem.receipts
  BY <1>16, <1>17
<1>19. \A w \in Validators : SoundDb(db'[w])
  BY <1>16, <1>17 DEF ValidatorInv
<1>20. \A q \in Requests : SoundHistory(q)'
  BY <1>1, <1>18, HistoryStays
<1>21. \A w \in Validators : SoundSummary(w)'
  BY <1>1, SummariesStay
<1>22. SoundPoll(p)'
  <2>1. v = Owner[p]
    BY DEF v
  <2>2. <<c.id, c.request>> \in db'[Owner[p]].mem.receipts
    BY <1>11, <1>16, <1>17, <2>1
  <2> QED BY <1>1, <1>3, <1>6, <1>8, <1>10, <1>11, <1>13, <1>14, <2>1, <2>2 DEF SoundPoll
<1>23. ASSUME NEW q \in Polls, q # p
       PROVE  SoundPoll(q)'
  <2>1. SoundPoll(q) /\ poll'[q] = poll[q] /\ Owner[q] \in Validators
    BY <1>14, <1>23, ValidatorAssumption DEF ValidatorInv
  <2> QED BY <1>1, <1>18, <2>1 DEF SoundPoll
<1> QED
  BY <1>1, <1>13, <1>14, <1>17, <1>19, <1>20, <1>21, <1>22, <1>23 DEF ValidatorInv

\* One more receipt of a request is counted once (recordValidationReceipt).
LEMMA ReceiptCounted ==
  ASSUME ValidatorInv, NEW c \in Issued, c.id[1] = c.request, recordValidationReceipt(c),
         <<c.id, c.request>> \in db[c.validator].mem.receipts, db' = db
  PROVE  /\ DOMAIN status' = Requests /\ DOMAIN history' = Requests
         /\ summary' \in [Validators -> Summaries]
         /\ \A r \in Requests : SoundHistory(r)'
         /\ \A v \in Validators : SoundSummary(v)'
         /\ \A r \in Requests : status[r] # "none" => status'[r] # "none"
<1> DEFINE q == c.request
           w == c.validator
           n == Len(history[q]) + 1
<1>1. q \in Requests /\ w \in Validators /\ c.verdict \in Verdicts
  BY DEF Issued
<1>2. SoundHistory(q) /\ Len(history[q]) \in Nat
  <2>1. SoundHistory(q)
    BY <1>1 DEF ValidatorInv
  <2>2. history[q] \in Seq(Issued)
    BY <2>1 DEF SoundHistory
  <2> QED BY <2>1, <2>2
<1>3. /\ DOMAIN history' = Requests /\ history'[q] = Append(history[q], c)
      /\ \A r \in Requests : r # q => history'[r] = history[r]
  BY <1>1 DEF recordValidationReceipt, ValidatorInv
<1>4. /\ DOMAIN history'[q] = 1 .. n /\ DOMAIN history[q] = 1 .. n - 1
      /\ history'[q][n] = c /\ Len(history'[q]) = n /\ n \in Nat \ {0}
      /\ \A i \in 1 .. n - 1 : history'[q][i] = history[q][i]
      /\ history'[q] \in Seq(Issued)
  BY <1>2, <1>3 DEF SoundHistory
<1>5. /\ DOMAIN status' = Requests
      /\ status'[q] = IF c.verdict = "FAIL" THEN "FAILED" ELSE "COMPLETED"
      /\ \A r \in Requests : r # q => status'[r] = status[r]
  BY <1>1 DEF recordValidationReceipt, ValidatorInv
<1>6. SoundHistory(q)'
  <2>1. \A i \in 1 .. n : /\ history'[q][i].request = q /\ history'[q][i].id[1] = q
                          /\ <<history'[q][i].id, q>> \in db[history'[q][i].validator].mem.receipts
    <3> SUFFICES ASSUME NEW i \in 1 .. n
                 PROVE  /\ history'[q][i].request = q /\ history'[q][i].id[1] = q
                        /\ <<history'[q][i].id, q>> \in db[history'[q][i].validator].mem.receipts
      OBVIOUS
    <3>1. CASE i = n
      BY <1>4, <3>1
    <3>2. CASE i # n
      <4>1. i \in DOMAIN history[q] /\ history'[q][i] = history[q][i]
        BY <1>2, <1>4, <3>2
      <4> HIDE DEF q, n
      <4> QED BY <1>2, <4>1 DEF SoundHistory
    <3> QED BY <3>1, <3>2
  <2> QED BY <1>4, <1>5, <2>1 DEF SoundHistory
<1>7. \A r \in Requests : SoundHistory(r)'
  <2> SUFFICES ASSUME NEW r \in Requests, r # q PROVE SoundHistory(r)'
    BY <1>6
  <2>1. SoundHistory(r) /\ history'[r] = history[r] /\ status'[r] = status[r]
    BY <1>3, <1>5 DEF ValidatorInv
  <2> QED BY <2>1 DEF SoundHistory
<1>8. \A v, answer : Received(v, answer)' =
        IF v = w /\ answer = c.verdict THEN Received(v, answer) \union {<<q, n>>}
        ELSE Received(v, answer)
  <2> HIDE DEF q, w, n
  <2>1. c.validator = w
    BY DEF w
  <2> SUFFICES ASSUME NEW v, NEW answer, NEW x
               PROVE  x \in Received(v, answer)' <=>
                        \/ x \in Received(v, answer)
                        \/ (v = w /\ answer = c.verdict /\ x = <<q, n>>)
    OBVIOUS
  <2>2. ASSUME NEW r \in Requests, NEW i, i \in DOMAIN history[r]
        PROVE  i \in DOMAIN history'[r] /\ history'[r][i] = history[r][i]
    BY <1>3, <1>4, <2>2
  <2>3. ASSUME NEW r \in Requests, NEW i, i \in DOMAIN history'[r]
        PROVE  i \in DOMAIN history[r] \/ (r = q /\ i = n)
    BY <1>3, <1>4, <2>3
  <2>4. n \in DOMAIN history'[q] /\ history'[q][n] = c
    BY <1>4
  <2>5. \A r, i : <<r, i>> \in Received(v, answer) <=>
           /\ r \in Requests /\ i \in DOMAIN history[r]
           /\ history[r][i].validator = v /\ history[r][i].verdict = answer
    BY DEF Received
  <2>6. \A r, i : <<r, i>> \in Received(v, answer)' <=>
           /\ r \in Requests /\ i \in DOMAIN history'[r]
           /\ history'[r][i].validator = v /\ history'[r][i].verdict = answer
    BY DEF Received
  <2>7. \A y \in Received(v, answer) \union Received(v, answer)' : y = <<y[1], y[2]>>
    BY DEF Received
  <2>8. <<q, n>> \notin Received(v, answer)
    BY <1>4, <2>5
  <2> QED BY <1>1, <2>1, <2>2, <2>3, <2>4, <2>5, <2>6, <2>7 DEF q
<1>9. \A v, answer : <<q, n>> \notin Received(v, answer)
  BY <1>4 DEF Received
<1>10. /\ summary' \in [Validators -> Summaries]
       /\ summary'[w].total = summary[w].total + 1
       /\ summary'[w][c.verdict] = summary[w][c.verdict] + 1
       /\ \A answer \in Verdicts : answer # c.verdict => summary'[w][answer] = summary[w][answer]
       /\ \A v \in Validators : v # w => summary'[v] = summary[v]
  <2>1. PICK s : s = summary[w]
    OBVIOUS
  <2>2. s \in Summaries
    BY <1>1, <2>1 DEF ValidatorInv
  <2>3. PICK t : t = [s EXCEPT !.total = s.total + 1]
    OBVIOUS
  <2>4. t \in Summaries /\ t.total = s.total + 1 /\ \A answer \in Verdicts : t[answer] = s[answer]
    BY <2>2, <2>3 DEF Summaries, Verdicts
  <2>5. PICK u : u = [t EXCEPT ![c.verdict] = s[c.verdict] + 1]
    OBVIOUS
  <2>6. /\ u \in Summaries /\ u.total = s.total + 1 /\ u[c.verdict] = s[c.verdict] + 1
        /\ \A answer \in Verdicts : answer # c.verdict => u[answer] = s[answer]
    BY <1>1, <2>4, <2>5 DEF Summaries, Verdicts
  <2>7. summary' = [summary EXCEPT ![w] = u]
    <3> DEFINE half == [summary EXCEPT ![w] = t]
    <3>1. half[w] = t
      BY <1>1 DEF ValidatorInv
    <3>2. summary' = [half EXCEPT ![w] = [half[w] EXCEPT ![c.verdict] = s[c.verdict] + 1]]
      BY <2>1, <2>3 DEF recordValidationReceipt
    <3>3. [half EXCEPT ![w] = u] = [summary EXCEPT ![w] = u]
      BY <1>1 DEF ValidatorInv
    <3> HIDE DEF half
    <3> QED BY <2>5, <3>1, <3>2, <3>3
  <2> QED BY <1>1, <2>1, <2>6, <2>7 DEF ValidatorInv
<1>11. \A v \in Validators : SoundSummary(v)'
  <2> HIDE DEF q, w, n
  <2> SUFFICES ASSUME NEW v \in Validators PROVE SoundSummary(v)'
    OBVIOUS
  <2>1. SoundSummary(v)
    BY DEF ValidatorInv
  <2>2. CASE v # w
    BY <1>8, <1>10, <2>1, <2>2 DEF SoundSummary
  <2>3. CASE v = w
    <3>1. \A answer \in Verdicts :
            /\ IsFiniteSet(Received(w, answer)')
            /\ summary'[w][answer] = Cardinality(Received(w, answer)')
      <4> SUFFICES ASSUME NEW answer \in Verdicts
                   PROVE  /\ IsFiniteSet(Received(w, answer)')
                          /\ summary'[w][answer] = Cardinality(Received(w, answer)')
        OBVIOUS
      <4>1. /\ IsFiniteSet(Received(w, answer))
            /\ summary[w][answer] = Cardinality(Received(w, answer))
        BY <2>1, <2>3 DEF SoundSummary
      <4>2. CASE answer = c.verdict
        <5>1. Received(w, answer)' = Received(w, answer) \union {<<q, n>>}
          BY <1>8, <4>2
        <5>2. <<q, n>> \notin Received(w, answer)
          BY <1>9
        <5> DEFINE R == Received(w, answer)
        <5>3. /\ IsFiniteSet(R \union {<<q, n>>})
              /\ Cardinality(R \union {<<q, n>>}) = Cardinality(R) + 1
          <6> HIDE DEF R
          <6> QED BY <4>1, <5>2, FS_AddElement DEF R
        <5>4. /\ IsFiniteSet(Received(w, answer)')
              /\ Cardinality(Received(w, answer)') = Cardinality(Received(w, answer)) + 1
          BY <5>1, <5>3
        <5> QED BY <1>10, <4>1, <4>2, <5>4
      <4>3. CASE answer # c.verdict
        BY <1>8, <1>10, <4>1, <4>3
      <4> QED BY <4>2, <4>3
    <3>2. summary'[w].total = summary'[w].PASS + summary'[w].FAIL + summary'[w].PARTIAL
      <4>1. summary[w].total = summary[w].PASS + summary[w].FAIL + summary[w].PARTIAL
        BY <2>1, <2>3 DEF SoundSummary
      <4>2. summary[w] \in Summaries
        BY <1>1 DEF ValidatorInv
      <4> QED BY <1>1, <1>10, <4>1, <4>2 DEF Verdicts, Summaries
    <3> QED BY <2>3, <3>1, <3>2 DEF SoundSummary
  <2> QED BY <2>2, <2>3
<1> QED
  BY <1>3, <1>5, <1>7, <1>10, <1>11

\* The API keeps a receipt, and its answer arrives or not.
LEMMA PostIsKept ==
  ASSUME ValidatorInv, NEW p \in Polls, postReceipt(p)
  PROVE  ValidatorInv' /\ poll'[p].pc # "verifying"
<1>1. poll[p].pc = "posting" /\ UNCHANGED <<created, db, now>>
  BY DEF postReceipt
<1>2. PICK c : c = poll[p].receipt
  OBVIOUS
<1>3. SoundPoll(p)
  BY DEF ValidatorInv
<1>4. /\ c \in Issued /\ c.id[1] = c.request
      /\ <<c.id, c.request>> \in db[c.validator].mem.receipts
      /\ recordValidationReceipt(c)
  BY <1>1, <1>2, <1>3 DEF postReceipt, SoundPoll
<1>5. /\ DOMAIN status' = Requests /\ DOMAIN history' = Requests
      /\ summary' \in [Validators -> Summaries]
      /\ \A r \in Requests : SoundHistory(r)'
      /\ \A v \in Validators : SoundSummary(v)'
      /\ \A r \in Requests : status[r] # "none" => status'[r] # "none"
  BY <1>1, <1>4, ReceiptCounted
<1>6. PICK x : x = [pc |-> "loop", queue |-> poll[p].queue]
  OBVIOUS
<1>7. poll' = [poll EXCEPT ![p] = x] \/ poll' = [poll EXCEPT ![p] = Idle]
  BY <1>6 DEF postReceipt
<1>8. /\ DOMAIN poll' = Polls
      /\ poll'[p] = x \/ poll'[p] = Idle
      /\ \A q \in Polls : q # p => poll'[q] = poll[q]
  BY <1>7 DEF ValidatorInv
<1>9. /\ poll'[p].pc \in {"idle", "loop"}
      /\ poll'[p].pc = "loop" => poll'[p].queue = poll[p].queue
  BY <1>6, <1>8 DEF Idle
<1>10. SoundPoll(p)'
  BY <1>1, <1>3, <1>9 DEF SoundPoll
<1>11. ASSUME NEW q \in Polls, q # p
       PROVE  SoundPoll(q)'
  <2>1. SoundPoll(q) /\ poll'[q] = poll[q]
    BY <1>8, <1>11 DEF ValidatorInv
  <2>2. poll[q].pc = "posting" => poll[q].receipt.request \in Requests
    BY <2>1 DEF SoundPoll, Issued
  <2> QED BY <1>1, <1>5, <2>1, <2>2 DEF SoundPoll
<1>12. \A i \in DOMAIN created : created[i] \in Requests
  BY DEF ValidatorInv
<1> QED
  BY <1>1, <1>5, <1>8, <1>9, <1>10, <1>11, <1>12 DEF ValidatorInv

\* A restart reads what the file has, which is what memory had.
LEMMA RestartIsKept ==
  ASSUME ValidatorInv, NEW v \in Validators, restartValidator(v)
  PROVE  ValidatorInv' /\ \A p \in Polls : poll'[p] = Idle \/ poll'[p] = poll[p]
<1>1. UNCHANGED <<created, status, history, summary, now>>
      /\ poll' = [p \in Polls |-> IF Owner[p] = v THEN Idle ELSE poll[p]]
  BY DEF restartValidator
<1>2. PICK d : d = [db[v] EXCEPT !.mem = db[v].disk]
  OBVIOUS
<1>3. db' = [db EXCEPT ![v] = d]
  BY <1>2 DEF restartValidator
<1>4. SoundDb(db[v])
  BY DEF ValidatorInv
<1>5. d.mem = db[v].mem /\ SoundDb(d)
  BY <1>2, <1>4 DEF SoundDb
<1>6. DOMAIN db' = Validators
      /\ \A w \in Validators : db'[w].mem = db[w].mem /\ SoundDb(db'[w])
  BY <1>3, <1>5 DEF ValidatorInv
<1>7. \A r \in Requests : SoundHistory(r)'
  BY <1>1, <1>6, HistoryStays
<1>8. \A w \in Validators : SoundSummary(w)'
  BY <1>1, SummariesStay
<1>9. ASSUME NEW p \in Polls
      PROVE  SoundPoll(p)'
  <2>1. SoundPoll(p) /\ Owner[p] \in Validators
    BY ValidatorAssumption DEF ValidatorInv
  <2>2. CASE poll'[p] = poll[p]
    BY <1>1, <1>6, <2>1, <2>2 DEF SoundPoll
  <2>3. CASE poll'[p] = Idle
    <3>1. poll'[p].pc = "idle"
      BY <2>3 DEF Idle
    <3> QED BY <3>1 DEF SoundPoll
  <2> QED BY <1>1, <2>2, <2>3
<1>10. DOMAIN poll' = Polls /\ \A p \in Polls : poll'[p] = Idle \/ poll'[p] = poll[p]
  BY <1>1
<1> QED
  BY <1>1, <1>6, <1>7, <1>8, <1>9, <1>10 DEF ValidatorInv

\* Time passes.
LEMMA TimeIsKept ==
  ASSUME ValidatorInv, UNCHANGED <<created, status, history, summary, db, poll>>, now' \in Nat
  PROVE  ValidatorInv'
<1>1. \A r \in Requests : SoundHistory(r)'
  BY HistoryStays
<1>2. \A v \in Validators : SoundSummary(v)'
  BY SummariesStay
<1>3. \A p \in Polls : SoundPoll(p)'
  BY DEF ValidatorInv, SoundPoll
<1> QED
  BY <1>1, <1>2, <1>3 DEF ValidatorInv

\* The API and the validators start empty.
LEMMA ValidatorInvInit == ValidatorInit => ValidatorInv
<1> SUFFICES ASSUME ValidatorInit PROVE ValidatorInv
  OBVIOUS
<1>1. \A v \in Validators : SoundDb(db[v])
  BY DEF ValidatorInit, SoundDb
<1>2. \A p \in Polls : SoundPoll(p)
  BY DEF ValidatorInit, SoundPoll, Idle
<1>3. \A r \in Requests : SoundHistory(r)
  BY DEF ValidatorInit, SoundHistory
<1>4. /\ NoSummary \in Summaries /\ NoSummary.total = 0 /\ NoSummary.PASS = 0
      /\ NoSummary.FAIL = 0 /\ NoSummary.PARTIAL = 0
      /\ \A answer \in Verdicts : NoSummary[answer] = 0
  BY DEF NoSummary, Summaries, Verdicts
<1>5. \A v, answer : Received(v, answer) = {}
  BY DEF ValidatorInit, Received
<1>6. \A v \in Validators : SoundSummary(v)
  <2> SUFFICES ASSUME NEW v \in Validators PROVE SoundSummary(v)
    OBVIOUS
  <2>1. summary[v] = NoSummary
    BY DEF ValidatorInit
  <2>2. \A answer \in Verdicts : IsFiniteSet(Received(v, answer))
                                 /\ Cardinality(Received(v, answer)) = 0
    BY <1>5, FS_EmptySet
  <2> QED BY <1>4, <2>1, <2>2 DEF SoundSummary
<1>7. summary \in [Validators -> Summaries]
  BY <1>4 DEF ValidatorInit
<1> QED
  BY <1>1, <1>2, <1>3, <1>6, <1>7 DEF ValidatorInit, ValidatorInv

\* Every step keeps what is known of receipts, and hands only fresh requests to a plugin.
LEMMA ValidatorInvStep ==
  ASSUME ValidatorInv, [ValidatorNext]_validatorVars
  PROVE  /\ ValidatorInv'
         /\ \A p \in Polls : poll'[p].pc = "verifying" /\ poll[p].pc # "verifying" =>
              First(poll'[p].queue) \notin db[Owner[p]].disk.processed
<1> DEFINE NotProcessed(p) == poll'[p].pc = "verifying" /\ poll[p].pc # "verifying" =>
                         First(poll'[p].queue) \notin db[Owner[p]].disk.processed
<1>1. CASE UNCHANGED validatorVars
  BY <1>1, TimeIsKept DEF validatorVars, ValidatorInv
<1>2. CASE millisecond
  <2>1. now' \in Nat /\ UNCHANGED <<created, status, history, summary, db, poll>>
    BY <1>2 DEF millisecond, ValidatorInv
  <2> QED BY <2>1, TimeIsKept
<1>3. CASE \E r \in Requests : createValidationRequest(r)
  <2>1. poll' = poll
    BY <1>3 DEF createValidationRequest
  <2> QED BY <1>3, <2>1, CreateIsKept
<1>4. CASE \E v \in Validators : restartValidator(v)
  <2>1. Idle.pc # "verifying"
    BY DEF Idle
  <2> QED BY <1>4, <2>1, RestartIsKept
<1>5. ASSUME NEW p \in Polls, PollStep(p)
      PROVE  ValidatorInv' /\ \A q \in Polls : NotProcessed(q)
  <2>1. \A q \in Polls : q # p => poll'[q] = poll[q]
    BY <1>5 DEF PollStep, fetchPendingRequests, nextRequest, verificationEnds, pollFails,
                postReceipt, ValidatorInv
  <2>2. CASE fetchPendingRequests(p)
    <3>1. poll'[p].pc # "verifying"
      BY <2>2 DEF fetchPendingRequests, ValidatorInv
    <3> QED BY <2>1, <2>2, <3>1, FetchIsKept
  <2>3. CASE nextRequest(p)
    BY <2>1, <2>3, NextIsKept
  <2>4. CASE verificationEnds(p)
    BY <2>1, <2>4, VerifyIsKept
  <2>5. CASE pollFails(p)
    <3>1. poll' = [poll EXCEPT ![p] = Idle]
          /\ UNCHANGED <<created, status, history, summary, db, now>>
      BY <2>5 DEF pollFails
    <3>2. poll'[p].pc # "verifying"
      BY <3>1 DEF ValidatorInv, Idle
    <3> QED BY <2>1, <3>1, <3>2, IdleKeeps
  <2>6. CASE postReceipt(p)
    BY <2>1, <2>6, PostIsKept
  <2> QED BY <1>5, <2>2, <2>3, <2>4, <2>5, <2>6 DEF PollStep
<1> QED
  BY <1>1, <1>2, <1>3, <1>4, <1>5 DEF ValidatorNext

\* Whatever polls overlap, answers get lost and services restart, a receipt the API holds is
\* in the file of its validator, and statuses and summaries are those of the receipts
\* (recordValidationReceipt, pollOnce, initializeDb).
THEOREM ReceiptsAreKept == ValidatorInit /\ [][ValidatorNext]_validatorVars => []HistoryIsKept
<1>1. ValidatorInv /\ [ValidatorNext]_validatorVars => ValidatorInv'
  BY ValidatorInvStep
<1>2. ValidatorInv => HistoryIsKept
  <2> SUFFICES ASSUME ValidatorInv PROVE HistoryIsKept
    OBVIOUS
  <2>1. ReceiptsResolve
    BY DEF ValidatorInv, SoundHistory, ReceiptsResolve
  <2>2. SummariesAddUp
    BY DEF ValidatorInv, SoundHistory, SoundSummary, SummariesAddUp
  <2> QED BY <2>1, <2>2 DEF HistoryIsKept
<1> QED
  BY ValidatorInvInit, <1>1, <1>2, PTL

\* A request that is on disk as processed is not handed to a plugin again (isProcessed).
THEOREM ProcessedIsFinal ==
  ValidatorInit /\ [][ValidatorNext]_validatorVars => NeverReverified
<1>1. ValidatorInv /\ [ValidatorNext]_validatorVars => ValidatorInv'
  BY ValidatorInvStep
<1>2. ValidatorInv /\ [ValidatorNext]_validatorVars =>
        [\A p \in Polls : poll'[p].pc = "verifying" /\ poll[p].pc # "verifying" =>
           First(poll'[p].queue) \notin db[Owner[p]].disk.processed]_validatorVars
  BY ValidatorInvStep
<1> QED
  BY ValidatorInvInit, <1>1, <1>2, PTL DEF NeverReverified

(***************************************************************************)
(* Metering                                                                *)
(***************************************************************************)
\* The units one place contributes to a total.
Column(i, n) == {<<i, k>> : k \in 1..n}

\* They are as many as its number.
LEMMA ColumnSize ==
  ASSUME NEW i, NEW n \in Nat
  PROVE  IsFiniteSet(Column(i, n)) /\ Cardinality(Column(i, n)) = n
<1> DEFINE f == [k \in 1..n |-> <<i, k>>]
<1>1. f \in Bijection(1..n, Column(i, n))
  <2>1. f \in [1..n -> Column(i, n)]
    BY DEF Column
  <2>2. f \in Injection(1..n, Column(i, n))
    BY <2>1 DEF Injection, IsInjective
  <2>3. f \in Surjection(1..n, Column(i, n))
    BY <2>1 DEF Surjection, Column
  <2> QED BY <2>2, <2>3 DEF Bijection
<1>2. ExistsBijection(1..n, Column(i, n))
  BY <1>1 DEF ExistsBijection
<1>3. IsFiniteSet(1..n) /\ Cardinality(1..n) = n
  BY FS_Interval
<1> QED
  BY <1>2, <1>3, FS_Bijection

LogEntry == [call_type : {"generate", "tool"}, tokens : Nat, success : BOOLEAN]

Totals == [llm_calls : Nat, total_tokens : Nat, retrieval_calls : Nat]

\* The entries of a log of one type, and the units of a sequence of numbers: MeteringAddsUp
\* of any log and any provenance.
Entries(log, type) == {i \in DOMAIN log : log[i].call_type = type}

Units(s) == UNION {Column(i, s[i]) : i \in DOMAIN s}

AddsUp(m, log, spent) ==
  /\ m \in Totals /\ log \in Seq(LogEntry) /\ spent \in Seq(Nat)
  /\ m.llm_calls = Len(spent)
  /\ m.llm_calls = Cardinality(Entries(log, "generate"))
  /\ m.retrieval_calls = Cardinality(Entries(log, "tool"))
  /\ IsFiniteSet(Units(spent)) /\ m.total_tokens = Cardinality(Units(spent))

Flying == {i \in Slots : slot[i] = "generate"}

MeterInv ==
  /\ AddsUp(metering, call_log, model_calls)
  /\ slot \in [Slots -> {"free", "generate", "tool"}]
  /\ OverrunIsBounded

\* One more entry of a log.
Grown(log, e) == Append(log, e)

\* It counts for its type.
LEMMA EntryLogged ==
  ASSUME NEW log \in Seq(LogEntry), NEW e \in LogEntry, NEW type
  PROVE  /\ Grown(log, e) \in Seq(LogEntry)
         /\ Cardinality(Entries(Grown(log, e), type)) =
              IF e.call_type = type THEN Cardinality(Entries(log, type)) + 1
              ELSE Cardinality(Entries(log, type))
<1> DEFINE more == Grown(log, e)
<1> SUFFICES /\ more \in Seq(LogEntry)
             /\ Cardinality(Entries(more, type)) =
                  IF e.call_type = type THEN Cardinality(Entries(log, type)) + 1
                  ELSE Cardinality(Entries(log, type))
  OBVIOUS
<1>0. Len(log) + 1 \in Nat /\ DOMAIN log = 1..Len(log) /\ Len(log) \in Nat
  BY LenProperties
<1>1. PICK n \in Nat : n = Len(log) + 1 /\ n \notin DOMAIN log
  BY <1>0
<1>2. /\ more \in Seq(LogEntry) /\ DOMAIN more = DOMAIN log \union {n} /\ more[n] = e
      /\ \A i \in DOMAIN log : more[i] = log[i]
  BY <1>0, <1>1, AppendProperties DEF Grown
<1>3. IsFiniteSet(DOMAIN log)
  BY <1>0, FS_Interval
<1>4. IsFiniteSet(Entries(log, type))
  BY <1>3, FS_Subset DEF Entries
<1>5. Cardinality(Entries(log, type)) \in Nat
  BY <1>4, FS_CardinalityType
<1>6. CASE e.call_type = type
  <2>1. Entries(more, type) = Entries(log, type) \union {n} /\ n \notin Entries(log, type)
    BY <1>1, <1>2, <1>6 DEF Entries
  <2> QED BY <1>2, <1>4, <1>5, <1>6, <2>1, FS_AddElement
<1>7. CASE e.call_type # type
  <2>1. Entries(more, type) = Entries(log, type)
    BY <1>1, <1>2, <1>7 DEF Entries
  <2> QED BY <1>2, <1>5, <1>7, <2>1
<1> QED
  BY <1>6, <1>7

\* A log with its last entry marked as failed.
Marked(log) == [log EXCEPT ![Len(log)].success = FALSE]

\* Its entries are of the same types.
LEMMA EntryMarked ==
  ASSUME NEW log \in Seq(LogEntry), log # <<>>, NEW type, NEW marked, marked = Marked(log)
  PROVE  marked \in Seq(LogEntry) /\ Entries(marked, type) = Entries(log, type)
<1>1. Len(log) \in 1..Len(log) /\ DOMAIN log = 1..Len(log) /\ Len(log) \in Nat
  BY LenProperties, EmptySeq
<1>2. PICK n \in 1..Len(log), e \in LogEntry : n = Len(log) /\ e = log[n]
  BY <1>1, ElementOfSeq
<1>3. PICK x \in LogEntry : x = [e EXCEPT !.success = FALSE] /\ x.call_type = e.call_type
  <2>1. [e EXCEPT !.success = FALSE] \in LogEntry
    BY <1>2, Zenon DEF LogEntry
  <2>2. [e EXCEPT !.success = FALSE].call_type = e.call_type
    BY <1>2, Zenon DEF LogEntry
  <2> QED BY <2>1, <2>2, Zenon
<1>4. marked = [log EXCEPT ![n] = x]
  BY <1>2, <1>3, Zenon DEF Marked
<1>5. /\ marked \in Seq(LogEntry) /\ Len(marked) = Len(log)
      /\ \A j \in 1 .. Len(log) : marked[j] = IF j = n THEN x ELSE log[j]
  BY <1>4, ExceptSeq
<1>6. DOMAIN marked = DOMAIN log
  BY <1>1, <1>4
<1>7. \A j \in DOMAIN log : marked[j].call_type = log[j].call_type
  BY <1>1, <1>2, <1>3, <1>5
<1> QED
  BY <1>5, <1>6, <1>7 DEF Entries

\* One more number, and its units.
LEMMA UnitsAdded ==
  ASSUME NEW s \in Seq(Nat), NEW n \in Nat, IsFiniteSet(Units(s))
  PROVE  /\ IsFiniteSet(Units(Append(s, n)))
         /\ Cardinality(Units(Append(s, n))) = Cardinality(Units(s)) + n
<1>0. Len(s) + 1 \in Nat /\ DOMAIN s = 1..Len(s) /\ Len(s) \in Nat
  BY LenProperties
<1>1. PICK p \in Nat : p = Len(s) + 1 /\ p \notin DOMAIN s
  BY <1>0
<1>2. PICK m : m = Append(s, n)
  OBVIOUS
<1>3. DOMAIN m = DOMAIN s \union {p} /\ m[p] = n /\ \A i \in DOMAIN s : m[i] = s[i]
  BY <1>0, <1>1, <1>2, AppendProperties
<1>4. Units(m) = Units(s) \union Column(p, n)
  BY <1>1, <1>3 DEF Units
<1>5. Units(s) \intersect Column(p, n) = {}
  BY <1>1 DEF Units, Column
<1>6. IsFiniteSet(Column(p, n)) /\ Cardinality(Column(p, n)) = n
  BY ColumnSize
<1>7. /\ IsFiniteSet(Units(s) \union Column(p, n))
      /\ Cardinality(Units(s) \union Column(p, n)) =
           Cardinality(Units(s)) + Cardinality(Column(p, n)) - Cardinality({})
  BY <1>5, <1>6, FS_Union
<1>8. Cardinality(Units(s)) \in Nat /\ Cardinality({}) = 0
  BY FS_CardinalityType, FS_EmptySet
<1>9. Cardinality(Units(s) \union Column(p, n)) = Cardinality(Units(s)) + n
  BY <1>6, <1>7, <1>8
<1> QED
  BY <1>2, <1>4, <1>7, <1>9

\* recordLLMCall, the log and the provenance record of a call keep the totals exact.
LEMMA CallMetered ==
  ASSUME NEW m, NEW log, NEW spent, AddsUp(m, log, spent), NEW t \in Nat, NEW n,
         n = [m EXCEPT !.llm_calls = m.llm_calls + 1, !.total_tokens = m.total_tokens + t]
  PROVE  AddsUp(n, Append(log, [call_type |-> "generate", tokens |-> t, success |-> TRUE]),
                Append(spent, t))
<1>1. PICK e : e = [call_type |-> "generate", tokens |-> t, success |-> TRUE]
  OBVIOUS
<1>a. e \in LogEntry /\ e.call_type = "generate"
  BY <1>1, Zenon DEF LogEntry
<1>0. m \in Totals
  BY DEF AddsUp
<1>2. /\ n \in Totals /\ n.llm_calls = m.llm_calls + 1 /\ n.total_tokens = m.total_tokens + t
      /\ n.retrieval_calls = m.retrieval_calls
  <2>1. PICK a \in Nat, b \in Nat : a = m.llm_calls + 1 /\ b = m.total_tokens + t
    BY <1>0 DEF Totals
  <2>2. n = [m EXCEPT !.llm_calls = a, !.total_tokens = b]
    BY <2>1, Zenon
  <2>3. n \in Totals /\ n.llm_calls = a /\ n.total_tokens = b
        /\ n.retrieval_calls = m.retrieval_calls
    BY <1>0, <2>2, Zenon DEF Totals
  <2> QED BY <2>1, <2>3
<1>3. PICK more : more = Grown(log, e)
  OBVIOUS
<1>4. /\ more \in Seq(LogEntry)
      /\ Cardinality(Entries(more, "generate")) = Cardinality(Entries(log, "generate")) + 1
      /\ Cardinality(Entries(more, "tool")) = Cardinality(Entries(log, "tool"))
  <2>1. log \in Seq(LogEntry)
    BY DEF AddsUp
  <2>2. \A type : /\ more \in Seq(LogEntry)
                  /\ Cardinality(Entries(more, type)) =
                       IF e.call_type = type THEN Cardinality(Entries(log, type)) + 1
                       ELSE Cardinality(Entries(log, type))
    BY <1>a, <1>3, <2>1, EntryLogged, Zenon
  <2> QED BY <1>a, <2>2
<1>5. Append(spent, t) \in Seq(Nat) /\ Len(Append(spent, t)) = Len(spent) + 1
  BY AppendProperties DEF AddsUp
<1>6. /\ IsFiniteSet(Units(Append(spent, t)))
      /\ Cardinality(Units(Append(spent, t))) = Cardinality(Units(spent)) + t
  BY UnitsAdded DEF AddsUp
<1>7. AddsUp(n, more, Append(spent, t))
  BY <1>2, <1>4, <1>5, <1>6 DEF AddsUp
<1> QED
  BY <1>1, <1>3, <1>7, Zenon DEF Grown

\* So do recordToolCall and the log entry of a tool call.
LEMMA ToolMetered ==
  ASSUME NEW m, NEW log, NEW spent, AddsUp(m, log, spent), NEW b \in BOOLEAN, NEW n,
         n = [m EXCEPT !.retrieval_calls = m.retrieval_calls + 1]
  PROVE  AddsUp(n, Append(log, [call_type |-> "tool", tokens |-> 0, success |-> b]), spent)
<1>1. PICK e : e = [call_type |-> "tool", tokens |-> 0, success |-> b]
  OBVIOUS
<1>a. e \in LogEntry /\ e.call_type = "tool"
  BY <1>1, Zenon DEF LogEntry
<1>0. m \in Totals
  BY DEF AddsUp
<1>2. /\ n \in Totals /\ n.llm_calls = m.llm_calls /\ n.total_tokens = m.total_tokens
      /\ n.retrieval_calls = m.retrieval_calls + 1
  BY <1>0 DEF Totals
<1>3. PICK more : more = Grown(log, e)
  OBVIOUS
<1>4. /\ more \in Seq(LogEntry)
      /\ Cardinality(Entries(more, "generate")) = Cardinality(Entries(log, "generate"))
      /\ Cardinality(Entries(more, "tool")) = Cardinality(Entries(log, "tool")) + 1
  <2>1. log \in Seq(LogEntry)
    BY DEF AddsUp
  <2>2. \A type : /\ more \in Seq(LogEntry)
                  /\ Cardinality(Entries(more, type)) =
                       IF e.call_type = type THEN Cardinality(Entries(log, type)) + 1
                       ELSE Cardinality(Entries(log, type))
    BY <1>a, <1>3, <2>1, EntryLogged, Zenon
  <2> QED BY <1>a, <2>2
<1>5. AddsUp(n, more, spent)
  BY <1>2, <1>4 DEF AddsUp
<1> QED
  BY <1>1, <1>3, <1>5, Zenon DEF Grown

\* The calls of the model in flight, as one starts or ends.
LEMMA FlyingChanges ==
  ASSUME MeterInv, NEW i \in Slots
  PROVE  /\ IsFiniteSet(Flying) /\ Cardinality(Flying) \in Nat
         /\ Cardinality(Slots) \in Nat /\ Cardinality(Flying) <= Cardinality(Slots)
         /\ Cardinality(Flying \ {i}) =
              IF i \in Flying THEN Cardinality(Flying) - 1 ELSE Cardinality(Flying)
<1>1. Flying \in SUBSET Slots
  BY DEF Flying
<1>2. IsFiniteSet(Flying) /\ Cardinality(Flying) <= Cardinality(Slots)
  BY <1>1, MeteringSlots, FS_Subset
<1> QED
  BY <1>2, MeteringSlots, FS_CardinalityType, FS_RemoveElement

\* What is recorded and what is in flight, against the limit.
Overrun(m, n) ==
  on_exceed = "error" => m.llm_calls + n <= max_llm_calls + Cardinality(Slots)

\* That is OverrunIsBounded.
LEMMA OverrunMeans == OverrunIsBounded <=> Overrun(metering, Cardinality(Flying))
BY DEF OverrunIsBounded, Overrun, Flying

\* A call that starts, within the limits or not checked, and one that ends without a record.
LEMMA SlotChanges ==
  ASSUME MeterInv, NEW i \in Slots, NEW v \in {"free", "generate", "tool"},
         slot' = [slot EXCEPT ![i] = v], metering' = metering,
         call_log' = call_log, model_calls' = model_calls,
         v = "generate" => ~Throws(metering)
  PROVE  MeterInv'
<1>1. AddsUp(metering, call_log, model_calls)'
  BY DEF MeterInv
<1>2. slot' \in [Slots -> {"free", "generate", "tool"}]
  BY DEF MeterInv
<1>3. Flying' \in SUBSET Slots
  BY DEF Flying
<1>4. PICK c \in Nat, d \in Nat, z \in Nat :
        c = Cardinality(Flying) /\ d = Cardinality(Flying') /\ z = Cardinality(Slots)
  BY <1>3, MeteringSlots, FS_Subset, FS_CardinalityType, FlyingChanges
<1>5. d <= z
  BY <1>3, <1>4, MeteringSlots, FS_Subset
<1>6. PICK l \in Nat : l = metering.llm_calls
  BY DEF MeterInv, AddsUp, Totals
<1>7. Overrun(metering, d)
  <2>1. CASE v = "generate"
    <3>1. on_exceed = "error" => l <= max_llm_calls
      BY <1>6, <2>1 DEF Throws, within_limits
    <3> QED BY <1>4, <1>5, <1>6, <3>1, MeteringAssumption DEF Overrun
  <2>2. CASE v # "generate"
    <3>1. Flying' \in SUBSET Flying
      BY <2>2 DEF Flying, MeterInv
    <3>2. d <= c
      BY <1>4, <3>1, FlyingChanges, FS_Subset
    <3>3. Overrun(metering, c)
      BY <1>4, OverrunMeans DEF MeterInv
    <3> QED BY <1>4, <1>6, <3>2, <3>3, MeteringAssumption DEF Overrun
  <2> QED BY <2>1, <2>2
<1>8. OverrunIsBounded'
  BY <1>4, <1>7 DEF OverrunIsBounded, Overrun, Flying
<1> QED
  BY <1>1, <1>2, <1>8 DEF MeterInv

\* A call of the model that ends with a record.
LEMMA GenerateEnds ==
  ASSUME MeterInv, NEW i \in Slots, NEW t \in TokenCounts, afterGenerate(i, t)
  PROVE  MeterInv'
<1>1. AddsUp(metering, call_log, model_calls)'
  <2>1. t \in Nat
    BY MeteringAssumption
  <2>2. metering' = [metering EXCEPT !.llm_calls = metering.llm_calls + 1,
                                     !.total_tokens = metering.total_tokens + t]
    BY Zenon DEF afterGenerate, recordLLMCall
  <2>3. call_log' = Append(call_log, [call_type |-> "generate", tokens |-> t, success |-> TRUE])
        /\ model_calls' = Append(model_calls, t)
    BY Zenon DEF afterGenerate, createModelCallRecord
  <2>4. AddsUp(metering, call_log, model_calls)
    BY DEF MeterInv
  <2> QED BY <2>1, <2>2, <2>3, <2>4, CallMetered, Zenon
<1>2. slot' = [slot EXCEPT ![i] = "free"] /\ slot[i] = "generate"
  BY Zenon DEF afterGenerate
<1>3. slot' \in [Slots -> {"free", "generate", "tool"}] /\ Flying' = Flying \ {i} /\ i \in Flying
  BY <1>2 DEF MeterInv, Flying
<1>4. PICK c \in Nat, z \in Nat, l \in Nat :
        c = Cardinality(Flying) /\ z = Cardinality(Slots) /\ l = metering.llm_calls
  BY FlyingChanges DEF MeterInv, AddsUp, Totals
<1>5. Cardinality(Flying') = c - 1
  BY <1>3, <1>4, FlyingChanges
<1>6. metering'.llm_calls = l + 1
  <2>1. metering \in Totals
    BY DEF MeterInv, AddsUp
  <2>2. metering' = [metering EXCEPT !.llm_calls = metering.llm_calls + 1,
                                     !.total_tokens = metering.total_tokens + t]
    BY Zenon DEF afterGenerate, recordLLMCall
  <2> QED BY <1>4, <2>1, <2>2, Zenon DEF Totals
<1>7. Overrun(metering, c)
  BY <1>4, OverrunMeans DEF MeterInv
<1>8. on_exceed = "error" => metering'.llm_calls + Cardinality(Flying') <= max_llm_calls + z
  BY <1>4, <1>5, <1>6, <1>7, MeteringAssumption DEF Overrun
<1>9. OverrunIsBounded'
  BY <1>4, <1>8 DEF OverrunIsBounded, Flying
<1> QED
  BY <1>1, <1>3, <1>9 DEF MeterInv

\* A tool call that ends.
LEMMA ToolEnds ==
  ASSUME MeterInv, NEW i \in Slots, NEW b \in BOOLEAN, afterToolCall(i, b)
  PROVE  MeterInv'
<1>1. metering' = [metering EXCEPT !.retrieval_calls = metering.retrieval_calls + 1]
  BY Zenon DEF afterToolCall, recordToolCall
<1>2. AddsUp(metering, call_log, model_calls)'
  <2>1. call_log' = Append(call_log, [call_type |-> "tool", tokens |-> 0, success |-> b])
        /\ model_calls' = model_calls
    BY Zenon DEF afterToolCall
  <2>2. AddsUp(metering, call_log, model_calls)
    BY DEF MeterInv
  <2> QED BY <1>1, <2>1, <2>2, ToolMetered, Zenon
<1>3. slot' = [slot EXCEPT ![i] = "free"] /\ slot[i] = "tool"
  BY Zenon DEF afterToolCall
<1>4. slot' \in [Slots -> {"free", "generate", "tool"}] /\ Flying' = Flying
  BY <1>3 DEF MeterInv, Flying
<1>5. metering'.llm_calls = metering.llm_calls
  <2>1. metering \in Totals
    BY DEF MeterInv, AddsUp
  <2> QED BY <1>1, <2>1, Zenon DEF Totals
<1>6. OverrunIsBounded'
  BY <1>4, <1>5, OverrunMeans DEF MeterInv, OverrunIsBounded, Overrun, Flying
<1> QED
  BY <1>2, <1>4, <1>6 DEF MeterInv

\* Nothing but a mark in the log.
LEMMA LogMarked ==
  ASSUME MeterInv, metering' = metering, model_calls' = model_calls, slot' = slot,
         call_log' = call_log \/ (call_log # <<>> /\ call_log' = Marked(call_log))
  PROVE  MeterInv'
<1>1. call_log \in Seq(LogEntry)
  BY DEF MeterInv, AddsUp
<1>2. call_log' \in Seq(LogEntry) /\ \A type : Entries(call_log', type) = Entries(call_log, type)
  BY <1>1, EntryMarked
<1>3. AddsUp(metering, call_log, model_calls)'
  BY <1>2 DEF MeterInv, AddsUp
<1>4. OverrunIsBounded'
  BY DEF MeterInv, OverrunIsBounded
<1> QED
  BY <1>3, <1>4 DEF MeterInv

\* Nothing is metered at the start.
LEMMA MeterInvInit == MeteringInit => MeterInv
<1> SUFFICES ASSUME MeteringInit PROVE MeterInv
  OBVIOUS
<1>1. metering \in Totals /\ metering.llm_calls = 0 /\ metering.total_tokens = 0
      /\ metering.retrieval_calls = 0
  BY DEF MeteringInit, createMeteringState, Totals
<1>2. /\ call_log \in Seq(LogEntry) /\ model_calls \in Seq(Nat) /\ Len(model_calls) = 0
      /\ Entries(call_log, "generate") = {} /\ Entries(call_log, "tool") = {}
      /\ Units(model_calls) = {}
  BY DEF MeteringInit, Entries, Units
<1>3. AddsUp(metering, call_log, model_calls)
  BY <1>1, <1>2, FS_EmptySet DEF AddsUp
<1>4. slot \in [Slots -> {"free", "generate", "tool"}] /\ Flying = {}
  BY DEF MeteringInit, Flying
<1>5. Cardinality(Slots) \in Nat
  BY MeteringSlots, FS_CardinalityType
<1>6. Overrun(metering, 0)
  BY <1>1, <1>5, MeteringAssumption DEF Overrun
<1>7. OverrunIsBounded
  BY <1>4, <1>6, FS_EmptySet, OverrunMeans
<1> QED
  BY <1>3, <1>4, <1>7 DEF MeterInv

\* Every hook keeps the totals exact and the overrun bounded.
LEMMA MeterInvStep ==
  ASSUME MeterInv, [MeteringNext]_meteringVars
  PROVE  MeterInv'
<1>1. ASSUME NEW i \in Slots, beforeGenerate(i) PROVE MeterInv'
  <2>1. CASE MayStart
    BY <1>1, <2>1, SlotChanges DEF beforeGenerate, MayStart
  <2>2. CASE ~MayStart
    BY <1>1, <2>2, LogMarked DEF beforeGenerate
  <2> QED BY <2>1, <2>2
<1>2. ASSUME NEW i \in Slots, beforeToolCall(i) PROVE MeterInv'
  <2>1. CASE max_retrieval_calls = 0 \/ MayStart
    BY <1>2, <2>1, SlotChanges DEF beforeToolCall
  <2>2. CASE ~(max_retrieval_calls = 0 \/ MayStart)
    BY <1>2, <2>2, LogMarked DEF beforeToolCall
  <2> QED BY <2>1, <2>2
<1>3. ASSUME NEW i \in Slots, generateThrows(i) PROVE MeterInv'
  BY <1>3, SlotChanges DEF generateThrows
<1>4. ASSUME NEW i \in Slots, NEW t \in TokenCounts, afterGenerate(i, t) PROVE MeterInv'
  BY <1>4, GenerateEnds
<1>5. ASSUME NEW i \in Slots, NEW b \in BOOLEAN, afterToolCall(i, b) PROVE MeterInv'
  BY <1>5, ToolEnds
<1>6. CASE onError
  BY <1>6, LogMarked, Zenon DEF onError, Marked
<1>7. CASE executeEnds
  BY <1>7, LogMarked DEF executeEnds
<1>8. CASE UNCHANGED meteringVars
  BY <1>8, LogMarked DEF meteringVars
<1> QED
  BY <1>1, <1>2, <1>3, <1>4, <1>5, <1>6, <1>7, <1>8 DEF MeteringNext

\* The totals metering.ts keeps are those of its log and of the provenance records, and with
\* on_exceed "error" they pass the limit by no more than the calls in flight, whatever the
\* limits, the tokens and the order in which concurrent calls end or throw.
THEOREM MeteringIsExact == MeteringInit /\ [][MeteringNext]_meteringVars => []MeteringHolds
<1>1. MeteringInit => MeterInv
  BY MeterInvInit
<1>2. MeterInv /\ [MeteringNext]_meteringVars => MeterInv'
  BY MeterInvStep
<1>3. MeterInv => MeteringHolds
  <2>1. UnitsOf(model_calls) = Units(model_calls)
    BY DEF UnitsOf, Units, Column
  <2>2. /\ Logged("generate") = Entries(call_log, "generate")
        /\ Logged("tool") = Entries(call_log, "tool")
    BY DEF Logged, Entries
  <2> QED BY <2>1, <2>2 DEF MeterInv, AddsUp, MeteringHolds, MeteringAddsUp
<1> QED
  BY <1>1, <1>2, <1>3, PTL

(***************************************************************************)
(* Webhooks                                                                *)
(***************************************************************************)
\* What is kept of a subscription and of a delivery.
Subscribed == [listed : BOOLEAN, enabled : BOOLEAN, deliveryCount : Nat, failureCount : Nat]

Delivery == [to : Subscriptions, status : {"pending", "delivered", "sleeping", "failed"},
             attempt : Nat, failed : Nat]

\* The deliveries a subscription received, and the failures of those to it.
Arrived(dl, s) == {d \in DOMAIN dl : dl[d].to = s /\ dl[d].status = "delivered"}

FailedPosts(dl, s) == UNION {Column(d, dl[d].failed) : d \in {c \in DOMAIN dl : dl[c].to = s}}

\* The counts of a subscription are those.
CountsOf(x, dl, s) ==
  /\ x.deliveryCount = Cardinality(Arrived(dl, s))
  /\ IsFiniteSet(FailedPosts(dl, s)) /\ x.failureCount = Cardinality(FailedPosts(dl, s))

\* Posts that reached the receiver: one for the answer, and at most one per failure.
Reached(x, n) ==
  /\ x.status = "delivered" => n > 0 /\ n <= x.failed + 1
  /\ x.status # "delivered" => n <= x.failed

AllReached(dl, rc) ==
  /\ dl \in Seq(Delivery) /\ rc \in Seq(Nat) /\ Len(rc) = Len(dl)
  /\ \A d \in DOMAIN dl : Reached(dl[d], rc[d])

WebhookInv ==
  /\ subscription \in [Subscriptions -> Subscribed]
  /\ AllReached(delivery, receipts)
  /\ \A s \in Subscriptions : CountsOf(subscription[s], delivery, s)

\* The deliveries received are finitely many.
LEMMA ReceivedFinite ==
  ASSUME NEW dl \in Seq(Delivery), NEW s
  PROVE  IsFiniteSet(Arrived(dl, s)) /\ Cardinality(Arrived(dl, s)) \in Nat
<1>1. IsFiniteSet(1..Len(dl)) /\ DOMAIN dl = 1..Len(dl)
  BY FS_Interval, LenProperties
<1>2. Arrived(dl, s) \in SUBSET (1..Len(dl))
  BY <1>1 DEF Arrived
<1> QED
  BY <1>1, <1>2, FS_Subset, FS_CardinalityType

\* One delivery changes.
Changed(dl, d, x) == [dl EXCEPT ![d] = x]

\* The others do not.
OnlyChanges(dl, n, d, x) ==
  /\ n \in Seq(Delivery) /\ Len(n) = Len(dl) /\ DOMAIN n = DOMAIN dl
  /\ n[d] = x /\ \A c \in DOMAIN dl : c # d => n[c] = dl[c]
  /\ \A c \in DOMAIN dl : n[c].to = dl[c].to

\* A step of one delivery is such a change.
LEMMA DeliveryChanged ==
  ASSUME NEW dl \in Seq(Delivery), NEW d \in DOMAIN dl, NEW x \in Delivery, x.to = dl[d].to
  PROVE  OnlyChanges(dl, Changed(dl, d, x), d, x)
<1>1. DOMAIN dl = 1..Len(dl) /\ Len(dl) \in Nat
  BY LenProperties
<1>2. PICK n : n = Changed(dl, d, x)
  OBVIOUS
<1>3. /\ n \in Seq(Delivery) /\ Len(n) = Len(dl)
      /\ \A j \in 1..Len(dl) : n[j] = IF j = d THEN x ELSE dl[j]
  BY <1>1, <1>2, ExceptSeq DEF Changed
<1>4. DOMAIN n = DOMAIN dl
  BY <1>1, <1>3, LenProperties
<1> QED
  BY <1>1, <1>2, <1>3, <1>4 DEF OnlyChanges

\* A delivery that is not received, before or after, leaves what is.
LEMMA ReceivedKept ==
  ASSUME NEW dl \in Seq(Delivery), NEW d \in DOMAIN dl, NEW x \in Delivery, x.to = dl[d].to,
         dl[d].status # "delivered", x.status # "delivered", NEW s
  PROVE  Arrived(Changed(dl, d, x), s) = Arrived(dl, s)
<1>a. PICK n : n = Changed(dl, d, x)
  OBVIOUS
<1>b. /\ DOMAIN n = DOMAIN dl /\ \A c \in DOMAIN dl : n[c].to = dl[c].to
      /\ n[d] = x /\ \A c \in DOMAIN dl : c # d => n[c] = dl[c]
  <2>1. OnlyChanges(dl, n, d, x)
    BY <1>a, DeliveryChanged
  <2> QED BY <2>1 DEF OnlyChanges
<1>1. \A c \in DOMAIN dl : n[c].status = "delivered" <=> dl[c].status = "delivered"
  BY <1>b
<1> QED
  BY <1>a, <1>b, <1>1 DEF Arrived

\* One that is received now adds to its subscription's.
LEMMA ReceivedAdded ==
  ASSUME NEW dl \in Seq(Delivery), NEW d \in DOMAIN dl, NEW x \in Delivery, x.to = dl[d].to,
         dl[d].status # "delivered", x.status = "delivered", NEW s
  PROVE  Cardinality(Arrived(Changed(dl, d, x), s)) =
           IF s = x.to THEN Cardinality(Arrived(dl, s)) + 1 ELSE Cardinality(Arrived(dl, s))
<1>a. PICK n : n = Changed(dl, d, x)
  OBVIOUS
<1>b. /\ DOMAIN n = DOMAIN dl /\ \A c \in DOMAIN dl : n[c].to = dl[c].to
      /\ n[d] = x /\ \A c \in DOMAIN dl : c # d => n[c] = dl[c]
  <2>1. OnlyChanges(dl, n, d, x)
    BY <1>a, DeliveryChanged
  <2> QED BY <2>1 DEF OnlyChanges
<1>1. CASE s = x.to
  <2>1. Arrived(n, s) = Arrived(dl, s) \union {d} /\ d \notin Arrived(dl, s)
    BY <1>1, <1>b DEF Arrived
  <2>2. IsFiniteSet(Arrived(dl, s))
    BY ReceivedFinite
  <2>3. Cardinality(Arrived(dl, s) \union {d}) = Cardinality(Arrived(dl, s)) + 1
    BY <2>1, <2>2, FS_AddElement
  <2> QED BY <1>1, <1>a, <2>1, <2>3
<1>2. CASE s # x.to
  <2>1. Arrived(n, s) = Arrived(dl, s)
    BY <1>2, <1>b DEF Arrived
  <2> QED BY <1>2, <1>a, <2>1
<1> QED
  BY <1>1, <1>2

\* What is in the failures of a subscription.
LEMMA FailureIn ==
  ASSUME NEW dl, NEW s, NEW y
  PROVE  y \in FailedPosts(dl, s) <=>
           \E c \in DOMAIN dl : \E k \in 1..dl[c].failed : dl[c].to = s /\ y = <<c, k>>
BY DEF FailedPosts, Column

\* A delivery with as many failures as before leaves them.
LEMMA FailuresKept ==
  ASSUME NEW dl \in Seq(Delivery), NEW d \in DOMAIN dl, NEW x \in Delivery, x.to = dl[d].to,
         x.failed = dl[d].failed, NEW s
  PROVE  FailedPosts(Changed(dl, d, x), s) = FailedPosts(dl, s)
<1>1. PICK n : n = Changed(dl, d, x)
  OBVIOUS
<1>b. /\ DOMAIN n = DOMAIN dl /\ \A c \in DOMAIN dl : n[c].to = dl[c].to
      /\ n[d] = x /\ \A c \in DOMAIN dl : c # d => n[c] = dl[c]
  <2>1. OnlyChanges(dl, n, d, x)
    BY <1>1, DeliveryChanged
  <2> QED BY <2>1 DEF OnlyChanges
<1>2. DOMAIN n = DOMAIN dl /\ \A c \in DOMAIN dl : n[c].to = dl[c].to /\ n[c].failed = dl[c].failed
  BY <1>b
<1>3. \A y : y \in FailedPosts(n, s) <=> y \in FailedPosts(dl, s)
  BY <1>2, FailureIn
<1> QED
  BY <1>1, <1>3

\* One more failure adds to its subscription's.
LEMMA FailuresAdded ==
  ASSUME NEW dl \in Seq(Delivery), NEW d \in DOMAIN dl, NEW x \in Delivery, x.to = dl[d].to,
         x.failed = dl[d].failed + 1, NEW s, IsFiniteSet(FailedPosts(dl, s))
  PROVE  /\ IsFiniteSet(FailedPosts(Changed(dl, d, x), s))
         /\ Cardinality(FailedPosts(Changed(dl, d, x), s)) =
              IF s = x.to THEN Cardinality(FailedPosts(dl, s)) + 1
              ELSE Cardinality(FailedPosts(dl, s))
<1>1. PICK n : n = Changed(dl, d, x)
  OBVIOUS
<1>2. /\ DOMAIN n = DOMAIN dl /\ \A c \in DOMAIN dl : n[c].to = dl[c].to
      /\ n[d] = x /\ \A c \in DOMAIN dl : c # d => n[c] = dl[c]
  <2>1. OnlyChanges(dl, n, d, x)
    BY <1>1, DeliveryChanged
  <2> QED BY <2>1 DEF OnlyChanges
<1>3. dl[d] \in Delivery
  BY ElementOfSeq, LenProperties
<1>4. PICK f \in Nat : f = dl[d].failed /\ x.failed = f + 1
  BY <1>3 DEF Delivery
<1>5. CASE s = x.to
  <2>1. FailedPosts(n, s) = FailedPosts(dl, s) \union {<<d, f + 1>>}
    <3>1. ASSUME NEW y, y \in FailedPosts(n, s) PROVE y \in FailedPosts(dl, s) \union {<<d, f + 1>>}
      <4>1. PICK c \in DOMAIN dl : \E k \in 1..n[c].failed : n[c].to = s /\ y = <<c, k>>
        BY <1>2, <3>1, FailureIn
      <4>0. PICK k \in 1..n[c].failed : n[c].to = s /\ y = <<c, k>>
        BY <4>1
      <4>2. CASE c # d
        BY <1>2, <4>0, <4>2, FailureIn
      <4>3. CASE c = d
        <5>1. k \in 1..(f + 1)
          BY <1>2, <1>4, <4>0, <4>3
        <5>2. k = f + 1 \/ k \in 1..f
          BY <5>1
        <5>3. y = <<d, k>> /\ dl[d].to = s
          BY <1>5, <4>0, <4>3
        <5> QED BY <1>4, <5>2, <5>3, FailureIn
      <4> QED BY <4>2, <4>3
    <3>2. ASSUME NEW y, y \in FailedPosts(dl, s) PROVE y \in FailedPosts(n, s)
      <4>1. PICK c \in DOMAIN dl : \E k \in 1..dl[c].failed : dl[c].to = s /\ y = <<c, k>>
        BY <3>2, FailureIn
      <4>0. PICK k \in 1..dl[c].failed : dl[c].to = s /\ y = <<c, k>>
        BY <4>1
      <4>2. k \in 1..n[c].failed
        <5>1. CASE c # d
          BY <1>2, <4>0, <5>1
        <5>2. CASE c = d
          BY <1>2, <1>4, <4>0, <5>2
        <5> QED BY <5>1, <5>2
      <4> QED BY <1>2, <4>0, <4>2, FailureIn
    <3>3. <<d, f + 1>> \in FailedPosts(n, s)
      <4>1. f + 1 \in 1..n[d].failed /\ n[d].to = s
        BY <1>2, <1>4, <1>5
      <4> QED BY <1>2, <4>1, FailureIn
    <3> QED BY <3>1, <3>2, <3>3
  <2>2. <<d, f + 1>> \notin FailedPosts(dl, s)
    <3> SUFFICES ASSUME <<d, f + 1>> \in FailedPosts(dl, s) PROVE FALSE
      OBVIOUS
    <3>1. PICK c \in DOMAIN dl : \E k \in 1..dl[c].failed : <<d, f + 1>> = <<c, k>>
      BY FailureIn
    <3>0. PICK k \in 1..dl[c].failed : <<d, f + 1>> = <<c, k>>
      BY <3>1
    <3>2. c = d /\ k = f + 1
      BY <3>0
    <3>3. k \in 1..f
      BY <1>4, <3>0, <3>2
    <3> QED BY <1>4, <3>2, <3>3
  <2>3. PICK F, e : F = FailedPosts(dl, s) /\ e = <<d, f + 1>>
    OBVIOUS
  <2>4. IsFiniteSet(F \union {e}) /\ Cardinality(F \union {e}) = Cardinality(F) + 1
    <3>1. IsFiniteSet(F) /\ e \notin F
      BY <2>2, <2>3
    <3> QED BY <3>1, FS_AddElement
  <2> QED BY <1>1, <1>5, <2>1, <2>3, <2>4
<1>6. CASE s # x.to
  <2>1. \A c \in DOMAIN dl : n[c].to = s => n[c] = dl[c]
    BY <1>2, <1>6
  <2>2. \A y : y \in FailedPosts(n, s) <=> y \in FailedPosts(dl, s)
    BY <1>2, <2>1, FailureIn
  <2>3. FailedPosts(n, s) = FailedPosts(dl, s)
    BY <2>2
  <2> QED BY <1>1, <1>6, <2>3
<1> QED
  BY <1>5, <1>6

\* New deliveries, pending and without failures, change no count.
LEMMA DeliveriesAdded ==
  ASSUME NEW dl \in Seq(Delivery), NEW nd \in Seq(Delivery),
         \A i \in DOMAIN nd : nd[i].status = "pending" /\ nd[i].failed = 0, NEW s
  PROVE  Arrived(dl \o nd, s) = Arrived(dl, s) /\ FailedPosts(dl \o nd, s) = FailedPosts(dl, s)
<1>1. PICK m \in Nat, k \in Nat : m = Len(dl) /\ k = Len(nd)
  BY LenProperties
<1>2. DOMAIN dl = 1..m /\ DOMAIN nd = 1..k
  BY <1>1, LenProperties
<1>3. PICK n : n = dl \o nd
  OBVIOUS
<1>4. /\ n \in Seq(Delivery) /\ Len(n) = m + k
      /\ \A i \in 1..(m + k) : n[i] = IF i <= m THEN dl[i] ELSE nd[i - m]
  BY <1>1, <1>3, ConcatProperties
<1>5. DOMAIN n = 1..(m + k)
  BY <1>4, LenProperties
<1>6. \A i \in DOMAIN dl : i \in DOMAIN n /\ n[i] = dl[i]
  BY <1>2, <1>4, <1>5
<1>7. \A i \in DOMAIN n : i \in DOMAIN dl \/ (n[i].status = "pending" /\ n[i].failed = 0)
  <2> SUFFICES ASSUME NEW i \in 1..(m + k), ~(i <= m)
               PROVE  n[i].status = "pending" /\ n[i].failed = 0
    BY <1>2, <1>5
  <2>1. i - m \in DOMAIN nd /\ n[i] = nd[i - m]
    BY <1>2, <1>4
  <2> QED BY <2>1
<1>8. Arrived(n, s) = Arrived(dl, s)
  BY <1>6, <1>7 DEF Arrived
<1>9. \A y : y \in FailedPosts(n, s) <=> y \in FailedPosts(dl, s)
  <2>1. ASSUME NEW y, y \in FailedPosts(n, s) PROVE y \in FailedPosts(dl, s)
    <3>1. PICK c \in DOMAIN n : \E j \in 1..n[c].failed : n[c].to = s /\ y = <<c, j>>
      BY <2>1, FailureIn
    <3>0. PICK j \in 1..n[c].failed : n[c].to = s /\ y = <<c, j>>
      BY <3>1
    <3>2. n[c].failed # 0
      BY <3>0
    <3>3. c \in DOMAIN dl /\ n[c] = dl[c]
      BY <1>6, <1>7, <3>2
    <3> QED BY <3>0, <3>3, FailureIn
  <2>2. ASSUME NEW y, y \in FailedPosts(dl, s) PROVE y \in FailedPosts(n, s)
    BY <1>6, <2>2, FailureIn
  <2> QED BY <2>1, <2>2
<1> QED
  BY <1>3, <1>8, <1>9

\* A step of one delivery keeps what its receiver got in proportion.
LEMMA StepReached ==
  ASSUME NEW dl, NEW rc, AllReached(dl, rc), NEW d \in DOMAIN dl, NEW x \in Delivery,
         x.to = dl[d].to, NEW n \in Nat, Reached(x, n)
  PROVE  AllReached(Changed(dl, d, x), [rc EXCEPT ![d] = n])
<1>1. PICK nd, nr : nd = Changed(dl, d, x) /\ nr = [rc EXCEPT ![d] = n]
  OBVIOUS
<1>2. dl \in Seq(Delivery) /\ rc \in Seq(Nat) /\ Len(rc) = Len(dl)
  BY DEF AllReached
<1>3. OnlyChanges(dl, nd, d, x)
  BY <1>1, <1>2, DeliveryChanged
<1>4. DOMAIN dl = 1..Len(dl) /\ DOMAIN rc = 1..Len(dl) /\ Len(dl) \in Nat
  BY <1>2, LenProperties
<1>5. /\ nr \in Seq(Nat) /\ Len(nr) = Len(dl)
      /\ \A j \in 1..Len(dl) : nr[j] = IF j = d THEN n ELSE rc[j]
  BY <1>1, <1>2, <1>4, ExceptSeq
<1>6. \A c \in DOMAIN dl : Reached(nd[c], nr[c])
  BY <1>3, <1>4, <1>5 DEF OnlyChanges, AllReached
<1> QED
  BY <1>1, <1>3, <1>5, <1>6 DEF OnlyChanges, AllReached

\* The delivery a step is about.
LEMMA DeliveryTyped ==
  ASSUME WebhookInv, NEW d \in DOMAIN delivery
  PROVE  /\ delivery \in Seq(Delivery) /\ receipts \in Seq(Nat) /\ delivery[d] \in Delivery
         /\ receipts[d] \in Nat /\ d \in DOMAIN receipts
         /\ Reached(delivery[d], receipts[d]) /\ delivery[d].to \in Subscriptions
<1>1. delivery \in Seq(Delivery) /\ receipts \in Seq(Nat) /\ Len(receipts) = Len(delivery)
  BY DEF WebhookInv, AllReached
<1>2. d \in 1..Len(delivery) /\ d \in 1..Len(receipts) /\ d \in DOMAIN receipts
  BY <1>1, LenProperties
<1>3. delivery[d] \in Delivery /\ receipts[d] \in Nat
  BY <1>1, <1>2, ElementOfSeq
<1>4. delivery[d].to \in Subscriptions
  BY <1>3 DEF Delivery
<1> QED
  BY <1>1, <1>2, <1>3, <1>4 DEF WebhookInv, AllReached

\* An answer in time counts once.
LEMMA AnswerCounted ==
  ASSUME WebhookInv, NEW d \in DOMAIN delivery, postAnswered(d)
  PROVE  WebhookInv'
<1>1. PICK e \in Delivery, s \in Subscriptions : e = delivery[d] /\ s = e.to /\ e.status = "pending"
  BY DeliveryTyped DEF postAnswered
<1>0. PICK x : x = [e EXCEPT !.status = "delivered"]
  OBVIOUS
<1>2. x \in Delivery /\ x.to = s /\ x.status = "delivered" /\ x.failed = e.failed
  BY <1>1, <1>0 DEF Delivery
<1>3. delivery' = Changed(delivery, d, x)
  BY <1>0, <1>1, Zenon DEF postAnswered, Changed
<1>4. PICK n \in Nat : n = receipts[d] + 1
  BY DeliveryTyped
<1>5. receipts' = [receipts EXCEPT ![d] = n]
  BY <1>4, Zenon DEF postAnswered
<1>6. Reached(x, n)
  <2>1. e.failed \in Nat
    BY <1>1 DEF Delivery
  <2>2. receipts[d] <= e.failed /\ receipts[d] \in Nat
    BY <1>1, DeliveryTyped DEF Reached
  <2> QED BY <1>2, <1>4, <2>1, <2>2 DEF Reached
<1>7. AllReached(delivery', receipts')
  BY <1>1, <1>2, <1>3, <1>5, <1>6, StepReached DEF WebhookInv
<1>8. PICK u \in Subscribed : u = subscription[s]
  BY <1>1 DEF WebhookInv
<1>y. PICK y : y = [u EXCEPT !.deliveryCount = u.deliveryCount + 1]
  OBVIOUS
<1>9. y \in Subscribed /\ y.deliveryCount = u.deliveryCount + 1 /\ y.failureCount = u.failureCount
  BY <1>8, <1>y DEF Subscribed
<1>10. subscription' = [subscription EXCEPT ![s] = y]
  BY <1>1, <1>8, <1>y, Zenon DEF postAnswered
<1>11. /\ subscription' \in [Subscriptions -> Subscribed] /\ subscription'[s] = y
       /\ \A q \in Subscriptions : q # s => subscription'[q] = subscription[q]
  BY <1>9, <1>10 DEF WebhookInv
<1>12. ASSUME NEW q \in Subscriptions PROVE CountsOf(subscription'[q], delivery', q)
  <2>1. CountsOf(subscription[q], delivery, q)
    BY DEF WebhookInv
  <2>2. FailedPosts(delivery', q) = FailedPosts(delivery, q)
    <3>1. delivery \in Seq(Delivery) /\ x.failed = delivery[d].failed /\ x.to = delivery[d].to
      BY <1>1, <1>2, DeliveryTyped
    <3> QED BY <1>2, <1>3, <3>1, FailuresKept
  <2>3. Cardinality(Arrived(delivery', q)) =
          IF q = s THEN Cardinality(Arrived(delivery, q)) + 1
          ELSE Cardinality(Arrived(delivery, q))
    <3>1. delivery \in Seq(Delivery) /\ delivery[d].status # "delivered" /\ x.to = delivery[d].to
      BY <1>1, <1>2, DeliveryTyped
    <3>2. Cardinality(Arrived(Changed(delivery, d, x), q)) =
            IF q = x.to THEN Cardinality(Arrived(delivery, q)) + 1
            ELSE Cardinality(Arrived(delivery, q))
      BY <1>2, <3>1, ReceivedAdded
    <3> QED BY <1>2, <1>3, <3>2
  <2>4. CASE q = s
    BY <1>8, <1>9, <1>11, <2>1, <2>2, <2>3, <2>4 DEF CountsOf
  <2>5. CASE q # s
    BY <1>11, <2>1, <2>2, <2>3, <2>5 DEF CountsOf
  <2> QED BY <2>4, <2>5
<1> QED
  BY <1>7, <1>11, <1>12 DEF WebhookInv

\* A failure counts once, for the subscription of its delivery.
LEMMA FailureCounted ==
  ASSUME WebhookInv, NEW d \in DOMAIN delivery, postFails(d)
  PROVE  WebhookInv'
<1>1. PICK e \in Delivery, s \in Subscriptions : e = delivery[d] /\ s = e.to /\ e.status = "pending"
  BY DeliveryTyped DEF postFails
<1>2. PICK t \in {"failed", "sleeping"} :
        t = IF e.attempt = maxRetries THEN "failed" ELSE "sleeping"
  OBVIOUS
<1>a. PICK f \in Nat : f = e.failed + 1
  BY <1>1 DEF Delivery
<1>b. PICK x : x = [e EXCEPT !.status = t, !.failed = f]
  OBVIOUS
<1>3. x \in Delivery /\ x.to = s /\ x.status = t /\ x.failed = e.failed + 1
  BY <1>1, <1>2, <1>a, <1>b DEF Delivery
<1>4. delivery' = Changed(delivery, d, x)
  BY <1>1, <1>2, <1>a, <1>b, Zenon DEF postFails, failureRecorded, Changed
<1>5. PICK n \in Nat :
        n \in {receipts[d], receipts[d] + 1} /\ receipts' = [receipts EXCEPT ![d] = n]
  <2>1. CASE receipts' = receipts
    BY <2>1, DeliveryTyped
  <2>2. CASE receipts' = [receipts EXCEPT ![d] = receipts[d] + 1]
    <3>1. receipts[d] + 1 \in Nat
      BY DeliveryTyped
    <3> QED BY <2>2, <3>1, Zenon
  <2> QED BY <2>1, <2>2 DEF postFails
<1>6. Reached(x, n)
  <2>1. e.failed \in Nat
    BY <1>1 DEF Delivery
  <2>2. receipts[d] <= e.failed /\ receipts[d] \in Nat
    BY <1>1, DeliveryTyped DEF Reached
  <2>3. n <= e.failed + 1
    BY <1>5, <2>1, <2>2
  <2> QED BY <1>2, <1>3, <2>3 DEF Reached
<1>7. AllReached(delivery', receipts')
  BY <1>1, <1>3, <1>4, <1>5, <1>6, StepReached DEF WebhookInv
<1>8. PICK u \in Subscribed : u = subscription[s]
  BY <1>1 DEF WebhookInv
<1>9. PICK c \in Nat, b \in BOOLEAN :
        /\ c = u.failureCount + 1
        /\ subscription' = [subscription EXCEPT ![s].failureCount = c, ![s].enabled = b]
  <2>1. PICK c \in Nat : c = u.failureCount + 1
    BY <1>8 DEF Subscribed
  <2>2. PICK b \in BOOLEAN :
          b = (u.enabled /\ ~(e.attempt = maxRetries /\ c >= DisableAt))
    BY Zenon
  <2>3. subscription' = [subscription EXCEPT ![s].failureCount = c, ![s].enabled = b]
    BY <1>1, <1>8, <2>1, <2>2, Zenon DEF postFails, failureRecorded
  <2> QED BY <2>1, <2>3
<1>10. PICK y : y = [u EXCEPT !.failureCount = c, !.enabled = b]
  OBVIOUS
<1>11. y \in Subscribed /\ y.deliveryCount = u.deliveryCount /\ y.failureCount = u.failureCount + 1
  BY <1>9, <1>10 DEF Subscribed
<1>12. subscription' = [subscription EXCEPT ![s] = y]
  BY <1>8, <1>9, <1>10 DEF WebhookInv
<1>13. /\ subscription' \in [Subscriptions -> Subscribed] /\ subscription'[s] = y
       /\ \A q \in Subscriptions : q # s => subscription'[q] = subscription[q]
  BY <1>11, <1>12 DEF WebhookInv
<1>14. ASSUME NEW q \in Subscriptions PROVE CountsOf(subscription'[q], delivery', q)
  <2>1. CountsOf(subscription[q], delivery, q)
    BY DEF WebhookInv
  <2>2. delivery \in Seq(Delivery) /\ x.to = delivery[d].to /\ x.failed = delivery[d].failed + 1
        /\ delivery[d].status # "delivered" /\ x.status # "delivered"
    BY <1>1, <1>2, <1>3, DeliveryTyped
  <2>3. Arrived(delivery', q) = Arrived(delivery, q)
    BY <1>3, <1>4, <2>2, ReceivedKept
  <2>4. /\ IsFiniteSet(FailedPosts(delivery', q))
        /\ Cardinality(FailedPosts(delivery', q)) =
             IF q = s THEN Cardinality(FailedPosts(delivery, q)) + 1
             ELSE Cardinality(FailedPosts(delivery, q))
    <3>1. IsFiniteSet(FailedPosts(delivery, q))
      BY <2>1 DEF CountsOf
    <3>2. /\ IsFiniteSet(FailedPosts(Changed(delivery, d, x), q))
          /\ Cardinality(FailedPosts(Changed(delivery, d, x), q)) =
               IF q = x.to THEN Cardinality(FailedPosts(delivery, q)) + 1
               ELSE Cardinality(FailedPosts(delivery, q))
      BY <1>3, <2>2, <3>1, FailuresAdded
    <3> QED BY <1>3, <1>4, <3>2
  <2>5. CASE q = s
    BY <1>8, <1>11, <1>13, <2>1, <2>3, <2>4, <2>5 DEF CountsOf
  <2>6. CASE q # s
    BY <1>13, <2>1, <2>3, <2>4, <2>6 DEF CountsOf
  <2> QED BY <2>5, <2>6
<1> QED
  BY <1>7, <1>13, <1>14 DEF WebhookInv

\* A retry counts nothing.
LEMMA RetryCounted ==
  ASSUME WebhookInv, NEW d \in DOMAIN delivery, retryDelivery(d)
  PROVE  WebhookInv'
<1>1. PICK e \in Delivery : e = delivery[d] /\ e.status = "sleeping"
  BY DeliveryTyped DEF retryDelivery
<1>2. PICK a \in Nat : a = e.attempt + 1
  BY DEF Delivery
<1>3. PICK x : x = [e EXCEPT !.status = "pending", !.attempt = a]
  OBVIOUS
<1>4. x \in Delivery /\ x.to = e.to /\ x.status = "pending" /\ x.failed = e.failed
  BY <1>1, <1>2, <1>3 DEF Delivery
<1>5. delivery' = Changed(delivery, d, x)
  BY <1>1, <1>2, <1>3, Zenon DEF retryDelivery, Changed
<1>6. Reached(x, receipts[d])
  BY <1>1, <1>4, DeliveryTyped DEF Reached
<1>7. receipts' = [receipts EXCEPT ![d] = receipts[d]]
  BY DeliveryTyped DEF retryDelivery
<1>8. AllReached(delivery', receipts')
  <2>1. PICK n \in Nat : n = receipts[d]
    BY DeliveryTyped
  <2>2. x.to = delivery[d].to /\ AllReached(delivery, receipts)
    BY <1>1, <1>4 DEF WebhookInv
  <2> QED BY <1>4, <1>5, <1>6, <1>7, <2>1, <2>2, StepReached
<1>9. delivery \in Seq(Delivery) /\ x.to = delivery[d].to /\ x.failed = delivery[d].failed
      /\ delivery[d].status # "delivered" /\ x.status # "delivered"
  BY <1>1, <1>4, DeliveryTyped
<1>10. ASSUME NEW q \in Subscriptions PROVE CountsOf(subscription[q], delivery', q)
  <2>1. FailedPosts(delivery', q) = FailedPosts(delivery, q)
    BY <1>4, <1>5, <1>9, FailuresKept
  <2>2. Arrived(delivery', q) = Arrived(delivery, q)
    BY <1>4, <1>5, <1>9, ReceivedKept
  <2> QED BY <2>1, <2>2 DEF WebhookInv, CountsOf
<1> QED
  BY <1>8, <1>10 DEF WebhookInv, retryDelivery

\* The places of two sequences put together.
Joined(a, b, c, m, k) ==
  Len(c) = m + k /\ \A i \in 1..(m + k) : c[i] = IF i <= m THEN a[i] ELSE b[i - m]

\* They are the first's, then the second's.
LEMMA ConcatPlaces ==
  ASSUME NEW S, NEW a \in Seq(S), NEW b \in Seq(S), NEW m \in Nat, NEW k \in Nat,
         m = Len(a), k = Len(b)
  PROVE  a \o b \in Seq(S) /\ Joined(a, b, a \o b, m, k)
BY ConcatProperties DEF Joined

\* New deliveries, of which nothing was received yet.
Blank(nd, nr, n, o) ==
  nd = [i \in 1..n |-> NewDelivery(o[i])] /\ nr = [i \in 1..n |-> 0]

\* They count nothing.
LEMMA NewReached ==
  ASSUME NEW dl, NEW rc, AllReached(dl, rc), NEW n \in Nat, NEW o \in [1..n -> Subscriptions],
         NEW nd, NEW nr, Blank(nd, nr, n, o)
  PROVE  /\ AllReached(dl \o nd, rc \o nr) /\ nd \in Seq(Delivery)
         /\ \A i \in DOMAIN nd : nd[i].status = "pending" /\ nd[i].failed = 0
<1>0. nd = [i \in 1..n |-> NewDelivery(o[i])] /\ nr = [i \in 1..n |-> 0]
  BY DEF Blank
<1>1. \A i \in 1..n : /\ nd[i] \in Delivery /\ nd[i].status = "pending" /\ nd[i].failed = 0
                      /\ nr[i] = 0
  BY <1>0 DEF NewDelivery, Delivery
<1>2. nd \in Seq(Delivery) /\ nr \in Seq(Nat) /\ Len(nd) = n /\ Len(nr) = n /\ DOMAIN nd = 1..n
  BY <1>0, <1>1
<1>3. PICK m \in Nat : m = Len(dl) /\ m = Len(rc)
  BY LenProperties DEF AllReached
<1>4. dl \in Seq(Delivery) /\ rc \in Seq(Nat)
  BY DEF AllReached
<1>5. PICK cd, cr : cd = dl \o nd /\ cr = rc \o nr
  OBVIOUS
<1>6. /\ cd \in Seq(Delivery) /\ Len(cd) = m + n
      /\ \A i \in 1..(m + n) : cd[i] = IF i <= m THEN dl[i] ELSE nd[i - m]
  <2>1. m \in Nat /\ m = Len(dl) /\ n = Len(nd) /\ dl \in Seq(Delivery) /\ nd \in Seq(Delivery)
    BY <1>2, <1>3, <1>4
  <2>2. dl \o nd \in Seq(Delivery) /\ Joined(dl, nd, dl \o nd, m, n)
    BY <2>1, ConcatPlaces, Zenon
  <2> QED BY <1>5, <2>2 DEF Joined
<1>7. /\ cr \in Seq(Nat) /\ Len(cr) = m + n
      /\ \A i \in 1..(m + n) : cr[i] = IF i <= m THEN rc[i] ELSE nr[i - m]
  <2>1. m \in Nat /\ m = Len(rc) /\ n = Len(nr) /\ rc \in Seq(Nat) /\ nr \in Seq(Nat)
    BY <1>2, <1>3, <1>4
  <2>2. rc \o nr \in Seq(Nat) /\ Joined(rc, nr, rc \o nr, m, n)
    BY <2>1, ConcatPlaces, Zenon
  <2> QED BY <1>5, <2>2 DEF Joined
<1>8. DOMAIN cd = 1..(m + n) /\ DOMAIN dl = 1..m
  BY <1>3, <1>4, <1>6, LenProperties
<1>9. ASSUME NEW i \in 1..(m + n) PROVE Reached(cd[i], cr[i])
  <2>1. CASE i <= m
    <3>1. i \in DOMAIN dl /\ cd[i] = dl[i] /\ cr[i] = rc[i]
      BY <1>6, <1>7, <1>8, <2>1
    <3> QED BY <3>1 DEF AllReached
  <2>2. CASE ~(i <= m)
    <3>1. PICK j \in 1..n : j = i - m
      BY <2>2
    <3>2. cd[i] = nd[j] /\ cr[i] = nr[j]
      BY <1>6, <1>7, <2>2, <3>1
    <3> QED BY <1>1, <3>2 DEF Reached
  <2> QED BY <2>1, <2>2
<1> QED
  BY <1>1, <1>2, <1>5, <1>6, <1>7, <1>8, <1>9 DEF AllReached

\* An event sent changes no count.
LEMMA SendCounted ==
  ASSUME WebhookInv, send
  PROVE  WebhookInv'
<1>1. PICK W : W = {s \in Subscriptions : subscription[s].listed /\ subscription[s].enabled}
  OBVIOUS
<1>2. PICK n \in Nat : n = Cardinality(W)
  <2>1. W \in SUBSET Subscriptions
    BY <1>1
  <2> QED BY <2>1, WebhookSubscriptions, FS_Subset, FS_CardinalityType
<1>3. PICK o \in [1..n -> Subscriptions] :
        /\ delivery' = delivery \o [i \in DOMAIN o |-> NewDelivery(o[i])]
        /\ receipts' = receipts \o [i \in DOMAIN o |-> 0]
  BY <1>1, <1>2, Zenon DEF send
<1>4. PICK nd, nr : nd = [i \in 1..n |-> NewDelivery(o[i])] /\ nr = [i \in 1..n |-> 0]
  OBVIOUS
<1>5. delivery' = delivery \o nd /\ receipts' = receipts \o nr
  <2>1. DOMAIN o = 1..n
    OBVIOUS
  <2> QED BY <1>3, <1>4, <2>1, Zenon
<1>6. /\ AllReached(delivery \o nd, receipts \o nr) /\ nd \in Seq(Delivery)
      /\ \A i \in DOMAIN nd : nd[i].status = "pending" /\ nd[i].failed = 0
  <2>1. AllReached(delivery, receipts)
    BY DEF WebhookInv
  <2>2. Blank(nd, nr, n, o)
    BY <1>4, Zenon DEF Blank
  <2> QED BY <2>1, <2>2, NewReached
<1>7. ASSUME NEW q \in Subscriptions PROVE CountsOf(subscription[q], delivery', q)
  <2>1. delivery \in Seq(Delivery)
    BY DEF WebhookInv, AllReached
  <2>2. /\ Arrived(delivery', q) = Arrived(delivery, q)
        /\ FailedPosts(delivery', q) = FailedPosts(delivery, q)
    BY <1>5, <1>6, <2>1, DeliveriesAdded
  <2> QED BY <2>2 DEF WebhookInv, CountsOf
<1> QED
  BY <1>5, <1>6, <1>7 DEF WebhookInv, send

\* What an operator does to a subscription leaves its counts.
LEMMA SubscriptionChanged ==
  ASSUME WebhookInv, NEW s \in Subscriptions, NEW y \in Subscribed,
         y.deliveryCount = subscription[s].deliveryCount,
         y.failureCount = subscription[s].failureCount,
         subscription' = [subscription EXCEPT ![s] = y],
         delivery' = delivery, receipts' = receipts
  PROVE  WebhookInv'
<1>1. /\ subscription' \in [Subscriptions -> Subscribed] /\ subscription'[s] = y
      /\ \A q \in Subscriptions : q # s => subscription'[q] = subscription[q]
  BY DEF WebhookInv
<1>2. ASSUME NEW q \in Subscriptions PROVE CountsOf(subscription'[q], delivery, q)
  BY <1>1 DEF WebhookInv, CountsOf
<1> QED
  BY <1>1, <1>2 DEF WebhookInv

\* Nor does a change of one of its flags.
LEMMA FlagsChanged ==
  ASSUME NEW u \in Subscribed, NEW b \in BOOLEAN, NEW c \in BOOLEAN, NEW y,
         y = [u EXCEPT !.listed = b, !.enabled = c]
  PROVE  y \in Subscribed /\ y.deliveryCount = u.deliveryCount /\ y.failureCount = u.failureCount
BY DEF Subscribed

\* Subscribing, unsubscribing and enabling.
LEMMA OperatorCounted ==
  ASSUME WebhookInv, NEW s \in Subscriptions,
         \/ subscribe(s) \/ unsubscribe(s) \/ \E e \in BOOLEAN : updateSubscription(s, e)
  PROVE  WebhookInv'
<1>1. PICK u \in Subscribed : u = subscription[s]
  BY DEF WebhookInv
<1>2. delivery' = delivery /\ receipts' = receipts
  BY DEF subscribe, unsubscribe, updateSubscription
<1>3. \E b \in BOOLEAN, c \in BOOLEAN :
        subscription' = [subscription EXCEPT ![s] = [u EXCEPT !.listed = b, !.enabled = c]]
  <2>1. CASE subscribe(s)
    BY <1>1, <2>1, Zenon DEF subscribe
  <2>2. CASE unsubscribe(s)
    <3>1. subscription' = [subscription EXCEPT ![s] = [u EXCEPT !.listed = FALSE]]
      BY <1>1, <2>2, Zenon DEF unsubscribe
    <3>2. u.enabled \in BOOLEAN /\ u = [u EXCEPT !.enabled = u.enabled]
      BY DEF Subscribed
    <3>3. \E b \in BOOLEAN : b = FALSE
      BY Zenon
    <3>4. PICK b \in BOOLEAN : [u EXCEPT !.listed = b] = [u EXCEPT !.listed = FALSE]
      BY <3>3, Zenon
    <3>5. [u EXCEPT !.listed = b] = [u EXCEPT !.listed = b, !.enabled = u.enabled]
      BY DEF Subscribed
    <3> QED BY <3>1, <3>2, <3>4, <3>5, Zenon
  <2>3. ASSUME NEW e \in BOOLEAN, updateSubscription(s, e)
        PROVE  \E b \in BOOLEAN, c \in BOOLEAN :
                 subscription' = [subscription EXCEPT ![s] = [u EXCEPT !.listed = b, !.enabled = c]]
    <3>1. subscription' = [subscription EXCEPT ![s] = [u EXCEPT !.enabled = e]]
      BY <1>1, <2>3, Zenon DEF updateSubscription
    <3>2. u.listed \in BOOLEAN
          /\ [u EXCEPT !.enabled = e] = [u EXCEPT !.listed = u.listed, !.enabled = e]
      BY DEF Subscribed
    <3> QED BY <3>1, <3>2, Zenon
  <2> QED BY <2>1, <2>2, <2>3
<1>4. PICK b \in BOOLEAN, c \in BOOLEAN :
        subscription' = [subscription EXCEPT ![s] = [u EXCEPT !.listed = b, !.enabled = c]]
  BY <1>3
<1>5. PICK y : y = [u EXCEPT !.listed = b, !.enabled = c]
  OBVIOUS
<1>6. y \in Subscribed /\ y.deliveryCount = u.deliveryCount /\ y.failureCount = u.failureCount
  BY <1>5, FlagsChanged
<1> QED
  BY <1>1, <1>2, <1>4, <1>5, <1>6, SubscriptionChanged

\* No deliveries and no counts at the start.
LEMMA WebhookInvInit == WebhookInit => WebhookInv
<1> SUFFICES ASSUME WebhookInit PROVE WebhookInv
  OBVIOUS
<1>1. Unlisted \in Subscribed /\ Unlisted.deliveryCount = 0 /\ Unlisted.failureCount = 0
  BY Zenon DEF Unlisted, Subscribed
<1>2. /\ delivery \in Seq(Delivery) /\ receipts \in Seq(Nat) /\ Len(receipts) = Len(delivery)
      /\ DOMAIN delivery = {}
  BY DEF WebhookInit
<1>3. \A s : Arrived(delivery, s) = {} /\ FailedPosts(delivery, s) = {}
  BY <1>2 DEF Arrived, FailedPosts
<1>4. \A s \in Subscriptions : CountsOf(Unlisted, delivery, s)
  BY <1>1, <1>3, FS_EmptySet DEF CountsOf
<1>5. subscription = [s \in Subscriptions |-> Unlisted]
  BY Zenon DEF WebhookInit
<1>6. PICK z : z = Unlisted
  OBVIOUS
<1>7. subscription \in [Subscriptions -> Subscribed] /\ \A s \in Subscriptions : subscription[s] = z
  BY <1>1, <1>5, <1>6, Zenon
<1> QED
  BY <1>2, <1>4, <1>6, <1>7 DEF WebhookInv, AllReached

\* Every step counts right.
LEMMA WebhookInvStep ==
  ASSUME WebhookInv, [WebhookNext]_webhookVars
  PROVE  WebhookInv'
<1>1. CASE UNCHANGED webhookVars
  BY <1>1 DEF WebhookInv, webhookVars
<1> QED
  BY <1>1, OperatorCounted, SendCounted, AnswerCounted, FailureCounted, RetryCounted DEF WebhookNext

\* The counts WebhookService keeps of a subscription are those of its deliveries, and a delivery
\* marked delivered reached the receiver, at most once per attempt, whatever the retries, the
\* deliveries under way and what becomes of the subscription meanwhile.
THEOREM CountsAreThoseOfDeliveries ==
  WebhookInit /\ [][WebhookNext]_webhookVars => []DeliveriesAreCounted
<1>1. WebhookInit => WebhookInv
  BY WebhookInvInit
<1>2. WebhookInv /\ [WebhookNext]_webhookVars => WebhookInv'
  BY WebhookInvStep
<1>3. WebhookInv => DeliveriesAreCounted
  <2> SUFFICES ASSUME WebhookInv PROVE DeliveriesAreCounted
    OBVIOUS
  <2>1. ASSUME NEW s
        PROVE  /\ FailuresTo(s) = Cardinality(FailedPosts(delivery, s))
               /\ {d \in To(s) : delivery[d].status = "delivered"} = Arrived(delivery, s)
    BY DEF FailuresTo, To, FailedPosts, Column, Arrived
  <2>2. ASSUME NEW d \in DOMAIN delivery
        PROVE  /\ delivery[d].status = "delivered" => receipts[d] > 0
               /\ receipts[d] <= delivery[d].failed + 1
    <3>1. delivery[d].failed \in Nat /\ receipts[d] \in Nat /\ Reached(delivery[d], receipts[d])
      BY DeliveryTyped DEF Delivery
    <3> QED BY <3>1 DEF Reached
  <2> QED BY <2>1, <2>2 DEF WebhookInv, CountsOf, DeliveriesAreCounted
<1> QED
  BY <1>1, <1>2, <1>3, PTL

(***************************************************************************)
(* Records                                                                 *)
(***************************************************************************)
\* The tasks resolved up to a block, and those the index has or knows it misses.
Settled(b) == {t \in Tasks : resolved[t] # NotResolved /\ resolved[t].block <= b}

Kept == Cached \union missed

\* The chain: a resolved task has its final score, its block and revealed evaluators.
SoundTask(t) ==
  /\ revealed[t] \in Seq(Evaluators)
  /\ resolved[t] # NotResolved =>
       /\ resolved[t].score = FinalScore[t] /\ resolved[t].block \in 1..block
       /\ revealed[t] # <<>>

\* The record of a task.
ChainRecord(t) == buildRecordFromChainData(revealed[t][1], FinalScore[t])

SoundRecord(t) ==
  recordCache[t] # NoRecord => resolved[t] # NotResolved /\ recordCache[t] = ChainRecord(t)

\* What a request under way has read.
SoundIndexer(i) ==
  /\ i.pc \in {"idle", "read", "fetch", "build"}
  /\ i.pc = "read" =>
       /\ i.task \in Tasks
       /\ i.first # <<>> => revealed[i.task] # <<>> /\ i.first[1] = revealed[i.task][1]
  /\ i.pc = "fetch" => /\ i.from \in Nat /\ i.to \in Nat /\ i.from <= i.to /\ i.to <= block
                      /\ Settled(i.from - 1) \subseteq Kept
  /\ i.pc = "build" => /\ i.to \in Nat /\ i.to <= block
                      /\ Settled(i.to) \subseteq Kept \union i.left
                      /\ \A t \in i.left : t \in Tasks /\ resolved[t] # NotResolved

IndexInv ==
  /\ block \in Nat /\ lastIndexedBlock \in Nat /\ lastIndexedBlock <= block
  /\ DOMAIN revealed = Tasks /\ DOMAIN resolved = Tasks /\ DOMAIN recordCache = Tasks
  /\ DOMAIN indexer = Indexers
  /\ \A t \in Tasks : SoundTask(t) /\ SoundRecord(t)
  /\ Settled(lastIndexedBlock) \subseteq Kept
  /\ \A x \in Indexers : SoundIndexer(indexer[x])

\* What a record says.
LEMMA RecordSays ==
  ASSUME NEW e, NEW s, NEW r, r = buildRecordFromChainData(e, s)
  PROVE  /\ r.score_bps = s /\ r.verdict = (s >= PASS) /\ r.worthy = (s >= WORTHY)
BY Zenon DEF buildRecordFromChainData

\* The record of a resolved task is one.
LEMMA RecordIsOne ==
  ASSUME NEW t \in Tasks
  PROVE  ChainRecord(t) # NoRecord
<1>1. ChainRecord(t).score_bps = FinalScore[t]
  BY RecordSays DEF ChainRecord
<1>2. PICK f \in 0..10000 : f = FinalScore[t]
  BY IndexerAssumption
<1>3. PICK n, r : n = NoRecord.score_bps /\ r = ChainRecord(t)
  OBVIOUS
<1>4. n = -1
  BY <1>3 DEF NoRecord
<1>5. f # n
  <2>1. \A z \in 0..10000, m \in {-1} : z # m
    OBVIOUS
  <2>2. n \in {-1}
    BY <1>4
  <2> QED BY <2>1, <2>2
<1>6. r.score_bps = f
  BY <1>1, <1>2, <1>3
<1> QED
  BY <1>3, <1>5, <1>6

\* What is read of a task: its record once it is resolved, if its evaluators were revealed.
LEMMA ReadRecord ==
  ASSUME IndexInv, NEW t \in Tasks, NEW first,
         first # <<>> => revealed[t] # <<>> /\ first[1] = revealed[t][1]
  PROVE  \/ RecordOf(t, first) = NoRecord /\ (resolved[t] = NotResolved \/ first = <<>>)
         \/ RecordOf(t, first) = ChainRecord(t) /\ resolved[t] # NotResolved
<1>1. SoundTask(t)
  BY DEF IndexInv
<1> QED
  BY <1>1 DEF RecordOf, ChainRecord, SoundTask

\* A step that leaves the chain alone, and forgets no task, leaves a request's view sound.
LEMMA ViewStays ==
  ASSUME NEW i, SoundIndexer(i), Kept \subseteq Kept',
         block' = block, revealed' = revealed, resolved' = resolved
  PROVE  SoundIndexer(i)'
<1>1. \A b : Settled(b)' = Settled(b)
  BY DEF Settled
<1> QED
  BY <1>1 DEF SoundIndexer

\* The cache after a step, which forgets nothing.
CacheSound ==
  /\ DOMAIN recordCache' = Tasks /\ \A t \in Tasks : SoundRecord(t)'
  /\ Kept \subseteq Kept'

\* A step of the service that forgets nothing and of which one request takes part.
LEMMA ServiceStep ==
  ASSUME IndexInv, block' = block, revealed' = revealed, resolved' = resolved,
         CacheSound,
         NEW x \in Indexers, NEW i, indexer' = [indexer EXCEPT ![x] = i], SoundIndexer(i)',
         lastIndexedBlock' \in Nat, lastIndexedBlock' <= block,
         Settled(lastIndexedBlock') \subseteq Kept
  PROVE  IndexInv'
<1>1. \A t \in Tasks : SoundTask(t)'
  BY DEF IndexInv, SoundTask
<1>2. Settled(lastIndexedBlock)' \subseteq Kept'
  BY DEF Settled, CacheSound
<1>3. ASSUME NEW y \in Indexers PROVE SoundIndexer(indexer[y])'
  <2>1. CASE y = x
    <3>1. indexer'[y] = i
      BY <2>1 DEF IndexInv
    <3> QED BY <3>1 DEF SoundIndexer
  <2>2. CASE y # x
    <3>1. indexer'[y] = indexer[y] /\ SoundIndexer(indexer[y])
      BY <2>2 DEF IndexInv
    <3>2. PICK j : j = indexer[y]
      OBVIOUS
    <3>3. SoundIndexer(j)'
      BY <3>1, <3>2, ViewStays DEF CacheSound
    <3>4. indexer'[y] = j
      BY <3>1, <3>2
    <3> QED BY <3>3, <3>4 DEF SoundIndexer
  <2> QED BY <2>1, <2>2
<1>4. DOMAIN indexer' = Indexers
  BY DEF IndexInv
<1> QED
  BY <1>1, <1>2, <1>3, <1>4 DEF IndexInv, CacheSound

\* The cache is left alone.
SameCache ==
  DOMAIN recordCache' = DOMAIN recordCache /\ \A t \in Tasks : recordCache'[t] = recordCache[t]

\* Then it stays sound.
LEMMA CacheStays ==
  ASSUME IndexInv, revealed' = revealed, resolved' = resolved,
         recordCache' = recordCache \/ SameCache,
         missed \subseteq missed'
  PROVE  CacheSound
BY DEF IndexInv, SoundRecord, ChainRecord, Kept, Cached, CacheSound, SameCache

\* The record of a resolved task enters the cache.
LEMMA CacheGrows ==
  ASSUME IndexInv, revealed' = revealed, resolved' = resolved, missed' = missed,
         NEW t \in Tasks, resolved[t] # NotResolved,
         recordCache' = [recordCache EXCEPT ![t] = ChainRecord(t)]
  PROVE  CacheSound /\ t \in Kept'
<1>1. /\ DOMAIN recordCache' = Tasks /\ recordCache'[t] = ChainRecord(t)
      /\ \A u \in Tasks : u # t => recordCache'[u] = recordCache[u]
  BY DEF IndexInv
<1>2. recordCache'[t] # NoRecord
  BY <1>1, RecordIsOne
<1>3. \A u \in Tasks : SoundRecord(u)'
  BY <1>1 DEF IndexInv, SoundRecord, ChainRecord
<1>4. NoRecord' = NoRecord
  OBVIOUS
<1> QED
  BY <1>1, <1>2, <1>3, <1>4 DEF Kept, Cached, CacheSound

\* A request that waits is sound.
LEMMA WaitingIsSound == SoundIndexer(Waiting)'
BY DEF SoundIndexer, Waiting

\* The block the index has reached, when the step does not move it.
LEMMA ReachedStays ==
  ASSUME IndexInv
  PROVE  /\ lastIndexedBlock \in Nat /\ lastIndexedBlock <= block
         /\ Settled(lastIndexedBlock) \subseteq Kept
BY DEF IndexInv

\* An entry set to itself.
LEMMA SameEntry ==
  \A t : recordCache' = [recordCache EXCEPT ![t] = recordCache[t]] =>
           recordCache' = recordCache \/ SameCache
BY DEF SameCache

\* A request reads what was revealed of a task.
LEMMA ReadKeepsIndex ==
  ASSUME IndexInv, NEW x \in Indexers, NEW t \in Tasks, readRevealed(x, t)
  PROVE  IndexInv'
<1>1. PICK i : i = [pc |-> "read", task |-> t, first |-> revealed[t]]
  OBVIOUS
<1>2. indexer' = [indexer EXCEPT ![x] = i]
  BY <1>1 DEF readRevealed
<1>3. SoundIndexer(i)'
  BY <1>1 DEF SoundIndexer, readRevealed
<1> QED
  BY <1>2, <1>3, CacheStays, ReachedStays, ServiceStep DEF readRevealed

\* A request that read what was revealed asks for the result.
LEMMA GetKeepsIndex ==
  ASSUME IndexInv, NEW x \in Indexers, getRecordForTask(x)
  PROVE  IndexInv'
<1>1. PICK t, first : t = indexer[x].task /\ first = indexer[x].first
  OBVIOUS
<1>2. t \in Tasks /\ (first # <<>> => revealed[t] # <<>> /\ first[1] = revealed[t][1])
  BY <1>1 DEF IndexInv, SoundIndexer, getRecordForTask
<1>3. \/ recordCache' = recordCache \/ SameCache
      \/ /\ resolved[t] # NotResolved
         /\ recordCache' = [recordCache EXCEPT ![t] = ChainRecord(t)]
  <2>1. CASE recordCache' = [recordCache EXCEPT ![t] = IF RecordOf(t, first) = NoRecord
                               THEN recordCache[t] ELSE RecordOf(t, first)]
    <3>1. CASE RecordOf(t, first) = NoRecord
      <4>1. recordCache' = [recordCache EXCEPT ![t] = recordCache[t]]
        BY <2>1, <3>1, Zenon
      <4> QED BY <4>1, SameEntry
    <3>2. CASE RecordOf(t, first) # NoRecord
      BY <1>2, <2>1, <3>2, ReadRecord
    <3> QED BY <3>1, <3>2
  <2> QED BY <1>1, <2>1 DEF getRecordForTask
<1>4. CacheSound
  BY <1>2, <1>3, CacheStays, CacheGrows DEF getRecordForTask
<1> QED
  BY <1>4, ReachedStays, WaitingIsSound, ServiceStep DEF getRecordForTask

\* A run begins where the index ends, or with the window, of which it misses the rest.
LEMMA StartKeepsIndex ==
  ASSUME IndexInv, NEW x \in Indexers, startIndexing(x)
  PROVE  IndexInv'
<1>0. block \in Nat
  BY DEF IndexInv
<1>1. PICK f \in {FirstBlock(block)}, b \in Nat : f = FirstBlock(block) /\ b = block
  BY <1>0, Zenon
<1>2. PICK i : i = [pc |-> "fetch", from |-> f, to |-> b]
  OBVIOUS
<1>3. indexer' = [indexer EXCEPT ![x] = i]
  BY <1>1, <1>2 DEF startIndexing
<1>4. f \in Nat /\ f <= b
  BY <1>1, IndexerAssumption DEF startIndexing, FirstBlock, IndexInv
<1>5. CacheSound
  BY CacheStays DEF startIndexing
<1>6. Settled(f - 1) \subseteq Kept'
  <2>1. CASE lastIndexedBlock > 0
    <3>1. f - 1 = lastIndexedBlock
      BY <1>1, <2>1 DEF FirstBlock, IndexInv
    <3> QED BY <1>5, <3>1, ReachedStays DEF CacheSound
  <2>2. CASE ~(lastIndexedBlock > 0)
    <3>1. lastIndexedBlock = 0
      BY <2>2 DEF IndexInv
    <3>2. Settled(f - 1) \subseteq Events(0, f - 1)
      BY <1>4 DEF Settled, Events, IndexInv, SoundTask
    <3>3. missed' = missed \union Events(0, f - 1)
      BY <1>1, <3>1 DEF startIndexing
    <3> QED BY <3>2, <3>3 DEF Kept
  <2> QED BY <2>1, <2>2
<1>7. SoundIndexer(i)'
  <2>1. i.pc = "fetch" /\ i.from = f /\ i.to = b
    BY <1>2
  <2>2. Settled(f - 1)' = Settled(f - 1) /\ block' = b
    BY <1>1 DEF Settled, startIndexing
  <2> QED BY <1>4, <1>6, <2>1, <2>2 DEF SoundIndexer
<1> QED
  BY <1>3, <1>5, <1>7, ReachedStays, ServiceStep DEF startIndexing

\* The events of the range, or none.
LEMMA FetchKeepsIndex ==
  ASSUME IndexInv, NEW x \in Indexers, eventsFetched(x)
  PROVE  IndexInv'
<1>1. PICK f \in Nat, b \in Nat : f = indexer[x].from /\ b = indexer[x].to
  BY DEF IndexInv, SoundIndexer, eventsFetched
<1>2. b <= block /\ Settled(f - 1) \subseteq Kept /\ indexer[x] = indexer[x]
  BY <1>1 DEF IndexInv, SoundIndexer, eventsFetched
<1>3. PICK found : found = Events(f, b)
  OBVIOUS
<1>4. PICK left : /\ indexer' = [indexer EXCEPT ![x] = [pc |-> "build", to |-> b, left |-> left]]
                  /\ \/ left = found /\ missed' = missed
                     \/ left = {} /\ missed' = missed \union found
  <2>1. \/ /\ indexer' = [indexer EXCEPT ![x] = [pc |-> "build", to |-> b, left |-> found]]
           /\ missed' = missed
        \/ /\ indexer' = [indexer EXCEPT ![x] = [pc |-> "build", to |-> b, left |-> {}]]
           /\ missed' = missed \union found
    BY <1>1, <1>3 DEF eventsFetched, IndexInv
  <2> QED BY <2>1
<1>5. PICK i : i = [pc |-> "build", to |-> b, left |-> left]
  OBVIOUS
<1>6. CacheSound
  BY <1>4, CacheStays DEF eventsFetched
<1>7. Settled(b) \subseteq Settled(f - 1) \union found
  <2> SUFFICES ASSUME NEW t \in Tasks, resolved[t] # NotResolved, resolved[t].block <= b,
                      ~(resolved[t].block <= f - 1)
               PROVE  t \in found
    BY DEF Settled
  <2>1. PICK c \in Int : c = resolved[t].block
    BY DEF IndexInv, SoundTask
  <2>2. c \in f..b
    BY <1>1, <2>1
  <2> QED BY <1>3, <2>1, <2>2 DEF Events
<1>8. Settled(b) \subseteq Kept' \union left
  BY <1>2, <1>4, <1>6, <1>7 DEF Kept, CacheSound
<1>9. \A t \in left : t \in Tasks /\ resolved[t] # NotResolved
  BY <1>3, <1>4 DEF Events
<1>10. SoundIndexer(i)'
  <2>1. i.pc = "build" /\ i.to = b /\ i.left = left
    BY <1>5
  <2>2. Settled(b)' = Settled(b) /\ block' = block /\ resolved' = resolved
    BY DEF Settled, eventsFetched
  <2> QED BY <1>2, <1>8, <1>9, <2>1, <2>2 DEF SoundIndexer
<1> QED
  BY <1>4, <1>5, <1>6, <1>10, ReachedStays, ServiceStep DEF eventsFetched

\* A task of the range is in the cache afterwards, or known to be missing.
LEMMA BuildKeepsIndex ==
  ASSUME IndexInv, NEW x \in Indexers, buildRecord(x)
  PROVE  IndexInv'
<1>1. PICK t \in indexer[x].left :
        /\ indexer' = [indexer EXCEPT ![x].left = @ \ {t}]
        /\ \/ /\ recordCache' = [recordCache EXCEPT ![t] =
                    IF recordCache[t] = NoRecord THEN RecordOf(t, revealed[t]) ELSE recordCache[t]]
              /\ missed' = missed
           \/ /\ recordCache[t] = NoRecord /\ missed' = missed \union {t}
              /\ recordCache' = recordCache
  BY DEF buildRecord
<1>2. PICK j : j = indexer[x] /\ j.pc = "build" /\ SoundIndexer(j)
  BY DEF buildRecord, IndexInv
<1>3. t \in Tasks /\ resolved[t] # NotResolved /\ t \in j.left
  BY <1>1, <1>2 DEF SoundIndexer
<1>4. CacheSound /\ t \in Kept'
  <2>1. CASE /\ recordCache[t] = NoRecord /\ missed' = missed
             /\ recordCache' = [recordCache EXCEPT ![t] = RecordOf(t, revealed[t])]
    <3>1. revealed[t] # <<>>
      BY <1>3 DEF IndexInv, SoundTask
    <3>2. RecordOf(t, revealed[t]) = ChainRecord(t)
      BY <1>3, <3>1, ReadRecord
    <3> QED BY <1>3, <2>1, <3>2, CacheGrows DEF buildRecord
  <2>2. CASE /\ recordCache[t] # NoRecord /\ missed' = missed
             /\ recordCache' = [recordCache EXCEPT ![t] = recordCache[t]]
    <3>1. CacheSound
      BY <2>2, CacheStays, SameEntry DEF buildRecord
    <3> QED BY <1>3, <2>2, <3>1 DEF Kept, Cached, CacheSound
  <2>3. CASE missed' = missed \union {t} /\ recordCache' = recordCache
    <3>1. CacheSound
      BY <2>3, CacheStays DEF buildRecord
    <3> QED BY <2>3, <3>1 DEF Kept
  <2> QED BY <1>1, <2>1, <2>2, <2>3
<1>5. PICK i : i = [j EXCEPT !.left = j.left \ {t}]
  OBVIOUS
<1>6. indexer' = [indexer EXCEPT ![x] = i]
  BY <1>1, <1>2, <1>5, Zenon
<1>7. i.pc = "build" /\ i.to = j.to /\ i.left = j.left \ {t}
  BY <1>2, <1>5
<1>8. SoundIndexer(i)'
  <2>1. Settled(j.to)' = Settled(j.to) /\ block' = block /\ resolved' = resolved
    BY DEF Settled, buildRecord
  <2>2. Settled(j.to) \subseteq Kept' \union i.left
    BY <1>2, <1>4, <1>7 DEF SoundIndexer, CacheSound
  <2> QED BY <1>2, <1>7, <2>1, <2>2 DEF SoundIndexer
<1> QED
  BY <1>4, <1>6, <1>8, ReachedStays, ServiceStep DEF buildRecord

\* The end of a run: every task up to its block is in the cache or known to be missing.
LEMMA FinishKeepsIndex ==
  ASSUME IndexInv, NEW x \in Indexers, finishIndexing(x)
  PROVE  IndexInv'
<1>1. PICK b \in Nat : b = indexer[x].to /\ b <= block /\ Settled(b) \subseteq Kept
  BY DEF IndexInv, SoundIndexer, finishIndexing
<1>2. lastIndexedBlock' = b
  BY <1>1 DEF finishIndexing
<1>3. CacheSound
  BY CacheStays DEF finishIndexing
<1> QED
  BY <1>1, <1>2, <1>3, WaitingIsSound, ServiceStep DEF finishIndexing

\* What is resolved in a new block is not of an earlier one.
LEMMA SettledStays ==
  ASSUME block \in Nat, NEW b \in Int, b <= block,
         \A t \in Tasks : \/ resolved'[t] = resolved[t]
                          \/ resolved[t] = NotResolved /\ resolved'[t].block = block + 1
  PROVE  Settled(b)' = Settled(b)
<1> SUFFICES ASSUME NEW t \in Tasks
             PROVE  (resolved'[t] # NotResolved /\ resolved'[t].block <= b)
                      <=> (resolved[t] # NotResolved /\ resolved[t].block <= b)
  BY DEF Settled
<1>1. CASE resolved'[t] = resolved[t]
  BY <1>1
<1>2. CASE resolved[t] = NotResolved /\ resolved'[t].block = block + 1
  BY <1>2
<1> QED
  BY <1>1, <1>2

\* A request's view while the chain grows.
LEMMA ChainView ==
  ASSUME IndexInv, NEW i, SoundIndexer(i), block' \in Nat, block <= block',
         recordCache' = recordCache, missed' = missed,
         \A t \in Tasks : \/ resolved'[t] = resolved[t]
                          \/ resolved[t] = NotResolved /\ resolved'[t].block = block + 1,
         \A t \in Tasks : revealed[t] # <<>> =>
            revealed'[t] # <<>> /\ revealed'[t][1] = revealed[t][1]
  PROVE  SoundIndexer(i)'
<1>1. Kept' = Kept /\ block \in Nat
  BY DEF Kept, Cached, IndexInv
<1>2. \A b \in Int : b <= block => Settled(b)' = Settled(b)
  BY SettledStays DEF IndexInv
<1>3. CASE i.pc = "read"
  BY <1>3 DEF SoundIndexer
<1>4. CASE i.pc = "fetch"
  <2>1. i.from - 1 \in Int /\ i.from - 1 <= block /\ i.to \in Nat /\ i.to <= block'
    BY <1>1, <1>4 DEF SoundIndexer
  <2> QED BY <1>1, <1>2, <1>4, <2>1 DEF SoundIndexer
<1>5. CASE i.pc = "build"
  <2>1. i.to \in Int /\ i.to <= block /\ i.to <= block'
    BY <1>1, <1>5 DEF SoundIndexer
  <2> QED BY <1>1, <1>2, <1>5, <2>1 DEF SoundIndexer
<1> QED
  BY <1>3, <1>4, <1>5 DEF SoundIndexer

\* The chain grows: the service's index stays sound.
LEMMA ChainStep ==
  ASSUME IndexInv, block' \in Nat, block <= block', UNCHANGED <<recordCache, missed,
         lastIndexedBlock, indexer>>, DOMAIN revealed' = Tasks, DOMAIN resolved' = Tasks,
         \A t \in Tasks : SoundTask(t)',
         \A t \in Tasks : \/ resolved'[t] = resolved[t]
                          \/ resolved[t] = NotResolved /\ resolved'[t].block = block + 1,
         \A t \in Tasks : revealed[t] # <<>> =>
            revealed'[t] # <<>> /\ revealed'[t][1] = revealed[t][1]
  PROVE  IndexInv'
<1>1. \A x \in Indexers : SoundIndexer(indexer[x])'
  <2> SUFFICES ASSUME NEW x \in Indexers PROVE SoundIndexer(indexer[x])'
    OBVIOUS
  <2>1. PICK i : i = indexer[x] /\ i = indexer'[x]
    OBVIOUS
  <2>2. SoundIndexer(i)'
    BY <2>1, ChainView DEF IndexInv
  <2> QED BY <2>1, <2>2 DEF SoundIndexer
<1>2. \A t \in Tasks : SoundRecord(t)'
  <2> SUFFICES ASSUME NEW t \in Tasks, recordCache[t] # NoRecord
               PROVE  resolved'[t] # NotResolved /\ recordCache[t] = ChainRecord(t)'
    BY DEF SoundRecord
  <2>1. /\ resolved[t] # NotResolved /\ recordCache[t] = ChainRecord(t)
        /\ revealed[t] # <<>>
    BY DEF IndexInv, SoundRecord, SoundTask
  <2>2. resolved'[t] # NotResolved /\ revealed'[t][1] = revealed[t][1]
    BY <2>1
  <2> QED BY <2>1, <2>2 DEF ChainRecord
<1>3. Settled(lastIndexedBlock)' \subseteq Kept'
  <2>1. Kept' = Kept /\ block \in Nat
    BY DEF Kept, Cached, IndexInv
  <2>2. Settled(lastIndexedBlock)' = Settled(lastIndexedBlock)
    BY SettledStays DEF IndexInv
  <2> QED BY <2>1, <2>2 DEF IndexInv
<1>4. lastIndexedBlock <= block'
  BY DEF IndexInv
<1> QED
  BY <1>1, <1>2, <1>3, <1>4 DEF IndexInv

\* An evaluator is revealed for a task that is not resolved.
LEMMA RevealKeepsIndex ==
  ASSUME IndexInv, NEW t \in Tasks, NEW e \in Evaluators, reveal(t, e)
  PROVE  IndexInv'
<1>1. PICK s \in Seq(Evaluators) : s = revealed[t]
  BY DEF IndexInv, SoundTask
<1>2. PICK n : n = Append(s, e)
  OBVIOUS
<1>3. n \in Seq(Evaluators) /\ n # <<>> /\ (s # <<>> => n[1] = s[1])
  <2>1. Len(s) \in Nat /\ (s # <<>> => Len(s) > 0)
    BY LenProperties, EmptySeq
  <2>2. n \in Seq(Evaluators) /\ Len(n) = Len(s) + 1
    BY <1>2, AppendProperties
  <2>3. \A i \in 1..Len(s) : n[i] = s[i]
    BY <1>2, AppendProperties
  <2>4. n # <<>>
    BY <2>1, <2>2, EmptySeq
  <2> QED BY <2>1, <2>2, <2>3, <2>4
<1>4. /\ DOMAIN revealed' = Tasks /\ revealed'[t] = n
      /\ \A u \in Tasks : u # t => revealed'[u] = revealed[u]
  BY <1>1, <1>2 DEF IndexInv, reveal
<1>5. \A u \in Tasks : SoundTask(u)'
  BY <1>3, <1>4 DEF IndexInv, SoundTask, reveal
<1>6. \A u \in Tasks : revealed[u] # <<>> => revealed'[u] # <<>> /\ revealed'[u][1] = revealed[u][1]
  BY <1>1, <1>3, <1>4
<1>7. block' = block /\ block \in Nat /\ resolved' = resolved /\ DOMAIN resolved' = Tasks
  BY DEF reveal, IndexInv
<1> QED
  BY <1>4, <1>5, <1>6, <1>7, ChainStep DEF reveal

\* A task is resolved, or a block holds nothing.
LEMMA MineKeepsIndex ==
  ASSUME IndexInv, mineBlock \/ \E t \in Tasks : resolveTask(t)
  PROVE  IndexInv'
<1>1. block \in Nat /\ block' = block + 1
  BY DEF IndexInv, mineBlock, resolveTask
<1>2. DOMAIN resolved' = Tasks /\ revealed' = revealed /\ DOMAIN revealed' = Tasks
  BY DEF IndexInv, mineBlock, resolveTask
<1>3. \A u \in Tasks : \/ resolved'[u] = resolved[u]
                       \/ /\ resolved[u] = NotResolved /\ resolved'[u].block = block + 1
                          /\ resolved'[u].score = FinalScore[u] /\ revealed[u] # <<>>
  BY DEF IndexInv, mineBlock, resolveTask
<1>4. ASSUME NEW u \in Tasks PROVE SoundTask(u)'
  <2>1. CASE resolved'[u] = resolved[u]
    BY <1>1, <1>2, <2>1 DEF IndexInv, SoundTask
  <2>2. CASE /\ resolved[u] = NotResolved /\ resolved'[u].block = block + 1
             /\ resolved'[u].score = FinalScore[u] /\ revealed[u] # <<>>
    <3>1. revealed[u] \in Seq(Evaluators)
      BY DEF IndexInv, SoundTask
    <3> QED BY <1>1, <1>2, <2>2, <3>1 DEF SoundTask
  <2> QED BY <1>3, <2>1, <2>2
<1>5. \A u \in Tasks : \/ resolved'[u] = resolved[u]
                       \/ resolved[u] = NotResolved /\ resolved'[u].block = block + 1
  BY <1>3
<1>6. block' \in Nat /\ block <= block'
  BY <1>1
<1>7. UNCHANGED <<recordCache, missed, lastIndexedBlock, indexer>>
  BY DEF mineBlock, resolveTask
<1> QED
  BY <1>2, <1>4, <1>5, <1>6, <1>7, ChainStep

\* With an empty cache nothing is claimed.
LEMMA EmptyIndex ==
  ASSUME block \in Nat, DOMAIN revealed = Tasks, DOMAIN resolved = Tasks,
         \A t \in Tasks : SoundTask(t),
         recordCache = [t \in Tasks |-> NoRecord], lastIndexedBlock = 0, missed = {},
         indexer = [x \in Indexers |-> Waiting]
  PROVE  IndexInv
<1>1. Settled(0) = {}
  BY DEF Settled, SoundTask
<1>2. \A t \in Tasks : SoundRecord(t)
  BY DEF SoundRecord
<1>3. SoundIndexer(Waiting)
  BY DEF SoundIndexer, Waiting
<1> QED
  BY <1>1, <1>2, <1>3 DEF IndexInv

\* The start of the chain.
LEMMA IndexInvInit == IndexerInit => IndexInv
<1> SUFFICES ASSUME IndexerInit PROVE IndexInv
  OBVIOUS
<1>1. block \in Nat /\ DOMAIN revealed = Tasks /\ DOMAIN resolved = Tasks
  BY DEF IndexerInit
<1>2. \A t \in Tasks : SoundTask(t)
  BY DEF IndexerInit, SoundTask
<1> QED
  BY <1>1, <1>2, EmptyIndex DEF IndexerInit

\* A restart of the API, after which missed is empty too.
LEMMA RestartKeepsIndex ==
  ASSUME IndexInv, restartRecords
  PROVE  IndexInv'
<1>1. block' \in Nat /\ DOMAIN revealed' = Tasks /\ DOMAIN resolved' = Tasks
  BY DEF IndexInv, restartRecords
<1>2. \A t \in Tasks : SoundTask(t)'
  BY DEF IndexInv, SoundTask, restartRecords
<1>3. Settled(0)' = {}
  BY <1>2 DEF Settled, SoundTask
<1>4. \A t \in Tasks : SoundRecord(t)'
  BY DEF SoundRecord, restartRecords
<1>5. \A x \in Indexers : SoundIndexer(indexer[x])'
  <2> SUFFICES ASSUME NEW x \in Indexers PROVE SoundIndexer(indexer[x])'
    OBVIOUS
  <2>1. indexer'[x] = Waiting
    BY DEF restartRecords
  <2> QED BY <2>1 DEF SoundIndexer, Waiting
<1> QED
  BY <1>1, <1>2, <1>3, <1>4, <1>5 DEF IndexInv, restartRecords

\* Every step keeps the index a view of the chain.
LEMMA IndexInvStep ==
  ASSUME IndexInv, [IndexerNext]_indexerVars
  PROVE  IndexInv'
<1>1. CASE UNCHANGED indexerVars
  <2>1. \A t \in Tasks : SoundTask(t)' /\ SoundRecord(t)'
    BY <1>1 DEF IndexInv, SoundTask, SoundRecord, ChainRecord, indexerVars
  <2>2. \A b : Settled(b)' = Settled(b)
    BY <1>1 DEF Settled, indexerVars
  <2>3. Kept' = Kept
    BY <1>1 DEF Kept, Cached, indexerVars
  <2>4. \A x \in Indexers : SoundIndexer(indexer[x])'
    BY <1>1, <2>2, <2>3 DEF IndexInv, SoundIndexer, indexerVars
  <2> QED BY <1>1, <2>1, <2>2, <2>3, <2>4 DEF IndexInv, indexerVars
<1>2. ASSUME NEW x \in Indexers,
             \/ startIndexing(x) \/ eventsFetched(x) \/ buildRecord(x) \/ finishIndexing(x)
             \/ getRecordForTask(x) \/ \E t \in Tasks : readRevealed(x, t)
      PROVE  IndexInv'
  BY <1>2, StartKeepsIndex, FetchKeepsIndex, BuildKeepsIndex, FinishKeepsIndex, GetKeepsIndex,
     ReadKeepsIndex
<1> QED
  BY <1>1, <1>2, RevealKeepsIndex, MineKeepsIndex, RestartKeepsIndex DEF IndexerNext

\* What recordsService.ts lists is what the chain has, and a task resolved up to the block it
\* indexed is in its cache unless a fetch failed or it is older than the window, whatever the
\* tasks, the scores, the window and the indexing runs that overlap.
THEOREM IndexIsAView == IndexerInit /\ [][IndexerNext]_indexerVars => []IndexMatchesTheChain
<1>1. IndexerInit => IndexInv
  BY IndexInvInit
<1>2. IndexInv /\ [IndexerNext]_indexerVars => IndexInv'
  BY IndexInvStep
<1>3. IndexInv => IndexMatchesTheChain
  <2> SUFFICES ASSUME IndexInv PROVE IndexMatchesTheChain
    OBVIOUS
  <2>1. ASSUME NEW t \in Cached
        PROVE  /\ resolved[t] # NotResolved /\ recordCache[t] = RecordOf(t, revealed[t])
               /\ recordCache[t] = ChainRecord(t) /\ resolved[t].score = FinalScore[t]
    BY DEF Cached, IndexInv, SoundRecord, SoundTask, RecordOf, ChainRecord
  <2>2. ASSUME NEW t \in listRecords(DefaultFilter)
        PROVE  resolved[t].score >= WORTHY /\ recordCache[t].verdict
    <3>1. t \in Cached /\ t \in Tasks /\ recordCache[t].worthy
      BY Zenon DEF listRecords, matchesFilter, DefaultFilter, Cached
    <3>2. recordCache[t].worthy = (FinalScore[t] >= WORTHY)
          /\ recordCache[t].verdict = (FinalScore[t] >= PASS)
      <4>1. PICK e, f, r : r = buildRecordFromChainData(e, f) /\ f = FinalScore[t]
                           /\ r = recordCache[t]
        BY <2>1, <3>1 DEF ChainRecord
      <4>2. r = buildRecordFromChainData(e, f)
        BY <4>1
      <4>3. r.worthy = (f >= WORTHY) /\ r.verdict = (f >= PASS)
        BY <4>2, Zenon DEF buildRecordFromChainData
      <4> QED BY <4>1, <4>3, Zenon
    <3>3. FinalScore[t] >= WORTHY
      BY <3>1, <3>2, Zenon
    <3>4. FinalScore[t] >= PASS
      <4>1. PICK f \in 0..10000 : f = FinalScore[t]
        BY <3>1, IndexerAssumption
      <4>2. f >= PASS
        BY <3>3, <4>1, IndexerAssumption
      <4> QED BY <4>1, <4>2
    <3>5. recordCache[t].verdict
      BY <3>2, <3>4, Zenon
    <3> QED BY <2>1, <3>1, <3>3, <3>5, Zenon
  <2>3. RecordsMatchTheChain
    BY <2>1, <2>2, Zenon DEF RecordsMatchTheChain
  <2>4. IndexHasNoGaps
    BY DEF IndexInv, Settled, Kept, IndexHasNoGaps
  <2> QED BY <2>3, <2>4 DEF IndexMatchesTheChain
<1> QED
  BY <1>1, <1>2, <1>3, PTL

(***************************************************************************)
(* Provider routing                                                        *)
(***************************************************************************)
Breakers == [state : {"CLOSED", "OPEN", "HALF_OPEN"}, fails : Nat, open : Nat, probes : Nat]

ModelCalls == [model : Models, attempt : Nat,
               status : {"calling", "circuit_open", "skipped", "ok", "error"}]

\* No model has a slash beyond the recovery time, and none the penalty of one without it.
SlashesFit ==
  /\ penalty \in [Models -> 0 .. 100]
  /\ slash \in [Models -> Nat \union {NotSlashed}]
  /\ \A m \in Models : slash[m] <= RecoveryTicks
  /\ \A m \in Models : slash[m] = NotSlashed => penalty[m] < SLASH_THRESHOLD
  /\ IsFiniteSet(failedNow)

RoutingInv ==
  /\ breaker \in [Models -> Breakers]
  /\ calls \in Seq(ModelCalls)
  /\ SlashesFit
  /\ ProbesAreInFlight

\* A breaker keeps its form through each of its operations, and only a half-open breaker
\* that has let calls through counts probes (updateState, canExecute, recordSuccess,
\* recordFailure).
LEMMA BreakerTyped ==
  ASSUME NEW b \in Breakers, NEW n \in Nat
  PROVE  /\ UpdatedBreaker(b) \in Breakers /\ WithProbes(b, n) \in Breakers
         /\ SuccessRecorded(b) \in Breakers /\ SuccessRecorded(b).state # "HALF_OPEN"
         /\ FailureRecorded(b) \in Breakers /\ FailureRecorded(b).state # "HALF_OPEN"
<1>1. MaxProbes \in Nat /\ OpenTicks \in Nat /\ Threshold \in Nat \ {0}
  BY RoutingAssumption
<1>2. ClosedBreaker \in Breakers
  BY DEF ClosedBreaker, Breakers
<1>3. \A x \in Breakers : OpenedBreaker(x) \in Breakers /\ OpenedBreaker(x).state = "OPEN"
  <2> SUFFICES ASSUME NEW x \in Breakers
               PROVE  OpenedBreaker(x) \in Breakers /\ OpenedBreaker(x).state = "OPEN"
    OBVIOUS
  <2>1. [x EXCEPT !.state = "OPEN"] \in Breakers /\ [x EXCEPT !.state = "OPEN"].state = "OPEN"
    BY DEF Breakers
  <2>2. \A y \in Breakers : /\ [y EXCEPT !.open = OpenTicks + 1] \in Breakers
                            /\ [y EXCEPT !.open = OpenTicks + 1].state = y.state
                            /\ [y EXCEPT !.probes = 0] \in Breakers
                            /\ [y EXCEPT !.probes = 0].state = y.state
    BY <1>1 DEF Breakers
  <2> QED BY <2>1, <2>2 DEF OpenedBreaker
<1>4. UpdatedBreaker(b) \in Breakers
  BY DEF UpdatedBreaker, Breakers
<1>5. WithProbes(b, n) \in Breakers
  BY <1>1 DEF WithProbes, Breakers
<1>6. SuccessRecorded(b) \in Breakers /\ SuccessRecorded(b).state # "HALF_OPEN"
  BY <1>2 DEF SuccessRecorded, ClosedBreaker
<1>7. FailureRecorded(b) \in Breakers /\ FailureRecorded(b).state # "HALF_OPEN"
  <2> DEFINE fails == IF b.fails < Threshold THEN b.fails + 1 ELSE b.fails
             b1 == [b EXCEPT !.fails = fails]
  <2>1. b1 \in Breakers /\ b1.state = b.state
    BY <1>1 DEF Breakers
  <2>2. FailureRecorded(b) = IF b.state = "HALF_OPEN" \/ fails >= Threshold
                             THEN OpenedBreaker(b1) ELSE b1
    BY DEF FailureRecorded
  <2> HIDE DEF b1, fails
  <2> QED BY <1>3, <2>1, <2>2
<1> QED
  BY <1>4, <1>5, <1>6, <1>7

\* The delta of a failure is at most 40 (PENALTY_DELTA and the square root of correlation).
LEMMA DeltaBounded ==
  ASSUME NEW severity, NEW n \in Nat
  PROVE  PenaltyDelta(severity, n) \in 1 .. 40
BY DEF PenaltyDelta

\* After a look a model that is not slashed is below the threshold (isSlashed).
LEMMA LookFits ==
  ASSUME SlashesFit, NEW m \in Models
  PROVE  /\ SlashAfterLook(m) \in Nat \union {NotSlashed} /\ SlashAfterLook(m) <= RecoveryTicks
         /\ PenaltyAfterLook(m) \in 0 .. 100
         /\ SlashAfterLook(m) = NotSlashed => PenaltyAfterLook(m) < SLASH_THRESHOLD
         /\ SlashAfterLook(m) # NotSlashed => SlashAfterLook(m) = slash[m] /\ slash[m] > 0
         /\ slash[m] > 0 => SlashAfterLook(m) = slash[m]
  BY RoutingAssumption
     DEF SlashesFit, SlashAfterLook, PenaltyAfterLook, Lapsed, NotSlashed, SLASH_THRESHOLD

\* A failure slashes at the threshold, and shortens no slash (recordProviderError).
LEMMA ErrorFits ==
  ASSUME SlashesFit, NEW m \in Models, NEW severity, recordProviderError(m, severity)
  PROVE  SlashesFit' /\ \A x \in Models : slash[x] > 0 => slash'[x] >= slash[x]
<1>1. RecoveryTicks \in Nat \ {0} /\ NotSlashed = -1 /\ SLASH_THRESHOLD = 80
  BY RoutingAssumption DEF NotSlashed, SLASH_THRESHOLD
<1>2. CASE SlashAfterLook(m) # NotSlashed
  <2>1. /\ slash' = [slash EXCEPT ![m] = RecoveryTicks]
        /\ penalty' = penalty /\ failedNow' = failedNow
    BY <1>2 DEF recordProviderError
  <2> QED BY <1>1, <2>1 DEF SlashesFit
<1>3. CASE SlashAfterLook(m) = NotSlashed
  <2>1. PICK next : next = PenaltyAfterLook(m)
                             + PenaltyDelta(severity, Cardinality(failedNow \ {m}))
    OBVIOUS
  <2>2. PICK capped : capped = IF next < 100 THEN next ELSE 100
    OBVIOUS
  <2>3. Cardinality(failedNow \ {m}) \in Nat
    BY FS_CardinalityType, FS_RemoveElement DEF SlashesFit
  <2>4. capped \in 0 .. 100
    <3>1. PenaltyDelta(severity, Cardinality(failedNow \ {m})) \in 1 .. 40
      BY <2>3, DeltaBounded
    <3> QED BY <2>1, <2>2, <3>1, LookFits
  <2>5. /\ penalty' = [penalty EXCEPT ![m] = capped]
        /\ slash' = [slash EXCEPT ![m] = IF capped >= SLASH_THRESHOLD
                                          THEN RecoveryTicks ELSE NotSlashed]
        /\ failedNow' = failedNow \union {m}
    BY <1>3, <2>1, <2>2 DEF recordProviderError
  <2>6. IsFiniteSet(failedNow')
    BY <2>5, FS_AddElement DEF SlashesFit
  <2>7. slash[m] <= 0
    BY <1>1, <1>3, LookFits DEF SlashesFit
  <2> QED BY <1>1, <2>4, <2>5, <2>6, <2>7 DEF SlashesFit
<1> QED
  BY <1>2, <1>3

\* A success lowers a penalty, and shortens no slash (recordProviderSuccess).
LEMMA SuccessFits ==
  ASSUME SlashesFit, NEW m \in Models, recordProviderSuccess(m)
  PROVE  SlashesFit' /\ \A x \in Models : slash[x] > 0 => slash'[x] >= slash[x]
<1>1. RecoveryTicks \in Nat \ {0} /\ NotSlashed = -1 /\ SLASH_THRESHOLD = 80
  BY RoutingAssumption DEF NotSlashed, SLASH_THRESHOLD
<1>2. PICK p : p = IF SlashAfterLook(m) # NotSlashed THEN penalty[m]
                   ELSE IF PenaltyAfterLook(m) > 5 THEN PenaltyAfterLook(m) - 5 ELSE 0
  OBVIOUS
<1>3. /\ slash' = [slash EXCEPT ![m] = SlashAfterLook(m)]
      /\ penalty' = [penalty EXCEPT ![m] = p] /\ failedNow' = failedNow
  BY <1>2 DEF recordProviderSuccess, SlashesFit
<1>4. p \in 0 .. 100 /\ (SlashAfterLook(m) = NotSlashed => p < SLASH_THRESHOLD)
  BY <1>1, <1>2, LookFits DEF SlashesFit
<1>5. /\ SlashAfterLook(m) \in Nat \union {NotSlashed} /\ SlashAfterLook(m) <= RecoveryTicks
      /\ slash[m] > 0 => SlashAfterLook(m) = slash[m]
  BY LookFits
<1> QED
  BY <1>1, <1>3, <1>4, <1>5 DEF SlashesFit

\* The end of a call that is under way closes or opens the breaker of its model, so the
\* probes of the other breakers are still under way (recordSuccess, recordFailure).
LEMMA ProbeEnds ==
  ASSUME RoutingInv, NEW i \in DOMAIN calls, NEW end \in {"ok", "error"},
         EndCall(i, end), NEW b \in Breakers,
         breaker' = [breaker EXCEPT ![calls[i].model] = b],
         b.state # "HALF_OPEN"
  PROVE  breaker' \in [Models -> Breakers] /\ calls' \in Seq(ModelCalls) /\ ProbesAreInFlight'
<1>1. calls[i] \in ModelCalls
  BY DEF RoutingInv
<1>2. calls[i].model \in Models
  BY <1>1 DEF ModelCalls
<1>3. PICK x : x = [calls[i] EXCEPT !.status = end, !.attempt = 1]
  OBVIOUS
<1>4. calls' = [calls EXCEPT ![i] = x]
  BY <1>3 DEF EndCall
<1>5. x \in ModelCalls
  BY <1>1, <1>3 DEF ModelCalls
<1>6. calls' \in Seq(ModelCalls) /\ DOMAIN calls' = DOMAIN calls
      /\ \A j \in DOMAIN calls : j # i => calls'[j] = calls[j]
  BY <1>4, <1>5 DEF RoutingInv
<1>7. breaker' \in [Models -> Breakers]
  BY <1>2 DEF RoutingInv
<1>8. ASSUME NEW m \in Models, breaker'[m].state = "HALF_OPEN"
      PROVE  /\ breaker'[m].probes <= MaxProbes
             /\ breaker'[m].probes > 0 =>
                  \E j \in DOMAIN calls' : calls'[j].model = m /\ calls'[j].status = "calling"
  <2>1. m # calls[i].model
    BY <1>2, <1>8 DEF RoutingInv
  <2>2. breaker'[m] = breaker[m]
    BY <1>2, <2>1 DEF RoutingInv
  <2> QED BY <1>6, <1>8, <2>1, <2>2 DEF RoutingInv, ProbesAreInFlight
<1> QED
  BY <1>6, <1>7, <1>8 DEF ProbesAreInFlight

\* A call that has not been made or goes on leaves the probes where they are.
LEMMA ProbesStay ==
  ASSUME RoutingInv, NEW i \in DOMAIN calls, NEW x \in ModelCalls,
         calls' = [calls EXCEPT ![i] = x], breaker' = breaker,
         x.model = calls[i].model, calls[i].status = "calling" => x.status = "calling"
  PROVE  breaker' \in [Models -> Breakers] /\ calls' \in Seq(ModelCalls) /\ ProbesAreInFlight'
<1>1. calls' \in Seq(ModelCalls) /\ DOMAIN calls' = DOMAIN calls
      /\ calls'[i] = x /\ \A j \in DOMAIN calls : j # i => calls'[j] = calls[j]
  BY DEF RoutingInv
<1> QED
  BY <1>1 DEF RoutingInv, ProbesAreInFlight

\* A failed attempt is tried again (executeWithRetry).
LEMMA RetryRoutes ==
  ASSUME RoutingInv, NEW i \in DOMAIN calls, retryCall(i)
  PROVE  RoutingInv' /\ SlashedStaySilent
<1>1. calls[i] \in ModelCalls /\ calls[i].status = "calling"
  BY DEF RoutingInv, retryCall
<1>2. PICK x : x = [calls[i] EXCEPT !.attempt = calls[i].attempt + 1]
  OBVIOUS
<1>3. calls' = [calls EXCEPT ![i] = x] /\ UNCHANGED <<breaker, penalty, slash, failedNow>>
  BY <1>2 DEF retryCall
<1>4. x \in ModelCalls /\ x.model = calls[i].model /\ x.status = calls[i].status
  BY <1>1, <1>2 DEF ModelCalls
<1>5. breaker' \in [Models -> Breakers] /\ calls' \in Seq(ModelCalls) /\ ProbesAreInFlight'
  BY <1>1, <1>3, <1>4, ProbesStay
<1>6. SlashesFit'
  BY <1>3 DEF RoutingInv, SlashesFit
<1>7. SlashedStaySilent
  BY <1>3 DEF SlashedStaySilent, RoutingInv, SlashesFit, NotSlashed
<1> QED
  BY <1>5, <1>6, <1>7 DEF RoutingInv

\* A slash is at least what it was, which is all a step says of it while calls are under way.
LEMMA SlashStays ==
  ASSUME RoutingInv, calls # <<>>, \A m \in Models : slash[m] > 0 => slash'[m] >= slash[m],
         SlashesFit'
  PROVE  SlashedStaySilent
  BY DEF SlashedStaySilent, RoutingInv, SlashesFit, NotSlashed

\* A call succeeds.
LEMMA SuccessRoutes ==
  ASSUME RoutingInv, NEW i \in DOMAIN calls, callSucceeds(i)
  PROVE  RoutingInv' /\ SlashedStaySilent
<1>0. calls[i] \in ModelCalls
  BY DEF RoutingInv
<1>1. calls[i].model \in Models
  BY <1>0 DEF ModelCalls
<1>2. PICK b : b = SuccessRecorded(breaker[calls[i].model])
  OBVIOUS
<1>3. breaker' = [breaker EXCEPT ![calls[i].model] = b] /\ EndCall(i, "ok")
  BY <1>2 DEF callSucceeds
<1>4. b \in Breakers /\ b.state # "HALF_OPEN"
  BY <1>1, <1>2, BreakerTyped DEF RoutingInv
<1>5. breaker' \in [Models -> Breakers] /\ calls' \in Seq(ModelCalls) /\ ProbesAreInFlight'
  BY <1>3, <1>4, ProbeEnds
<1>6. SlashesFit' /\ \A m \in Models : slash[m] > 0 => slash'[m] >= slash[m]
  BY <1>1, SuccessFits DEF RoutingInv, callSucceeds
<1>7. calls # <<>>
  OBVIOUS
<1> QED
  BY <1>5, <1>6, <1>7, SlashStays DEF RoutingInv

\* A call fails for good.
LEMMA FailureRoutes ==
  ASSUME RoutingInv, NEW i \in DOMAIN calls, callFails(i)
  PROVE  RoutingInv' /\ SlashedStaySilent
<1>0. calls[i] \in ModelCalls
  BY DEF RoutingInv
<1>1. calls[i].model \in Models
  BY <1>0 DEF ModelCalls
<1>2. PICK b : b = FailureRecorded(breaker[calls[i].model])
  OBVIOUS
<1>3. breaker' = [breaker EXCEPT ![calls[i].model] = b] /\ EndCall(i, "error")
  BY <1>2 DEF callFails
<1>4. b \in Breakers /\ b.state # "HALF_OPEN"
  BY <1>1, <1>2, BreakerTyped DEF RoutingInv
<1>5. breaker' \in [Models -> Breakers] /\ calls' \in Seq(ModelCalls) /\ ProbesAreInFlight'
  BY <1>3, <1>4, ProbeEnds
<1>6. SlashesFit' /\ \A m \in Models : slash[m] > 0 => slash'[m] >= slash[m]
  BY <1>1, ErrorFits DEF RoutingInv, callFails
<1>7. calls # <<>>
  OBVIOUS
<1> QED
  BY <1>5, <1>6, <1>7, SlashStays DEF RoutingInv

\* A call that the breaker refused fails.
LEMMA RefusalRoutes ==
  ASSUME RoutingInv, NEW i \in DOMAIN calls, callRefused(i)
  PROVE  RoutingInv' /\ SlashedStaySilent
<1>0. calls[i] \in ModelCalls
  BY DEF RoutingInv
<1>1. calls[i] \in ModelCalls /\ calls[i].model \in Models /\ calls[i].status = "circuit_open"
  BY <1>0 DEF ModelCalls, callRefused
<1>2. PICK x : x = [calls[i] EXCEPT !.status = "error", !.attempt = 1]
  OBVIOUS
<1>3. calls' = [calls EXCEPT ![i] = x] /\ breaker' = breaker
  BY <1>2 DEF callRefused, EndCall
<1>4. x \in ModelCalls /\ x.model = calls[i].model
  BY <1>1, <1>2 DEF ModelCalls
<1>5. breaker' \in [Models -> Breakers] /\ calls' \in Seq(ModelCalls) /\ ProbesAreInFlight'
  BY <1>1, <1>3, <1>4, ProbesStay
<1>6. SlashesFit' /\ \A m \in Models : slash[m] > 0 => slash'[m] >= slash[m]
  BY <1>1, ErrorFits DEF RoutingInv, callRefused
<1>7. calls # <<>>
  OBVIOUS
<1> QED
  BY <1>5, <1>6, <1>7, SlashStays DEF RoutingInv

\* The first call of a query to a model comes after no other to it.
LEMMA FirstAsked ==
  ASSUME NEW ms \in Seq(Models), NEW m \in Models, Asked(ms, m) # 0
  PROVE  \E i \in DOMAIN ms : ms[i] = m /\ Earlier(ms, i) = 0
<1> DEFINE T == {i \in DOMAIN ms : ms[i] = m}
<1>1. T # {}
  BY FS_EmptySet DEF Asked
<1>2. T \subseteq Nat
  OBVIOUS
<1>3. PICK i \in T : \A j \in T : ~(j < i)
  <2> HIDE DEF T
  <2> QED BY <1>1, <1>2, LeastNatural
<1>4. {j \in 1 .. i - 1 : ms[j] = ms[i]} = {}
  BY <1>3
<1>5. Earlier(ms, i) = 0
  BY <1>4, FS_EmptySet DEF Earlier
<1> QED
  BY <1>3, <1>5

\* How many calls of a query go to a model is a number.
LEMMA AskedFinite ==
  ASSUME NEW ms \in Seq(Models), NEW m
  PROVE  Asked(ms, m) \in Nat
<1>1. IsFiniteSet(1 .. Len(ms))
  BY FS_Interval
<1>2. {i \in DOMAIN ms : ms[i] = m} \subseteq 1 .. Len(ms)
  OBVIOUS
<1> QED
  BY <1>1, <1>2, FS_Subset, FS_CardinalityType DEF Asked

\* A query calls no slashed model, and where it lets a probe through that probe is under way
\* (queryMultipleModels).
LEMMA QueryRoutes ==
  ASSUME RoutingInv, NEW ms \in ModelLists, queryMultipleModels(ms)
  PROVE  RoutingInv' /\ SlashedStaySilent
<1>1. /\ ms \in Seq(Models) /\ MaxProbes \in Nat \ {0} /\ RecoveryTicks \in Nat
      /\ NotSlashed = -1 /\ SLASH_THRESHOLD = 80
  BY RoutingAssumption DEF NotSlashed, SLASH_THRESHOLD
<1>2. /\ calls = <<>>
      /\ slash' = [m \in Models |-> SlashAfterLook(m)]
      /\ penalty' = [m \in Models |-> PenaltyAfterLook(m)]
      /\ calls' = [i \in DOMAIN ms |->
                     [model |-> ms[i], status |-> CallStatus(ms, i), attempt |-> 1]]
      /\ breaker' = [m \in Models |->
           IF Asked(ms, m) = 0 \/ SlashAfterLook(m) # NotSlashed THEN breaker[m]
           ELSE WithProbes(UpdatedBreaker(breaker[m]), Asked(ms, m))]
      /\ failedNow' = failedNow
  BY DEF queryMultipleModels
<1>3. \A m \in Models :
        /\ SlashAfterLook(m) \in Nat \union {NotSlashed} /\ SlashAfterLook(m) <= RecoveryTicks
        /\ PenaltyAfterLook(m) \in 0 .. 100
        /\ SlashAfterLook(m) = NotSlashed => PenaltyAfterLook(m) < SLASH_THRESHOLD
        /\ slash[m] > 0 => SlashAfterLook(m) = slash[m]
  BY LookFits DEF RoutingInv
<1>4. SlashesFit'
  BY <1>2, <1>3 DEF RoutingInv, SlashesFit
<1>5. \A i \in DOMAIN ms : CallStatus(ms, i) \in {"calling", "circuit_open", "skipped"}
  BY DEF CallStatus
<1>6. calls' \in Seq(ModelCalls)
  <2>1. \A i \in DOMAIN ms :
          [model |-> ms[i], status |-> CallStatus(ms, i), attempt |-> 1] \in ModelCalls
    BY <1>1, <1>5 DEF ModelCalls
  <2>2. DOMAIN ms = 1 .. Len(ms) /\ Len(ms) \in Nat
    BY <1>1
  <2>3. calls' \in [1 .. Len(ms) -> ModelCalls]
    BY <1>2, <2>1, <2>2
  <2> QED BY <2>2, <2>3, SeqDef
<1>7. \A m \in Models : Asked(ms, m) \in Nat
  BY <1>1, AskedFinite
<1>8. breaker' \in [Models -> Breakers]
  BY <1>2, <1>7, BreakerTyped DEF RoutingInv
<1>9. ASSUME NEW m \in Models, breaker'[m].state = "HALF_OPEN"
      PROVE  /\ breaker'[m].probes <= MaxProbes
             /\ breaker'[m].probes > 0 =>
                  \E i \in DOMAIN calls' : calls'[i].model = m /\ calls'[i].status = "calling"
  <2>1. breaker[m] \in Breakers /\ (breaker[m].state = "HALF_OPEN" => breaker[m].probes = 0)
    BY <1>2 DEF RoutingInv, ProbesAreInFlight, Breakers
  <2>2. CASE Asked(ms, m) = 0 \/ SlashAfterLook(m) # NotSlashed
    <3>1. breaker'[m] = breaker[m]
      BY <1>2, <2>2
    <3> QED BY <1>1, <1>9, <2>1, <3>1
  <2>3. CASE Asked(ms, m) # 0 /\ SlashAfterLook(m) = NotSlashed
    <3>1. PICK b : b = UpdatedBreaker(breaker[m])
      OBVIOUS
    <3>2. PICK n : n = Asked(ms, m)
      OBVIOUS
    <3>3. breaker'[m] = WithProbes(b, n)
      BY <1>2, <2>3, <3>1, <3>2
    <3>4. b \in Breakers /\ (b.state = "HALF_OPEN" => b.probes = 0) /\ n \in Nat
      BY <1>7, <2>1, <3>1, <3>2 DEF UpdatedBreaker, Breakers
    <3>5. b.state = "HALF_OPEN" /\ breaker'[m].probes <= MaxProbes
      BY <1>1, <1>9, <3>3, <3>4 DEF WithProbes, Breakers
    <3>6. PICK i \in DOMAIN ms : ms[i] = m /\ Earlier(ms, i) = 0
      BY <1>1, <2>3, FirstAsked
    <3>7. CanExecute(b, 0)
      BY <1>1, <3>4, <3>5 DEF CanExecute, Breakers
    <3>8. CallStatus(ms, i) = "calling"
      BY <2>3, <3>1, <3>6, <3>7 DEF CallStatus, Skipped
    <3>9. calls'[i].model = m /\ calls'[i].status = "calling" /\ i \in DOMAIN calls'
      BY <1>2, <3>6, <3>8
    <3> QED BY <3>5, <3>9
  <2> QED BY <2>2, <2>3
<1>10. SlashedStaySilent
  <2>1. \A m \in Models : slash[m] > 0 => slash'[m] >= slash[m] - 1
    BY <1>1, <1>2, <1>3 DEF RoutingInv, SlashesFit
  <2>2. ASSUME NEW m \in Models, slash[m] > 0, NEW i \in DOMAIN calls', calls'[i].model = m
        PROVE  calls'[i].status # "calling"
    <3>1. ms[i] = m /\ i \in DOMAIN ms /\ calls'[i].status = CallStatus(ms, i)
      BY <1>2, <2>2
    <3>2. SlashAfterLook(ms[i]) # NotSlashed
      BY <1>1, <1>3, <2>2, <3>1 DEF RoutingInv, SlashesFit
    <3> QED BY <3>1, <3>2 DEF CallStatus, Skipped
  <2> QED BY <2>1, <2>2 DEF SlashedStaySilent
<1> QED
  BY <1>4, <1>6, <1>8, <1>9, <1>10 DEF RoutingInv, ProbesAreInFlight

\* A query ends when no call of it is under way, hence no probe (queryMultipleModels).
LEMMA SettleRoutes ==
  ASSUME RoutingInv, settleQuery
  PROVE  RoutingInv' /\ SlashedStaySilent
<1>1. /\ calls # <<>> /\ calls' = <<>>
      /\ breaker' = breaker /\ penalty' = penalty /\ slash' = slash /\ failedNow' = failedNow
      /\ \A i \in DOMAIN calls : calls[i].status \in {"ok", "error", "skipped"}
  BY DEF settleQuery
<1>2. ProbesAreInFlight'
  BY <1>1 DEF RoutingInv, ProbesAreInFlight
<1>3. SlashesFit'
  BY <1>1 DEF RoutingInv, SlashesFit
<1>4. \A m \in Models : slash[m] > 0 => slash'[m] >= slash[m]
  BY <1>1 DEF RoutingInv, SlashesFit, NotSlashed
<1> QED
  BY <1>1, <1>2, <1>3, <1>4, SlashStays DEF RoutingInv

\* Time ends windows, lapses slashes and halves penalties, and touches no probe.
LEMMA TimeRoutes ==
  ASSUME RoutingInv, Tick \/ HalfLife
  PROVE  RoutingInv' /\ SlashedStaySilent
<1>1. RecoveryTicks \in Nat /\ NotSlashed = -1 /\ SLASH_THRESHOLD = 80
  BY RoutingAssumption DEF NotSlashed, SLASH_THRESHOLD
<1>2. \A n \in Nat : Down(n) \in Nat
  BY DEF Down
<1>3. calls' = calls /\ failedNow' = {}
  BY DEF Tick, HalfLife
<1>4. \E open \in [Models -> Nat] :
        breaker' = [m \in Models |-> [breaker[m] EXCEPT !.open = open[m], !.fails = 0]]
  <2>1. CASE Tick
    <3>1. [m \in Models |-> Down(breaker[m].open)] \in [Models -> Nat]
      BY <1>2 DEF RoutingInv, Breakers
    <3> QED BY <2>1, <3>1 DEF Tick
  <2>2. CASE HalfLife
    <3>1. [m \in Models |-> 0] \in [Models -> Nat]
      OBVIOUS
    <3> QED BY <2>2, <3>1 DEF HalfLife
  <2> QED BY <2>1, <2>2
<1>5. PICK open \in [Models -> Nat] :
        breaker' = [m \in Models |-> [breaker[m] EXCEPT !.open = open[m], !.fails = 0]]
  BY <1>4
<1>6. \A m \in Models : /\ breaker'[m] \in Breakers /\ breaker'[m].state = breaker[m].state
                        /\ breaker'[m].probes = breaker[m].probes
  BY <1>5 DEF RoutingInv, Breakers
<1>7. breaker' \in [Models -> Breakers] /\ ProbesAreInFlight'
  BY <1>3, <1>5, <1>6 DEF RoutingInv, ProbesAreInFlight
<1>8. SlashesFit' /\ SlashedStaySilent
  <2>1. CASE Tick
    <3>1. penalty' = penalty /\ slash' = [m \in Models |-> Down(slash[m])]
      BY <2>1 DEF Tick
    <3>2. SlashesFit'
      BY <1>1, <1>3, <3>1, FS_EmptySet DEF RoutingInv, SlashesFit, Down
    <3>3. \A m \in Models : slash[m] > 0 => slash'[m] >= slash[m] - 1
      BY <1>1, <3>1 DEF RoutingInv, SlashesFit, Down
    <3> QED BY <1>3, <3>2, <3>3 DEF SlashedStaySilent
  <2>2. CASE HalfLife
    <3>1. /\ penalty' = [m \in Models |-> penalty[m] \div 2]
          /\ slash' = [m \in Models |-> IF slash[m] = NotSlashed THEN NotSlashed ELSE 0]
      BY <2>2 DEF HalfLife
    <3>2. \A n \in 0 .. 100 : n \div 2 \in 0 .. 100 /\ n \div 2 < 80
      OBVIOUS
    <3>3. \A m \in Models : penalty'[m] \in 0 .. 100 /\ penalty'[m] < 80
      BY <3>1, <3>2 DEF RoutingInv, SlashesFit
    <3>4. penalty' \in [Models -> 0 .. 100]
      BY <3>1, <3>3
    <3>5. /\ slash' \in [Models -> Nat \union {NotSlashed}]
          /\ \A m \in Models : slash'[m] <= RecoveryTicks
      BY <1>1, <3>1
    <3>6. SlashesFit'
      BY <1>1, <1>3, <3>3, <3>4, <3>5, FS_EmptySet DEF SlashesFit
    <3>7. SlashedStaySilent
      <4>1. calls = <<>>
        BY <2>2 DEF HalfLife
      <4> QED BY <1>3, <2>2, <4>1 DEF SlashedStaySilent
    <3> QED BY <3>6, <3>7
  <2> QED BY <2>1, <2>2
<1> QED
  BY <1>3, <1>7, <1>8 DEF RoutingInv

\* A quorum of the models asked for is two thirds of them (QUORUM_FRACTION).
LEMMA QuorumIsTwoThirds ==
  ASSUME RoutingInv, RoutingNext
  PROVE  AnswersHaveQuorum
<1> SUFFICES ASSUME verdict' = "answered", verdict # "answered"
             PROVE  3 * Cardinality(Successful) >= 2 * Len(calls)
  BY DEF AnswersHaveQuorum
<1>1. settleQuery
  BY DEF RoutingNext, CallStep, queryMultipleModels, retryCall, callSucceeds, callFails,
         callRefused, Tick, HalfLife
<1>2. Cardinality(Successful) >= QuorumRequired(Len(calls))
  BY <1>1 DEF settleQuery
<1>3. Cardinality(Successful) \in Nat /\ Len(calls) \in Nat
  <2>1. DOMAIN calls = 1 .. Len(calls) /\ Len(calls) \in Nat
    BY DEF RoutingInv
  <2>2. Successful \subseteq 1 .. Len(calls)
    BY <2>1 DEF Successful
  <2>3. IsFiniteSet(1 .. Len(calls))
    BY <2>1, FS_Interval
  <2>4. IsFiniteSet(Successful)
    BY <2>2, <2>3, FS_Subset
  <2> QED BY <2>1, <2>4, FS_CardinalityType
<1>4. \A n, c \in Nat : c >= (n * 6667 + 9999) \div 10000 => 3 * c >= 2 * n
  OBVIOUS
<1> QED
  BY <1>2, <1>3, <1>4 DEF QuorumRequired

\* Calls, queries and time keep breakers, penalties and slashes in step.
LEMMA RoutingInvStep ==
  ASSUME RoutingInv, [RoutingNext]_routingVars
  PROVE  RoutingInv'
<1>1. CASE RoutingNext
  BY <1>1, RetryRoutes, SuccessRoutes, FailureRoutes, RefusalRoutes, QueryRoutes,
     SettleRoutes, TimeRoutes DEF RoutingNext, CallStep
<1>2. CASE UNCHANGED routingVars
  BY <1>2 DEF routingVars, RoutingInv, SlashesFit, ProbesAreInFlight
<1> QED
  BY <1>1, <1>2

\* A model that is not slashed keeps a tenth of its weight (getEffectiveWeight).
LEMMA WeightFollows ==
  ASSUME RoutingInv
  PROVE  PenaltyMatchesSlash
<1> SUFFICES ASSUME NEW m \in Models
             PROVE  /\ slash[m] = NotSlashed => penalty[m] < SLASH_THRESHOLD
                    /\ EffectiveWeight(m) = 0 <=> slash[m] > 0
  BY DEF PenaltyMatchesSlash
<1>1. PenaltyAfterLook(m) \in 0 .. 100
  BY LookFits DEF RoutingInv
<1>2. EffectiveWeight(m) = 0 <=> slash[m] > 0
  BY <1>1 DEF EffectiveWeight
<1> QED
  BY <1>2 DEF RoutingInv, SlashesFit

\* Routing starts with closed breakers and trusted models.
LEMMA RoutingInvInit == RoutingInit => RoutingInv
<1> SUFFICES ASSUME RoutingInit PROVE RoutingInv
  OBVIOUS
<1>1. ClosedBreaker \in Breakers /\ ClosedBreaker.state = "CLOSED"
  BY DEF ClosedBreaker, Breakers
<1>2. breaker \in [Models -> Breakers] /\ ProbesAreInFlight
  BY <1>1 DEF RoutingInit, ProbesAreInFlight
<1>3. SlashesFit
  BY RoutingAssumption, FS_EmptySet DEF RoutingInit, SlashesFit, NotSlashed, SLASH_THRESHOLD
<1>4. calls \in Seq(ModelCalls)
  BY DEF RoutingInit
<1> QED
  BY <1>2, <1>3, <1>4 DEF RoutingInv

\* Whatever calls end in which order, no step of the router locks a model out for good,
\* leaves a full penalty without a slash, calls a slashed model or lets fewer than two
\* thirds of the models asked for answer (RoutingIsSafe).
THEOREM RoutersStaySafe == RoutingSpec => RoutingIsSafe
<1>1. RoutingInv /\ [RoutingNext]_routingVars => RoutingInv'
  BY RoutingInvStep
<1>2. ASSUME RoutingInv, RoutingNext
      PROVE  SlashedStaySilent
  BY <1>2, RetryRoutes, SuccessRoutes, FailureRoutes, RefusalRoutes, QueryRoutes,
     SettleRoutes, TimeRoutes DEF RoutingNext, CallStep
<1>3. RoutingInv => PenaltyMatchesSlash /\ ProbesAreInFlight
  BY WeightFollows DEF RoutingInv
<1>4. RoutingInv' => PenaltyMatchesSlash' /\ ProbesAreInFlight'
  BY <1>3, PTL
<1>5. RoutingInv /\ RoutingInv' /\ [RoutingNext]_routingVars =>
        [/\ ProbesAreInFlight' /\ PenaltyMatchesSlash' /\ AnswersHaveQuorum
         /\ SlashedStaySilent]_routingVars
  BY <1>2, <1>4, QuorumIsTwoThirds
<1> QED
  BY RoutingInvInit, <1>1, <1>5, PTL DEF RoutingSpec, RoutingIsSafe

(***************************************************************************)
(* Reliable client                                                         *)
(***************************************************************************)
Circuits == [state : {"CLOSED", "OPEN", "HALF_OPEN"}, errorCount : Nat, errorAge : Nat,
             successLast : BOOLEAN]

Invocations == [pc : {"idle", "calling", "sleeping", "done", "cached", "failed"},
                attempt : Nat, result : Nat]

\* What the statistics and the breaker's counters are.
CountsTyped ==
  /\ circuit \in Circuits
  /\ recent \in Seq(Nat) /\ Len(recent) = 2
  /\ tally \in [total : Nat, ok : Nat]

\* Results are numbered in the order in which they came, so a new one is new.
ResultsNumbered ==
  /\ IsFiniteSet(produced)
  /\ \A p \in produced : p[2] \in 1..Cardinality(produced)

RepliesTyped ==
  /\ cache \in [ClientKeys -> Nat] /\ caller \in [Callers -> Invocations]
  /\ \A k \in ClientKeys : cache[k] # NoResult => <<k, cache[k]>> \in produced
  /\ \A c \in Callers :
       caller[c].pc \in {"done", "cached"} => <<Key[c], caller[c].result>> \in produced

ClientInv == CountsTyped /\ ResultsNumbered /\ RepliesTyped /\ StatisticsAddUp

\* The parts of a typed state, one by one.
LEMMA ClientFacts ==
  ASSUME CountsTyped
  PROVE  /\ circuit \in Circuits /\ circuit.errorCount \in Nat /\ circuit.errorAge \in Nat
         /\ tally.total \in Nat /\ tally.ok \in Nat
         /\ recent[1] \in Nat /\ recent[2] \in Nat
<1>1. circuit \in Circuits /\ tally \in [total : Nat, ok : Nat]
  BY DEF CountsTyped
<1>2. circuit.errorCount \in Nat /\ circuit.errorAge \in Nat
  BY <1>1 DEF Circuits
<1>3. 1 \in 1..Len(recent) /\ 2 \in 1..Len(recent)
  BY DEF CountsTyped
<1>4. recent[1] \in Nat /\ recent[2] \in Nat
  BY <1>3, ElementOfSeq DEF CountsTyped
<1> QED
  BY <1>1, <1>2, <1>4

\* A pair after a change of its first part.
LEMMA FirstChanged ==
  ASSUME NEW s \in Seq(Nat), NEW n \in Nat, Len(s) = 2
  PROVE  [s EXCEPT ![1] = n] = <<n, s[2]>>
OBVIOUS

\* A record of the breaker after a change of its counters.
LEMMA CircuitChanged ==
  ASSUME NEW h \in Circuits, NEW e \in Nat, NEW a \in Nat, NEW b \in BOOLEAN
  PROVE  LET x == [h EXCEPT !.errorCount = e, !.errorAge = a, !.successLast = b]
             y == [h EXCEPT !.errorCount = e, !.successLast = b]
             z == [h EXCEPT !.errorAge = a]
         IN  /\ x \in Circuits /\ x.errorCount = e
             /\ y \in Circuits /\ y.errorCount = e
             /\ z \in Circuits /\ z.errorCount = h.errorCount
BY DEF Circuits

\* A new result is one more, and its number is free.
LEMMA ResultAdded ==
  ASSUME ResultsNumbered, NEW k, NEW r, r = Cardinality(produced) + 1,
         produced' = produced \union {<<k, r>>}
  PROVE  ResultsNumbered' /\ Cardinality(produced') = Cardinality(produced) + 1
<1>1. Cardinality(produced) \in Nat
  BY FS_CardinalityType DEF ResultsNumbered
<1>2. <<k, r>> \notin produced
  BY <1>1 DEF ResultsNumbered
<1>3. PICK p : p = <<k, r>>
  OBVIOUS
<1>4. IsFiniteSet(produced') /\ Cardinality(produced') = Cardinality(produced) + 1
  BY <1>2, <1>3, FS_AddElement DEF ResultsNumbered
<1>5. \A q \in produced' : q[2] \in 1..Cardinality(produced')
  BY <1>1, <1>4 DEF ResultsNumbered
<1> QED
  BY <1>4, <1>5 DEF ResultsNumbered

\* The start.
LEMMA InitClient == ClientInit => ClientInv
<1> SUFFICES ASSUME ClientInit PROVE ClientInv
  OBVIOUS
<1> USE DEF ClientInit
<1>1. Cardinality(produced) = 0 /\ IsFiniteSet(produced)
  BY FS_EmptySet
<1>2. recent \in Seq(Nat) /\ Len(recent) = 2 /\ recent[1] = 0 /\ recent[2] = 0
  OBVIOUS
<1>3. CountsTyped
  BY <1>2 DEF CountsTyped, Circuits
<1>4. ResultsNumbered
  BY <1>1 DEF ResultsNumbered
<1>5. RepliesTyped
  BY DEF RepliesTyped, Invocations, NoResult
<1>6. StatisticsAddUp
  BY <1>1, <1>2 DEF StatisticsAddUp, Failures
<1> QED
  BY <1>3, <1>4, <1>5, <1>6 DEF ClientInv

\* An invocation enters: from the cache, refused, or calling.
LEMMA ExecuteKeeps ==
  ASSUME ClientInv, NEW c \in Callers, execute(c)
  PROVE  ClientInv'
<1> USE DEF ClientInv
<1>1. UNCHANGED <<recent, tally, cache, produced>>
  BY DEF execute
<1>2. ResultsNumbered'
  BY <1>1 DEF ResultsNumbered
<1>3. circuit' \in Circuits /\ circuit'.errorCount <= circuit.errorCount
  <2>1. circuit \in Circuits /\ circuit.errorCount \in Nat
    BY DEF CountsTyped, Circuits
  <2>2. PICK u : u = UpdatedCircuit
    OBVIOUS
  <2>3. u \in Circuits /\ u.errorCount \in {circuit.errorCount, 0}
    BY <2>1, <2>2 DEF UpdatedCircuit, Circuits
  <2>4. circuit' \in {circuit, u}
    BY <2>2 DEF execute
  <2> QED BY <2>1, <2>3, <2>4
<1>4. CountsTyped'
  BY <1>1, <1>3 DEF CountsTyped
<1>5. StatisticsAddUp'
  <2>1. /\ circuit.errorCount \in Nat /\ circuit'.errorCount \in Nat
        /\ tally.total \in Nat /\ tally.ok \in Nat
    BY <1>3 DEF CountsTyped, Circuits
  <2>2. Failures' = Failures
    BY <1>1 DEF Failures
  <2> QED BY <1>1, <1>3, <2>1, <2>2 DEF StatisticsAddUp
<1>6. RepliesTyped'
  <2>1. Key[c] \in ClientKeys /\ caller[c] \in Invocations
    BY DEF ClientKeys, RepliesTyped
  <2>2. CASE cache[Key[c]] # NoResult
    <3>1. PICK i : i = [pc |-> "cached", attempt |-> 0, result |-> cache[Key[c]]]
      OBVIOUS
    <3>2. i \in Invocations /\ i.result = cache[Key[c]]
      BY <2>1, <3>1 DEF RepliesTyped, Invocations
    <3>3. caller' = [caller EXCEPT ![c] = i]
      BY <2>2, <3>1 DEF execute
    <3> QED BY <1>1, <2>1, <2>2, <3>2, <3>3 DEF RepliesTyped
  <2>3. CASE cache[Key[c]] = NoResult
    <3>1. PICK to \in {"failed", "calling"} : caller' = [caller EXCEPT ![c].pc = to]
      BY <2>3 DEF execute
    <3> QED BY <1>1, <2>1, <3>1 DEF RepliesTyped, Invocations
  <2> QED BY <2>2, <2>3
<1> QED
  BY <1>2, <1>4, <1>5, <1>6

\* An attempt succeeds: one more result, and the caller and the cache have it.
LEMMA SuccessKeeps ==
  ASSUME ClientInv, NEW c \in Callers, attemptSucceeds(c)
  PROVE  ClientInv'
<1> USE DEF ClientInv
<1>1. PICK r, k, h, t :
        /\ r = Cardinality(produced) + 1 /\ k = Key[c]
        /\ h = SuccessOf(circuit) /\ t = [tally EXCEPT !.total = @ + 1, !.ok = @ + 1]
  OBVIOUS
<1>2. /\ produced' = produced \union {<<k, r>>}
      /\ cache' = [cache EXCEPT ![k] = r]
      /\ caller' = [caller EXCEPT ![c].pc = "done", ![c].result = r]
      /\ circuit' = h /\ tally' = t /\ recent' = recent
  BY <1>1 DEF attemptSucceeds
<1>3. ResultsNumbered' /\ Cardinality(produced') = Cardinality(produced) + 1
  BY <1>1, <1>2, ResultAdded
<1>0. circuit \in Circuits
  BY ClientFacts
<1>4. /\ circuit.errorCount \in Nat /\ tally.total \in Nat /\ tally.ok \in Nat
      /\ Cardinality(produced) \in Nat /\ r \in Nat
  BY <1>1, ClientFacts, FS_CardinalityType DEF ResultsNumbered
<1>5. h \in Circuits /\ h.errorCount \in Nat /\ h.errorCount <= circuit.errorCount
  <2>1. PICK e \in Nat : /\ e = IF circuit.errorCount > 0 THEN circuit.errorCount - 1 ELSE 0
                         /\ e <= circuit.errorCount
    BY <1>4
  <2>2. h = [circuit EXCEPT !.errorCount = e, !.successLast = TRUE]
    BY <1>1, <2>1 DEF SuccessOf
  <2>3. h \in Circuits /\ h.errorCount = e
    BY <1>0, <2>2, CircuitChanged
  <2> QED BY <2>1, <2>3
<1>6. t \in [total : Nat, ok : Nat] /\ t.total = tally.total + 1 /\ t.ok = tally.ok + 1
  <2>1. PICK n, m \in Nat : n \in Nat /\ n = tally.total + 1 /\ m = tally.ok + 1
    BY <1>4
  <2>2. t = [tally EXCEPT !.total = n, !.ok = m]
    BY <1>1, <2>1
  <2>3. t \in [total : Nat, ok : Nat] /\ t.total = n /\ t.ok = m
    BY <2>1, <2>2 DEF CountsTyped
  <2> QED BY <2>1, <2>3
<1>7. CountsTyped'
  BY <1>2, <1>5, <1>6 DEF CountsTyped
<1>8. StatisticsAddUp'
  <2>1. Failures' = Failures
    BY <1>2 DEF Failures
  <2>2. /\ tally.ok = Cardinality(produced) /\ circuit.errorCount <= tally.total - tally.ok
        /\ Failures <= tally.total - tally.ok
    BY DEF StatisticsAddUp
  <2>3. t.total - t.ok = tally.total - tally.ok
    BY <1>4, <1>6
  <2>4. h.errorCount <= tally.total - tally.ok
    BY <1>4, <1>5, <2>2
  <2> QED BY <1>2, <1>3, <1>6, <2>1, <2>2, <2>3, <2>4 DEF StatisticsAddUp
<1>9. RepliesTyped'
  <2>1. k \in ClientKeys
    BY <1>1 DEF ClientKeys
  <2>2. cache' \in [ClientKeys -> Nat] /\ caller' \in [Callers -> Invocations]
    BY <1>2, <1>4, <2>1 DEF RepliesTyped, Invocations
  <2>3. \A x \in ClientKeys : cache'[x] # NoResult => <<x, cache'[x]>> \in produced'
    BY <1>2, <2>1 DEF RepliesTyped
  <2>4. \A d \in Callers :
          caller'[d].pc \in {"done", "cached"} => <<Key[d], caller'[d].result>> \in produced'
    BY <1>1, <1>2 DEF RepliesTyped, Invocations
  <2> QED BY <2>2, <2>3, <2>4 DEF RepliesTyped
<1> QED
  BY <1>3, <1>7, <1>8, <1>9

\* An attempt fails: one more failure, in the breaker, the window and the totals.
LEMMA FailureKeeps ==
  ASSUME ClientInv, NEW c \in Callers, attemptFails(c)
  PROVE  ClientInv'
<1> USE DEF ClientInv
<1>1. PICK h, t, x :
        /\ h = [circuit EXCEPT !.errorCount = @ + 1, !.errorAge = 0, !.successLast = FALSE]
        /\ t = [tally EXCEPT !.total = @ + 1] /\ x = recent[1] + 1
  OBVIOUS
<1>2. /\ circuit' = h /\ tally' = t /\ recent' = [recent EXCEPT ![1] = x]
      /\ UNCHANGED <<cache, produced>>
      /\ \E to \in {"failed", "sleeping"} : caller' = [caller EXCEPT ![c].pc = to]
  BY <1>1 DEF attemptFails, recordFailure
<1>3. /\ circuit.errorCount \in Nat /\ tally.total \in Nat /\ tally.ok \in Nat
      /\ recent[1] \in Nat /\ recent[2] \in Nat /\ x \in Nat
  BY <1>1, ClientFacts
<1>4. h \in Circuits /\ h.errorCount = circuit.errorCount + 1
  <2>1. PICK e \in Nat : e = circuit.errorCount + 1
    BY <1>3
  <2>2. h = [circuit EXCEPT !.errorCount = e, !.errorAge = 0, !.successLast = FALSE]
    BY <1>1, <2>1
  <2>3. circuit \in Circuits /\ 0 \in Nat
    BY ClientFacts
  <2>4. h \in Circuits /\ h.errorCount = e
    BY <2>2, <2>3 DEF Circuits
  <2> QED BY <2>1, <2>4
<1>5. t \in [total : Nat, ok : Nat] /\ t.total = tally.total + 1 /\ t.ok = tally.ok
  <2>1. PICK n \in Nat : n = tally.total + 1
    BY <1>3
  <2>2. t = [tally EXCEPT !.total = n]
    BY <1>1, <2>1
  <2>3. t \in [total : Nat, ok : Nat] /\ t.total = n /\ t.ok = tally.ok
    BY <2>2 DEF CountsTyped
  <2> QED BY <2>1, <2>3
<1>6. /\ recent' \in Seq(Nat) /\ Len(recent') = 2
      /\ recent'[1] = x /\ recent'[2] = recent[2]
  <2>1. recent' = <<x, recent[2]>>
    BY <1>2, <1>3, FirstChanged DEF CountsTyped
  <2> QED BY <1>3, <2>1
<1>7. CountsTyped'
  BY <1>2, <1>4, <1>5, <1>6 DEF CountsTyped
<1>8. StatisticsAddUp'
  <2>1. /\ tally.ok = Cardinality(produced) /\ circuit.errorCount <= tally.total - tally.ok
        /\ recent[1] + recent[2] <= tally.total - tally.ok
    BY DEF StatisticsAddUp, Failures
  <2>2. h.errorCount <= t.total - t.ok
    BY <1>3, <1>4, <1>5, <2>1
  <2>3. x + recent[2] <= t.total - t.ok
    BY <1>1, <1>3, <1>5, <2>1
  <2>4. Failures' = x + recent[2]
    BY <1>6 DEF Failures
  <2> QED BY <1>2, <1>5, <2>1, <2>2, <2>3, <2>4 DEF StatisticsAddUp
<1>9. ResultsNumbered' /\ RepliesTyped'
  BY <1>2 DEF ResultsNumbered, RepliesTyped, Invocations
<1> QED
  BY <1>7, <1>8, <1>9

\* A retry begins.
LEMMA RetryKeeps ==
  ASSUME ClientInv, NEW c \in Callers, retryAttempt(c)
  PROVE  ClientInv'
<1> USE DEF ClientInv
<1>1. /\ UNCHANGED <<circuit, recent, tally, cache, produced>>
      /\ caller' = [caller EXCEPT ![c].pc = "calling", ![c].attempt = @ + 1]
  BY DEF retryAttempt
<1>2. RepliesTyped'
  BY <1>1 DEF RepliesTyped, Invocations
<1> QED
  BY <1>1, <1>2 DEF CountsTyped, ResultsNumbered, StatisticsAddUp, Failures

\* The breaker is reset, a cached result expires, time passes.
LEMMA UpkeepKeeps ==
  ASSUME ClientInv, \/ lateRequestEnds \/ resetCircuit \/ ClientTick
                    \/ \E k \in ClientKeys : cacheExpires(k)
  PROVE  ClientInv'
<1> USE DEF ClientInv
<1>0. /\ circuit \in Circuits /\ circuit.errorCount \in Nat /\ circuit.errorAge \in Nat
      /\ tally.total \in Nat /\ tally.ok \in Nat /\ recent[1] \in Nat /\ recent[2] \in Nat
  BY ClientFacts
<1>1. CASE lateRequestEnds
  BY <1>1 DEF lateRequestEnds, CountsTyped, ResultsNumbered, RepliesTyped, StatisticsAddUp, Failures
<1>2. CASE resetCircuit
  <2>1. /\ circuit' = [circuit EXCEPT !.state = "CLOSED", !.errorCount = 0]
        /\ UNCHANGED <<recent, tally, cache, caller, produced>>
    BY <1>2 DEF resetCircuit
  <2>2. circuit' \in Circuits /\ circuit'.errorCount = 0
    BY <1>0, <2>1 DEF Circuits
  <2>3. StatisticsAddUp'
    BY <1>0, <2>1, <2>2 DEF StatisticsAddUp, Failures
  <2> QED BY <2>1, <2>2, <2>3 DEF CountsTyped, ResultsNumbered, RepliesTyped
<1>3. CASE ClientTick
  <2>1. PICK x, a : /\ x = recent[1]
                    /\ a = IF circuit.errorAge > CircuitRecovery
                           THEN circuit.errorAge ELSE circuit.errorAge + 1
    OBVIOUS
  <2>2. /\ recent' = <<0, x>> /\ circuit' = [circuit EXCEPT !.errorAge = a]
        /\ UNCHANGED <<tally, cache, caller, produced>>
    BY <1>3, <2>1 DEF ClientTick
  <2>3. x \in Nat /\ a \in Nat
    BY <1>0, <2>1
  <2>4. circuit' \in Circuits /\ circuit'.errorCount = circuit.errorCount
    BY <1>0, <2>2, <2>3 DEF Circuits
  <2>5. recent' \in Seq(Nat) /\ Len(recent') = 2 /\ recent'[1] = 0 /\ recent'[2] = x
    BY <2>2, <2>3
  <2>6. StatisticsAddUp'
    <3>1. Failures' <= Failures
      BY <1>0, <2>1, <2>5 DEF Failures
    <3>2. Failures \in Nat /\ Failures' \in Nat
      BY <1>0, <2>3, <2>5 DEF Failures
    <3> QED BY <1>0, <2>2, <2>4, <3>1, <3>2 DEF StatisticsAddUp
  <2> QED BY <2>2, <2>4, <2>5, <2>6 DEF CountsTyped, ResultsNumbered, RepliesTyped
<1>4. ASSUME NEW k \in ClientKeys, cacheExpires(k) PROVE ClientInv'
  <2>1. /\ cache' = [cache EXCEPT ![k] = NoResult]
        /\ UNCHANGED <<circuit, recent, tally, caller, produced>>
    BY <1>4 DEF cacheExpires
  <2>2. RepliesTyped'
    BY <2>1 DEF RepliesTyped, NoResult
  <2> QED BY <2>1, <2>2 DEF CountsTyped, ResultsNumbered, StatisticsAddUp, Failures
<1> QED
  BY <1>1, <1>2, <1>3, <1>4

\* For any callers, keys and limits: a reply is a result produced for its key, and the
\* statistics of ProviderReliability count every attempt once.
THEOREM RepliesStayTrue == ClientInit /\ [][ClientNext]_clientVars => []RepliesAddUp
<1>1. ClientInv /\ [ClientNext]_clientVars => ClientInv'
  <2> SUFFICES ASSUME ClientInv, [ClientNext]_clientVars PROVE ClientInv'
    OBVIOUS
  <2>1. CASE ClientNext
    BY <2>1, ExecuteKeeps, SuccessKeeps, FailureKeeps, RetryKeeps, UpkeepKeeps DEF ClientNext
  <2>2. CASE UNCHANGED clientVars
    BY <2>2 DEF clientVars, ClientInv, CountsTyped, ResultsNumbered, RepliesTyped,
                StatisticsAddUp, Failures
  <2> QED BY <2>1, <2>2
<1>2. ClientInv => RepliesAddUp
  <2>1. \A c \in Callers : Key[c] \in ClientKeys
    BY DEF ClientKeys
  <2> QED BY <2>1 DEF ClientInv, RepliesTyped, RepliesAddUp, RepliesAreResults
<1> QED
  BY InitClient, <1>1, <1>2, PTL

(***************************************************************************)
(* Verification programs                                                   *)
(***************************************************************************)
\* A plugin that loaded, and the record of it, hashed when the directory held another.
Loads(plugin) ==
  /\ plugin \in Plugins /\ loadManifest(plugin)
  /\ plugin.module.id = plugin.manifest.id /\ plugin.module.version = plugin.manifest.version

LoadedRecord(plugin, other) ==
  LoadedProgram(plugin.manifest, plugin.module, computeProgramHash(plugin.manifest, other.module))

\* What a registry may hold of one program.
SoundProgram(record) ==
  /\ \E plugin, other \in Plugins : Loads(plugin) /\ record = LoadedRecord(plugin, other)
  /\ isProgramAllowed(record) /\ PinHolds(record)

\* A registry: at most one program of a name and version.
SoundRegistry(records) ==
  /\ \A record \in records : SoundProgram(record)
  /\ \A record, other \in records : SpecOf(record) = SpecOf(other) => record = other

\* A process that loads is at one of the directories, and has what it read of one program.
SoundProcess(x) ==
  /\ x.pc \in {"loading", "hashing"} => x.dir \in 1 .. DirCount
  /\ x.pc = "hashing" =>
       \E plugin \in Plugins :
         Loads(plugin) /\ x.manifest = plugin.manifest /\ x.module = plugin.module

\* What the API announced: a name and version, and the pinned hash where there is one.
Announced(a) ==
  /\ a.id # Unspecified /\ a.version # Unspecified /\ a.key = <<a.id, a.version>>
  /\ a.key \in DOMAIN ProgramHashes => a.hash = ProgramHashes[a.key]

\* A result is of an announced request, by that program, and pinned as the answer is.
SoundResult(x) ==
  /\ asked[x.request] # Unasked
  /\ x.outcome.rejected = "no" =>
       /\ x.outcome.key = asked[x.request].key
       /\ x.outcome.key \in DOMAIN ProgramHashes => x.outcome.hash = ProgramHashes[x.outcome.key]
       /\ x.outcome.domain # "empirical" => x.outcome.withheld

ProgramInv ==
  /\ disk \in [1 .. DirCount -> Plugins \union {NoPlugin}]
  /\ DOMAIN process = Processes /\ DOMAIN asked = ProgramRequests
  /\ programs = [p \in Processes |-> programs[p]]
  /\ \A p \in Processes : SoundProcess(process[p]) /\ SoundRegistry(programs[p])
  /\ \A r \in ProgramRequests : asked[r] # Unasked => Announced(asked[r])
  /\ \A x \in results : x.request \in ProgramRequests /\ SoundResult(x)

\* A record of a registry is a program, with a name and a version.
LEMMA ProgramNamed ==
  ASSUME NEW record, SoundProgram(record)
  PROVE  record.id # Unspecified /\ record.version # Unspecified /\ record # NoProgram
<1>1. PICK plugin, other \in Plugins : Loads(plugin) /\ record = LoadedRecord(plugin, other)
  BY DEF SoundProgram
<1>2. record # NoProgram
  BY <1>1, ProgramIdentities DEF LoadedRecord
<1>3. record.id = plugin.manifest.id /\ record.version = plugin.manifest.version
  BY <1>1 DEF LoadedRecord, LoadedProgram, Loads
<1>4. plugin.manifest.id # Unspecified /\ plugin.manifest.version # Unspecified
  BY <1>1, ProgramIdentities DEF Loads
<1> QED
  BY <1>2, <1>3, <1>4

\* getProgram finds the program that was named, and resolveProgram a program of the registry.
LEMMA ProgramFound ==
  ASSUME NEW p, SoundRegistry(programs[p]), NEW id, NEW version,
         getProgram(p, id, version) # NoProgram
  PROVE  LET record == getProgram(p, id, version) IN
         /\ record \in programs[p] /\ record.id = id
         /\ version # Unspecified => record.version = version
<1> DEFINE candidates == {r \in listPrograms(p) : r.id = id /\ version \in {Unspecified, r.version}}
<1>1. Cardinality(candidates) = 1 /\ getProgram(p, id, version) = CHOOSE r \in candidates : TRUE
  BY DEF getProgram
<1>2. candidates # {}
  BY <1>1, FS_EmptySet
<1>3. getProgram(p, id, version) \in candidates
  BY <1>1, <1>2
<1> QED
  BY <1>3 DEF listPrograms

\* A program of a registry is found by its name and version.
LEMMA ProgramStands ==
  ASSUME NEW p, SoundRegistry(programs[p]), NEW record \in programs[p]
  PROVE  getProgram(p, record.id, record.version) = record
<1> DEFINE candidates == {r \in listPrograms(p) :
                            r.id = record.id /\ record.version \in {Unspecified, r.version}}
<1>1. record.version # Unspecified
  BY ProgramNamed DEF SoundRegistry
<1>2. candidates = {record}
  BY <1>1 DEF listPrograms, SoundRegistry, SpecOf
<1>3. Cardinality(candidates) = 1
  BY <1>2, FS_Singleton
<1>4. getProgram(p, record.id, record.version) = CHOOSE r \in candidates : TRUE
  BY <1>3 DEF getProgram
<1> QED
  BY <1>2, <1>4

\* What a resolved request says: a name, a version and the hash that is pinned for them.
LEMMA ResolvedIsSound ==
  ASSUME NEW p, SoundRegistry(programs[p]), NEW id, NEW version,
         resolveProgram(p, id, version) # NoProgram
  PROVE  LET record == resolveProgram(p, id, version) IN
         /\ SoundProgram(record) /\ record.id # Unspecified /\ record.version # Unspecified
         /\ SpecOf(record) \in DOMAIN ProgramHashes => record.hash = ProgramHashes[SpecOf(record)]
         /\ id # Unspecified => record.id = id
         /\ id # Unspecified /\ version # Unspecified => record.version = version
<1>1. PICK record : record = resolveProgram(p, id, version)
  OBVIOUS
<1>2. record \in programs[p]
  BY <1>1, ProgramFound DEF resolveProgram
<1>3. SoundProgram(record) /\ record.id # Unspecified /\ record.version # Unspecified
  BY <1>2, ProgramNamed DEF SoundRegistry
<1>4. SpecOf(record) \in DOMAIN ProgramHashes => record.hash = ProgramHashes[SpecOf(record)]
  BY <1>3 DEF SoundProgram, PinHolds
<1>5. id # Unspecified => record.id = id /\ (version # Unspecified => record.version = version)
  BY <1>1, ProgramFound DEF resolveProgram
<1> QED
  BY <1>1, <1>3, <1>4, <1>5

\* A run that returns a receipt names the program it is a record of, with its hash, and
\* withholds the verdict where evidence cannot settle the claim (runProgram).
LEMMA RunSays ==
  ASSUME NEW record, NEW bundle, runProgram(record, bundle).rejected = "no"
  PROVE  LET outcome == runProgram(record, bundle) IN
         /\ outcome.key = SpecOf(record) /\ outcome.hash = record.hash
         /\ outcome.domain # "empirical" => outcome.withheld
<1> DEFINE fields == record.module.fields \union AddedFields(record.manifest)
           withheld == "verification_status" \in AddedFields(record.manifest)
           outcome == [rejected |-> "no", key |-> SpecOf(record), hash |-> record.hash,
                       body |-> record.module.body, domain |-> record.manifest.claim_domain,
                       withheld |-> withheld]
<1>1. runProgram(record, bundle) =
        IF ~BundleAccepted(bundle) THEN Rejected("bundle")
        ELSE IF ~(fields \subseteq record.module.output_schema) THEN Rejected("output schema")
        ELSE IF ~(fields \subseteq ReceiptFields) THEN Rejected("receipt schema")
        ELSE outcome
  BY Zenon DEF runProgram
<1>2. /\ Rejected("bundle").rejected # "no" /\ Rejected("output schema").rejected # "no"
      /\ Rejected("receipt schema").rejected # "no"
  BY DEF Rejected
<1>3. runProgram(record, bundle) = outcome
  <2> HIDE DEF outcome, fields
  <2> QED BY <1>1, <1>2, Zenon
<1>4. outcome.key = SpecOf(record) /\ outcome.hash = record.hash
      /\ outcome.domain = record.manifest.claim_domain
  <2> HIDE DEF withheld
  <2> QED OBVIOUS
<1>5. outcome.withheld = withheld
  BY Zenon
<1>6. record.manifest.claim_domain # "empirical" => withheld
  BY DEF AddedFields, OutsideEvidence
<1> HIDE DEF withheld, outcome
<1> QED
  BY <1>3, <1>4, <1>5, <1>6

\* What holds of the directories and the requests while nothing is announced, run or deployed.
LEMMA ProcessSteps ==
  ASSUME ProgramInv, NEW p \in Processes, NEW x, NEW records,
         process' = [process EXCEPT ![p] = x], SoundProcess(x),
         programs' = [programs EXCEPT ![p] = records], SoundRegistry(records),
         UNCHANGED <<disk, asked, results>>
  PROVE  ProgramInv'
<1>1. DOMAIN process' = Processes /\ programs' = [q \in Processes |-> programs'[q]]
  BY DEF ProgramInv
<1>2. \A q \in Processes : SoundProcess(process'[q]) /\ SoundRegistry(programs'[q])
  BY DEF ProgramInv
<1>3. \A r \in results : SoundResult(r)'
  BY DEF ProgramInv, SoundResult
<1> QED
  BY <1>1, <1>2, <1>3 DEF ProgramInv

\* The next directory, or none.
LEMMA NextIsSound ==
  ASSUME NEW p, NEW d \in 1 .. DirCount, NextDir(p, d)
  PROVE  \E x : process' = [process EXCEPT ![p] = x] /\ SoundProcess(x)
<1>0. DirCount \in Nat
  BY ProgramAssumption
<1>1. CASE d < DirCount
  <2>1. PICK x : x = [pc |-> "loading", dir |-> d + 1]
    OBVIOUS
  <2>2. SoundProcess(x)
    BY <1>0, <1>1, <2>1 DEF SoundProcess
  <2> QED BY <1>1, <2>1, <2>2 DEF NextDir
<1>2. CASE ~(d < DirCount)
  <2>1. PICK x : x = [pc |-> "up"]
    OBVIOUS
  <2>2. SoundProcess(x)
    BY <2>1 DEF SoundProcess
  <2> QED BY <1>2, <2>1, <2>2 DEF NextDir, Serve
<1> QED
  BY <1>1, <1>2

\* The rest of a load that failed is to serve what there is.
LEMMA ServeIsSound ==
  ASSUME NEW p, Serve(p)
  PROVE  \E x : process' = [process EXCEPT ![p] = x] /\ SoundProcess(x)
<1>1. PICK x : x = [pc |-> "up"]
  OBVIOUS
<1>2. SoundProcess(x)
  BY <1>1 DEF SoundProcess
<1> QED
  BY <1>1, <1>2 DEF Serve

\* A process starts, or ends with its registry.
LEMMA ProcessKeeps ==
  ASSUME ProgramInv, NEW p \in Processes, startProcess(p) \/ stopProcess(p)
  PROVE  ProgramInv'
<1>0. DirCount \in Nat \ {0}
  BY ProgramAssumption
<1>1. CASE startProcess(p)
  <2>1. PICK x : x = [pc |-> "loading", dir |-> 1]
    OBVIOUS
  <2>2. SoundProcess(x)
    BY <1>0, <2>1 DEF SoundProcess
  <2>3. process' = [process EXCEPT ![p] = x] /\ programs' = [programs EXCEPT ![p] = programs[p]]
    BY <1>1, <2>1 DEF startProcess, ProgramInv
  <2>4. UNCHANGED <<disk, asked, results>> /\ SoundRegistry(programs[p])
    BY <1>1 DEF startProcess, ProgramInv
  <2> QED BY <2>2, <2>3, <2>4, ProcessSteps
<1>2. CASE stopProcess(p)
  <2>1. PICK x : x = [pc |-> "down"]
    OBVIOUS
  <2>2. SoundProcess(x) /\ SoundRegistry({})
    BY <2>1 DEF SoundProcess, SoundRegistry
  <2>3. /\ process' = [process EXCEPT ![p] = x] /\ programs' = [programs EXCEPT ![p] = {}]
        /\ UNCHANGED <<disk, asked, results>>
    BY <1>2, <2>1 DEF stopProcess
  <2> QED BY <2>2, <2>3, ProcessSteps
<1> QED
  BY <1>1, <1>2

\* A manifest and its module are read.
LEMMA RequireKeeps ==
  ASSUME ProgramInv, NEW p \in Processes, requireProgram(p)
  PROVE  ProgramInv'
<1>1. process[p].pc = "loading" /\ UNCHANGED <<disk, programs, asked, results>>
  BY DEF requireProgram
<1>2. PICK d \in 1 .. DirCount : d = process[p].dir
  BY <1>1 DEF ProgramInv, SoundProcess
<1>3. \E x : process' = [process EXCEPT ![p] = x] /\ SoundProcess(x)
  <2>1. CASE disk[d] = NoPlugin
    BY <1>2, <2>1, NextIsSound DEF requireProgram
  <2>2. CASE disk[d] # NoPlugin
    <3>1. disk[d] \in Plugins
      BY <2>2 DEF ProgramInv
    <3>2. CASE Loads(disk[d])
      <4>1. PICK x : x = [pc |-> "hashing", dir |-> d, manifest |-> disk[d].manifest,
                          module |-> disk[d].module]
        OBVIOUS
      <4>2. SoundProcess(x)
        BY <3>1, <3>2, <4>1 DEF SoundProcess
      <4>3. process' = [process EXCEPT ![p] = x]
        BY <1>2, <2>2, <3>2, <4>1 DEF requireProgram, Loads
      <4> QED BY <4>2, <4>3
    <3>3. CASE ~Loads(disk[d])
      BY <1>2, <2>2, <3>1, <3>3, ServeIsSound DEF requireProgram, Loads
    <3> QED BY <3>2, <3>3
  <2> QED BY <2>1, <2>2
<1>4. programs' = [programs EXCEPT ![p] = programs[p]] /\ SoundRegistry(programs[p])
  BY <1>1 DEF ProgramInv
<1> QED
  BY <1>1, <1>3, <1>4, ProcessSteps

\* A record replaces the one of its name and version.
LEMMA RecordReplaces ==
  ASSUME NEW records, SoundRegistry(records), NEW record, SoundProgram(record)
  PROVE  SoundRegistry({r \in records : SpecOf(r) # SpecOf(record)} \union {record})
BY DEF SoundRegistry

\* The files are hashed, and the record is kept when the list and the pins allow it.
LEMMA LoadKeeps ==
  ASSUME ProgramInv, NEW p \in Processes, loadProgramFromDir(p)
  PROVE  ProgramInv'
<1>1. process[p].pc = "hashing" /\ UNCHANGED <<disk, asked, results>>
  BY DEF loadProgramFromDir
<1>2. PICK d \in 1 .. DirCount : d = process[p].dir
  BY <1>1 DEF ProgramInv, SoundProcess
<1>3. PICK plugin \in Plugins : /\ Loads(plugin) /\ process[p].manifest = plugin.manifest
                               /\ process[p].module = plugin.module
  BY <1>1 DEF ProgramInv, SoundProcess
<1>4. PICK record : record = LoadedRecord(plugin, disk[d])
  OBVIOUS
<1>5. SoundRegistry(programs[p])
  BY DEF ProgramInv
<1>6. CASE disk[d] # NoPlugin /\ isProgramAllowed(record) /\ PinHolds(record)
  <2>1. programs' = [programs EXCEPT ![p] =
           {r \in programs[p] : SpecOf(r) # SpecOf(record)} \union {record}]
        /\ NextDir(p, d)
    BY <1>2, <1>3, <1>4, <1>6 DEF loadProgramFromDir, LoadedRecord
  <2>2. disk[d] \in Plugins
    BY <1>6 DEF ProgramInv
  <2>3. SoundProgram(record)
    BY <1>3, <1>4, <1>6, <2>2 DEF SoundProgram
  <2> QED BY <1>1, <1>5, <2>1, <2>3, RecordReplaces, NextIsSound, ProcessSteps
<1>7. CASE ~(disk[d] # NoPlugin /\ isProgramAllowed(record) /\ PinHolds(record))
  <2>1. Serve(p) /\ programs' = programs
    BY <1>2, <1>3, <1>4, <1>7 DEF loadProgramFromDir, LoadedRecord
  <2>2. programs' = [programs EXCEPT ![p] = programs[p]]
    BY <2>1 DEF ProgramInv
  <2> QED BY <1>1, <1>5, <2>1, <2>2, ServeIsSound, ProcessSteps
<1> QED
  BY <1>6, <1>7

\* Files are put into a directory: what was loaded stays as it was.
LEMMA DeployKeeps ==
  ASSUME ProgramInv, NEW d \in 1 .. DirCount, NEW plugin \in Plugins \union {NoPlugin},
         deploy(d, plugin)
  PROVE  ProgramInv'
<1>1. disk' \in [1 .. DirCount -> Plugins \union {NoPlugin}]
  BY DEF deploy, ProgramInv
<1>2. UNCHANGED <<process, programs, asked, results>>
  BY DEF deploy
<1>3. \A r \in results : SoundResult(r)'
  BY <1>2 DEF ProgramInv, SoundResult
<1> QED
  BY <1>1, <1>2, <1>3 DEF ProgramInv

\* A request is announced once, with the program it was resolved to.
LEMMA AskKeeps ==
  ASSUME ProgramInv, NEW r \in ProgramRequests, NEW id, NEW version, askProgram(r, id, version)
  PROVE  ProgramInv'
<1>1. /\ asked[r] = Unasked /\ UNCHANGED <<disk, process, programs, results>>
      /\ resolveProgram(ApiProcess, id, version) # NoProgram
  BY DEF askProgram
<1>2. PICK record : record = resolveProgram(ApiProcess, id, version)
  OBVIOUS
<1>3. PICK a : a = [key |-> SpecOf(record), id |-> record.id, version |-> record.version,
                    hash |-> record.hash]
  OBVIOUS
<1>4. asked' = [asked EXCEPT ![r] = a]
  BY <1>2, <1>3 DEF askProgram
<1>5. SoundRegistry(programs[ApiProcess])
  BY DEF ProgramInv, Processes
<1>6. /\ record.id # Unspecified /\ record.version # Unspecified
      /\ SpecOf(record) \in DOMAIN ProgramHashes => record.hash = ProgramHashes[SpecOf(record)]
  BY <1>1, <1>2, <1>5, ResolvedIsSound
<1>7. Announced(a)
  BY <1>3, <1>6 DEF Announced, SpecOf
<1>8. \A q \in ProgramRequests : asked'[q] # Unasked => Announced(asked'[q])
  BY <1>4, <1>7 DEF ProgramInv
<1>9. \A x \in results : x.request # r /\ SoundResult(x)'
  BY <1>1, <1>4 DEF ProgramInv, SoundResult
<1> QED
  BY <1>1, <1>4, <1>8, <1>9 DEF ProgramInv

\* A run of a request resolves the program that was announced.
LEMMA JobKeeps ==
  ASSUME ProgramInv, NEW p \in Processes, NEW r \in ProgramRequests, NEW bundle,
         runJob(p, r, bundle)
  PROVE  ProgramInv'
<1>1. asked[r] # Unasked /\ UNCHANGED <<disk, process, programs, asked>>
  BY DEF runJob
<1>2. PICK record : record = resolveProgram(p, asked[r].id, asked[r].version)
  OBVIOUS
<1>3. PICK outcome : outcome = IF record = NoProgram THEN Rejected("not found")
                               ELSE runProgram(record, bundle)
  OBVIOUS
<1>4. PICK x : x = [request |-> r, by |-> p, bundle |-> bundle, outcome |-> outcome]
  OBVIOUS
<1>5. results' = results \union {x}
  BY <1>2, <1>3, <1>4 DEF runJob
<1>6. x.request = r /\ x.outcome = outcome
  BY <1>4
<1>7. SoundResult(x)
  <2> SUFFICES ASSUME outcome.rejected = "no"
               PROVE  /\ outcome.key = asked[r].key
                      /\ outcome.key \in DOMAIN ProgramHashes =>
                           outcome.hash = ProgramHashes[outcome.key]
                      /\ outcome.domain # "empirical" => outcome.withheld
    BY <1>1, <1>6 DEF SoundResult
  <2>1. Rejected("not found").rejected # "no"
    BY DEF Rejected
  <2>2. record # NoProgram /\ outcome = runProgram(record, bundle)
    BY <1>3, <2>1
  <2>3. Announced(asked[r]) /\ SoundRegistry(programs[p])
    BY <1>1 DEF ProgramInv
  <2>4. /\ record.id = asked[r].id /\ record.version = asked[r].version
        /\ SpecOf(record) \in DOMAIN ProgramHashes => record.hash = ProgramHashes[SpecOf(record)]
    BY <1>2, <2>2, <2>3, ResolvedIsSound DEF Announced
  <2>5. SpecOf(record) = asked[r].key
    BY <2>3, <2>4 DEF SpecOf, Announced
  <2>6. /\ outcome.key = SpecOf(record) /\ outcome.hash = record.hash
        /\ outcome.domain # "empirical" => outcome.withheld
    BY <2>2, RunSays
  <2> QED BY <2>4, <2>5, <2>6
<1>8. \A y \in results : SoundResult(y)'
  BY <1>1 DEF ProgramInv, SoundResult
<1>9. SoundResult(x)'
  BY <1>1, <1>7 DEF SoundResult
<1> QED
  BY <1>1, <1>5, <1>6, <1>8, <1>9 DEF ProgramInv

\* Processes start down, with empty registries, and nothing is announced.
LEMMA ProgramInvInit == ProgramInit => ProgramInv
<1> SUFFICES ASSUME ProgramInit PROVE ProgramInv
  OBVIOUS
<1>1. PICK x : x = [pc |-> "down"]
  OBVIOUS
<1>2. SoundProcess(x) /\ SoundRegistry({})
  BY <1>1 DEF SoundProcess, SoundRegistry
<1> QED
  BY <1>1, <1>2 DEF ProgramInit, ProgramInv

\* Every step keeps what registries, announcements and results say of a program.
LEMMA ProgramInvStep ==
  ASSUME ProgramInv, [ProgramNext]_programVars
  PROVE  ProgramInv'
<1>1. CASE UNCHANGED programVars
  BY <1>1 DEF programVars, ProgramInv, SoundResult
<1>2. CASE ProgramNext
  <2>1. Runners \subseteq Processes
    BY DEF Processes
  <2> QED BY <1>2, <2>1, ProcessKeeps, RequireKeeps, LoadKeeps, DeployKeeps, AskKeeps, JobKeeps
          DEF ProgramNext
<1> QED
  BY <1>1, <1>2

\* Whatever is deployed, loaded and restarted in between, a receipt names the program the API
\* announced, with the pinned hash where there is one, every listed program verifies, and a
\* program about what evidence cannot settle gives no verdict (resolveProgram,
\* loadProgramFromDir, runProgram).
THEOREM AnnouncedProgramsRun ==
  ProgramInit /\ [][ProgramNext]_programVars => []ProgramsRunAsAnnounced
<1>1. ProgramInv /\ [ProgramNext]_programVars => ProgramInv'
  BY ProgramInvStep
<1>2. ProgramInv => ProgramsRunAsAnnounced
  <2> SUFFICES ASSUME ProgramInv PROVE ProgramsRunAsAnnounced
    OBVIOUS
  <2>1. \A x \in Receipts :
          /\ x.outcome.key = asked[x.request].key
          /\ x.outcome.key \in DOMAIN ProgramHashes => x.outcome.hash = asked[x.request].hash
    BY DEF Receipts, ProgramInv, SoundResult, Announced
  <2>2. \A p \in Processes : \A record \in listPrograms(p) :
          isProgramAllowed(record) /\ verifyProgram(p, record.id, record.version)
    <3> SUFFICES ASSUME NEW p \in Processes, NEW record \in programs[p]
                 PROVE  isProgramAllowed(record) /\ verifyProgram(p, record.id, record.version)
      BY DEF listPrograms
    <3>1. SoundRegistry(programs[p]) /\ SoundProgram(record)
      BY DEF ProgramInv, SoundRegistry
    <3>2. getProgram(p, record.id, record.version) = record /\ record # NoProgram
      BY <3>1, ProgramStands, ProgramNamed
    <3> QED BY <3>1, <3>2 DEF verifyProgram, SoundProgram
  <2>3. NoVerdictOutsideEvidence
    BY DEF NoVerdictOutsideEvidence, Receipts, ProgramInv, SoundResult
  <2> QED BY <2>1, <2>2, <2>3 DEF ProgramsRunAsAnnounced, AnnouncedProgramRuns
<1> QED
  BY ProgramInvInit, <1>1, <1>2, PTL

(***************************************************************************)
(* Decision gate                                                           *)
(***************************************************************************)
\* What is kept of a call of the model, and of a requester.
ModelCall == [by : Requesters, at : Nat]

Entry == [windowStart : Nat, count : Nat]

\* The calls a requester made from t on and before u, and how many.
Between(mc, q, t, u) ==
  {i \in DOMAIN mc : mc[i].by = q /\ t <= mc[i].at /\ mc[i].at < u}

CallsIn(mc, q, t, u) == Cardinality(Between(mc, q, t, u))

\* The calls after one more.
Called(mc, q, time) == Append(mc, [by |-> q, at |-> time])

\* A requester's window: its count is that of the calls since its start, with which one
\* call of it was made, and the minute before it saw less than the limit.
SoundWindow(mc, q, e, time) ==
  /\ e \in Entry /\ e.windowStart <= time /\ e.count <= rateLimitPerMinute
  /\ CallsIn(mc, q, e.windowStart, e.windowStart + Minute) = e.count
  /\ \E i \in DOMAIN mc : mc[i].by = q /\ mc[i].at = e.windowStart
  /\ \A i \in DOMAIN mc : mc[i].by = q => mc[i].at < e.windowStart + Minute
  /\ CallsIn(mc, q, e.windowStart - Minute + 1, e.windowStart) < rateLimitPerMinute

\* In no minute does a requester make twice as many calls as the limit.
Bounded(mc, q) == \A t \in Nat : CallsIn(mc, q, t, t + Minute) < 2 * rateLimitPerMinute

RateInv ==
  /\ clock \in Nat /\ modelCalls \in Seq(ModelCall) /\ DOMAIN limiter = Requesters
  /\ \A q \in Requesters :
       /\ limiter[q] = NotCounted => \A i \in DOMAIN modelCalls : modelCalls[i].by # q
       /\ limiter[q] # NotCounted => SoundWindow(modelCalls, q, limiter[q], clock)
       /\ Bounded(modelCalls, q)

\* The limits, as numbers.
LEMMA GateNumbers ==
  /\ rateLimitPerMinute \in Nat /\ rateLimitPerMinute > 0
  /\ Minute \in Nat /\ Minute > 0 /\ Hour \in Nat /\ Hour > 0
BY GateAssumption

\* A set of calls is finite, and within a larger one.
LEMMA CallsFinite ==
  ASSUME NEW mc \in Seq(ModelCall), NEW q, NEW t, NEW u
  PROVE  IsFiniteSet(Between(mc, q, t, u)) /\ CallsIn(mc, q, t, u) \in Nat
<1>1. IsFiniteSet(1..Len(mc)) /\ DOMAIN mc = 1..Len(mc)
  BY FS_Interval, LenProperties
<1>2. Between(mc, q, t, u) \in SUBSET (1..Len(mc))
  BY <1>1 DEF Between
<1>3. IsFiniteSet(Between(mc, q, t, u))
  BY <1>1, <1>2, FS_Subset
<1> QED
  BY <1>3, FS_CardinalityType DEF CallsIn

\* One more call is counted in the intervals that contain its time, for its requester.
LEMMA CallAdded ==
  ASSUME NEW mc \in Seq(ModelCall), NEW q \in Requesters, NEW time \in Nat,
         NEW r, NEW t \in Int, NEW u \in Int,
         NEW nc, nc = Called(mc, q, time)
  PROVE  CallsIn(nc, r, t, u) =
           IF r = q /\ t <= time /\ time < u THEN CallsIn(mc, r, t, u) + 1
           ELSE CallsIn(mc, r, t, u)
<1>1. PICK n \in Nat : n = Len(mc) + 1 /\ n \notin DOMAIN mc
  BY LenProperties
<1>2. /\ DOMAIN nc = DOMAIN mc \union {n} /\ nc[n] = [by |-> q, at |-> time]
      /\ \A i \in DOMAIN mc : nc[i] = mc[i]
  <2>1. DOMAIN mc = 1..Len(mc) /\ Len(mc) \in Nat
    BY LenProperties
  <2>2. [by |-> q, at |-> time] \in ModelCall
    BY DEF ModelCall
  <2> QED BY <1>1, <2>1, <2>2 DEF Called
<1>3. CASE r = q /\ t <= time /\ time < u
  <2>1. Between(nc, r, t, u) = Between(mc, r, t, u) \union {n} /\ n \notin Between(mc, r, t, u)
    BY <1>1, <1>2, <1>3 DEF Between
  <2>2. IsFiniteSet(Between(mc, r, t, u))
    BY CallsFinite
  <2>3. Cardinality(Between(mc, r, t, u) \union {n}) = Cardinality(Between(mc, r, t, u)) + 1
    BY <2>1, <2>2, FS_AddElement
  <2> QED BY <1>3, <2>1, <2>3 DEF CallsIn
<1>4. CASE ~(r = q /\ t <= time /\ time < u)
  <2>1. Between(nc, r, t, u) = Between(mc, r, t, u)
    BY <1>1, <1>2, <1>4 DEF Between
  <2> QED BY <1>4, <2>1 DEF CallsIn
<1> QED
  BY <1>3, <1>4

\* Calls of an interval that two others cover.
LEMMA CallsCovered ==
  ASSUME NEW mc \in Seq(ModelCall), NEW q, NEW t, NEW u, NEW v, NEW w, NEW x, NEW y,
         Between(mc, q, t, u) \subseteq Between(mc, q, v, w) \union Between(mc, q, x, y)
  PROVE  CallsIn(mc, q, t, u) <= CallsIn(mc, q, v, w) + CallsIn(mc, q, x, y)
<1>1. PICK A, B, C :
        A = Between(mc, q, t, u) /\ B = Between(mc, q, v, w) /\ C = Between(mc, q, x, y)
  OBVIOUS
<1>2. IsFiniteSet(A) /\ IsFiniteSet(B) /\ IsFiniteSet(C)
  BY <1>1, CallsFinite
<1>3. /\ IsFiniteSet(B \union C)
      /\ Cardinality(B \union C) = Cardinality(B) + Cardinality(C) - Cardinality(B \intersect C)
  BY <1>2, FS_Union
<1>4. IsFiniteSet(B \intersect C)
  BY <1>2, FS_Intersection
<1>5. Cardinality(A) <= Cardinality(B \union C)
  BY <1>1, <1>3, FS_Subset
<1>6. /\ Cardinality(A) \in Nat /\ Cardinality(B) \in Nat /\ Cardinality(C) \in Nat
      /\ Cardinality(B \intersect C) \in Nat
  BY <1>2, <1>4, FS_CardinalityType
<1>7. Cardinality(A) <= Cardinality(B) + Cardinality(C)
  BY <1>3, <1>5, <1>6
<1> QED
  BY <1>1, <1>7 DEF CallsIn

\* Calls of an interval within another that has one call more.
LEMMA CallLeftOut ==
  ASSUME NEW mc \in Seq(ModelCall), NEW q, NEW t, NEW u, NEW v, NEW w,
         Between(mc, q, t, u) \subseteq Between(mc, q, v, w),
         NEW i, i \in Between(mc, q, v, w), i \notin Between(mc, q, t, u)
  PROVE  CallsIn(mc, q, t, u) < CallsIn(mc, q, v, w)
<1>1. PICK A, B : A = Between(mc, q, t, u) /\ B = Between(mc, q, v, w)
  OBVIOUS
<1>2. IsFiniteSet(B) /\ A \in SUBSET B /\ A # B
  BY <1>1, CallsFinite
<1>3. Cardinality(A) <= Cardinality(B) /\ Cardinality(A) # Cardinality(B)
  BY <1>2, FS_Subset
<1>4. Cardinality(A) \in Nat /\ Cardinality(B) \in Nat
  BY <1>1, CallsFinite DEF CallsIn
<1>5. Cardinality(A) < Cardinality(B)
  BY <1>3, <1>4
<1> QED
  BY <1>1, <1>5 DEF CallsIn

\* No calls in an interval.
LEMMA NoCalls ==
  ASSUME NEW mc, NEW q, NEW t, NEW u,
         \A i \in DOMAIN mc : mc[i].by = q => ~(t <= mc[i].at /\ mc[i].at < u)
  PROVE  CallsIn(mc, q, t, u) = 0
<1>1. Between(mc, q, t, u) = {}
  BY DEF Between
<1> QED
  BY <1>1, FS_EmptySet DEF CallsIn

\* The calls of a sequence are typed.
LEMMA CallsTyped ==
  ASSUME NEW mc \in Seq(ModelCall), NEW i \in DOMAIN mc
  PROVE  mc[i].at \in Nat
<1>1. mc[i] \in ModelCall
  BY ElementOfSeq, LenProperties
<1> QED
  BY <1>1 DEF ModelCall

\* A further call in the running window.
LEMMA SameWindow ==
  ASSUME NEW mc \in Seq(ModelCall), NEW q \in Requesters, NEW e, NEW time \in Nat,
         SoundWindow(mc, q, e, time), Bounded(mc, q),
         time - e.windowStart < Minute, e.count < rateLimitPerMinute,
         NEW nc, nc = Called(mc, q, time), nc \in Seq(ModelCall),
         \A i \in DOMAIN mc : i \in DOMAIN nc /\ nc[i] = mc[i],
         \A i \in DOMAIN nc : i \in DOMAIN mc \/ nc[i] = [by |-> q, at |-> time],
         NEW f, f = [windowStart |-> e.windowStart, count |-> e.count + 1]
  PROVE  SoundWindow(nc, q, f, time) /\ Bounded(nc, q)
<1>1. PICK s, k, M, L : /\ s = e.windowStart /\ k = e.count
                        /\ M = Minute /\ L = rateLimitPerMinute
  OBVIOUS
<1>2. /\ s \in Nat /\ k \in Nat /\ M \in Nat /\ M > 0 /\ L \in Nat /\ L > 0
      /\ s <= time /\ time - s < M /\ k < L
  BY <1>1, GateNumbers DEF SoundWindow, Entry
<1>3. f \in Entry /\ f.windowStart = s /\ f.count = k + 1
  BY <1>1, <1>2 DEF Entry
<1>4. CallsIn(mc, q, s, s + M) = k /\ CallsIn(mc, q, s - M + 1, s) < L
  BY <1>1 DEF SoundWindow
<1>5. CallsIn(nc, q, s, s + M) = k + 1
  <2>1. PICK u \in Int : u = s + M /\ s \in Int
    BY <1>2
  <2>2. q = q /\ s <= time /\ time < u
    BY <1>2, <2>1
  <2>3. CallsIn(nc, q, s, u) = CallsIn(mc, q, s, u) + 1
    BY <2>1, <2>2, CallAdded
  <2> QED BY <1>4, <2>1, <2>3
<1>6. CallsIn(nc, q, s - M + 1, s) < L
  <2>1. PICK t \in Int : t = s - M + 1 /\ s \in Int
    BY <1>2
  <2>2. ~(time < s)
    BY <1>2
  <2>3. CallsIn(nc, q, t, s) = CallsIn(mc, q, t, s)
    BY <2>1, <2>2, CallAdded
  <2> QED BY <1>4, <2>1, <2>3
<1>7. \A i \in DOMAIN nc : nc[i].by = q => nc[i].at < s + M
  <2>1. \A i \in DOMAIN mc : mc[i].by = q => mc[i].at < s + M
    BY <1>1 DEF SoundWindow
  <2>2. time < s + M
    BY <1>2
  <2>3. \A i \in DOMAIN nc : i \in DOMAIN mc \/ nc[i].at = time
    OBVIOUS
  <2> QED BY <2>1, <2>2, <2>3
<1>8. SoundWindow(nc, q, f, time)
  <2>1. \E i \in DOMAIN nc : nc[i].by = q /\ nc[i].at = s
    BY <1>1 DEF SoundWindow
  <2> QED BY <1>1, <1>2, <1>3, <1>5, <1>6, <1>7, <2>1 DEF SoundWindow
<1>9. ASSUME NEW t \in Nat PROVE CallsIn(nc, q, t, t + M) < 2 * L
  <2>1. CASE t <= time /\ time < t + M
    <3>1. Between(nc, q, t, t + M)
            \subseteq Between(nc, q, s - M + 1, s) \union Between(nc, q, s, s + M)
      <4>1. ASSUME NEW i \in DOMAIN nc, nc[i].by = q, t <= nc[i].at
            PROVE  \/ s <= nc[i].at /\ nc[i].at < s + M
                   \/ s - M + 1 <= nc[i].at /\ nc[i].at < s
        <5>1. nc[i].at \in Nat
          BY CallsTyped
        <5>2. nc[i].at < s + M
          BY <1>7, <4>1
        <5>3. PICK z \in Nat : z = nc[i].at
          BY <5>1
        <5>4. t <= z /\ z < s + M
          BY <4>1, <5>2, <5>3
        <5>5. s - M + 1 <= t
          BY <1>2, <2>1
        <5>6. CASE s <= z
          <6>1. s <= z /\ z < s + M
            BY <5>4, <5>6
          <6> QED BY <5>3, <6>1, Zenon
        <5>7. CASE ~(s <= z)
          <6>1. s - M + 1 <= z /\ z < s
            BY <1>2, <5>3, <5>4, <5>5, <5>7
          <6> QED BY <5>3, <6>1, Zenon
        <5> QED BY <5>6, <5>7
      <4> QED BY <4>1 DEF Between
    <3>2. CallsIn(nc, q, t, t + M) <= CallsIn(nc, q, s - M + 1, s) + CallsIn(nc, q, s, s + M)
      BY <3>1, CallsCovered
    <3>3. CallsIn(nc, q, t, t + M) \in Nat /\ CallsIn(nc, q, s - M + 1, s) \in Nat
      BY CallsFinite
    <3> QED BY <1>2, <1>5, <1>6, <3>2, <3>3
  <2>2. CASE ~(t <= time /\ time < t + M)
    <3>1. PICK u \in Int : u = t + M /\ t \in Int
      BY <1>2
    <3>2. CallsIn(nc, q, t, u) = CallsIn(mc, q, t, u)
      BY <2>2, <3>1, CallAdded
    <3> QED BY <1>1, <3>1, <3>2 DEF Bounded
  <2> QED BY <2>1, <2>2
<1> QED
  BY <1>1, <1>8, <1>9 DEF Bounded

\* The first call of a requester, or the first after its window is over.
LEMMA NewWindow ==
  ASSUME NEW mc \in Seq(ModelCall), NEW q \in Requesters, NEW time \in Nat, Bounded(mc, q),
         \/ \A i \in DOMAIN mc : mc[i].by # q
         \/ \E e : SoundWindow(mc, q, e, time) /\ time - e.windowStart >= Minute,
         NEW nc, nc = Called(mc, q, time), nc \in Seq(ModelCall),
         \A i \in DOMAIN mc : i \in DOMAIN nc /\ nc[i] = mc[i],
         \A i \in DOMAIN nc : i \in DOMAIN mc \/ nc[i] = [by |-> q, at |-> time],
         \E i \in DOMAIN nc : nc[i] = [by |-> q, at |-> time],
         NEW f, f = [windowStart |-> time, count |-> 1]
  PROVE  SoundWindow(nc, q, f, time) /\ Bounded(nc, q)
<1>1. PICK M, L : M = Minute /\ L = rateLimitPerMinute
  OBVIOUS
<1>2. M \in Nat /\ M > 0 /\ L \in Nat /\ L > 0
  BY <1>1, GateNumbers
<1>3. f \in Entry /\ f.windowStart = time /\ f.count = 1
  BY DEF Entry
<1>4. \A i \in DOMAIN mc : mc[i].by = q => mc[i].at < time
  <2>1. ASSUME NEW e, SoundWindow(mc, q, e, time), time - e.windowStart >= Minute,
               NEW i \in DOMAIN mc, mc[i].by = q
        PROVE  mc[i].at < time
    <3>1. mc[i].at \in Nat /\ mc[i].at < e.windowStart + M /\ e.windowStart \in Nat
      BY <1>1, <2>1, CallsTyped DEF SoundWindow, Entry
    <3> QED BY <1>1, <1>2, <2>1, <3>1
  <2> QED BY <2>1
\* Of the calls in the minute before, one at least is missing from the old window's.
<1>5. \A t \in Int, u \in Int : time - M < t => CallsIn(mc, q, t, u) < L
  <2> SUFFICES ASSUME NEW t \in Int, NEW u \in Int, time - M < t PROVE CallsIn(mc, q, t, u) < L
    OBVIOUS
  <2>1. CASE \A i \in DOMAIN mc : mc[i].by # q
    BY <1>2, <2>1, NoCalls
  <2>2. ASSUME NEW e, SoundWindow(mc, q, e, time), time - e.windowStart >= Minute
        PROVE  CallsIn(mc, q, t, u) < L
    <3>1. PICK s : s = e.windowStart
      OBVIOUS
    <3>2. s \in Nat /\ s + M <= time /\ CallsIn(mc, q, s, s + M) = e.count /\ e.count \in Nat
          /\ e.count <= L
      BY <1>1, <1>2, <2>2, <3>1 DEF SoundWindow, Entry
    <3>3. PICK i \in DOMAIN mc : mc[i].by = q /\ mc[i].at = s
      BY <2>2, <3>1 DEF SoundWindow
    <3>4. i \in Between(mc, q, s, s + M) /\ i \notin Between(mc, q, t, u)
      BY <1>2, <3>2, <3>3 DEF Between
    <3>5. Between(mc, q, t, u) \subseteq Between(mc, q, s, s + M)
      <4> SUFFICES ASSUME NEW j \in DOMAIN mc, mc[j].by = q, t <= mc[j].at
                   PROVE  s <= mc[j].at /\ mc[j].at < s + M
        BY DEF Between
      <4>1. mc[j].at \in Nat
        BY CallsTyped
      <4>2. mc[j].at < s + M
        BY <1>1, <2>2, <3>1 DEF SoundWindow
      <4> QED BY <1>2, <3>2, <4>1, <4>2
    <3>6. CallsIn(mc, q, t, u) < CallsIn(mc, q, s, s + M)
      BY <3>4, <3>5, CallLeftOut
    <3>7. CallsIn(mc, q, t, u) \in Nat
      BY CallsFinite
    <3> QED BY <1>2, <3>2, <3>6, <3>7
  <2> QED BY <2>1, <2>2
<1>6. CallsIn(nc, q, time, time + M) = 1
  <2>1. CallsIn(mc, q, time, time + M) = 0
    <3>1. \A i \in DOMAIN mc : mc[i].at \in Nat
      BY CallsTyped
    <3> QED BY <1>4, <3>1, NoCalls
  <2>2. PICK u \in Int : u = time + M /\ time \in Int /\ time <= time /\ time < u
    BY <1>2
  <2>3. CallsIn(nc, q, time, u) = CallsIn(mc, q, time, u) + 1
    BY <2>2, CallAdded
  <2> QED BY <2>1, <2>2, <2>3
<1>7. CallsIn(nc, q, time - M + 1, time) < L
  <2>1. PICK t \in Int : t = time - M + 1 /\ time \in Int /\ ~(time < time) /\ time - M < t
    BY <1>2
  <2>2. CallsIn(nc, q, t, time) = CallsIn(mc, q, t, time)
    BY <2>1, CallAdded
  <2>3. CallsIn(mc, q, t, time) < L
    BY <1>5, <2>1
  <2> QED BY <2>1, <2>2, <2>3
<1>8. \A i \in DOMAIN nc : nc[i].by = q => nc[i].at < time + M
  <2>1. \A i \in DOMAIN mc : mc[i].at \in Nat
    BY CallsTyped
  <2> QED BY <1>2, <1>4, <2>1
<1>9. SoundWindow(nc, q, f, time)
  <2>1. \E i \in DOMAIN nc : nc[i].by = q /\ nc[i].at = time
    OBVIOUS
  <2>2. 1 <= L
    BY <1>2
  <2> QED BY <1>1, <1>3, <1>6, <1>7, <1>8, <2>1, <2>2 DEF SoundWindow
<1>10. ASSUME NEW t \in Nat PROVE CallsIn(nc, q, t, t + M) < 2 * L
  <2>1. CASE t <= time /\ time < t + M
    <3>1. PICK u \in Int : u = t + M /\ t \in Int /\ time - M < t
      BY <1>2, <2>1
    <3>2. CallsIn(nc, q, t, u) = CallsIn(mc, q, t, u) + 1
      BY <2>1, <3>1, CallAdded
    <3>3. CallsIn(mc, q, t, u) < L
      BY <1>5, <3>1
    <3>4. CallsIn(mc, q, t, u) \in Nat
      BY CallsFinite
    <3> QED BY <1>2, <3>1, <3>2, <3>3, <3>4
  <2>2. CASE ~(t <= time /\ time < t + M)
    <3>1. PICK u \in Int : u = t + M /\ t \in Int
      BY <1>2
    <3>2. CallsIn(nc, q, t, u) = CallsIn(mc, q, t, u)
      BY <2>2, <3>1, CallAdded
    <3> QED BY <1>1, <3>1, <3>2 DEF Bounded
  <2> QED BY <2>1, <2>2
<1> QED
  BY <1>1, <1>9, <1>10 DEF Bounded

\* The places of the calls after one more.
AddsCall(mc, nc, q, time) ==
  /\ \A i \in DOMAIN mc : i \in DOMAIN nc /\ nc[i] = mc[i]
  /\ \A i \in DOMAIN nc : i \in DOMAIN mc \/ nc[i] = [by |-> q, at |-> time]
  /\ \E i \in DOMAIN nc : nc[i] = [by |-> q, at |-> time]

\* They are those before, and the new one's.
LEMMA GateAppend ==
  ASSUME NEW mc \in Seq(ModelCall), NEW q \in Requesters, NEW time \in Nat
  PROVE  AddsCall(mc, Called(mc, q, time), q, time)
<1> DEFINE nc == Called(mc, q, time)
<1> SUFFICES AddsCall(mc, nc, q, time)
  OBVIOUS
<1>0. Len(mc) + 1 \in Nat
  BY LenProperties
<1>1. PICK n \in Nat, c \in {[by |-> q, at |-> time]} :
        n = Len(mc) + 1 /\ c = [by |-> q, at |-> time]
  BY <1>0, Zenon
<1>2. c \in ModelCall
  BY <1>1 DEF ModelCall
<1>3. DOMAIN mc = 1..Len(mc) /\ Len(mc) \in Nat
  BY LenProperties
<1>4. DOMAIN nc = 1..n /\ nc[n] = c /\ \A i \in 1..Len(mc) : nc[i] = mc[i]
  BY <1>1, <1>2, <1>3 DEF Called
<1> QED
  BY <1>1, <1>3, <1>4 DEF AddsCall

\* The new calls and the old ones, for a requester that made none of the new.
LEMMA OthersWindow ==
  ASSUME NEW mc \in Seq(ModelCall), NEW q \in Requesters, NEW r \in Requesters, r # q,
         NEW time \in Nat, Bounded(mc, r), NEW e,
         NEW nc, nc = Called(mc, q, time), nc \in Seq(ModelCall),
         \A i \in DOMAIN mc : i \in DOMAIN nc /\ nc[i] = mc[i],
         \A i \in DOMAIN nc : i \in DOMAIN mc \/ nc[i] = [by |-> q, at |-> time]
  PROVE  /\ SoundWindow(mc, r, e, time) => SoundWindow(nc, r, e, time)
         /\ Bounded(nc, r)
<1>1. \A t \in Int, u \in Int : CallsIn(nc, r, t, u) = CallsIn(mc, r, t, u)
  BY CallAdded
<1>2. PICK M \in Nat : M = Minute
  BY GateNumbers
<1>3. ASSUME SoundWindow(mc, r, e, time) PROVE SoundWindow(nc, r, e, time)
  <2>1. PICK s \in Int : s = e.windowStart
    BY <1>3 DEF SoundWindow, Entry
  <2>2. PICK u \in Int, v \in Int : u = s + M /\ v = s - M + 1
    OBVIOUS
  <2>3. CallsIn(nc, r, s, u) = CallsIn(mc, r, s, u) /\ CallsIn(nc, r, v, s) = CallsIn(mc, r, v, s)
    BY <1>1
  <2>4. \A i \in DOMAIN nc : nc[i].by = r => i \in DOMAIN mc
    OBVIOUS
  <2> QED BY <1>2, <1>3, <2>1, <2>2, <2>3, <2>4 DEF SoundWindow
<1>4. ASSUME NEW t \in Nat PROVE CallsIn(nc, r, t, t + Minute) < 2 * rateLimitPerMinute
  <2>1. PICK u \in Int : u = t + M /\ t \in Int
    OBVIOUS
  <2>2. CallsIn(nc, r, t, u) = CallsIn(mc, r, t, u)
    BY <1>1, <2>1
  <2> QED BY <1>2, <2>1, <2>2 DEF Bounded
<1> QED
  BY <1>3, <1>4 DEF Bounded

\* A window stays one as time passes.
LEMMA LaterWindow ==
  ASSUME NEW mc, NEW q, NEW e, NEW time \in Nat, SoundWindow(mc, q, e, time),
         NEW later \in Nat, time <= later
  PROVE  SoundWindow(mc, q, e, later)
<1>1. e.windowStart \in Nat
  BY DEF SoundWindow, Entry
<1>2. e.windowStart <= later
  BY <1>1 DEF SoundWindow
<1> QED
  BY <1>2 DEF SoundWindow

\* What assertWithinRateLimit leaves of an entry.
LEMMA CountedEntry ==
  ASSUME NEW e, NEW time \in Nat, time = clock, NEW mc, NEW q, WithinLimit(e),
         e # NotCounted => SoundWindow(mc, q, e, time)
  PROVE  \/ /\ e # NotCounted /\ time - e.windowStart < Minute /\ e.count < rateLimitPerMinute
            /\ Counted(e) = [windowStart |-> e.windowStart, count |-> e.count + 1]
         \/ /\ e = NotCounted \/ time - e.windowStart >= Minute
            /\ Counted(e) = [windowStart |-> time, count |-> 1]
<1>1. CASE e = NotCounted \/ time - e.windowStart >= Minute
  BY <1>1 DEF Counted
<1>2. CASE ~(e = NotCounted \/ time - e.windowStart >= Minute)
  <2>1. e \in Entry
    BY <1>2 DEF SoundWindow
  <2>2. [e EXCEPT !.count = @ + 1] = [windowStart |-> e.windowStart, count |-> e.count + 1]
    BY <2>1 DEF Entry
  <2>3. e.windowStart \in Nat /\ Minute \in Nat
    BY <2>1, GateNumbers DEF Entry
  <2>4. time - e.windowStart < Minute
    BY <1>2, <2>3
  <2> QED BY <1>2, <2>2, <2>4 DEF Counted, WithinLimit
<1> QED
  BY <1>1, <1>2

\* A request within the limit, by requester q.
LEMMA AskKeepsRate ==
  ASSUME RateInv, NEW q \in Requesters, WithinLimit(limiter[q]),
         modelCalls' = Append(modelCalls, [by |-> q, at |-> clock]),
         limiter' = [limiter EXCEPT ![q] = Counted(limiter[q])], clock' = clock
  PROVE  RateInv'
<1>1. PICK mc \in Seq(ModelCall), time \in Nat, nc \in {modelCalls'} :
        mc = modelCalls /\ nc = modelCalls' /\ time = clock
  BY Zenon DEF RateInv
<1>2. nc = Called(mc, q, time) /\ nc \in Seq(ModelCall)
  <2>1. [by |-> q, at |-> time] \in ModelCall
    BY DEF ModelCall
  <2> QED BY <1>1, <2>1, AppendProperties DEF Called
<1>3. /\ \A i \in DOMAIN mc : i \in DOMAIN nc /\ nc[i] = mc[i]
      /\ \A i \in DOMAIN nc : i \in DOMAIN mc \/ nc[i] = [by |-> q, at |-> time]
      /\ \E i \in DOMAIN nc : nc[i] = [by |-> q, at |-> time]
  <2>1. AddsCall(mc, nc, q, time)
    BY <1>2, GateAppend
  <2> QED BY <2>1 DEF AddsCall
<1>4. DOMAIN limiter = Requesters /\ DOMAIN limiter' = Requesters
  BY DEF RateInv
<1>5. Bounded(mc, q) /\ (limiter[q] # NotCounted => SoundWindow(mc, q, limiter[q], time))
      /\ (limiter[q] = NotCounted => \A i \in DOMAIN mc : mc[i].by # q)
  BY <1>1 DEF RateInv
<1>6. limiter'[q] = Counted(limiter[q])
  BY <1>4
<1>7. SoundWindow(nc, q, limiter'[q], time) /\ Bounded(nc, q)
  <2>1. PICK e, f : e = limiter[q] /\ f = Counted(e)
    OBVIOUS
  <2>2. CASE /\ e # NotCounted /\ time - e.windowStart < Minute /\ e.count < rateLimitPerMinute
             /\ f = [windowStart |-> e.windowStart, count |-> e.count + 1]
    BY <1>2, <1>3, <1>5, <1>6, <2>1, <2>2, SameWindow
  <2>3. CASE /\ e = NotCounted \/ time - e.windowStart >= Minute
             /\ f = [windowStart |-> time, count |-> 1]
    <3>1. \/ \A i \in DOMAIN mc : mc[i].by # q
          \/ \E g : SoundWindow(mc, q, g, time) /\ time - g.windowStart >= Minute
      BY <1>5, <2>1, <2>3
    <3> QED BY <1>2, <1>3, <1>5, <1>6, <2>1, <2>3, <3>1, NewWindow
  <2> QED BY <1>1, <1>5, <2>1, <2>2, <2>3, CountedEntry
<1>8. limiter'[q] # NotCounted
  <2>1. limiter'[q] \in Entry
    BY <1>7 DEF SoundWindow
  <2> QED BY <2>1, GateValues DEF Entry
<1>9. ASSUME NEW r \in Requesters, r # q
      PROVE  /\ limiter'[r] = limiter[r]
             /\ limiter[r] = NotCounted => \A i \in DOMAIN nc : nc[i].by # r
             /\ limiter[r] # NotCounted => SoundWindow(nc, r, limiter[r], time)
             /\ Bounded(nc, r)
  <2>1. Bounded(mc, r) /\ (limiter[r] # NotCounted => SoundWindow(mc, r, limiter[r], time))
        /\ (limiter[r] = NotCounted => \A i \in DOMAIN mc : mc[i].by # r)
    BY <1>1 DEF RateInv
  <2>2. limiter'[r] = limiter[r]
    BY <1>4, <1>9
  <2>3. PICK e : e = limiter[r]
    OBVIOUS
  <2>4. (SoundWindow(mc, r, e, time) => SoundWindow(nc, r, e, time)) /\ Bounded(nc, r)
    BY <1>2, <1>3, <1>9, <2>1, OthersWindow
  <2> QED BY <1>3, <1>9, <2>1, <2>2, <2>3, <2>4
<1> QED
  BY <1>1, <1>2, <1>4, <1>7, <1>8, <1>9 DEF RateInv

\* What the gate attests of a decision on the candidates of a request.
Cleared(cs, d, at) ==
  /\ cs \in CandidateLists /\ d \in Decisions
  /\ validateDecision(d, Len(cs)) /\ PassThresholdMet(d)
  /\ at.output = cs[d.winner_index + 1] /\ at.passed = d.pass /\ at.score = d.overall_score
  /\ at.timestamp \in Nat /\ at.expiresAt = at.timestamp + Hour

\* A request under way carries what was checked of it before.
SoundAsk(x) ==
  /\ x.step = "called" => x.candidates \in CandidateLists
  /\ x.step = "judged" => /\ x.candidates \in CandidateLists /\ x.decision \in Decisions
                          /\ validateDecision(x.decision, Len(x.candidates))
  /\ x.step = "signing" => Cleared(x.candidates, x.decision, x.attestation)
  /\ x.step = "signed" =>
       Cleared(x.receipt.candidates, x.receipt.decision, x.receipt.attestation)

GateInv ==
  /\ RateInv /\ DOMAIN asks = Asks
  /\ \A a \in Asks : SoundAsk(asks[a])
  /\ attested # NoScore => Cleared(attested.candidates, attested.decision, attested.attestation)

\* An attestation of what cleared is what AttestedOutputsCleared says.
LEMMA ClearedOutput ==
  ASSUME NEW cs, NEW d, NEW at, Cleared(cs, d, at)
  PROVE  LET place == d.winner_index + 1
             inOrder == \A i \in DOMAIN d.scores : d.scores[i].index = i - 1
             own == {i \in DOMAIN d.scores : d.scores[i].index = d.winner_index}
         IN /\ place \in DOMAIN cs /\ at.output = cs[place]
            /\ at.passed /\ at.score >= minPassScore
            /\ inOrder => \A i \in own : d.scores[i].score >= minCandidateScore
            /\ at.timestamp < at.expiresAt
<1>1. PICK w \in Int, n \in Nat : w = d.winner_index /\ n = Len(cs) /\ w \in 0..(n - 1)
  <2>1. Len(cs) \in Nat
    BY GateValues, LenProperties DEF Cleared
  <2> QED BY <2>1 DEF Cleared, validateDecision
<1>2. w + 1 \in DOMAIN cs
  <2>1. DOMAIN cs = 1..n
    BY <1>1, GateValues, LenProperties DEF Cleared
  <2> QED BY <1>1, <2>1
<1>3. at.output = cs[w + 1]
  BY <1>1, Zenon DEF Cleared
<1>4. at.passed /\ at.score >= minPassScore
  BY Zenon DEF Cleared, PassThresholdMet
<1>5. ASSUME \A i \in DOMAIN d.scores : d.scores[i].index = i - 1,
             NEW i \in DOMAIN d.scores, d.scores[i].index = w
      PROVE  d.scores[i].score >= minCandidateScore
  <2>1. d.scores[w + 1].score >= minCandidateScore
    BY <1>1, Zenon DEF Cleared, PassThresholdMet
  <2>2. DOMAIN d.scores = 1..Len(d.scores) /\ Len(d.scores) \in Nat
    BY GateValues, LenProperties DEF Cleared
  <2>3. i \in Int /\ i - 1 = w
    BY <1>5, <2>2
  <2>4. i = w + 1
    BY <1>1, <2>3
  <2> QED BY <2>1, <2>4
<1>6. at.timestamp < at.expiresAt
  BY GateNumbers DEF Cleared
<1> QED
  BY <1>1, <1>2, <1>3, <1>4, <1>5, <1>6, Zenon

\* The rate is bounded as long as the windows are those of the calls.
LEMMA RateIsKept ==
  ASSUME GateInv
  PROVE  OutputsAreGated
<1>1. RateIsBounded
  <2> SUFFICES ASSUME NEW q \in Requesters, NEW t \in 0..clock
               PROVE  CallsIn(modelCalls, q, t, t + Minute) < 2 * rateLimitPerMinute
    BY DEF RateIsBounded, CallsIn, Between
  <2>1. Bounded(modelCalls, q)
    BY DEF GateInv, RateInv
  <2>2. t \in Nat
    BY DEF GateInv, RateInv
  <2> QED BY <2>1, <2>2 DEF Bounded
<1>2. AttestedOutputsCleared
  <2>1. CASE attested # NoScore
    <3>1. Cleared(attested.candidates, attested.decision, attested.attestation)
      BY <2>1 DEF GateInv
    <3> QED BY <3>1, ClearedOutput DEF AttestedOutputsCleared
  <2> QED BY <2>1 DEF AttestedOutputsCleared
<1> QED
  BY <1>1, <1>2 DEF OutputsAreGated

\* No calls at the start.
LEMMA GateInvInit == GateInit => GateInv
<1> SUFFICES ASSUME GateInit PROVE GateInv
  OBVIOUS
<1>1. modelCalls \in Seq(ModelCall) /\ DOMAIN modelCalls = {}
  BY DEF GateInit
<1>2. ASSUME NEW q \in Requesters PROVE Bounded(modelCalls, q)
  <2>1. \A t \in Nat : CallsIn(modelCalls, q, t, t + Minute) = 0
    BY <1>1, NoCalls
  <2> QED BY <2>1, GateNumbers DEF Bounded
<1>3. RateInv
  BY <1>1, <1>2 DEF GateInit, RateInv
<1>4. \A a \in Asks : SoundAsk(asks[a])
  BY DEF GateInit, Fresh, SoundAsk
<1> QED
  BY <1>3, <1>4 DEF GateInit, GateInv

\* Of the steps only requests and the clock change what the limit is about.
LEMMA RateStaysBounded ==
  ASSUME GateInv, GateNext
  PROVE  RateInv'
<1>1. RateInv
  BY DEF GateInv
<1>2. CASE UNCHANGED <<clock, limiter, modelCalls>>
  BY <1>1, <1>2 DEF RateInv
<1>3. ASSUME NEW a \in Asks, NEW q \in Requesters, NEW route \in {"verify", "guard"},
             NEW cs \in CandidateLists, Ask(a, q, route, cs)
      PROVE  RateInv'
  <2>1. CASE Len(cs) <= maxRollouts /\ WithinLimit(limiter[q])
    BY <1>1, <1>3, <2>1, AskKeepsRate DEF Ask
  <2>2. CASE ~(Len(cs) <= maxRollouts /\ WithinLimit(limiter[q]))
    BY <1>2, <1>3, <2>2 DEF Ask
  <2> QED BY <2>1, <2>2
<1>4. CASE GateTick
  <2>1. PICK time \in Nat, later \in Nat : time = clock /\ later = clock' /\ time <= later
    BY <1>1, <1>4 DEF RateInv, GateTick
  <2>2. \A q \in Requesters : SoundWindow(modelCalls, q, limiter[q], time)
                              => SoundWindow(modelCalls, q, limiter[q], later)
    BY <2>1, LaterWindow
  <2> QED BY <1>1, <1>4, <2>1, <2>2 DEF RateInv, GateTick
<1>5. ASSUME NEW a \in Asks,
             \/ \E d \in Decisions : ModelAnswers(a, d)
             \/ ModelFails(a) \/ VerifyReturns(a) \/ GateDecides(a) \/ GateSigns(a)
             \/ GuardReturns(a)
      PROVE  RateInv'
  BY <1>2, <1>5 DEF ModelAnswers, ModelFails, VerifyReturns, GateDecides, GateSigns, GuardReturns
<1> QED
  BY <1>3, <1>4, <1>5 DEF GateNext

\* A request that takes a step, and the others.
LEMMA AskChanges ==
  ASSUME GateInv, NEW a \in Asks, NEW x, asks' = [asks EXCEPT ![a] = x], SoundAsk(x)
  PROVE  DOMAIN asks' = Asks /\ \A b \in Asks : SoundAsk(asks'[b])
BY DEF GateInv

\* A request that failed or was answered holds nothing.
LEMMA AskEnds ==
  ASSUME NEW x, x = [step |-> "failed"] \/ x = [step |-> "answered"]
  PROVE  SoundAsk(x)
BY DEF SoundAsk

\* Every step of a request keeps what was checked.
LEMMA AsksStaySound ==
  ASSUME GateInv, GateNext
  PROVE  GateInv'
<1>1. RateInv'
  BY RateStaysBounded
<1>2. CASE /\ DOMAIN asks' = Asks /\ \A b \in Asks : SoundAsk(asks'[b])
           /\ attested' = attested
  BY <1>1, <1>2 DEF GateInv
<1>3. ASSUME NEW a \in Asks, NEW q \in Requesters, NEW route \in {"verify", "guard"},
             NEW cs \in CandidateLists, Ask(a, q, route, cs)
      PROVE  GateInv'
  <2>1. CASE asks' = [asks EXCEPT ![a] = [step |-> "failed"]]
    BY <1>2, <1>3, <2>1, AskChanges, AskEnds DEF Ask
  <2>2. CASE asks' = [asks EXCEPT ![a] = [step |-> "called", route |-> route, candidates |-> cs]]
    <3>1. SoundAsk([step |-> "called", route |-> route, candidates |-> cs])
      BY DEF SoundAsk
    <3> QED BY <1>2, <1>3, <2>2, <3>1, AskChanges DEF Ask
  <2> QED BY <1>3, <2>1, <2>2 DEF Ask
<1>4. ASSUME NEW a \in Asks, NEW d \in Decisions, ModelAnswers(a, d) PROVE GateInv'
  <2>1. PICK x : x = asks[a] /\ x.step = "called" /\ x.candidates \in CandidateLists
    BY <1>4 DEF GateInv, SoundAsk, ModelAnswers
  <2>2. CASE validateDecision(d, Len(x.candidates))
    <3>1. asks' = [asks EXCEPT ![a] = [step |-> "judged", route |-> x.route,
                                       candidates |-> x.candidates, decision |-> d]]
      BY <1>4, <2>1, <2>2 DEF ModelAnswers, GateInv
    <3>2. SoundAsk([step |-> "judged", route |-> x.route, candidates |-> x.candidates,
                    decision |-> d])
      BY <2>1, <2>2 DEF SoundAsk
    <3> QED BY <1>2, <1>4, <3>1, <3>2, AskChanges DEF ModelAnswers
  <2>3. CASE ~validateDecision(d, Len(x.candidates))
    <3>1. asks' = [asks EXCEPT ![a] = [step |-> "failed"]]
      BY <1>4, <2>1, <2>3 DEF ModelAnswers, GateInv
    <3> QED BY <1>2, <1>4, <3>1, AskChanges, AskEnds DEF ModelAnswers
  <2> QED BY <2>2, <2>3
<1>5. ASSUME NEW a \in Asks, ModelFails(a) \/ VerifyReturns(a) PROVE GateInv'
  BY <1>2, <1>5, AskChanges, AskEnds DEF ModelFails, VerifyReturns
<1>6. ASSUME NEW a \in Asks, GateDecides(a) PROVE GateInv'
  <2>1. PICK x, d : /\ x = asks[a] /\ d = x.decision /\ d \in Decisions
                    /\ x.candidates \in CandidateLists /\ validateDecision(d, Len(x.candidates))
    BY <1>6 DEF GateInv, SoundAsk, GateDecides
  <2>2. CASE PassThresholdMet(d) /\ SignerConfigured
    <3>1. PICK at : at = MAMVAttestation(a, d)
      OBVIOUS
    <3>2. asks' = [asks EXCEPT ![a] = [step |-> "signing", candidates |-> x.candidates,
                                       decision |-> d, attestation |-> at]]
      BY <1>6, <2>1, <2>2, <3>1 DEF GateDecides, GateInv
    <3>3. Cleared(x.candidates, d, at)
      <4>1. /\ at.output = x.candidates[d.winner_index + 1] /\ at.passed = d.pass
            /\ at.score = d.overall_score
            /\ at.timestamp = clock /\ at.expiresAt = clock + Hour
        BY <2>1, <3>1 DEF MAMVAttestation
      <4>2. clock \in Nat
        BY DEF GateInv, RateInv
      <4> QED BY <2>1, <2>2, <4>1, <4>2 DEF Cleared
    <3>4. SoundAsk([step |-> "signing", candidates |-> x.candidates, decision |-> d,
                    attestation |-> at])
      BY <3>3 DEF SoundAsk
    <3> QED BY <1>2, <1>6, <3>2, <3>4, AskChanges DEF GateDecides
  <2>3. CASE ~(PassThresholdMet(d) /\ SignerConfigured)
    <3>1. asks' = [asks EXCEPT ![a] = [step |-> "failed"]]
      BY <1>6, <2>1, <2>3 DEF GateDecides
    <3> QED BY <1>2, <1>6, <3>1, AskChanges, AskEnds DEF GateDecides
  <2> QED BY <2>2, <2>3
<1>7. ASSUME NEW a \in Asks, GateSigns(a) PROVE GateInv'
  <2>1. PICK x : x = asks[a] /\ Cleared(x.candidates, x.decision, x.attestation)
    BY <1>7 DEF GateInv, SoundAsk, GateSigns
  <2>2. PICK y : y = [step |-> "signed", receipt |-> buildMAMVReceipt(x)]
    OBVIOUS
  <2>3. asks' = [asks EXCEPT ![a] = y]
    BY <1>7, <2>1, <2>2 DEF GateSigns, GateInv
  <2>4. SoundAsk(y)
    <3>1. /\ y.step = "signed" /\ y.receipt.candidates = x.candidates
          /\ y.receipt.decision = x.decision /\ y.receipt.attestation = x.attestation
      BY <2>2 DEF buildMAMVReceipt
    <3> QED BY <2>1, <3>1 DEF SoundAsk
  <2> QED BY <1>2, <1>7, <2>3, <2>4, AskChanges DEF GateSigns
<1>8. ASSUME NEW a \in Asks, GuardReturns(a) PROVE GateInv'
  <2>1. PICK r : r = asks[a].receipt /\ Cleared(r.candidates, r.decision, r.attestation)
    BY <1>8 DEF GateInv, SoundAsk, GuardReturns
  <2>2. attested' = r
    BY <1>8, <2>1 DEF GuardReturns
  <2>3. DOMAIN asks' = Asks /\ \A b \in Asks : SoundAsk(asks'[b])
    BY <1>8, AskChanges, AskEnds DEF GuardReturns
  <2>4. Cleared(attested'.candidates, attested'.decision, attested'.attestation)
    BY <2>1, <2>2
  <2> QED BY <1>1, <2>3, <2>4 DEF GateInv
<1>9. CASE GateTick
  BY <1>2, <1>9 DEF GateTick, GateInv
<1> QED
  BY <1>3, <1>4, <1>5, <1>6, <1>7, <1>8, <1>9 DEF GateNext

\* Nor does nothing happening change it.
LEMMA GateStutters ==
  ASSUME GateInv, UNCHANGED gateVars
  PROVE  GateInv'
<1>1. RateInv'
  BY DEF GateInv, RateInv, gateVars
<1> QED
  BY <1>1 DEF GateInv, gateVars

\* What decisionGate.ts attests is what the model passed of its own request's candidates,
\* and mmvRateLimiter.ts lets no minute have twice as many calls as the limit, whatever the
\* limit, the requests under way and the answers of the model.
THEOREM AttestationsAreEarned == GateInit /\ [][GateNext]_gateVars => []OutputsAreGated
<1>1. GateInit => GateInv
  BY GateInvInit
<1>2. GateInv /\ [GateNext]_gateVars => GateInv'
  BY AsksStaySound, GateStutters
<1>3. GateInv => OutputsAreGated
  BY RateIsKept
<1> QED
  BY <1>1, <1>2, <1>3, PTL
=============================================================================
