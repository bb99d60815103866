---------------------------- MODULE RecordIndexer ----------------------------
(***************************************************************************)
(* The records service of the API (api/src/services/recordsService.ts,     *)
(* with the records of shared/verifiedOutput.ts): it reads the events      *)
(* Revealed and TaskResolved of the marketplace, keeps one record per      *)
(* resolved task in memory, and lists them.  Requests index concurrently;  *)
(* a fetch that fails is answered with nothing.                            *)
(*                                                                         *)
(* The chain is external: blocks are numbered, a resolved task has one     *)
(* TaskResolved event, and all its Revealed events precede it.             *)
(* Reorganisations are left out, as the service does not look for them.    *)
(* Evaluators and scores are members of small sets; hashes, URIs and block *)
(* times are left out.  Bound: MaxBlock.                                   *)
(***************************************************************************)
EXTENDS Integers, Sequences, FiniteSets

CONSTANTS
  Tasks, Evaluators,
  FinalScore,     \* final score of a task, in bps
  Indexers,       \* requests that may be indexing at the same time
  Window,         \* blocks the first run looks back
  PASS, WORTHY,   \* SCORE_THRESHOLDS
  MaxBlock

ASSUME IndexerAssumption ==
  /\ FinalScore \in [Tasks -> 0 .. 10000] /\ Window \in Nat /\ MaxBlock \in Nat
  /\ PASS \in Nat /\ WORTHY \in Nat /\ PASS <= WORTHY

VARIABLES
  block,              \* number of the last block
  revealed,           \* task -> evaluators in the order of their events
  resolved,           \* task -> score and block of TaskResolved, or NotResolved
  recordCache,        \* task -> record, or NoRecord
  lastIndexedBlock,
  indexer,            \* per request: where indexNewRecords is
  missed              \* tasks older than the window or lost by a failed fetch

indexerVars == <<block, revealed, resolved, recordCache, lastIndexedBlock, indexer, missed>>

NotResolved == [score |-> -1, block |-> 0]

NoRecord == [score_bps |-> -1]

Waiting == [pc |-> "idle"]

\* buildRecordFromChainData with the event the service picks.
buildRecordFromChainData(evaluator, scoreBps) ==
  [score_bps |-> scoreBps, evaluator |-> evaluator,
   verdict |-> scoreBps >= PASS, worthy |-> scoreBps >= WORTHY]

(***************************************************************************)
(* The marketplace                                                         *)
(***************************************************************************)
reveal(t, e) ==
  /\ resolved[t] = NotResolved
  /\ e \notin {revealed[t][i] : i \in DOMAIN revealed[t]}
  /\ revealed' = [revealed EXCEPT ![t] = Append(@, e)]
  /\ UNCHANGED <<block, resolved, recordCache, lastIndexedBlock, indexer, missed>>

resolveTask(t) ==
  /\ block < MaxBlock /\ resolved[t] = NotResolved /\ revealed[t] # <<>>
  /\ block' = block + 1
  /\ resolved' = [resolved EXCEPT ![t] = [score |-> FinalScore[t], block |-> block + 1]]
  /\ UNCHANGED <<revealed, recordCache, lastIndexedBlock, indexer, missed>>

\* A block without events of the marketplace.
mineBlock ==
  /\ block < MaxBlock /\ block' = block + 1
  /\ UNCHANGED <<revealed, resolved, recordCache, lastIndexedBlock, indexer, missed>>

(***************************************************************************)
(* Reading                                                                 *)
(***************************************************************************)
M_RecordOf(t, first) ==
  IF first # <<>>
  THEN buildRecordFromChainData(first[1], IF resolved[t] = NotResolved THEN 0 ELSE resolved[t].score)
  ELSE NoRecord

\* The record of getRecordForTask from the Revealed events it read and the
\* TaskResolved event there is now: the first Revealed event counts.
RecordOf(t, first) ==
  IF resolved[t] # NotResolved /\ first # <<>>
  THEN buildRecordFromChainData(first[1], resolved[t].score) ELSE NoRecord

\* getRecord of a task that is not in the cache: fetchTaskEvents asks for the
\* Revealed events first,
readRevealed(x, t) ==
  /\ indexer[x] = Waiting /\ recordCache[t] = NoRecord
  /\ indexer' = [indexer EXCEPT ![x] = [pc |-> "read", task |-> t, first |-> revealed[t]]]
  /\ UNCHANGED <<block, revealed, resolved, recordCache, lastIndexedBlock, missed>>

\* then for TaskResolved, or a query fails and the answer is null.
getRecordForTask(x) ==
  /\ indexer[x].pc = "read"
  /\ LET t == indexer[x].task record == RecordOf(t, indexer[x].first) IN
     \/ recordCache' = [recordCache EXCEPT ![t] = IF record = NoRecord THEN @ ELSE record]
     \/ UNCHANGED recordCache
  /\ indexer' = [indexer EXCEPT ![x] = Waiting]
  /\ UNCHANGED <<block, revealed, resolved, lastIndexedBlock, missed>>

Events(from, to) == {t \in Tasks : resolved[t] # NotResolved /\ resolved[t].block \in from .. to}

FirstBlock(current) ==
  IF lastIndexedBlock > 0 THEN lastIndexedBlock + 1
  ELSE IF current > Window THEN current - Window ELSE 0

\* indexNewRecords up to its second await: the range is fixed.
startIndexing(x) ==
  /\ indexer[x] = Waiting /\ FirstBlock(block) <= block
  /\ indexer' = [indexer EXCEPT ![x] = [pc |-> "fetch", from |-> FirstBlock(block), to |-> block]]
  /\ missed' = missed \union (IF lastIndexedBlock = 0 THEN Events(0, FirstBlock(block) - 1) ELSE {})
  /\ UNCHANGED <<block, revealed, resolved, recordCache, lastIndexedBlock>>

\* fetchResolvedEvents answers with the events of the range, or with nothing
\* when the query failed.
eventsFetched(x) ==
  /\ indexer[x].pc = "fetch"
  /\ LET found == Events(indexer[x].from, indexer[x].to) IN
     \/ /\ indexer' = [indexer EXCEPT ![x] = [pc |-> "build", to |-> @.to, left |-> found]]
        /\ UNCHANGED missed
     \/ /\ indexer' = [indexer EXCEPT ![x] = [pc |-> "build", to |-> @.to, left |-> {}]]
        /\ missed' = missed \union found
  /\ UNCHANGED <<block, revealed, resolved, recordCache, lastIndexedBlock>>

\* One task of the range: taken from the cache, fetched, or not answered.  It
\* is resolved, so its events do not change between the two queries.
buildRecord(x) ==
  /\ indexer[x].pc = "build"
  /\ \E t \in indexer[x].left :
       /\ indexer' = [indexer EXCEPT ![x].left = @ \ {t}]
       /\ \/ /\ recordCache' = [recordCache EXCEPT ![t] = IF @ = NoRecord THEN RecordOf(t, revealed[t]) ELSE @]
             /\ UNCHANGED missed
          \/ /\ recordCache[t] = NoRecord /\ missed' = missed \union {t}
             /\ UNCHANGED recordCache
  /\ UNCHANGED <<block, revealed, resolved, lastIndexedBlock>>

\* The end of the run: lastIndexedBlock moves to the block it read at its
\* start, back too when a later run was faster, and also after a failed fetch.
finishIndexing(x) ==
  /\ indexer[x].pc = "build" /\ indexer[x].left = {}
  /\ lastIndexedBlock' = indexer[x].to
  /\ indexer' = [indexer EXCEPT ![x] = Waiting]
  /\ UNCHANGED <<block, revealed, resolved, recordCache, missed>>

\* The API restarts with an empty cache.
restartRecords ==
  /\ recordCache' = [t \in Tasks |-> NoRecord]
  /\ lastIndexedBlock' = 0 /\ missed' = {}
  /\ indexer' = [x \in Indexers |-> Waiting]
  /\ UNCHANGED <<block, revealed, resolved>>

IndexerInit ==
  /\ block = 0 /\ lastIndexedBlock = 0 /\ missed = {}
  /\ revealed = [t \in Tasks |-> <<>>] /\ resolved = [t \in Tasks |-> NotResolved]
  /\ recordCache = [t \in Tasks |-> NoRecord]
  /\ indexer = [x \in Indexers |-> Waiting]

IndexerNext ==
  \/ \E t \in Tasks, e \in Evaluators : reveal(t, e)
  \/ \E t \in Tasks : resolveTask(t)
  \/ \E x \in Indexers :
       \/ startIndexing(x) \/ eventsFetched(x) \/ buildRecord(x) \/ finishIndexing(x)
       \/ getRecordForTask(x) \/ \E t \in Tasks : readRevealed(x, t)
  \/ mineBlock \/ restartRecords

(***************************************************************************)
(* Listing                                                                 *)
(***************************************************************************)
Cached == {t \in Tasks : recordCache[t] # NoRecord}

\* matchesFilter and the default filter of listRecords; a page is a part of it.
matchesFilter(record, filter) ==
  /\ record.score_bps >= filter.min_score_bps
  /\ filter.worthy_only => record.worthy

DefaultFilter == [min_score_bps |-> 0, worthy_only |-> TRUE]

listRecords(filter) == {t \in Cached : matchesFilter(recordCache[t], filter)}

-----------------------------------------------------------------------------
(***************************************************************************)
(* Properties                                                              *)
(***************************************************************************)

\* A record that is listed is the one the chain has: it is of a resolved task,
\* its verdict and worth follow from the final score, and indexing runs that
\* overlap never leave an older view in the cache.
RecordsMatchTheChain ==
  /\ \A t \in Cached : resolved[t] # NotResolved /\ recordCache[t] = RecordOf(t, revealed[t])
  /\ \A t \in listRecords(DefaultFilter) : resolved[t].score >= WORTHY /\ recordCache[t].verdict

\* The index has no gaps of its own making: a task resolved up to the last
\* indexed block is in the cache unless a fetch failed or it is older than the
\* first range, also when overlapping runs move lastIndexedBlock back.
IndexHasNoGaps ==
  \A t \in Tasks :
    resolved[t] # NotResolved /\ resolved[t].block <= lastIndexedBlock => t \in Cached \union missed

\* The cache is a view of the chain without gaps, though indexing runs overlap.
IndexMatchesTheChain == RecordsMatchTheChain /\ IndexHasNoGaps
=============================================================================
