# vector-service: TLA+ models and proofs

vector-service is a single-process FastAPI application. A SQLite corpus is the
system of record; a Milvus collection, BM25 statistics and a knowledge graph
are derived from it. Documents are ingested, indexes rebuilt, graphs built and
evaluations run as background jobs of one in-process worker, while the routes
serve requests on the same event loop. This directory models the parts of it
where the order of steps, a failure or a crash decides whether the data stays
right, and the pure algorithms between them. Paths below are relative to
`src/src/vector_service/`.

## Inventory

| Component | State | Operations | Interacts with | What makes it correct | Module |
|---|---|---|---|---|---|
| Job table (`corpus/repository.py` 81-357) | rows of `ingest_jobs`: status, cancel flag, attempts, backoff time | create, claim, mark, requeue, finish, fail, cancel, find interrupted; one transaction each, most without a WHERE clause on the status | every job's worker, routes, recovery | a terminal row stays; attempts stay in their budget | `JobTable`, `JobLifecycle` |
| Ingest worker (`jobs/worker.py`), pipeline (`api/ingest.py`) | the job it runs and how far it got | claim, parse, chunk, embed, store, upsert, record, finish; undo; settle | corpus, vector store, file system, event bus, model slot | an attempt is complete or leaves nothing; every job ends | `IngestJobs` |
| Submit and cancel (`api/jobs.py`) | spool directory | spool, insert, wake; set the cancel flag | worker | no accepted upload is lost; an accepted cancellation takes effect | `IngestJobs` |
| Recovery (`jobs/recovery.py`, `core/lifespan.py`) | none of its own | undo and settle each interrupted row before the worker starts | job table, all stores | whatever step the process died in, as if the attempt had failed | `IngestJobs` |
| Model slots (`core/model_lifecycle.py`, `api/models.py`) | lock, instance, load state; mirror on `app.state` | load in two phases (event loop, thread), unload | thread pool, inference | the lock is exclusive, the status true | `ModelSlot` |
| Thread pools (`core/threadpools.py`) | a semaphore and an executor per pool | admit, wait, run, cancel, shut down | every blocking call | admission bounds the work and nobody waits for nothing | `ThreadPools` |
| Milvus adapter (`stores/_milvus_adapter.py`) | one client bound to one database, two caches | switch database, then call; invalidate | eight store threads | a call reaches the database it names; the caches are true | `MilvusAdapter` |
| Index rebuild and bindings (`api/rebuild.py`, `repository.py` 663-838) | active and canary index of a collection | rebuild job, canary, promote, repair | ingest, deletion, evaluation gate | what serves queries is complete and was checked | `IndexRebuild` |
| Blob store, maintenance, deletion (`corpus/blobs.py`, `jobs/maintenance.py`, `api/management.py`) | content-addressed originals | promote; delete rows, a collection, a database; sweep | ingest, rebuild | a referenced original is never removed, an unreferenced one in the end; a drop leaves nothing | `Deletions` |
| Event bus and stream (`jobs/bus.py`, `api/jobs.py` 145-308) | bounded queue per subscriber | publish, subscribe, resync, heartbeat | worker, routes | a subscriber sees every state, or a later one, and the terminal one last | `JobEvents` |
| Graph build (`api/graph.py`, `graph/`) | graph rows, derived collections | extract, merge, detect, index, replace; prune; delete | worker, deletions | graph, vectors and corpus agree | `GraphBuild`, `GraphMerge` |
| BM25 statistics (`corpus/bm25.py`) | an encoder and a state file per collection | fit, load, rebuild, encode, discard | ingest, rebuild, queries | statistics match the texts they encode | `SparseStats` |
| Retrieval (`retrieval/`) | none | route, search legs, filter, fuse, diversify, rerank, expand, pack | stores, models | what one stage decided the next keeps | `Retrieval` |
| Evaluation and gate (`api/evaluation.py`) | sets, versions, runs, results, gates, checks | freeze, run, compare, check, delete | worker, rebuild | a run is about the version it names; a pass is earned | `Evaluation`, `EvalMetrics` |
| Chunking (`chunking/`) | none | sections, units, packing, hierarchy, windows, cuts | pipeline | nothing is lost, sizes hold | `Chunking` |
| Parsers (`parsers/`, `api/parse.py`) | a converter per profile | build, evict, convert, stream ticks; probe a PDF | model pool, parse route | one build; the result after its pages; the scanned pages read | `Parsing`, `ParseProfiles` |
| Instance lock, lifespan (`core/instance_lock.py`, `core/lifespan.py`) | the OS lock, slots, pools | start, serve, stop in order | everything | one process works on a corpus | `Lifespan` |
| Embedders, rerankers, configuration, metrics, stateless routes, dashboard | - | - | - | - | - |

The hard behaviours are the windows between two awaits, where other routes run;
the windows between two commits, where the process may die; undo that is best
effort; values read before an await and used after it; and a client object
that threads share. `PROJECT.json` lists them, each with the line it is at.

## Modules

`JobTable` holds the job table as a function from job ids to rows, and one
operator per SQL statement. `IngestJobs` and `IndexRebuild` extend it with the
workers and routes that use it. `JobLifecycle` is the abstract specification:
what a client that polls `GET /v1/jobs/{id}` may see; `IngestJobs` and
`IndexRebuild` are shown to implement it. The other components keep state of their own, each in one module
without a job table: where a job drives them its effect on their state is what
counts, and the table is modelled once. `Deletions` composes the routes that
delete with ingest, rebuild and promotion, reduced to their effects on the
shared stores; `Evaluation` has the jobs it needs in its run records.

Modules named `MC...` give constants their values for TLC. `MCServices` and
`MCCorpus` put components that share no state side by side: the initial value
of `subject` chooses the one that moves, and `Only(s)` freezes the others. The
state graph of such a run is the sum of the components' graphs, not the product,
and the fairness conditions of a frozen component hold because nothing of it is
enabled.

A definition that a comment calls a mutant is a plausible bug in the definition
after it. `PROJECT.json` pairs each property with one that violates it.

### IngestJobs

A step is the code between two awaits: one SQLite transaction, one call of the
store, or one step on the file system. Between two steps the routes may run and
the process may die.

| State | Code |
|---|---|
| `jobs` | `ingest_jobs`; `cancel` is `cancel_requested`, `parked` is `not_before_ts` in the future, `created` the order of `created_ts` |
| `docs`, `registry` | rows of `documents` and `chunks`; rows of `chunk_indexes` |
| `index` | the document's rows in Milvus |
| `artifacts`, `spool`, `originals` | `artifacts_dir/<doc_id>`, `spool_dir/<job_id>`, the content-addressed blobs |
| `phase`, `todo` | process serving, down or recovering; the rows recovery still has to visit |
| `submit` | where the request that submits a job is |
| `event` | the worker's wake event |
| `pc`, `cur`, `stage`, `stored`, `tries`, `verdict` | the worker's program counter and locals: claimed row, next stage, `corpus_stored`, the row's `attempts` when claimed, why the attempt is undone |
| `clock`, `acked`, `crashes`, `faults` | bookkeeping |

The worker's path is `claim` (or, with nothing to claim, `lull` and `idle`), `load`, then for each stage `gate`
(the cancellation check), `mark` (the status), `work`; after embedding `store`,
after upserting `record`; then `finish` and `promote`. A failure goes through
`undoDoc`, `undoIndex`, `undoFiles`, then `settle` and perhaps `discard`.
Recovery walks the same undo path with the verdict `restart`.

Which I/O errors may happen is a constant, `Faults`: `create` (the insert of a
submission), `claim` (the claim query), `settle` (a statement that settles a
job, or recovery's query), `cleanup` (any step of an undo, or removing a
directory), `promote`, and `spool` (an operator removes an upload). A failure of
a stage is no fault: it may always happen (`FailAttempt`, `RefuseAttempt`).

Abstractions: parsing, chunking and embedding are their outcomes; one document
per job, as in the code; one collection, whose database is the one the store's
client is bound to; progress counters, error texts and the event bus are left
out; `wake_on_submit` is on, its default. A graceful stop cancels the worker's
task without a rollback, so it is a `Crash` too.

### IndexRebuild

One logical collection. A rebuild job (`api/rebuild.py` 82-380) reads the leaves
of the corpus, fills a fresh physical collection, counts its rows and parks it as
the canary of the collection's binding; the promotion route (485-565) makes the
canary the active index and drops the old one.

| State | Code |
|---|---|
| `jobs` | `ingest_jobs`; a job's kind is the set its id is in |
| `corpus`, `registry` | documents with their one leaf chunk; the `index_ref` of each in `chunk_indexes` |
| `bound` | the row of `index_bindings`; `active` is the logical name while there is no row |
| `gated`, `checks` | a row of `regression_gates`; `gate_checks` |
| `present`, `rows` | the physical collections in Milvus, and the documents with a row in each |
| `pc`, `cur`, `leaves`, `left`, `verdict`, `candidate` | the worker: program counter and the locals of the job it runs |
| `promoter`, `deletion` | the locals of the promotion and the deletion under way, between their awaits |
| `clock`, `basis`, `faults` | bookkeeping; `basis[p]` is what `p` was meant to hold |

The worker's path is `begin`, `list`, `prepare` (drop a leftover), `create`, then
`batch` and `upsert` for each leaf, `count`, `park`, `finish`; a failure goes
through `cleanup` (drop the target) to `settle`. A gate check goes through
`candidate`, `ask`, `record`, `checked`; an ingest job through `store`, `index`,
`register`, and when it fails through `undoDoc` and `undoIndex`. Submitting a check is
three awaits: the binding is read (`ReadCanary`), the check is inserted
(`CreateCheck`), its job is inserted (`SubmitCheck`). The promotion reads the gate and the binding (`BeginPromotion`), then
the latest check (`AuthorizePromotion`), then switches (`PromoteIndex`), then
drops (`RetireIndex`): four awaits, between which anything may run. The deletion
looks the physical names up once and visits them one after the other.

`Faults` are errors that leave something behind: `cleanup` and `retire` (a drop
fails), `delete` (a row deletion fails), `finish` (the last statement of a
rebuild fails after the canary was parked). Any other failure of a rebuild may
always happen (`FailRebuild`), and the store may always drop a row in silence.

Abstractions: a document has one leaf and a batch has one document; vectors and
models are left out; the answers and metrics of a gate check are its verdict; an
ingest job is reduced to its three effects on this state, since `IngestJobs` has
the rest; one promotion and one deletion at a time; the process does not crash.

### ModelSlot

An instance is named after the request that built it. `LoadBegin` is
`begin_load` on the event loop, `BuildSucceeds` and `BuildFails` are
`finish_load` on a thread, the `Unload` actions are `unload` on a thread.
`Post` hands a thread's result to the event loop (`ready` is the loop's queue),
and `Resume` is the rest of the route, which writes the mirror. Model ids are
left out: a load that finds an instance is answered at once whichever id it has.
`unload` of the registered classes does not raise, so its error path is not
modelled; neither is the synchronous `load`, which no route calls. The eager
loads of the startup are in `Lifespan`.

### ThreadPools

One pool. `await[c]` is where the coroutine of call `c` waits: for a permit (it
stands in `line`), for the loop to run it after it was woken, for the result of
its function, or for the loop to take a result that was posted. `work`, `busy`
and `dead` are the executor: its queue, its threads, and the queue entries of
calls nobody waits for. A call may be cancelled at each of its awaits (`GiveUp`,
`GiveBack`, `AbandonCall`), which is what `asyncio.wait_for` and a stopped worker
do. The semaphore is asyncio's: it is modelled from the contract of
`acquire` and `release`, which wake waiters in order and let nobody overtake.
`CloseExecutor` is the shutdown, which waits for the threads and blocks the loop.

### JobEvents

One job; its row is the number of its version, the last one terminal. A commit
and its nudge are two steps (`CommitRow`, `Publish`), and the nudge may be
dropped by a full queue. `conn[s]` is where the generator of stream `s` is:
opened (row read, not yet subscribed), waiting, awake, fetched, closed by itself,
or gone. `woken[s]` are the timers and nudges that ended a wait; `Timers` says
which of the two timers of a round may fire, given their lengths.

### Lifespan

Processes that share a corpus directory. `phase[p]` is where a process is in
`lifespan`: acquire the lock, initialize the corpus, eager loads, recovery,
serving, then the steps of the shutdown in their order. `threads[p]` are calls
on the bounded pools, which outlive the coroutine that asked for them and are
waited for by `thread_pools.shutdown`. `HotSwap` is a load or unload that is
still under way during the shutdown. A crash frees the lock, because the
operating system holds it.

### Deletions

One collection with its logical name and the name a rebuild gives it, and documents
`Elsewhere` that share an original. `route` is the deletion under way with its
locals, from the lookup of the physical names to the removal of the originals it
found to be orphans. A request to delete rows names them by id or by a filter; a
filter is resolved in each physical collection in turn (`Resolve`; its pages of 200
rows are one step), then from each what was found there is deleted (`DeleteRows`, `ids`),
and from the corpus what was found in any. `sweep` is a cycle of the maintenance worker. An ingest is
its three effects, a rebuild one step that parks a copy, a promotion one that
switches the binding and drops the old index. `strays` records the names whose BM25
statistics a restart in mid-deletion left to nobody, `raced` and `mixed` the
documents that the properties except: stored while a deletion had already decided on their content,
or ingested or copied while a deletion ran, or ingested under a name that a
promotion had left. That these do go wrong is under "Divergences" below.

### SparseStats

Statistics are the set of texts they were fitted over. `file` may be `Torn` while
it is written, and a restart keeps it; `ef` is the cached encoder; `keeper` holds
the lock of the collection. An ingest stores, fits and encodes, and between the
last two others run; a query loads the file, or fits when there is none; a
deletion removes texts, then discards.

### GraphBuild, GraphMerge

The build job of one collection with its cancellation gates, its clean-up, the
deletion route and the pruning that goes with chunks. `vectors` are the two
vector collections, `mentions`, `members` and `claimed` the rows. A claim has a chunk
and the entities it is about, and goes with one of these only: pruning looks at no
claim's chunk. `meddled`, `stale` and
`unshared` record deletions that overlap a build. `GraphMerge` has the pure part
as functions: the merge of extractions in their order (an edge counts each time it is
named, `times`, also within a chunk, since only entities are de-duplicated), rounds of
label propagation, and the breadth-first query, which looks at its cap on nodes
between levels and within one edge.

### Evaluation, EvalMetrics

One set, one gate, runs with their job, row and check. Which rows exist is what
foreign keys and unique indexes see: an insertion whose parent is gone is refused
and fails the job. An HTTP error while a question is asked is retried or fails the
job (`EvalFault`); any other exception, at any step, is only logged and leaves the job
in its stage (`EvalRaises`, `evstuck`) until the next start. That start fails every
evaluation it finds in a stage, whatever attempts it has left and whether it was
cancelled (`RecoveredEval`): it has no spooled upload, which is what recovery looks
for first. Its check stays at running.
`EvalMetrics` has the arithmetic, with fractions as pairs of naturals.

### Parsing, ParseProfiles

Calls race for the converter of a profile under `DoclingParser._lock`; `streams`
has, per parse call, the ticks that are scheduled on the loop, the queue of the
response and what the client has read. `ParseProfiles` is the probe of a PDF and
the choice it drives, over all documents of at most 20 pages.

### Chunking, Retrieval

Functions evaluated over all small inputs; a state is one case. A document is a
sequence of marks (header, fence, word, end of a sentence, blank line); a mark is
a token and its place is its offset. The loops of the code are recursive functions of
the number of rounds (`stack`, `packing`, `merging`, `filling`), their state a record. In `Retrieval` scores are ranks or integers,
models are given rankings and similarities, a leg is a ranking cut by a filter. A
leaf's text is that of its row, with the headers and the overlap before its own places.
The compression counts the tokens of the contexts it is given, which are sections where
leaves were expanded.

### MilvusAdapter

A method is the sequence of steps between two points where another thread may
run: taking the lock, or waiting for an RPC. `client` is the database the session
is in, `bound` the adapter's idea of it. `store` is what the backend holds, a
collection being its shape. `since[t]` is what came between the last bind of `t`
and now; `doubt` are cache entries that were read across such an event, across an
error, or whose database was dropped.


## Runs

| Run | Instance | Shows |
|---|---|---|
| `IngestCrash` | 2 jobs, 1 digest, 2 attempts, 2 crashes | in every crash window: an accepted upload is held, an attempt is complete in all stores or leaves nothing (`NoResidue`, `StoresAgree`), a row in a stage is executed, a cancelled row was asked for |
| `IngestFaults` | 1 job, 3 attempts, 2 crashes, 3 I/O errors of all kinds | what still holds when everything may fail: `IngestJobs` implements `JobLifecycle`, whose guards imply the budget, and every job ends unless a statement that settles it or the recovery of its row failed and left it in a stage (`unsettled`); every other error may happen and excuses nothing |
| `IngestLive` | 2 jobs, no crash, 1 failing submission | `FairLifecycle`: the abstract specification with its fairness, so every job ends; uploads become originals or are released |
| `IngestCancelLost` | violation | an acknowledged cancellation is cleared by the requeue of a failed attempt |
| `IndexRebuild` | 2 rebuilds, 1 upload, 2 documents, 2 attempts, 1 fault | what the binding names exists and is complete; failures leave nothing; the registry follows |
| `IndexGate` | 1 rebuild, 2 checks, 1 document, 3 attempts, 1 fault | with one canary to be had, a gated promotion needs a check that passed for it; rebuilds and checks implement `JobLifecycle` |
| `IndexGateBypass` | violation | a canary parked after the gate's verdict is promoted on its predecessor's pass |
| `Deletions` | 2 documents with one content, 2 leaves, 1 restart | no referenced original is removed, every unreferenced one is; rows are derived from leaves; a drop that reports success leaves nothing |
| `MilvusCalls` | 2 threads, 2 databases, 1 collection, 2 shapes | a call whose session nobody switched reaches its database; cached answers are true unless read across a change |
| `MilvusStomp` | violation | `drop_collection` drops the collection of that name in another thread's database |
| `Services` | see below | model slot, thread pool, event stream, lifespan, parser, each by itself |
| `Corpus` | see below | evaluation, statistics, graph build, each by itself, and the pure algorithms over all small inputs |


Where a run's property is a conjunction (`SlotTruthful`, `EvaluationSound`,
`ChunkingSound` and so on) its parts are defined above it, each with a comment.

Bounds. Two ingest jobs are the fewest for which the order of claims, a submission
during another job's run and a shared digest matter; no statement relates more
than two jobs. Two attempts let a job be retried once and fail once, three let
it be retried with a count that is neither first nor last. With two crashes,
the second may hit the recovery of the first. Three faults reach an error
during the undo of an error during recovery. In `IndexRebuild` two rebuilds
reach a promoted index, a second canary, its promotion and the retirement of the
first, with a retry of either in between; a third would add another of the same.
Two documents tell a batch that is lost from one that is stored, and the one that
is uploaded from the one that is deleted. `IndexGate` has one target on purpose:
what goes wrong with two is `IndexGateBypass`. A rebuild and two checks are three
jobs of two kinds for one worker, and three attempts a retry that is neither the
first nor the last, which is what the lifecycle can be wrong about; a second
document would only lengthen the rebuild.

`Services`. Four load and unload requests reach load, unload, load, and one that
overlaps; every conflict in the slot is between two of them. Four calls for one
worker and two pending places fill the pool, refuse one, and leave one in line
behind one that is cancelled. Two streams and a job with three versions: a stream
may be subscribed before, between and after the commits, and with one place in
its queue every second nudge is dropped; the timers have the default lengths.
Two processes and two threads meet at the lock, die twice, and leave a thread
behind. One parse and one warm-up race for one converter that is evicted once.

`Corpus`. One evaluation run of two questions with two freezers that race for a
version, three attempts, and two restarts or deletions. Two ingests, a
query and a deletion around one statistics file. Two builds over two chunks that
share an entity: the second replaces, or fails over, the first. Graphs of
four names have a chain that a cap of three cuts, and an extraction names an edge at
most twice (`MaxTimes`), which tells a count of edges from a count of chunks; label propagation settles well
before its bound of 20 rounds. Metrics over three ranks with grades 0 to
3; PDFs of at most 20 pages, where the sample of the probe leaves pages out;
documents of four marks, chunks of one to three tokens, splits of nine tokens and four
sentences, which overlap, merge a tail and fall below the minimum; rankings of three
hits in two legs. The pool that diversity chooses from is at least 30 hits in the code
and `MmrFloor`, 1, here, so that it cuts; contexts of at most three leaves of up to three
tokens.

`Deletions` has one of the two documents in another database, where the deletion
route does not look: the case in which an original is still referred to. In the
`Milvus` runs each thread makes one call of several steps, so every pair of calls
meets at every step; the violation needs one shape only.

`IndexRebuild`, `IndexGate` and `MilvusCalls` compare states through a view that
drops what no guard, no later step and no property reads: in the first two the
flags and attempts of rows at rest, the distances between insertion times, the
enumeration once it was counted, and what abandoned targets were for; in the last
what a thread holds of an earlier call. Targets, threads and shapes are
interchangeable there, and in `IndexGate` the two checks. No liveness is checked under a view or a symmetry.

Deadlock is checked in the ingest runs: the service never stops. The others
switch it off, because their finitely many requests run out.

### What the violations say

`IngestCancelLost`: `requeue_job` writes `cancel_requested = 0`. A client whose
cancellation is accepted after the last gate of an attempt that then fails sees
its job run again, against the route's description.
`IndexGateBypass`: the gate and its latest check are read in transactions of
their own, and `promote_index` then takes the canary it finds, so one that a
rebuild parks in between is promoted without a check of its own.
`MilvusStomp`: `_using_db` switches the session under the lock and the call runs
after the lock was released; the module's docstring promises that threads do not
stomp on each other.

Three things are known limits of the code. An error while an undo deletes the
document or its vectors leaves them behind: clean-up is best effort, and the
theorem `NothingLeftBehind` says that nothing else leaves anything. An error of
the statement that settles a job is only logged, and its row waits in a stage for
the next start: `StagesExecute` says that nothing else strands a row. An error of
the last statement of a rebuild drops a canary that is already bound:
`IndexesExist` says that nothing else drops a bound index.

### Divergences

Met while modelling, without a run of their own. The properties except them by
name (`raced`, `mixed`, `doubt`, `meddled` and so on) or by a fault kind.

- `docs/evaluation.md` 248 says that evaluations and gate checks which a restart
  interrupted are put back and run again. `recover_interrupted` makes no difference
  between job types: it fails a job without an upload (`jobs/recovery.py` 97-111), and
  leaves its check at running (`RecoveredEval`).
- `_prune_graph_for_chunks` says it drops "graph provenance for the chunks"
  (`repository.py` 1680); no statement deletes a claim by `claims.chunk_id`, so a claim
  of a deleted chunk stays as long as its entities are mentioned elsewhere
  (`PruneChunk`; `ProvenanceInCorpus` leaves the chunk of a claim open).
- "Traversal is capped" so that a hub cannot pull the entire graph (`repository.py`
  2005, `docs/graph.md` 105), but the `break` at the cap leaves only the loop over the two
  ends of one edge (2041), and the next edge of the level goes on: a hub's neighbours
  all come (`SubgraphReach` says whole levels).
- "Every leaf must keep belonging to exactly one section" (`structure.py` 563,
  `docs/ingest-pipeline.md` 357). Chunks of the paragraph chunker carry no `section_ord`
  (`paragraph_chunker.py` 64), so the comparison that should keep sections apart is
  between two Nones: a merged leaf holds text of two, and its parent is the document.
- A small chunk is to be merged into the previous one while that stays within the
  size (`structure.py` 539, `docs/ingest-pipeline.md` 317). The loop (568) asks whether the
  previous one is small, so a small chunk behind a large one with room waits for its
  successor (`PackedToSize` asks about the next only).
- A chunk that does not fit the context is to be skipped and smaller ones behind it
  still taken (`docs/retrieval.md` 172); `_compress_to_budget` breaks at the first
  (`pipeline.py` 843), also at one that fits exactly (`ContextFits` places the cut, and
  says nothing of what is behind it).
- A crash between `done` and the promotion of the upload loses the original
  (`jobs/worker.py` 290), which `docs/architecture.md` 37 says is kept: recovery
  visits unfinished rows only.
- `api/models.py` 315 says the handlers keep the mirror in sync; a load's result
  that is posted after the unload that followed it leaves an unloaded instance there.
- Ingest writes under the logical name (`api/ingest.py` 947) whatever the binding
  says, so a document that is ingested after a rebuild read the leaves, or after
  the promotion, is done, registered, and missing from the index that is searched.
- Recovery (`jobs/recovery.py` 16, 50) undoes every interrupted job as an ingest: the
  collections of a rebuild or a graph build stay until the job's retry drops them.
- `docs/ingest-pipeline.md` 507 promises keepalives on the event stream; both
  timers start anew in each round, so with the default lengths none is sent.
- `_milvus_adapter.py` 19 and 109 say that drops invalidate the caches;
  `drop_database` (201) does not, and nothing calls `_invalidate_database` (303).
- When the drop of a collection's second physical index fails (`api/management.py`
  532-546), a retry finds no primary, answers 404, and the documents stay.
- `api/graph.py` 11 says a graph is replaced on success only; a build that fails
  or is cancelled has already dropped the derived collections (168), and one whose
  `finish_job` fails (407) drops those of the graph it just stored.
- `docs/retrieval.md` 232 and `docs/api.md` 135 speak of a share of traffic for the
  canary; `_resolve_physical` (`retrieval/pipeline.py` 194) reads the active name only.
- `core/instance_lock.py` 34 says the lock is held for the process's lifetime; it is
  released while threads outside the bounded pools may still run.
- `graph/extraction.py` 98 and `retrieval/transforms.py` 3 say a bad answer of the
  model never raises; one with `null` for the list does.
- A `#` line inside a fence opens a section, against `recursive_chunker.py` 9.
- An explicit filter on documents does not reach the graph leg of a search; an
  exclusive keyword query on an index without a sparse field runs no leg at all.
- `set_canary` overwrites a canary nobody promoted, whose collection nothing
  names any more; `baseline_run_id` of a gate is not checked to be a run of its set.
- An evaluation that raises anything but an HTTP error stays in its stage until the
  next start (`jobs/worker.py` 525-537); `EvalEnds` excepts it (`evstuck`).
- `docs/retrieval.md` 170 says the context is compressed before leaves are expanded to
  sections; `pipeline.py` 500-529 does so afterwards, on the sizes of the sections.
- `docs/graph.md` 29 derives a claim's id from its chunk too; `graph/merge.py` derives it
  from the content, so that a claim made by two chunks keeps the first one's.
- A crash between `delete_for_collection` and the discarding of the statistics leaves
  the state file of a rebuilt name, which no later drop finds (`api/management.py`
  547-560; `strays`).
- A document that is ingested while a deletion runs may keep its rows and lose its
  original, or lose its rows and stay (`Deletions`, `raced` and `mixed`).

## Fairness

`FairSpec` of `IngestJobs` is weak fairness of the process as a whole
(`WorkerLoop`, `Pipeline`, `Failure`, `Recovery` together: one asyncio task that
the loop keeps running, and a supervisor that starts the process again) and of
the clock for each parked row. Nothing is fair about submissions, cancellations,
crashes or errors. One weak fairness condition over all of the worker's steps
is enough because the worker is one sequential task: while it is not idle
exactly its own next step is enabled, and its idle wait has a timeout.

`PoolFairness` is weak fairness of the executor's threads and of the loop for each
coroutine that is ready; cancellations are not fair. `EventsFairness` is weak
fairness of each generator, whose waits have a timeout; neither the worker's
commits nor the client's disconnection are fair. `ParseFairness` adds strong
fairness of the build lock, which other calls take and release in between: a
blocked thread gets it in the end if it is free again and again. `DelFairness` is
weak fairness of the maintenance cycle only, and `EvalFairness` of the worker's
steps. `FairSpec` of `MilvusAdapter` is weak fairness of each thread, so that the
counterexample of `MilvusStomp` is not one that stops. `IndexRebuild`,
`ModelSlot`, `Lifespan`, `SparseStats` and `GraphBuild` state safety only.

## Proofs

For all values of the constants, under the named assumptions that declare their
types (`MaxAttempts` positive, `NoJob` not a job, `Faults` among the modelled
kinds; in `IndexRebuild`, the three kinds of jobs disjoint, NULL no name, `Docs`
finite; in `ModelSlot`, `NoInst` not a request; in `JobEvents`, `LastVersion` and the
size of a queue positive; in `Evaluation`, `Live` and `NoTag` no version tags, `NoRun`
not a run; in `Parsing`, `NoCall` not a call; in `GraphMerge`, what is merged among the names, and at least one round;
in `EvalMetrics`, finitely many things
to rank and as many discounts, positive and decreasing; in `Retrieval`, finitely many
hits, whose ids sort, a scale that every rank of the fusion divides, and no section
that is named like a hit; in `Chunking`, what the constructors accept: a positive size,
an overlap below it, and a minimum from 1 up to it):

- `ControlCorrect`. `TypeOK /\ ControlInv` is inductive. Neither half is without
  the other: the worker's UPDATEs are unconditional, so that a row stays terminal
  depends on which row the worker may hold at each program point, and that the
  types hold (the bound on `attempts`) depends on the row it holds being
  unfinished. `TypeCorrect`, `BudgetKept` and, for each step, `TerminalForever`
  follow from it; the last is stronger than what a run checks, which is the
  refinement.
- `UploadHeld`, if no operator removes uploads. Induction on `SpoolInv`, which
  adds the request between spooling and insertion.
- `StagesExecute`, if no settling statement fails. `StageInv` says that a row
  in a stage is the worker's, recovery's, or waits for recovery.
- `NothingLeftBehind`, if no clean-up fails. `ResidueInv` bounds what an attempt
  can have left by how far it has got, and says which layer each step of the undo
  has cleared.
- `CancelledWhenAsked`, for every set of faults. `CancelInv`: the flag of a row, and
  the attempt that is given up for it, go back to an acknowledged request.
- `StoresStayInStep`, if neither an undo nor a settling statement fails, from
  `AgreeInv` beside `ResidueInv` and `StageInv`: what an attempt has committed grows in
  the order of the pipeline, so `finish` finds everything or nothing; and the undo
  takes the rows of the index after those of the corpus, within one attempt. Crashes
  are not excluded: an index row without content then belongs to a row in a stage,
  and recovery has it before the service serves again. Neither assumption can be
  dropped: TLC finds a counterexample with either kind of fault (for the settling
  statement, together with a crash).
- `UploadsEnd`, without crashes and without faults of the spool, of the undo or of the
  move: `UploadInv` says that the upload is still in the spool when it is moved, and
  that only what is not done is discarded. Neither can one of these be dropped; the
  hazard at `jobs/worker.py:290` is what a crash before the move leaves.
- `RefinesLifecycle`. Under the mapping that shows every stage as `running`,
  each step is a step of `JobLifecycle` or leaves it unchanged, for every set of
  faults.
- `SlotIsTruthful`, from `SlotInv`, for any number of requests: the lock is held by
  one load or unload, and the status is what the slot holds. `InstanceNeverReplaced`
  says that a loaded instance is not overwritten.
- `IndexesExist`, if the last statement of a rebuild does not fail. `BindingInv`:
  a target is bound only once its job is done, except between the parking and the
  end of the job, and what a promotion is about to drop belongs to a job that is
  done. So neither a retry nor a clean-up, which drop the target of an open job,
  nor a retirement can drop a bound index.
- `FailuresLeaveNothing`. `LeftoverInv`: a target exists only while its job
  works on it, or because the job is done.
- `RegistryFollows`, inductive as it stands beside `TypeOK /\ ControlInv`.
- `BoundIsComplete`, if the end of a rebuild and deletions do not fail.
  `CompleteInv`: a target under construction holds only leaves of its enumeration,
  and no deletion reaches it, so that a count that agrees means a full index; a
  deletion that has taken a row from the active index will find the canary there
  and not fail half way; and an upload that is not done is in no index's basis.
- `PromotionNeedsPass`, if at most one rebuild can make a canary. `GateInv`: a verdict
  is not taken back, and a gated promotion past its gate has one. With two rebuilds
  the property is false, which is what `IndexGateBypass` shows; the assumption is the
  least that makes it true.
- `RebuildsFollowLifecycle`, for every set of faults, under the mapping of
  `RefinesLifecycle`. `RowInv` ties the worker's program counter to the status of the row it
  holds; a claim spends an attempt, and the attempts of a row that is not claimed are
  written by no step, which is why `IndexGate` may compare states without them.
- `OneWorksOnCorpus` (`NoProc` not a process). `HolderInv`: the process that has left
  its idle phases is the one with the lock, an idle one has neither threads nor
  models, and the lock is not released before the last thread was joined.
- `UndisturbedReach`. `ReachInv`: once there is a client and only one was built, a
  thread that will make an RPC before it binds again, and that saw no switch since it
  bound, finds the session in its database. Lemmas about the sequences of steps show
  that each method binds before its RPCs and builds the client first, if at all.
- `CachesStayTruthful`. `CacheInv`: in every method, what changes a collection comes
  last but for the step that forgets its entry, and an answer is kept right after it
  was asked for (`Tidy`); a carried answer is true unless something happened since;
  and an entry that is wrong and not in doubt belongs to a thread that has nothing
  left but to forget it. The step from the change to the invalidation is what an RPC
  of another thread may come between, and all that may.
- `AdmissionStaysExact` (at least one permit and one thread). `PoolInv`: the line and
  the executor's queue name each call once and agree with where its coroutine waits;
  permits free, promised and held add up; and the queue is as long as the calls
  that wait for it and those it is kept for by nobody. Cancelling a call that was
  already woken passes its permit on, without which the second part fails.
- `StreamsStayFaithful`. `StreamInv`: no stream is ahead of the commits, a subscription
  belongs to an open generator, and the terminal version is sent by the step that closes.
- `StatisticsStaySound` (the three kinds of BM25 calls disjoint, `Nobody` not one).
  `StatsInv`: a file is torn, or a cache empty, only under the lock; what a deletion
  removed is in nothing that was read or kept since; and what the holder of the lock
  has read covers the ingests that are ready and its own.
- `OriginalsKept`, `RowsDerived`, `DropsComplete`, for any documents, contents and
  leaves over the two names of a collection. `DelInv`: what a deletion or the sweep
  has decided to remove no document refers to; what exists is bound, and what a drop
  has looked up covers it; and what a deletion takes from the corpus it has
  taken from every index in use: what a request asks for (`want`) was found in each
  collection that was resolved and is gone from each that had its turn (`RequestInv`). With several documents here, which the run does
  not have, `DropsComplete` needs `strays`.
- `GraphStaysSound`. `GraphInv`: an undisturbed build has written what its progress
  says (`WholeInv`), an undisturbed deletion has cleared what its progress says
  (`EraseInv`), and every mention is of a chunk in the corpus or one deleted
  under the build that had read it (`SourceInv`). Claims are of entities that are
  mentioned; that they are of chunks in the corpus is false ("Divergences").
- `GraphAlgorithmsStaySound`, for any number of entities. Merging: `Whole` says of the
  graph so far that every reference is to an entity it has and that weights count
  how often an edge was named; a chunk keeps it (`AddKeepsWhole`, for extractions of any size), and chunks
  that name what they relate commute (`OwnCommute`). The query: a level meets exactly the
  ends of the rows that touch its frontier (for any rows, depth and cap), and what a level
  does not look at again was looked at before, so the nodes are the ball of that radius
  (`Searched`). Communities: `BestLaw`, that a vote has a winner and what it is; and
  `RoundSettled`, that a round which changes nothing on the whole changed nothing on the
  way, since it visits each entity once. That twenty rounds get there (`RoundsSufficed`)
  is the theorem's condition: it is true of the graphs of the run, where TLC checks the
  property without it, and not of every graph (a chain longer than that, whose weights
  grow along it, passes a label on by one entity a round); the code stops either way.
- `EvaluationStaysSound`. `EvalInv`: rows point at parents that exist (`OwnedInv`); what
  the worker carries in memory, its list of questions and the results so far, is that of
  the run it executes (`WorkerInv`); a freezer's copy is of the set it read
  (`FreezerInv`); a pass names results that are complete (`PassInv`), and results
  follow the frozen version (`FollowsInv`).
- `ParsingStaysSound`. `BuildInv`: who builds holds the lock and found no converter.
  `PipeInv`: what was read, what is queued and what the loop has still to enqueue
  are one sequence, the pages in order and then at most one terminal event and one
  sentinel; the steps only move the boundaries between the three.
- `ProfilesStaySound`: a case distinction over documents of any length.
- `MetricsStaySound`. A sum does not depend on the order in which its set is run
  through, and grows with its terms; so the gain of a ranking is bounded by that of the
  ideal one (`IdealIsBest`: exchange the grades into falling order under falling
  discounts), the scores are shares, and moving a hit up never lowers one. For rankings
  of any length and any falling discounts, where the run has three ranks.
- `RetrievalStaysSound`. `RankedLaw`: what a stage returns is a permutation of its set in
  falling order of score, then by the tie. From it, case by case: no leg returns what
  the filter excludes; a hit that every leg ranks higher comes first in the fusion
  (`DominanceLaw`); diversity and reranking cost an answer no place; the diversified
  picks begin with the most relevant, for three candidates of any relevance and
  similarity; what is packed keeps to the budget, but for a first context that exceeds it,
  and is cut off only before one that would reach it (`CompressedLaw`), for contexts of any
  number and size, which is not that nothing behind the cut would fit ("Divergences"); and a routed query
  reaches a content leg, unless it was taken for exact terms in a collection without
  a sparse field.
- `ChunkingStaysSound`, for documents, token counts and lists of sentences of any length
  and every configuration. A text is a run, a rising sequence of places, and every split
  of one is a row of runs, each above the one before it (`SplitLaw`); strip, sections,
  fences, paragraphs, sentences and packs of words each cover what they split but for
  blanks. Each loop has its invariant: packing (`AddSized`) knows what the overlap,
  the buffer and the chunks so far hold, and that only a chunk of one unit is too large;
  merging (`AbsorbSized`) that a small chunk is left only before one it does not fit with;
  the header stack (`PathLaw`) that it is the headers nobody closed; the prompts
  (`PromptsLaw`) that they are full but for the last. From these: the leaves' own places
  are the bodies in order (`CoverLaw`), keep to the sizes (`SizesLaw`), and lie in the
  row that is their parent (`RowsHold`). For the cuts, at most as many distances as the
  percentile leaves are above it (`ShiftsLaw`), by counting.

The proof of each invariant has one step per action or group of like actions.
Operators that a proof sees many times (sequences without repetitions, the removal of
one place, the tail of a method's steps, counting one call more or less) have
lemmas of their own, stated before the invariants that use them.

`JobTable_proofs` has the lemmas about the job table that `IngestJobs_proofs` and
`IndexRebuild_proofs` share; `Services_proofs` the theorems of `ModelSlot`,
`ThreadPools`, `JobEvents`, `Lifespan` and `Parsing`; `Corpus_proofs` those of
`SparseStats`, `GraphBuild`, `GraphMerge` and `Evaluation`; `Algorithms_proofs` those of `EvalMetrics`,
`ParseProfiles`, `Retrieval` and `Chunking`.

The theorems on graphs, sums, rankings and chunks need inductions over data. The library's induction
rules take an operator as a parameter, which the provers cannot instantiate; the
proofs form the set of the numbers for which the claim holds and show that it has no
least non-member (`LeastOf`, `NatInd`, `SubsetInd`), which is first-order.

Model-checked only:

- liveness (`FairLifecycle`, `EndsUnlessUnsettled`, `LineMoves`, `ViewCatchesUp`,
  `StreamsEnd`, `OrphansReclaimed`, `EvalEnds`), which needs ENABLED;
- that label propagation settles within 20 rounds, the part of `GraphAlgorithmsSound`
  its theorem supposes: it is true of the graphs of the run and not of all.

## Plan

1. Refinements: the streams of `JobEvents` and the pools of `ThreadPools` against an
   abstract view of each, step by step.
2. Crashes of a rebuild and its retry, and the consistency report with its repair.
3. Backup and vacuum; garbage collection of artifacts.

## Not modelled

Model inference in embedders and rerankers, configuration and metrics, the
stateless routes, and the dashboard: they keep no state that a property would be
about. Of the components `PROJECT.json` marks `partly`, its note says what is
left out: in most, the listing and reading routes, the translation of errors to
HTTP, the schemas, and the formats of third-party libraries (docling, jieba,
pymilvus), whose answers are inputs of the models.

## Running

    tlc -config IngestCrash.cfg MCIngestJobs
    tlc -config IndexRebuild.cfg MCIndexRebuild
    tlc -config MilvusCalls.cfg MCMilvusAdapter
    tlc -config Deletions.cfg MCDeletions
    tlc -config Services.cfg MCServices
    tlc -config Corpus.cfg MCCorpus
    tlapm IngestJobs_proofs.tla
    tlapm IndexRebuild_proofs.tla
    tlapm Services_proofs.tla
    tlapm JobTable_proofs.tla
    tlapm Deletions_proofs.tla
    tlapm MilvusAdapter_proofs.tla
    tlapm Corpus_proofs.tla
    tlapm Algorithms_proofs.tla
