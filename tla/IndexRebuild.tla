---------------------------- MODULE IndexRebuild ----------------------------
(***************************************************************************)
(* The physical indexes of one logical collection: rebuild jobs that       *)
(* derive a fresh physical collection from the corpus and park it as the   *)
(* canary, gate checks that measure the canary, the route that promotes it *)
(* and retires the active index, and what runs beside them: documents that *)
(* are ingested and rows that are deleted.                                 *)
(*                                                                         *)
(* The worker runs one job at a time; the routes run between any two of    *)
(* its awaits and of each other's.  A document has one leaf chunk; vectors *)
(* are reduced to the rows that hold them.                                 *)
(***************************************************************************)
EXTENDS JobTable, FiniteSets, Sequences

CONSTANTS
  Docs,       \* documents of the collection, by their leaf chunk
  Uploads,    \* those that an ingest job of the model adds
  Targets,    \* the physical name minted for each rebuild job
  Checks,     \* gate checks
  Logical,    \* the logical name, that of the first physical collection too
  NoRef,      \* SQL NULL in a column that holds a physical name
  NoJob,
  Faults,     \* the kinds of I/O fault that may happen
  MaxFaults   \* bound: how many of them happen

FaultKinds == {"cleanup", "finish", "retire", "delete"}

ASSUME JobsAssumption ==
  /\ Jobs = Uploads \cup Targets \cup Checks
  /\ Uploads \cap Targets = {} /\ Uploads \cap Checks = {}
  /\ Targets \cap Checks = {}
  /\ Uploads \subseteq Docs /\ IsFiniteSet(Docs)
ASSUME NamesAssumption ==
  /\ NoJob \notin Jobs /\ Logical \notin Targets
  /\ NoRef \notin Targets \cup {Logical} \cup Docs
ASSUME FaultAssumption == Faults \subseteq FaultKinds /\ MaxFaults \in Nat

Physical == Targets \cup {Logical}

VARIABLES
  \* The corpus database.
  jobs,       \* ingest_jobs: the rows of ingest, rebuild and gate check jobs
  corpus,     \* documents with a leaf chunk
  registry,   \* chunk_indexes: the index_ref of each document's chunk
  bound,      \* index_bindings; without a row, Logical is active
  gated,      \* a regression gate is registered for the collection
  checks,     \* gate_checks
  \* The vector store.
  present,    \* physical collections that exist
  rows,       \* rows[p]: the documents with a row in p
  \* The worker.
  pc, cur,    \* where it is, and in which job
  leaves,     \* the enumeration of the corpus a rebuild works from
  left,       \* leaves of batches still to come
  verdict,    \* why the attempt ends early
  candidate,  \* the canary a gate check measures
  \* The requests.
  promoter,   \* the promotion in progress
  deletion,   \* the deletion in progress
  \* Bookkeeping of the model.
  clock,      \* created_ts of the latest row
  basis,      \* basis[p]: what p was meant to index when it was built
  faults

catalog == <<corpus, registry, bound>>
store   == <<present, rows>>
attempt == <<cur, leaves, left, verdict, candidate>>
routes  == <<promoter, deletion>>
around  == <<gated, routes, clock>>
vars    == <<jobs, catalog, gated, checks, store, pc, attempt, routes, clock,
             basis, faults>>

RebuildPcs == {"begin", "list", "prepare", "create", "batch", "upsert",
               "count", "park", "finish"}
CheckPcs   == {"candidate", "ask", "record", "checked"}
IngestPcs  == {"store", "index", "register", "undoDoc", "undoIndex"}
WorkerPcs  == {"claim", "cleanup", "settle"} \cup RebuildPcs \cup CheckPcs
                \cup IngestPcs

NoPromotion == [at |-> "none", seen |-> NoRef, old |-> NoRef]
NoDeletion  == [at |-> "none", doc |-> NoRef, refs |-> <<>>]
NoCheck     == [candidate |-> NoRef, status |-> "absent", created |-> 0]
CheckStatuses == {"absent", "read", "running", "passed", "failed", "cancelled"}

Fault(kind) == kind \in Faults /\ faults < MaxFaults /\ faults' = faults + 1

At(where) == pc = where
Goto(where) == pc' = where

Release ==
  /\ Goto("claim")
  /\ cur' = NoJob /\ leaves' = {} /\ left' = {} /\ verdict' = "none"
  /\ candidate' = NoRef

\* store.drop_collection, and its effect on the rows.
DropCollection(p) ==
  /\ present' = present \ {p}
  /\ rows' = [rows EXCEPT ![p] = {}]

Init ==
  /\ jobs = [j \in Jobs |-> NoRow]
  /\ corpus = Docs \ Uploads
  /\ registry = [d \in Docs |-> IF d \in Uploads THEN NoRef ELSE Logical]
  /\ bound = [active |-> Logical, canary |-> NoRef]
  /\ gated \in BOOLEAN
  /\ checks = [c \in Checks |-> NoCheck]
  /\ present = {Logical}
  /\ rows = [p \in Physical |-> IF p = Logical THEN Docs \ Uploads ELSE {}]
  /\ pc = "claim" /\ cur = NoJob /\ leaves = {} /\ left = {}
  /\ verdict = "none" /\ candidate = NoRef
  /\ promoter = NoPromotion /\ deletion = NoDeletion
  /\ clock = 0 /\ faults = 0
  /\ basis = [p \in Physical |-> IF p = Logical THEN Docs \ Uploads ELSE {}]

-----------------------------------------------------------------------------
(* Submissions, cancellations, the claim.                                  *)

Submit(j) ==
  /\ ~ Exists(jobs, j)
  /\ clock' = clock + 1
  /\ jobs' = CreateJob(jobs, j, clock')

\* An upload, or a reindex of a collection that has documents.
SubmitJob(j) ==
  /\ j \in Targets => corpus # {}
  /\ j \notin Checks
  /\ Submit(j)
  /\ UNCHANGED <<catalog, gated, checks, store, pc, attempt, routes, basis,
                 faults>>

\* The route that submits a check reads the canary that is parked (until the
\* row is written, "read" stands for what the request holds), writes the row
\* of the check, already running, and then that of its job.
ReadCanary(c) ==
  /\ gated
  /\ bound.canary # NoRef
  /\ checks[c].status = "absent"
  /\ checks' = [checks EXCEPT ![c].candidate = bound.canary, ![c].status = "read"]
  /\ UNCHANGED <<jobs, catalog, gated, store, pc, attempt, routes, clock, basis,
                 faults>>

CreateCheck(c) ==
  /\ checks[c].status = "read"
  /\ clock' = clock + 1
  /\ checks' = [checks EXCEPT ![c].status = "running", ![c].created = clock']
  /\ UNCHANGED <<jobs, catalog, gated, store, pc, attempt, routes, basis, faults>>

SubmitCheck(c) ==
  /\ checks[c].status = "running"
  /\ Submit(c)
  /\ UNCHANGED <<catalog, gated, checks, store, pc, attempt, routes, basis,
                 faults>>

\* What cancelling an ingest job does is in module IngestJobs.
CancelJob(j) ==
  /\ j \notin Uploads
  /\ CanRequestCancel(jobs, j)
  /\ jobs' = RequestCancel(jobs, j)
  /\ UNCHANGED <<catalog, gated, checks, store, pc, attempt, routes, clock,
                 basis, faults>>

BackoffElapses(j) ==
  /\ jobs[j].parked
  /\ jobs' = [jobs EXCEPT ![j].parked = FALSE]
  /\ UNCHANGED <<catalog, gated, checks, store, pc, attempt, routes, clock,
                 basis, faults>>

Claim(j) ==
  /\ At("claim")
  /\ ClaimNextQueued(jobs, j)
  /\ cur' = j
  /\ Goto(IF j \in Targets THEN "begin"
          ELSE IF j \in Checks THEN "candidate" ELSE "store")
  /\ UNCHANGED <<jobs, catalog, gated, checks, store, leaves, left, verdict,
                 candidate, routes, clock, basis, faults>>

-----------------------------------------------------------------------------
(* Rebuild jobs.                                                           *)

\* The attempt is given up; the target goes before the job is settled.
GiveUp(why) == verdict' = why /\ Goto("cleanup")

\* _check_cancel before the enumeration and before every batch.
StopAtGate ==
  /\ pc \in {"begin", "batch"}
  /\ jobs[cur].cancel
  /\ GiveUp("cancel")
  /\ UNCHANGED <<jobs, catalog, checks, store, cur, leaves, left, candidate,
                 around, basis, faults>>

BeginRebuild ==
  /\ At("begin")
  /\ ~ jobs[cur].cancel
  /\ jobs' = MarkJob(jobs, cur, "embedding")
  /\ Goto("list")
  /\ UNCHANGED <<catalog, checks, store, attempt, around, basis, faults>>

\* 503, before the pipeline: nothing is dropped.
EmbedderUnavailable ==
  /\ At("begin")
  /\ verdict' = "server" /\ Goto("settle")
  /\ UNCHANGED <<jobs, catalog, checks, store, cur, leaves, left, candidate,
                 around, basis, faults>>

ListLeaves ==
  /\ At("list")
  /\ corpus # {}
  /\ leaves' = corpus /\ left' = corpus
  /\ basis' = [basis EXCEPT ![cur] = corpus]
  /\ Goto("prepare")
  /\ UNCHANGED <<jobs, catalog, checks, store, cur, verdict, candidate, around,
                 faults>>

\* rebuild_empty, a 4xx.
NothingToRebuild ==
  /\ At("list")
  /\ corpus = {}
  /\ GiveUp("client")
  /\ UNCHANGED <<jobs, catalog, checks, store, cur, leaves, left, candidate,
                 around, basis, faults>>

\* A leftover of an earlier attempt is dropped.
DropLeftover ==
  /\ At("prepare")
  /\ DropCollection(cur)
  /\ Goto("create")
  /\ UNCHANGED <<jobs, catalog, checks, attempt, around, basis, faults>>

CreateTarget ==
  /\ At("create")
  /\ present' = present \cup {cur}
  /\ Goto("batch")
  /\ UNCHANGED <<jobs, catalog, checks, rows, attempt, around, basis, faults>>

EmbedBatch ==
  /\ At("batch")
  /\ ~ jobs[cur].cancel
  /\ jobs' = MarkJob(jobs, cur, "upserting")
  /\ Goto("upsert")
  /\ UNCHANGED <<catalog, checks, store, attempt, around, basis, faults>>

\* A batch of one leaf; the embedder or the store may drop the row silently.
UpsertBatch ==
  /\ At("upsert")
  /\ \E d \in left :
       /\ left' = left \ {d}
       /\ \E stored \in SUBSET {d} :
            rows' = [rows EXCEPT ![cur] = @ \cup stored]
  /\ Goto(IF left' = {} THEN "count" ELSE "batch")
  /\ UNCHANGED <<jobs, catalog, checks, present, cur, leaves, verdict,
                 candidate, around, basis, faults>>

\* Mutant: the canary is parked without counting.
TrustRows ==
  /\ At("count")
  /\ Goto("park")
  /\ UNCHANGED <<jobs, catalog, checks, store, attempt, around, basis, faults>>

CountRows ==
  /\ At("count")
  /\ Cardinality(rows[cur]) = Cardinality(leaves)
  /\ Goto("park")
  /\ UNCHANGED <<jobs, catalog, checks, store, attempt, around, basis, faults>>

CountMismatch ==
  /\ At("count")
  /\ Cardinality(rows[cur]) # Cardinality(leaves)
  /\ GiveUp("server")
  /\ UNCHANGED <<jobs, catalog, checks, store, cur, leaves, left, candidate,
                 around, basis, faults>>

\* Whatever canary was parked before is forgotten, not dropped.
ParkCanary ==
  /\ At("park")
  /\ bound' = [bound EXCEPT !.canary = cur]
  /\ Goto("finish")
  /\ UNCHANGED <<jobs, corpus, registry, checks, store, attempt, around, basis,
                 faults>>

FinishRebuild ==
  /\ At("finish")
  /\ jobs' = FinishJob(jobs, cur)
  /\ Release
  /\ UNCHANGED <<catalog, checks, store, around, basis, faults>>

\* A step fails with a 5xx; a failed upsert may have written its row.  Once
\* the canary is parked, only the last statement is left to fail.
FailRebuild ==
  /\ pc \in RebuildPcs
  /\ IF At("finish") THEN Fault("finish") ELSE UNCHANGED faults
  /\ \/ UNCHANGED rows
     \/ /\ At("upsert")
        /\ \E d \in left : rows' = [rows EXCEPT ![cur] = @ \cup {d}]
  /\ GiveUp("server")
  /\ UNCHANGED <<jobs, catalog, checks, present, cur, leaves, left, candidate,
                 around, basis>>

\* Mutant: the attempt is settled without dropping its target.
SkipCleanup ==
  /\ At("cleanup")
  /\ Goto("settle")
  /\ UNCHANGED <<jobs, catalog, checks, store, attempt, around, basis, faults>>

\* Best effort: an error is logged.
Cleanup ==
  /\ At("cleanup")
  /\ \/ DropCollection(cur) /\ UNCHANGED faults
     \/ Fault("cleanup") /\ UNCHANGED store
  /\ Goto("settle")
  /\ UNCHANGED <<jobs, catalog, checks, attempt, around, basis>>

\* JobCancelled, or _handle_failure.
Settle ==
  /\ At("settle")
  /\ LET spent == jobs[cur].attempts + 1
     IN  jobs' = IF verdict = "cancel" THEN MarkCancelled(jobs, cur)
                 ELSE IF verdict = "server" /\ spent < MaxAttempts
                 THEN RequeueJob(jobs, cur, spent, TRUE)
                 ELSE FailJob(jobs, cur, spent)
  /\ Release
  /\ UNCHANGED <<catalog, checks, store, around, basis, faults>>

-----------------------------------------------------------------------------
(* Gate checks.                                                            *)

\* gate_no_canary is a 4xx.
ReadCandidate ==
  /\ At("candidate")
  /\ candidate' = bound.canary
  /\ IF bound.canary = NoRef
     THEN verdict' = "client" /\ Goto("settle")
     ELSE UNCHANGED verdict /\ Goto("ask")
  /\ UNCHANGED <<jobs, catalog, checks, store, cur, leaves, left, around,
                 basis, faults>>

AskQuestions ==
  /\ At("ask")
  /\ ~ jobs[cur].cancel
  /\ candidate \in present
  /\ jobs' = MarkJob(jobs, cur, "evaluating")
  /\ Goto("record")
  /\ UNCHANGED <<catalog, checks, store, attempt, around, basis, faults>>

\* The cancelled check keeps the row of its job company.
CancelCheck ==
  /\ At("ask")
  /\ jobs[cur].cancel
  /\ jobs' = MarkCancelled(jobs, cur)
  /\ checks' = [checks EXCEPT ![cur].status = "cancelled"]
  /\ Release
  /\ UNCHANGED <<catalog, store, around, basis, faults>>

RecordVerdict ==
  /\ At("record")
  /\ \E status \in {"passed", "failed"} :
       checks' = [checks EXCEPT ![cur].status = status]
  /\ Goto("checked")
  /\ UNCHANGED <<jobs, catalog, store, attempt, around, basis, faults>>

FinishCheck ==
  /\ At("checked")
  /\ jobs' = FinishJob(jobs, cur)
  /\ Release
  /\ UNCHANGED <<catalog, checks, store, around, basis, faults>>

\* A question cannot be answered: the check's row stays as it is.
FailCheck ==
  /\ pc \in {"candidate", "ask"}
  /\ verdict' \in {"server", "client"}
  /\ Goto("settle")
  /\ UNCHANGED <<jobs, catalog, checks, store, cur, leaves, left, candidate,
                 around, basis, faults>>

-----------------------------------------------------------------------------
(* Ingest jobs, by what they do to this module's state: module IngestJobs   *)
(* has them in full.                                                       *)

StoreDocument ==
  /\ At("store")
  /\ jobs' = MarkJob(jobs, cur, "embedding")
  /\ corpus' = corpus \cup {cur}
  /\ Goto("index")
  /\ UNCHANGED <<registry, bound, checks, store, attempt, around, basis,
                 faults>>

\* ensure_collection and upsert, under the logical name whatever is bound.
IndexDocument ==
  /\ At("index")
  /\ jobs' = MarkJob(jobs, cur, "upserting")
  /\ present' = present \cup {Logical}
  /\ rows' = [rows EXCEPT ![Logical] = @ \cup {cur}]
  /\ Goto("register")
  /\ UNCHANGED <<catalog, checks, attempt, around, basis, faults>>

\* record_indexes and finish_job.
RegisterDocument ==
  /\ At("register")
  /\ cur \in corpus
  /\ registry' = [registry EXCEPT ![cur] = Logical]
  /\ basis' = [basis EXCEPT ![Logical] = @ \cup {cur}]
  /\ jobs' = FinishJob(jobs, cur)
  /\ Release
  /\ UNCHANGED <<corpus, bound, checks, store, around, faults>>

\* What was stored and indexed is rolled back before the job is settled, the
\* document with its registry row first.  That either may fail is in module
\* IngestJobs.
AbortIngest ==
  /\ pc \in {"store", "index", "register"}
  /\ verdict' \in {"server", "client"}
  /\ Goto(IF At("store") THEN "settle" ELSE "undoDoc")
  /\ UNCHANGED <<jobs, catalog, checks, store, cur, leaves, left, candidate,
                 around, basis, faults>>

UndoDocument ==
  /\ At("undoDoc")
  /\ corpus' = corpus \ {cur}
  /\ registry' = [registry EXCEPT ![cur] = NoRef]
  /\ Goto("undoIndex")
  /\ UNCHANGED <<jobs, bound, checks, store, attempt, around, basis, faults>>

UndoIndex ==
  /\ At("undoIndex")
  /\ rows' = [rows EXCEPT ![Logical] = @ \ {cur}]
  /\ Goto("settle")
  /\ UNCHANGED <<jobs, catalog, checks, present, attempt, around, basis, faults>>

-----------------------------------------------------------------------------
(* The promotion route.                                                    *)

worker == <<jobs, checks, pc, attempt, clock, basis, gated>>

\* The gate row, then the canary the check must have passed for.
BeginPromotion ==
  /\ promoter.at = "none"
  /\ promoter' = IF gated
                 THEN [NoPromotion EXCEPT !.at = "gate", !.seen = bound.canary]
                 ELSE [NoPromotion EXCEPT !.at = "cleared"]
  /\ UNCHANGED <<worker, catalog, store, deletion, faults>>

IsLatestCheck(c) ==
  /\ checks[c].status \notin {"absent", "read"}
  /\ \A d \in Checks : checks[d].created <= checks[c].created

\* Mutant: a check that has not ended will do.
GatePassesUnfinished(ref) ==
  \E c \in Checks : IsLatestCheck(c) /\ checks[c].candidate = ref

GatePasses(ref) ==
  \E c \in Checks : /\ IsLatestCheck(c)
                    /\ checks[c].status = "passed"
                    /\ checks[c].candidate = ref

\* 409 gate_blocked otherwise.
AuthorizePromotion ==
  /\ promoter.at = "gate"
  /\ promoter' = IF GatePasses(promoter.seen)
                 THEN [NoPromotion EXCEPT !.at = "cleared"] ELSE NoPromotion
  /\ UNCHANGED <<worker, catalog, store, deletion, faults>>

\* Mutant: the registry keeps pointing at the old index.
PromoteBindingOnly ==
  /\ promoter.at = "cleared"
  /\ bound.canary # NoRef
  /\ bound' = [active |-> bound.canary, canary |-> NoRef]
  /\ promoter' = [NoPromotion EXCEPT !.at = "retire", !.old = bound.active]
  /\ UNCHANGED <<worker, corpus, registry, store, deletion, faults>>

\* Mutants: no test for a parked canary; the index to retire is looked up
\* after the switch.
PromoteUnparked ==
  /\ promoter.at = "cleared"
  /\ bound' = [active |-> bound.canary, canary |-> NoRef]
  /\ registry' = [d \in Docs |-> IF registry[d] = NoRef THEN NoRef
                                 ELSE bound.canary]
  /\ promoter' = [NoPromotion EXCEPT !.at = "retire", !.old = bound.active]
  /\ UNCHANGED <<worker, corpus, store, deletion, faults>>

PromoteThenLookUp ==
  /\ promoter.at = "cleared"
  /\ bound.canary # NoRef
  /\ bound' = [active |-> bound.canary, canary |-> NoRef]
  /\ registry' = [d \in Docs |-> IF registry[d] = NoRef THEN NoRef
                                 ELSE bound.canary]
  /\ promoter' = [NoPromotion EXCEPT !.at = "retire", !.old = bound'.active]
  /\ UNCHANGED <<worker, corpus, store, deletion, faults>>

\* One transaction, whose canary is the one it finds.  What is parked and active
\* at once is not retired.
PromoteIndex ==
  /\ promoter.at = "cleared"
  /\ bound.canary # NoRef
  /\ bound' = [active |-> bound.canary, canary |-> NoRef]
  /\ registry' = [d \in Docs |-> IF registry[d] = NoRef THEN NoRef
                                 ELSE bound.canary]
  /\ promoter' = IF bound.active = bound.canary THEN NoPromotion
                 ELSE [NoPromotion EXCEPT !.at = "retire", !.old = bound.active]
  /\ UNCHANGED <<worker, corpus, store, deletion, faults>>

\* 409 reindex_no_canary.
NoCanary ==
  /\ promoter.at = "cleared"
  /\ bound.canary = NoRef
  /\ promoter' = NoPromotion
  /\ UNCHANGED <<worker, catalog, store, deletion, faults>>

\* After an error the retired index stays.
RetireIndex ==
  /\ promoter.at = "retire"
  /\ \/ DropCollection(promoter.old) /\ UNCHANGED faults
     \/ Fault("retire") /\ UNCHANGED store
  /\ promoter' = NoPromotion
  /\ UNCHANGED <<worker, catalog, deletion>>

-----------------------------------------------------------------------------
(* The route that deletes rows, here the one leaf of a document.           *)

\* The physical collections are looked up once.
BeginDeletion(d) ==
  /\ deletion.at = "none"
  /\ d \in corpus
  /\ deletion' = [at |-> "rows", doc |-> d,
                  refs |-> IF bound.canary = NoRef THEN <<bound.active>>
                           ELSE <<bound.active, bound.canary>>]
  /\ UNCHANGED <<worker, catalog, store, promoter, faults>>

DeleteRow ==
  /\ deletion.at = "rows"
  /\ deletion.refs # <<>>
  /\ Head(deletion.refs) \in present
  /\ rows' = [rows EXCEPT ![Head(deletion.refs)] = @ \ {deletion.doc}]
  /\ deletion' = [deletion EXCEPT !.refs = Tail(@)]
  /\ UNCHANGED <<worker, catalog, present, promoter, faults>>

\* The collection is gone, or the store errs: the request fails as it stands.
DeleteFails ==
  /\ deletion.at = "rows"
  /\ deletion.refs # <<>>
  /\ IF Head(deletion.refs) \in present THEN Fault("delete")
                                        ELSE UNCHANGED faults
  /\ deletion' = NoDeletion
  /\ UNCHANGED <<worker, catalog, store, promoter>>

DeleteChunk ==
  /\ deletion.at = "rows"
  /\ deletion.refs = <<>>
  /\ corpus' = corpus \ {deletion.doc}
  /\ registry' = [registry EXCEPT ![deletion.doc] = NoRef]
  /\ deletion' = NoDeletion
  /\ UNCHANGED <<worker, bound, store, promoter, faults>>

-----------------------------------------------------------------------------
(* Specification.                                                          *)

Requests == \/ \E j \in Jobs : SubmitJob(j) \/ CancelJob(j)
            \/ \E c \in Checks : ReadCanary(c) \/ CreateCheck(c) \/ SubmitCheck(c)
            \/ BeginPromotion \/ AuthorizePromotion \/ PromoteIndex \/ NoCanary
            \/ RetireIndex
            \/ \E d \in Docs : BeginDeletion(d)
            \/ DeleteRow \/ DeleteFails \/ DeleteChunk

Rebuilding == \/ StopAtGate \/ BeginRebuild \/ EmbedderUnavailable
              \/ ListLeaves \/ NothingToRebuild
              \/ DropLeftover \/ CreateTarget \/ EmbedBatch \/ UpsertBatch
              \/ CountRows \/ CountMismatch \/ ParkCanary \/ FinishRebuild
              \/ FailRebuild \/ Cleanup

Checking == \/ ReadCandidate \/ AskQuestions \/ CancelCheck \/ RecordVerdict
            \/ FinishCheck \/ FailCheck

Ingesting == \/ StoreDocument \/ IndexDocument \/ RegisterDocument
             \/ AbortIngest \/ UndoDocument \/ UndoIndex

Next == \/ Requests
        \/ \E j \in Jobs : Claim(j) \/ BackoffElapses(j)
        \/ Rebuilding \/ Checking \/ Ingesting \/ Settle

Spec == Init /\ [][Next]_vars

-----------------------------------------------------------------------------
(* Properties.                                                             *)

\* Every variable has its type.
TypeOK ==
  /\ jobs \in JobTables
  /\ corpus \subseteq Docs
  /\ registry \in [Docs -> Physical \cup {NoRef}]
  /\ bound \in [active : Physical, canary : Targets \cup {NoRef}]
  /\ gated \in BOOLEAN
  /\ checks \in [Checks -> [candidate : Targets \cup {NoRef},
                            status : CheckStatuses,
                            created : Nat]]
  /\ present \subseteq Physical
  /\ rows \in [Physical -> SUBSET Docs]
  /\ pc \in WorkerPcs
  /\ cur \in Jobs \cup {NoJob}
  /\ leaves \subseteq Docs /\ left \subseteq leaves
  /\ verdict \in {"none", "cancel", "server", "client"}
  /\ candidate \in Targets \cup {NoRef}
  /\ promoter \in [at : {"none", "gate", "cleared", "retire"},
                   seen : Targets \cup {NoRef}, old : Physical \cup {NoRef}]
  /\ deletion \in [at : {"none", "rows"}, doc : Docs \cup {NoRef},
                   refs : Seq(Physical)]
  /\ clock \in Nat
  /\ basis \in [Physical -> SUBSET Docs]
  /\ faults \in 0 .. MaxFaults

Bound == {bound.active, bound.canary} \ {NoRef}

\* "The old index keeps serving until promotion": whatever rebuilds, retries,
\* promotions and retirements overlap, what the binding names exists.
BoundIndexesExist == Bound \subseteq present

\* A bound index holds every document of the corpus that it was built from,
\* whatever rows the store dropped in silence and whatever was deleted while
\* it was built: no search misses it before or after the promotion.
IndexComplete ==
  \A p \in Bound : (corpus \cap basis[p]) \ {deletion.doc} \subseteq rows[p]

\* A rebuild job that came to its end otherwise than done leaves no target
\* behind, and no binding to one, unless the dropping of it failed.
FailedLeavesNothing ==
  faults = 0 =>
    \A r \in Targets : jobs[r].status \in {"failed", "cancelled"} =>
                         r \notin present \cup Bound

\* The registry is switched together with the binding: a row names the active
\* index or, if ingest wrote it since, the logical name it always writes.
RegistryFollowsBinding ==
  \A d \in Docs : \/ registry[d] \in {NoRef, bound.active}
                  \/ d \in Uploads /\ registry[d] = Logical

\* A canary is promoted by a gated collection only when a check has passed for
\* it: "a pass for an older canary does not authorize a different physical
\* index".
PromotionAuthorized ==
  [][ bound'.active # bound.active /\ gated =>
        \E c \in Checks : /\ checks[c].status = "passed"
                          /\ checks[c].candidate = bound'.active ]_vars

\* To a polling client a rebuild, a gate check and an ingest job are all jobs of
\* the same lifecycle: one worker, but three handlers that mark, finish, cancel,
\* retry and fail the rows, each with statements that test no status.
Shown == [j \in Jobs |-> IF IsRunning(jobs, j) THEN "running"
                         ELSE jobs[j].status]
Spent == [j \in Jobs |-> jobs[j].attempts]

Lifecycle == INSTANCE JobLifecycle WITH status <- Shown, attempts <- Spent

ImplementsLifecycle == Lifecycle!Init /\ [][Lifecycle!Next]_(Lifecycle!vars)

-----------------------------------------------------------------------------
(* Inductive strengthening.                                                *)

\* Which job the worker may hold where, and that its row is still open.
ControlInv ==
  /\ (cur = NoJob) = (pc = "claim")
  /\ pc \in RebuildPcs \cup {"cleanup"} => cur \in Targets
  /\ pc \in CheckPcs => cur \in Checks
  /\ pc \in IngestPcs => cur \in Uploads
  /\ cur # NoJob => Unfinished(jobs, cur)
  /\ \A j \in Jobs : Unfinished(jobs, j) => jobs[j].attempts < MaxAttempts

\* From its first mark on, the row of the job in hand is in a running stage, so
\* that the unconditional statement that ends it finds it so; and a job without a
\* row has spent nothing.
RowInv ==
  /\ pc \in (RebuildPcs \ {"begin"}) \cup {"record", "checked", "index", "register"}
       => IsRunning(jobs, cur)
  /\ \A j \in Jobs : Exists(jobs, j) \/ jobs[j].attempts = 0

\* A target is bound only once its job is done, but for the step between the
\* parking of the canary and the end of the job; the retired index belongs to
\* a job that is done, so that no retry can be building it again.
BindingInv ==
  faults = 0 \/ "finish" \notin Faults =>
    /\ BoundIndexesExist
    /\ \A r \in Bound \cap Targets : \/ jobs[r].status = "done"
                                     \/ cur = r /\ pc = "finish"
    /\ bound.active # bound.canary
    /\ pc = "finish" => \/ bound.canary = cur
                        \/ bound.active = cur /\ bound.canary = NoRef
    /\ pc \in {"batch", "upsert", "count", "park", "finish"} => cur \in present
    /\ promoter.at = "retire" =>
         /\ promoter.old \in Physical \ Bound
         /\ promoter.old \in Targets => jobs[promoter.old].status = "done"

\* Without faults, a target exists only while its job works on it, or for good.
LeftoverInv ==
  faults = 0 =>
    \A r \in Targets \cap present :
      \/ jobs[r].status = "done"
      \/ cur = r /\ pc \in {"batch", "upsert", "count", "park", "finish",
                            "cleanup"}

\* What p was meant to index, the document an ingest is about to register
\* included, and what of it the corpus holds but p does not.
Meant(p)   == basis[p] \cup {d \in Docs : /\ p = Logical /\ d = cur
                                          /\ pc = "register"}
Missing(p) == (corpus \cap Meant(p)) \ rows[p]

RefsLeft == {deletion.refs[n] : n \in DOMAIN deletion.refs}

\* An upload is in the corpus only while it is ingested or when it is done.
UploadInv ==
  \A u \in Uploads : jobs[u].status # "done" =>
    /\ \A p \in Physical : u \notin basis[p]
    /\ u \in corpus => cur = u /\ pc \in {"index", "register", "undoDoc"}

\* The target holds nothing but leaves of the enumeration, and all of them
\* when it is parked.
BuildInv ==
  /\ pc \in {"prepare", "create", "batch", "upsert", "count"} =>
       basis[cur] = leaves
  /\ pc = "create" => rows[cur] = {}
  /\ pc \in {"batch", "upsert", "count"} => rows[cur] \subseteq leaves
  /\ pc = "park" => basis[cur] \subseteq rows[cur]

\* A deletion works on indexes that were bound when it began.  When it has
\* taken the row from the active index, the canary it has yet to visit is
\* there, and no promotion is about to drop it.
DeletionInv ==
  /\ deletion.at = "none" => deletion = NoDeletion
  /\ \A r \in RefsLeft \cap Targets : \/ jobs[r].status = "done"
                                      \/ cur = r /\ pc = "finish"
  /\ Len(deletion.refs) <= 2
  /\ Len(deletion.refs) = 2 /\ deletion.refs[1] \in Bound =>
       /\ deletion.refs[1] = bound.active
       /\ deletion.refs[2] \in present
       /\ promoter.at = "retire" => promoter.old # deletion.refs[2]
  /\ \A p \in Bound : Missing(p) # {} /\ deletion.refs # <<>> =>
       /\ p = bound.active
       /\ Len(deletion.refs) = 1
       /\ deletion.refs[1] \in present
       /\ promoter.at = "retire" => promoter.old # deletion.refs[1]

NothingMissing == \A p \in Bound : Missing(p) \subseteq {deletion.doc}

\* No fault has happened that takes rows away for good.
Clean == faults = 0 \/ Faults \cap {"finish", "delete"} = {}

CompleteInv ==
  Clean => UploadInv /\ BuildInv /\ DeletionInv /\ NothingMissing

\* A check that passed is over, but for the last update of its row, so nothing
\* takes its verdict back; and a gated promotion that was cleared has one.
GateInv ==
  /\ \A c \in Checks :
       checks[c].status # "absent" => checks[c].candidate \in Targets
  /\ \A c \in Checks : Exists(jobs, c) => checks[c].status # "absent"
  /\ \A c \in Checks : checks[c].status = "passed" =>
       jobs[c].status = "done" \/ (cur = c /\ pc = "checked")
  /\ gated /\ promoter.at = "cleared" =>
       \E c \in Checks : checks[c].status = "passed"
=============================================================================
