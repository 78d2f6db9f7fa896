----------------------------- MODULE IngestJobs -----------------------------
(***************************************************************************)
(* Asynchronous document ingestion: the submit and cancel routes, the      *)
(* in-process IngestWorker with the ingest pipeline it runs one job at a   *)
(* time, and the recovery that the next process runs before its worker     *)
(* starts.  Each action is the code between two awaits: one SQLite         *)
(* transaction, one call to the vector store, one step on the file system. *)
(* The routes run between any two of them, and the process may die there.  *)
(*                                                                         *)
(* One logical collection, one document per job.  Parsing, chunking and    *)
(* embedding are reduced to their outcomes.                                *)
(***************************************************************************)
EXTENDS JobTable

CONSTANTS
  Digests,      \* SHA-256 digests of uploads
  DigestOf,     \* DigestOf[j]: the digest of the bytes submitted with j
  NoJob,        \* the worker is not executing a job
  MaxCrashes,   \* bound: how often the process dies
  Faults,       \* the kinds of I/O fault that may happen
  MaxFaults     \* bound: how many of them happen

FaultKinds == {"create", "claim", "cleanup", "settle", "promote", "spool"}

ASSUME DigestAssumption == DigestOf \in [Jobs -> Digests]
ASSUME NoJobAssumption == NoJob \notin Jobs
ASSUME FaultAssumption == Faults \subseteq FaultKinds
ASSUME BoundAssumption == MaxCrashes \in Nat /\ MaxFaults \in Nat

VARIABLES
  \* What survives the process.
  jobs,       \* the ingest_jobs table
  docs,       \* jobs whose document and chunks are in the corpus
  registry,   \* jobs whose chunks have chunk_indexes rows
  index,      \* jobs that have rows in the vector store
  artifacts,  \* jobs with a directory of extracted images
  spool,      \* jobs with a spooled upload
  originals,  \* digests in the content-addressed store
  \* What dies with it.
  phase,      \* "serving", or the process is "down" or "recovering"
  submit,     \* submit[j]: progress of the request that submits j
  event,      \* the worker's wake event is set
  pc,         \* where the worker (or recovery) is
  cur,        \* the job it works on
  stage,      \* index into Stages of the stage it is in, or will mark next
  stored,     \* corpus_stored of the running pipeline
  tries,      \* attempts in the row it claimed
  verdict,    \* why the attempt is being undone
  todo,       \* rows find_interrupted returned, not recovered yet
  \* Bookkeeping of the model.
  clock,      \* created_ts of the latest row
  acked,      \* jobs whose cancellation a client was told is requested
  crashes,
  faults,
  unsettled   \* jobs that a failed settling statement left in a stage, since
              \* the process started

\* Groups for UNCHANGED: the files and tables besides ingest_jobs, the
\* attempt the worker makes, and what a step of the worker leaves alone.
disk    == <<docs, registry, index, artifacts, spool, originals>>
attempt == <<cur, stage, stored, tries, verdict>>
around  == <<phase, submit, todo, clock, acked, crashes, unsettled>>
vars    == <<jobs, disk, pc, attempt, event, around, faults>>

PipelinePcs == {"gate", "mark", "work", "store", "record", "finish"}
UndoPcs     == {"undoDoc", "undoIndex", "undoFiles", "settle", "discard"}
WorkerPcs   == {"claim", "lull", "idle", "load", "promote"}
                 \cup PipelinePcs \cup UndoPcs
RecoveryPcs == {"next"} \cup UndoPcs
Verdicts    == {"none", "cancel", "server", "client", "restart"}
SubmitPcs   == {"new", "spooled", "created", "accepted", "rejected", "lost"}

\* One more I/O fault of this kind happens.
Fault(kind) == kind \in Faults /\ faults < MaxFaults /\ faults' = faults + 1

At(where) == pc = where
Goto(where) == pc' = where

\* Those of them that are in a stage stay there until the next start.
LeaveUnsettled(them) ==
  unsettled' = unsettled \cup {j \in them : IsRunning(jobs, j)}

\* The attempt fails, or is given up, and what it left behind is undone:
\* everything if the document reached the corpus, else the images only.
Undo(why) ==
  /\ verdict' = why
  /\ Goto(IF stored THEN "undoDoc" ELSE "undoFiles")

\* _discard_artifacts swallows every error.
DropArtifacts ==
  \/ artifacts' = artifacts \ {cur} /\ UNCHANGED faults
  \/ Fault("cleanup") /\ UNCHANGED artifacts

\* The worker turns to the next job; recovery to the next row.
Release ==
  /\ Goto(IF phase = "recovering" THEN "next" ELSE "claim")
  /\ cur' = NoJob /\ stage' = 0 /\ stored' = FALSE /\ tries' = 0
  /\ verdict' = "none"

Init ==
  /\ jobs = [j \in Jobs |-> NoRow]
  /\ docs = {} /\ registry = {} /\ index = {} /\ artifacts = {}
  /\ spool = {} /\ originals = {}
  /\ phase = "serving"
  /\ submit = [j \in Jobs |-> "new"]
  /\ event = FALSE
  /\ pc = "claim" /\ cur = NoJob /\ stage = 0 /\ stored = FALSE /\ tries = 0
  /\ verdict = "none"
  /\ todo = {}
  /\ clock = 0 /\ acked = {} /\ crashes = 0 /\ faults = 0 /\ unsettled = {}

-----------------------------------------------------------------------------
(* The routes.                                                             *)

SubmitStep(j, from, to) ==
  /\ phase = "serving"
  /\ submit[j] = from
  /\ submit' = [submit EXCEPT ![j] = to]

\* The upload is spooled before the row exists.
SpoolUpload(j) ==
  /\ SubmitStep(j, "new", "spooled")
  /\ spool' = spool \cup {j}
  /\ UNCHANGED <<jobs, docs, registry, index, artifacts, originals, pc,
                 attempt, event, phase, todo, clock, acked, crashes, faults,
                 unsettled>>

\* Mutant: the row exists before the upload is spooled.
InsertRowFirst(j) ==
  /\ SubmitStep(j, "new", "created")
  /\ clock' = clock + 1
  /\ jobs' = CreateJob(jobs, j, clock')
  /\ UNCHANGED <<disk, pc, attempt, event, phase, todo, acked, crashes,
                 faults, unsettled>>

InsertRow(j) ==
  /\ SubmitStep(j, "spooled", "created")
  /\ clock' = clock + 1
  /\ jobs' = CreateJob(jobs, j, clock')
  /\ UNCHANGED <<disk, pc, attempt, event, phase, todo, acked, crashes,
                 faults, unsettled>>

InsertRowFails(j) ==
  /\ SubmitStep(j, "spooled", "rejected")
  /\ Fault("create")
  /\ spool' = spool \ {j}
  /\ UNCHANGED <<jobs, docs, registry, index, artifacts, originals, pc,
                 attempt, event, phase, todo, clock, acked, crashes,
                 unsettled>>

WakeWorker(j) ==
  /\ SubmitStep(j, "created", "accepted")
  /\ event' = TRUE
  /\ UNCHANGED <<jobs, disk, pc, attempt, phase, todo, clock, acked, crashes,
                 faults, unsettled>>

\* Refused with 409, and without effect, when the UPDATE matches no row.
CancelJob(j) ==
  /\ phase = "serving"
  /\ CanRequestCancel(jobs, j)
  /\ jobs' = RequestCancel(jobs, j)
  /\ acked' = acked \cup {j}
  /\ UNCHANGED <<disk, pc, attempt, event, phase, submit, todo, clock, crashes,
                 faults, unsettled>>

-----------------------------------------------------------------------------
(* The worker loop: claim, sleep, read the claimed job's inputs.           *)

Claim(j) ==
  /\ At("claim")
  /\ ClaimNextQueued(jobs, j)
  /\ Goto("load")
  /\ cur' = j
  /\ tries' = jobs[j].attempts
  /\ UNCHANGED <<jobs, disk, stage, stored, verdict, event, around, faults>>

\* The query runs in a thread: by the time the worker learns that it found
\* nothing, and goes to sleep, a request may have inserted a row.
NothingToClaim ==
  /\ At("claim")
  /\ Claimable(jobs) = {}
  /\ Goto("lull")
  /\ UNCHANGED <<jobs, disk, attempt, event, around, faults>>

ClaimFails ==
  /\ At("claim")
  /\ Fault("claim")
  /\ Goto("lull")
  /\ UNCHANGED <<jobs, disk, attempt, event, around>>

StartIdling ==
  /\ At("lull")
  /\ Goto("idle")
  /\ UNCHANGED <<jobs, disk, attempt, event, around, faults>>

\* Mutant: the wait has no timeout.
StopIdlingOnEvent ==
  /\ At("idle") /\ event
  /\ event' = FALSE
  /\ Goto("claim")
  /\ UNCHANGED <<jobs, disk, attempt, around, faults>>

\* The wait ends when the event is set and, at the latest, after
\* poll_interval_seconds; either way the event is cleared.
StopIdling ==
  /\ At("idle")
  /\ event' = FALSE
  /\ Goto("claim")
  /\ UNCHANGED <<jobs, disk, attempt, around, faults>>

LoadInputs ==
  /\ At("load")
  /\ cur \in spool
  /\ Goto("gate")
  /\ stage' = 1
  /\ UNCHANGED <<jobs, disk, cur, stored, tries, verdict, event, around,
                 faults>>

InputsUnreadable ==
  /\ At("load")
  /\ cur \notin spool
  /\ jobs' = FailJob(jobs, cur, jobs[cur].attempts)
  /\ Goto("discard")
  /\ UNCHANGED <<disk, attempt, event, around, faults>>

\* 503, before the pipeline: there is nothing to undo.
EmbedderUnavailable ==
  /\ At("load")
  /\ cur \in spool
  /\ verdict' = "server"
  /\ Goto("settle")
  /\ UNCHANGED <<jobs, disk, cur, stage, stored, tries, event, around, faults>>

-----------------------------------------------------------------------------
(* The pipeline.                                                           *)

\* _check_cancel at a stage boundary.
PassGate ==
  /\ At("gate")
  /\ ~ jobs[cur].cancel
  /\ Goto("mark")
  /\ UNCHANGED <<jobs, disk, attempt, event, around, faults>>

StopAtGate ==
  /\ At("gate")
  /\ jobs[cur].cancel
  /\ Undo("cancel")
  /\ UNCHANGED <<jobs, disk, cur, stage, stored, tries, event, around, faults>>

MarkStage ==
  /\ At("mark")
  /\ jobs' = MarkJob(jobs, cur, Stages[stage])
  /\ Goto("work")
  /\ UNCHANGED <<disk, attempt, event, around, faults>>

Parse ==
  /\ At("work") /\ stage = 1
  /\ artifacts' \in {artifacts, artifacts \cup {cur}}
  /\ Goto("gate") /\ stage' = 2
  /\ UNCHANGED <<jobs, docs, registry, index, spool, originals, cur, stored,
                 tries, verdict, event, around, faults>>

Chunk ==
  /\ At("work") /\ stage = 2
  /\ Goto("gate") /\ stage' = 3
  /\ UNCHANGED <<jobs, disk, cur, stored, tries, verdict, event, around,
                 faults>>

\* No leaves: the job finishes without a document.
ChunkEmpty ==
  /\ At("work") /\ stage = 2
  /\ DropArtifacts
  /\ Goto("finish")
  /\ UNCHANGED <<jobs, docs, registry, index, spool, originals, attempt, event,
                 around>>

\* Mutant: the vectors are upserted before the content is committed.
EmbedThenUpsert ==
  /\ At("work") /\ stage = 3
  /\ Goto("gate") /\ stage' = 4
  /\ UNCHANGED <<jobs, disk, cur, stored, tries, verdict, event, around,
                 faults>>

Embed ==
  /\ At("work") /\ stage = 3
  /\ Goto("store")
  /\ UNCHANGED <<jobs, disk, attempt, event, around, faults>>

\* INSERT: doc_id is a primary key.
StoreDocument ==
  /\ At("store")
  /\ cur \notin docs
  /\ docs' = docs \cup {cur}
  /\ stored' = TRUE
  /\ Goto("gate") /\ stage' = 4
  /\ UNCHANGED <<jobs, registry, index, artifacts, spool, originals, cur,
                 tries, verdict, event, around, faults>>

Upsert ==
  /\ At("work") /\ stage = 4
  /\ index' = index \cup {cur}
  /\ Goto("record")
  /\ UNCHANGED <<jobs, docs, registry, artifacts, spool, originals, attempt,
                 event, around, faults>>

\* chunk_indexes references chunks: the insert needs the document.
RecordIndexes ==
  /\ At("record")
  /\ cur \in docs
  /\ registry' = registry \cup {cur}
  /\ Goto("finish")
  /\ UNCHANGED <<jobs, docs, index, artifacts, spool, originals, attempt,
                 event, around, faults>>

\* Mutant: the upload of a finished job is discarded like any other.
FinishDiscards ==
  /\ At("finish")
  /\ jobs' = FinishJob(jobs, cur)
  /\ Goto("discard")
  /\ UNCHANGED <<disk, attempt, event, around, faults>>

Finish ==
  /\ At("finish")
  /\ jobs' = FinishJob(jobs, cur)
  /\ Goto("promote")
  /\ UNCHANGED <<disk, attempt, event, around, faults>>

\* The upload becomes the document's original, unless the same content is
\* stored already; without a document it goes.
PromoteUpload ==
  /\ At("promote")
  /\ cur \in docs => cur \in spool \/ DigestOf[cur] \in originals
  /\ originals' = IF cur \in docs THEN originals \cup {DigestOf[cur]}
                                  ELSE originals
  /\ spool' = spool \ {cur}
  /\ Release
  /\ UNCHANGED <<jobs, docs, registry, index, artifacts, event, around,
                 faults>>

\* The upload is gone, or looking up the document or moving its upload errs;
\* the worker logs the exception.
PromoteFails ==
  /\ At("promote")
  /\ \/ /\ cur \in docs \ spool /\ DigestOf[cur] \notin originals
        /\ UNCHANGED faults
     \/ Fault("promote")
  /\ Release
  /\ UNCHANGED <<jobs, disk, event, around>>

-----------------------------------------------------------------------------
(* Failures: the attempt is undone layer by layer, then settled.           *)

\* A stage, or a statement between two stages, fails with a 5xx.  A parse
\* may have extracted images, an upsert may have written rows before it did.
FailAttempt ==
  /\ pc \in PipelinePcs
  /\ artifacts' \in IF At("work") /\ stage = 1
                    THEN {artifacts, artifacts \cup {cur}} ELSE {artifacts}
  /\ index' \in IF At("work") /\ stage = 4
                THEN {index, index \cup {cur}} ELSE {index}
  /\ Undo("server")
  /\ UNCHANGED <<jobs, docs, registry, spool, originals, cur, stage, stored,
                 tries, event, around, faults>>

\* ensure_collection or upsert refuses the request with a 4xx.
RefuseAttempt ==
  /\ At("work") /\ stage = 4
  /\ Undo("client")
  /\ UNCHANGED <<jobs, disk, cur, stage, stored, tries, event, around, faults>>

\* Both deletions are best effort: an error is logged and the undo goes on.
UndoDocument ==
  /\ At("undoDoc")
  /\ \/ /\ docs' = docs \ {cur} /\ registry' = registry \ {cur}
        /\ UNCHANGED faults
     \/ /\ Fault("cleanup")
        /\ UNCHANGED <<docs, registry>>
  /\ Goto("undoIndex")
  /\ UNCHANGED <<jobs, index, artifacts, spool, originals, attempt, event,
                 around>>

UndoIndex ==
  /\ At("undoIndex")
  /\ \/ index' = index \ {cur} /\ UNCHANGED faults
     \/ Fault("cleanup") /\ UNCHANGED index
  /\ Goto("undoFiles")
  /\ UNCHANGED <<jobs, docs, registry, artifacts, spool, originals, attempt,
                 event, around>>

UndoFiles ==
  /\ At("undoFiles")
  /\ DropArtifacts
  /\ Goto("settle")
  /\ UNCHANGED <<jobs, docs, registry, index, spool, originals, attempt, event,
                 around>>

SettleCancel ==
  /\ At("settle") /\ verdict = "cancel"
  /\ jobs' = MarkCancelled(jobs, cur)
  /\ Goto("discard")
  /\ UNCHANGED <<disk, attempt, event, around, faults>>

\* Mutant: the test against max_attempts is off by one.
SettleRetryOnceMore ==
  /\ At("settle") /\ verdict = "server"
  /\ tries + 1 <= MaxAttempts
  /\ jobs' = RequeueJob(jobs, cur, tries + 1, TRUE)
  /\ Release
  /\ UNCHANGED <<disk, event, around, faults>>

\* _handle_failure, with the attempts of the row as it was claimed.
SettleRetry ==
  /\ At("settle") /\ verdict = "server"
  /\ tries + 1 < MaxAttempts
  /\ jobs' = RequeueJob(jobs, cur, tries + 1, TRUE)
  /\ Release
  /\ UNCHANGED <<disk, event, around, faults>>

SettleFail ==
  /\ At("settle")
  /\ \/ verdict = "client"
     \/ verdict = "server" /\ tries + 1 >= MaxAttempts
  /\ jobs' = FailJob(jobs, cur, tries + 1)
  /\ Goto("discard")
  /\ UNCHANGED <<disk, attempt, event, around, faults>>

\* The statement that settles the job raises.  mark_cancelled is still inside
\* the pipeline, whose safety net turns the error into a 500 and undoes once
\* more; elsewhere the exception ends in the worker's log.
SettleErrs ==
  /\ \/ At("settle") /\ verdict \in {"cancel", "server", "client"}
     \/ At("load") /\ cur \notin spool
  /\ Fault("settle")
  /\ IF At("settle") /\ verdict = "cancel"
     THEN Undo("server") /\ UNCHANGED <<cur, stage, stored, tries, unsettled>>
     ELSE Release /\ LeaveUnsettled({cur})
  /\ UNCHANGED <<jobs, disk, event, phase, submit, todo, clock, acked, crashes>>

\* rmtree ignores errors.
DiscardSpool ==
  /\ At("discard")
  /\ \/ spool' = spool \ {cur} /\ UNCHANGED faults
     \/ Fault("cleanup") /\ UNCHANGED spool
  /\ Release
  /\ UNCHANGED <<jobs, docs, registry, index, artifacts, originals, event,
                 around>>

-----------------------------------------------------------------------------
(* The process dies and starts again.                                      *)

\* A request that had not been answered is lost.
Crash ==
  /\ phase # "down" /\ crashes < MaxCrashes
  /\ crashes' = crashes + 1
  /\ phase' = "down"
  /\ submit' = [j \in Jobs |-> IF submit[j] \in {"spooled", "created"}
                               THEN "lost" ELSE submit[j]]
  /\ event' = FALSE
  /\ pc' = "next" /\ cur' = NoJob /\ stage' = 0 /\ stored' = FALSE
  /\ tries' = 0 /\ verdict' = "none"
  /\ todo' = {}
  /\ UNCHANGED <<jobs, disk, clock, acked, faults, unsettled>>

Restart ==
  /\ phase = "down"
  /\ phase' = "recovering"
  /\ todo' = FindInterrupted(jobs)
  /\ unsettled' = {}
  /\ UNCHANGED <<jobs, disk, pc, attempt, event, submit, clock, acked, crashes,
                 faults>>

\* find_interrupted raises: the service starts without recovery.
RestartUnrecovered ==
  /\ phase = "down"
  /\ Fault("settle")
  /\ phase' = "serving"
  /\ Goto("claim")
  /\ LeaveUnsettled(Jobs)
  /\ UNCHANGED <<jobs, disk, attempt, event, submit, todo, clock, acked, crashes>>

\* Mutant: an interrupted job is settled without undoing what it committed.
RecoverRowOnly(j) ==
  /\ phase = "recovering" /\ At("next")
  /\ IsOldest(jobs, todo, j)
  /\ todo' = todo \ {j}
  /\ cur' = j /\ verdict' = "restart" /\ tries' = jobs[j].attempts
  /\ Goto("settle")
  /\ UNCHANGED <<jobs, disk, stage, stored, event, phase, submit, clock, acked,
                 crashes, faults, unsettled>>

\* Whatever the dead process committed for the row is undone first.
RecoverRow(j) ==
  /\ phase = "recovering" /\ At("next")
  /\ IsOldest(jobs, todo, j)
  /\ todo' = todo \ {j}
  /\ cur' = j /\ verdict' = "restart" /\ tries' = jobs[j].attempts
  /\ Goto("undoDoc")
  /\ UNCHANGED <<jobs, disk, stage, stored, event, phase, submit, clock, acked,
                 crashes, faults, unsettled>>

RecoverMissingSpool ==
  /\ At("settle") /\ verdict = "restart"
  /\ cur \notin spool
  /\ jobs' = FailJob(jobs, cur, jobs[cur].attempts)
  /\ Goto("discard")
  /\ UNCHANGED <<disk, attempt, event, around, faults>>

\* Mutant: every interrupted job is cancelled.
RecoverCancelledAll ==
  /\ At("settle") /\ verdict = "restart"
  /\ cur \in spool
  /\ jobs' = MarkCancelled(jobs, cur)
  /\ Goto("discard")
  /\ UNCHANGED <<disk, attempt, event, around, faults>>

RecoverCancelled ==
  /\ At("settle") /\ verdict = "restart"
  /\ cur \in spool
  /\ jobs[cur].cancel
  /\ jobs' = MarkCancelled(jobs, cur)
  /\ Goto("discard")
  /\ UNCHANGED <<disk, attempt, event, around, faults>>

RecoverExhausted ==
  /\ At("settle") /\ verdict = "restart"
  /\ cur \in spool /\ ~ jobs[cur].cancel
  /\ tries + 1 >= MaxAttempts
  /\ jobs' = FailJob(jobs, cur, tries + 1)
  /\ Goto("discard")
  /\ UNCHANGED <<disk, attempt, event, around, faults>>

RecoverRequeue ==
  /\ At("settle") /\ verdict = "restart"
  /\ cur \in spool /\ ~ jobs[cur].cancel
  /\ tries + 1 < MaxAttempts
  /\ jobs' = RequeueJob(jobs, cur, tries + 1, FALSE)
  /\ Release
  /\ UNCHANGED <<disk, event, around, faults>>

\* Recovery gives up; the service starts all the same.
RecoveryErrs ==
  /\ At("settle") /\ verdict = "restart"
  /\ Fault("settle")
  /\ LeaveUnsettled(todo \cup {cur})
  /\ phase' = "serving" /\ todo' = {}
  /\ pc' = "claim" /\ cur' = NoJob /\ stage' = 0 /\ stored' = FALSE
  /\ tries' = 0 /\ verdict' = "none"
  /\ UNCHANGED <<jobs, disk, event, submit, clock, acked, crashes>>

\* The lifespan starts the worker and yields.
StartServing ==
  /\ phase = "recovering" /\ At("next")
  /\ todo = {}
  /\ phase' = "serving"
  /\ Goto("claim")
  /\ UNCHANGED <<jobs, disk, attempt, event, submit, todo, clock, acked,
                 crashes, faults, unsettled>>

-----------------------------------------------------------------------------
(* The environment: the clock, and the operator's file system.             *)

BackoffElapses(j) ==
  /\ jobs[j].parked
  /\ jobs' = [jobs EXCEPT ![j].parked = FALSE]
  /\ UNCHANGED <<disk, pc, attempt, event, around, faults>>

LoseSpool(j) ==
  /\ j \in spool /\ Unfinished(jobs, j)
  /\ Fault("spool")
  /\ spool' = spool \ {j}
  /\ UNCHANGED <<jobs, docs, registry, index, artifacts, originals, pc,
                 attempt, event, around>>

-----------------------------------------------------------------------------
Submission(j) == \/ SpoolUpload(j) \/ InsertRow(j) \/ InsertRowFails(j)
                 \/ WakeWorker(j)

WorkerLoop == \/ \E j \in Jobs : Claim(j)
              \/ NothingToClaim \/ ClaimFails \/ StartIdling \/ StopIdling
              \/ LoadInputs \/ InputsUnreadable \/ EmbedderUnavailable

Pipeline == \/ PassGate \/ StopAtGate \/ MarkStage \/ Parse \/ Chunk
            \/ ChunkEmpty \/ Embed \/ StoreDocument \/ Upsert
            \/ RecordIndexes \/ Finish \/ PromoteUpload \/ PromoteFails

Failure == \/ FailAttempt \/ RefuseAttempt
           \/ UndoDocument \/ UndoIndex \/ UndoFiles
           \/ SettleCancel \/ SettleRetry \/ SettleFail \/ SettleErrs
           \/ DiscardSpool

Recovery == \/ Restart \/ RestartUnrecovered \/ StartServing
            \/ \E j \in Jobs : RecoverRow(j)
            \/ RecoverMissingSpool \/ RecoverCancelled
            \/ RecoverExhausted \/ RecoverRequeue \/ RecoveryErrs

Next == \/ \E j \in Jobs : Submission(j) \/ CancelJob(j)
        \/ WorkerLoop \/ Pipeline \/ Failure
        \/ Crash \/ Recovery
        \/ \E j \in Jobs : BackoffElapses(j) \/ LoseSpool(j)

Spec == Init /\ [][Next]_vars

\* The event loop keeps running the worker task, the process is restarted
\* and time passes.  Nobody has to submit, cancel or crash anything.
Fairness == /\ WF_vars(WorkerLoop \/ Pipeline \/ Failure \/ Recovery)
            /\ \A j \in Jobs : WF_vars(BackoffElapses(j))

FairSpec == Spec /\ Fairness

-----------------------------------------------------------------------------
(* Properties.                                                             *)

\* Every variable has its type.
TypeOK ==
  /\ jobs \in JobTables
  /\ docs \subseteq Jobs /\ registry \subseteq Jobs /\ index \subseteq Jobs
  /\ artifacts \subseteq Jobs /\ spool \subseteq Jobs
  /\ originals \subseteq Digests
  /\ phase \in {"serving", "down", "recovering"}
  /\ submit \in [Jobs -> SubmitPcs]
  /\ event \in BOOLEAN
  /\ pc \in WorkerPcs \cup RecoveryPcs
  /\ cur \in Jobs \cup {NoJob}
  /\ stage \in 0 .. 4
  /\ stored \in BOOLEAN
  /\ tries \in 0 .. MaxAttempts
  /\ verdict \in Verdicts
  /\ todo \subseteq Jobs
  /\ clock \in Nat /\ acked \subseteq Jobs
  /\ crashes \in 0 .. MaxCrashes /\ faults \in 0 .. MaxFaults
  /\ unsettled \subseteq Jobs

\* Nothing in any store refers to the job's document.
Clean(j) == j \notin docs \cup registry \cup index \cup artifacts

\* A job that has not come to an end still has its upload, in every crash
\* window: submit_ingest_job spools first "so a claimed job never points at
\* a missing file", and nobody discards a spool before the row is terminal.
SpoolHeld == \A j \in Jobs : Unfinished(jobs, j) => j \in spool

\* A job that failed, was cancelled, or waits for another attempt has left
\* nothing behind: no document, registry rows, vectors or images.  This is
\* what _rollback and recovery are for, whichever step the attempt died in.
NoResidue ==
  \A j \in Jobs : ~ IsRunning(jobs, j) /\ jobs[j].status # "done" => Clean(j)

\* A job is only reported done when its document is there in full, corpus
\* rows, vectors and registry, or (no content) not at all.
DoneIsComplete ==
  \A j \in Jobs : jobs[j].status = "done" =>
                    /\ (j \in docs) = (j \in index)
                    /\ (j \in docs) = (j \in registry)
                    /\ j \in artifacts => j \in docs

\* Content lands before vectors: the store only holds rows of a document the
\* corpus holds, except while that job is being undone or awaits recovery.
StoredBeforeIndexed ==
  \A j \in index : \/ j \in docs
                   \/ cur = j /\ pc \in UndoPcs
                   \/ IsRunning(jobs, j) /\ phase # "serving"

\* The three stores and the job table agree in every crash window: what is done
\* is whole, and the index holds nothing the corpus does not.
StoresAgree == DoneIsComplete /\ StoredBeforeIndexed

\* "Only an ungraceful exit leaves rows with a stage status": while the
\* service runs, the one job in a stage is the one the worker executes.
StageMeansExecuting ==
  phase = "serving" => \A j \in Jobs : IsRunning(jobs, j) => cur = j

\* A job that may still be attempted has not spent its attempts, and the
\* count the worker read when it claimed the job is the one in the row.
AttemptsInBudget ==
  /\ \A j \in Jobs : Unfinished(jobs, j) => jobs[j].attempts < MaxAttempts
  /\ cur # NoJob /\ Unfinished(jobs, cur) => tries = jobs[cur].attempts

\* The upload of a job that ended is not kept in the spool.
SpoolReleased ==
  \A j \in Jobs : IsTerminal(jobs, j) /\ cur # j => j \notin spool

\* The original of every ingested document is in the content-addressed store
\* once the worker is done with its job.
OriginalKept ==
  \A j \in docs : jobs[j].status = "done" /\ cur # j =>
                    DigestOf[j] \in originals

\* What becomes of an upload, also when two jobs bring the same one: the spool
\* ends with the job, and a document that stays has its original.
UploadsSettled == SpoolReleased /\ OriginalKept

\* A cancellation that was acknowledged stays on the row until the job ends.
CancelKept ==
  \A j \in acked : Unfinished(jobs, j) => jobs[j].cancel

\* No job is cancelled that nobody asked to cancel.
CancelledOnRequest ==
  \A j \in Jobs : jobs[j].status = "cancelled" => j \in acked

\* "From any of these the job never moves again": neither a late step of the
\* worker nor recovery after a crash touches a terminal row.
TerminalStays ==
  [][\A j \in Jobs : IsTerminal(jobs, j) => jobs'[j] = jobs[j]]_vars

-----------------------------------------------------------------------------
(* What is inductive about it.                                             *)

AttemptPcs == {"load"} \cup PipelinePcs
                \cup {"undoDoc", "undoIndex", "undoFiles", "settle"}

\* Where the worker is decides what it holds and what state its row is in;
\* this is what keeps its unconditional updates off terminal rows.
ControlInv ==
  /\ (cur = NoJob) = (pc \in {"claim", "lull", "idle", "next"})
  /\ pc \in AttemptPcs =>
       Unfinished(jobs, cur) /\ ~ jobs[cur].parked /\ tries = jobs[cur].attempts
  /\ pc = "load" => ~ IsRunning(jobs, cur)
  /\ (pc \in {"work", "store", "record", "finish"}
        \/ (pc \in {"gate", "mark"} /\ stage >= 2)) => IsRunning(jobs, cur)
  /\ pc \in {"discard", "promote"} => IsTerminal(jobs, cur)
  /\ pc \in PipelinePcs => stage >= 1
  /\ pc \in WorkerPcs \ UndoPcs => phase = "serving"
  /\ pc = "next" => phase # "serving"
  /\ phase = "down" => pc = "next"
  /\ (verdict = "restart") = (phase = "recovering" /\ pc \in UndoPcs)
  /\ phase # "recovering" => todo = {}
  /\ \A j \in todo : IsRunning(jobs, j) /\ j # cur
  /\ \A j \in Jobs :
       /\ jobs[j].parked => jobs[j].status = Queued
       /\ submit[j] \in {"new", "spooled", "rejected"} => ~ Exists(jobs, j)
       /\ ~ Exists(jobs, j) => jobs[j].attempts = 0
       /\ Unfinished(jobs, j) => jobs[j].attempts < MaxAttempts

\* The upload is there from before the row exists.
SpoolInv ==
  /\ SpoolHeld
  /\ \A j \in Jobs : submit[j] = "spooled" => j \in spool

\* A row in a stage is being executed, or recovery will find it.
StageInv ==
  \A j \in Jobs : IsRunning(jobs, j) => cur = j \/ phase = "down" \/ j \in todo

\* How far an attempt has got bounds what it can have left behind, and each
\* step of the undo clears one layer of it.
ResidueInv ==
  /\ NoResidue
  /\ pc \in PipelinePcs /\ ~ stored => cur \notin docs \cup registry \cup index
  /\ pc = "record" => stored
  /\ pc \in PipelinePcs /\ stage = 4 => stored
  /\ pc \in {"undoIndex", "undoFiles"} => cur \notin docs \cup registry
  /\ pc = "undoFiles" => cur \notin index
  /\ pc = "settle" => Clean(cur)

\* What an attempt has committed grows in order, and a done document stays whole.
AgreeInv ==
  /\ StoresAgree
  /\ stored => pc \notin {"claim", "lull", "idle", "next", "load"}
  /\ pc \in PipelinePcs /\ stored => stage = 4 /\ cur \in docs
  /\ pc = "record" => cur \in index
  /\ pc = "finish" => IF stored THEN cur \in index \cap registry
                                ELSE cur \notin artifacts

\* An upload stays in the spool until its job is over and the worker lets go of it.
UploadInv ==
  /\ UploadsSettled
  /\ pc = "promote" => cur \in spool
  /\ pc = "discard" => jobs[cur].status # "done"

\* The flag of a row, and an attempt given up for it, go back to a request.
CancelInv ==
  /\ CancelledOnRequest
  /\ \A j \in Jobs : jobs[j].cancel => j \in acked
  /\ verdict = "cancel" => cur \in acked

\* To a polling client the whole machinery is the job lifecycle.
Shown == [j \in Jobs |-> IF IsRunning(jobs, j) THEN "running"
                         ELSE jobs[j].status]
Spent == [j \in Jobs |-> jobs[j].attempts]

Lifecycle == INSTANCE JobLifecycle WITH status <- Shown, attempts <- Spent

ImplementsLifecycle == Lifecycle!Init /\ [][Lifecycle!Next]_(Lifecycle!vars)

\* Whatever claim, clean-up, promotion or upload fails, and wherever the
\* process dies, an unfinished job comes to an end, unless the statement that
\* should have settled it failed; and then the next start settles it.
EndsUnlessUnsettled ==
  \A j \in Jobs : Unfinished(jobs, j) ~> (IsTerminal(jobs, j) \/ j \in unsettled)

\* With fairness, also the lifecycle's promise that every job ends.
FairLifecycle == Lifecycle!Spec
=============================================================================
