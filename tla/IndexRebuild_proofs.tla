------------------------ MODULE IndexRebuild_proofs ------------------------
(***************************************************************************)
(* Safety of IndexRebuild for any number of documents, rebuild jobs, gate  *)
(* checks and attempts.                                                    *)
(***************************************************************************)
EXTENDS IndexRebuild, JobTable_proofs, FiniteSetTheorems,
        SequenceTheorems, TLAPS

-----------------------------------------------------------------------------
(* Types.                                                                  *)

\* The job the worker holds is one of Jobs and has an attempt left.
LEMMA Holding ==
  ASSUME TypeOK, ControlInv, pc # "claim"
  PROVE  /\ cur \in Jobs
         /\ Unfinished(jobs, cur)
         /\ jobs[cur].attempts + 1 \in 0 .. MaxAttempts
<1>1. cur \in Jobs /\ Unfinished(jobs, cur)
  BY NamesAssumption DEF TypeOK, ControlInv
<1>2. jobs[cur].attempts \in 0 .. MaxAttempts /\ jobs[cur].attempts < MaxAttempts
  BY <1>1, RowType DEF TypeOK, ControlInv
<1> QED
  BY <1>1, <1>2, MaxAttemptsAssumption

LEMMA Released ==
  ASSUME Release
  PROVE  /\ pc' = "claim" /\ pc' \in WorkerPcs /\ cur' = NoJob
         /\ leaves' \subseteq Docs /\ left' \subseteq leaves'
         /\ verdict' \in {"none", "cancel", "server", "client"}
         /\ candidate' \in Targets \cup {NoRef}
BY DEF Release, Goto, WorkerPcs

LEMMA StagesMarked ==
  "embedding" \in Running /\ "upserting" \in Running /\ "evaluating" \in Running
BY DEF Running

LEMMA TypeInit == Init => TypeOK
<1> SUFFICES ASSUME Init PROVE TypeOK
  OBVIOUS
<1>1. NoRow \in JobRow
  BY Zero DEF NoRow, JobRow, Statuses
<1>2. jobs \in JobTables
  BY <1>1 DEF Init, JobTables
<1>3. faults \in 0 .. MaxFaults
  BY FaultAssumption DEF Init
<1>4. pc \in WorkerPcs
  BY DEF Init, WorkerPcs
<1>5. corpus \subseteq Docs /\ registry \in [Docs -> Physical \cup {NoRef}]
  BY JobsAssumption DEF Init, Physical
<1>6. rows \in [Physical -> SUBSET Docs] /\ basis \in [Physical -> SUBSET Docs]
  BY JobsAssumption DEF Init
<1>7. bound \in [active : Physical, canary : Targets \cup {NoRef}]
      /\ present \subseteq Physical
  BY DEF Init, Physical
<1>8. checks \in [Checks -> [candidate : Targets \cup {NoRef},
                             status : CheckStatuses,
                             created : Nat]]
  BY DEF Init, NoCheck, CheckStatuses
<1>9. promoter \in [at : {"none", "gate", "cleared", "retire"},
                    seen : Targets \cup {NoRef}, old : Physical \cup {NoRef}]
  BY DEF Init, NoPromotion
<1>10. deletion \in [at : {"none", "rows"}, doc : Docs \cup {NoRef},
                     refs : Seq(Physical)]
  BY DEF Init, NoDeletion
<1>11. /\ gated \in BOOLEAN /\ cur \in Jobs \cup {NoJob} /\ leaves = {}
       /\ left = {} /\ verdict = "none" /\ candidate = NoRef /\ clock \in Nat
  BY DEF Init
<1> QED
  BY <1>2, <1>3, <1>4, <1>5, <1>6, <1>7, <1>8, <1>9, <1>10, <1>11 DEF TypeOK

LEMMA TypeStep ==
  ASSUME TypeOK, ControlInv, [Next]_vars
  PROVE  TypeOK'
<1> USE DEF TypeOK, At, Goto, catalog, store, attempt, routes, around, worker,
            WorkerPcs, RebuildPcs, CheckPcs, IngestPcs
<1>1. CASE Requests
  <2>1. ASSUME NEW j \in Jobs, SubmitJob(j) PROVE TypeOK'
    BY <2>1, CreateType DEF SubmitJob, Submit
  <2>2. ASSUME NEW j \in Jobs, CancelJob(j) PROVE TypeOK'
    BY <2>2, RequestCancelType DEF CancelJob
  <2>3. ASSUME NEW c \in Checks, SubmitCheck(c) PROVE TypeOK'
    <3>1. c \in Jobs
      BY JobsAssumption
    <3> QED
      BY <2>3, <3>1, CreateType DEF SubmitCheck, Submit
  <2>a. ASSUME NEW c \in Checks, ReadCanary(c) \/ CreateCheck(c) PROVE TypeOK'
    <3>1. /\ bound.canary # NoRef => bound.canary \in Targets
          /\ clock + 1 \in Nat
      OBVIOUS
    <3>2. checks' \in [Checks -> [candidate : Targets \cup {NoRef},
                                  status : CheckStatuses,
                                  created : Nat]]
      BY <2>a, <3>1 DEF ReadCanary, CreateCheck, CheckStatuses
    <3> QED
      BY <2>a, <3>1, <3>2 DEF ReadCanary, CreateCheck
  <2>4. CASE BeginPromotion
    <3>1. promoter' \in [at : {"none", "gate", "cleared", "retire"},
                        seen : Targets \cup {NoRef},
                        old : Physical \cup {NoRef}]
      BY <2>4 DEF BeginPromotion, NoPromotion
    <3> QED
      BY <2>4, <3>1 DEF BeginPromotion
  <2>5. CASE AuthorizePromotion BY <2>5 DEF AuthorizePromotion, NoPromotion
  <2>6. CASE PromoteIndex
    <3>1. promoter' \in [at : {"none", "gate", "cleared", "retire"},
                        seen : Targets \cup {NoRef},
                        old : Physical \cup {NoRef}]
      BY <2>6 DEF PromoteIndex, NoPromotion
    <3>2. bound.canary \in Physical
      BY <2>6 DEF PromoteIndex, Physical
    <3>3. bound' \in [active : Physical, canary : Targets \cup {NoRef}]
      BY <2>6, <3>2 DEF PromoteIndex
    <3>4. registry' \in [Docs -> Physical \cup {NoRef}]
      BY <2>6, <3>2 DEF PromoteIndex
    <3> QED
      BY <2>6, <3>1, <3>3, <3>4 DEF PromoteIndex
  <2>7. CASE NoCanary BY <2>7 DEF NoCanary, NoPromotion
  <2>8. CASE RetireIndex
    <3>1. promoter' \in [at : {"none", "gate", "cleared", "retire"},
                        seen : Targets \cup {NoRef},
                        old : Physical \cup {NoRef}]
      BY <2>8 DEF RetireIndex, NoPromotion
    <3>2. faults' \in 0 .. MaxFaults
      BY <2>8, FaultAssumption DEF RetireIndex, Fault
    <3>3. present' \subseteq Physical /\ rows' \in [Physical -> SUBSET Docs]
      BY <2>8 DEF RetireIndex, DropCollection
    <3> QED
      BY <2>8, <3>1, <3>2, <3>3 DEF RetireIndex
  <2>9. ASSUME NEW d \in Docs, BeginDeletion(d) PROVE TypeOK'
    <3>1. bound.canary # NoRef => bound.canary \in Physical
      BY DEF Physical
    <3>2. <<bound.active>> \in Seq(Physical)
      OBVIOUS
    <3>3. bound.canary # NoRef => <<bound.active, bound.canary>> \in Seq(Physical)
      BY <3>1
    <3>4. deletion' \in [at : {"none", "rows"}, doc : Docs \cup {NoRef},
                        refs : Seq(Physical)]
      BY <2>9, <3>2, <3>3 DEF BeginDeletion
    <3> QED
      BY <2>9, <3>4 DEF BeginDeletion
  <2>10. CASE DeleteRow
    <3>1. deletion.refs \in Seq(Physical) /\ deletion.refs # <<>>
      BY <2>10 DEF DeleteRow
    <3>2. Tail(deletion.refs) \in Seq(Physical)
      BY <3>1
    <3>3. deletion' \in [at : {"none", "rows"}, doc : Docs \cup {NoRef},
                        refs : Seq(Physical)]
      BY <2>10, <3>2 DEF DeleteRow
    <3>4. rows' \in [Physical -> SUBSET Docs]
      BY <2>10 DEF DeleteRow
    <3> QED
      BY <2>10, <3>3, <3>4 DEF DeleteRow
  <2>11. CASE DeleteFails
    BY <2>11, FaultAssumption DEF DeleteFails, NoDeletion, Fault
  <2>12. CASE DeleteChunk
    <3>1. deletion' \in [at : {"none", "rows"}, doc : Docs \cup {NoRef},
                        refs : Seq(Physical)]
      BY <2>12 DEF DeleteChunk, NoDeletion
    <3>2. registry' \in [Docs -> Physical \cup {NoRef}]
      BY <2>12 DEF DeleteChunk
    <3>3. corpus' \subseteq Docs
      BY <2>12 DEF DeleteChunk
    <3> QED
      BY <2>12, <3>1, <3>2, <3>3 DEF DeleteChunk
  <2> QED
    BY <1>1, <2>1, <2>2, <2>3, <2>a, <2>4, <2>5, <2>6, <2>7, <2>8, <2>9, <2>10,
       <2>11, <2>12 DEF Requests
<1>2. ASSUME NEW j \in Jobs, Claim(j) PROVE TypeOK'
  BY <1>2 DEF Claim
<1>3. ASSUME NEW j \in Jobs, BackoffElapses(j) PROVE TypeOK'
  <2>1. jobs' \in JobTables
    <3>1. jobs[j] \in JobRow
      BY DEF JobTables
    <3>2. [jobs[j] EXCEPT !.parked = FALSE] \in JobRow
      BY <3>1 DEF JobRow
    <3> QED
      BY <1>3, <3>2 DEF BackoffElapses, JobTables
  <2> QED
    BY <1>3, <2>1 DEF BackoffElapses
<1>4. CASE Rebuilding
  <2>1. CASE StopAtGate BY <2>1 DEF StopAtGate, GiveUp
  <2>2. CASE BeginRebuild
    <3>1. jobs' \in JobTables
      BY <2>2, MarkType, Holding, StagesMarked DEF BeginRebuild
    <3> QED
      BY <2>2, <3>1 DEF BeginRebuild
  <2>3. CASE EmbedderUnavailable BY <2>3 DEF EmbedderUnavailable
  <2>4. CASE ListLeaves BY <2>4 DEF ListLeaves, ControlInv, Physical
  <2>5. CASE NothingToRebuild BY <2>5 DEF NothingToRebuild, GiveUp
  <2>6. CASE DropLeftover
    <3>1. present' \subseteq Physical /\ rows' \in [Physical -> SUBSET Docs]
      BY <2>6 DEF DropLeftover, DropCollection
    <3> QED
      BY <2>6, <3>1 DEF DropLeftover
  <2>7. CASE CreateTarget BY <2>7 DEF CreateTarget, ControlInv, Physical
  <2>8. CASE EmbedBatch
    <3>1. jobs' \in JobTables
      BY <2>8, MarkType, Holding, StagesMarked DEF EmbedBatch
    <3> QED
      BY <2>8, <3>1 DEF EmbedBatch
  <2>9. CASE UpsertBatch
    <3>3. PICK d \in left :
            /\ left' = left \ {d}
            /\ \E stored \in SUBSET {d} :
                 rows' = [rows EXCEPT ![cur] = @ \cup stored]
      BY <2>9 DEF UpsertBatch
    <3>4. PICK stored \in SUBSET {d} : rows' = [rows EXCEPT ![cur] = @ \cup stored]
      BY <3>3
    <3>1. rows' \in [Physical -> SUBSET Docs] /\ left' \subseteq leaves
      BY <3>3, <3>4
    <3>2. pc' \in WorkerPcs
      BY <2>9 DEF UpsertBatch
    <3> QED
      BY <2>9, <3>1, <3>2 DEF UpsertBatch
  <2>10. CASE CountRows BY <2>10 DEF CountRows
  <2>11. CASE CountMismatch BY <2>11 DEF CountMismatch, GiveUp
  <2>12. CASE ParkCanary BY <2>12 DEF ParkCanary, ControlInv
  <2>13. CASE FinishRebuild
    BY <2>13, FinishType, Holding, Released DEF FinishRebuild
  <2>14. CASE FailRebuild
    BY <2>14, FaultAssumption DEF FailRebuild, GiveUp, Fault
  <2>15. CASE Cleanup
    <3>1. present' \subseteq Physical /\ rows' \in [Physical -> SUBSET Docs]
      BY <2>15 DEF Cleanup, DropCollection
    <3>2. faults' \in 0 .. MaxFaults
      BY <2>15, FaultAssumption DEF Cleanup, Fault
    <3>3. pc' \in WorkerPcs
      BY <2>15 DEF Cleanup
    <3> QED
      BY <2>15, <3>1, <3>2, <3>3 DEF Cleanup
  <2> QED
    BY <1>4, <2>1, <2>2, <2>3, <2>4, <2>5, <2>6, <2>7, <2>8, <2>9, <2>10,
       <2>11, <2>12, <2>13, <2>14, <2>15 DEF Rebuilding
<1>5. CASE Checking
  <2>1. CASE ReadCandidate BY <2>1 DEF ReadCandidate
  <2>2. CASE AskQuestions
    <3>1. jobs' \in JobTables
      BY <2>2, MarkType, Holding, StagesMarked DEF AskQuestions
    <3> QED
      BY <2>2, <3>1 DEF AskQuestions
  <2>3. CASE CancelCheck
    BY <2>3, MarkCancelledType, Holding, Released DEF CancelCheck, CheckStatuses
  <2>4. CASE RecordVerdict
    <3>1. PICK status \in {"passed", "failed"} :
            checks' = [checks EXCEPT ![cur].status = status]
      BY <2>4 DEF RecordVerdict
    <3>2. checks' \in [Checks -> [candidate : Targets \cup {NoRef},
                                  status : CheckStatuses,
                                  created : Nat]]
      BY <3>1 DEF CheckStatuses
    <3> QED
      BY <2>4, <3>2 DEF RecordVerdict
  <2>5. CASE FinishCheck
    BY <2>5, FinishType, Holding, Released DEF FinishCheck
  <2>6. CASE FailCheck BY <2>6 DEF FailCheck
  <2> QED
    BY <1>5, <2>1, <2>2, <2>3, <2>4, <2>5, <2>6 DEF Checking
<1>6. CASE Ingesting
  <2>1. pc \in IngestPcs => cur \in Docs
    BY JobsAssumption DEF ControlInv
  <2>2. CASE StoreDocument
    <3>1. jobs' \in JobTables
      BY <2>2, MarkType, Holding, StagesMarked DEF StoreDocument
    <3> QED
      BY <2>1, <2>2, <3>1 DEF StoreDocument
  <2>3. CASE IndexDocument
    <3>1. jobs' \in JobTables
      BY <2>3, MarkType, Holding, StagesMarked DEF IndexDocument
    <3>2. rows' \in [Physical -> SUBSET Docs] /\ present' \subseteq Physical
      BY <2>1, <2>3 DEF IndexDocument, Physical
    <3> QED
      BY <2>3, <3>1, <3>2 DEF IndexDocument
  <2>4. CASE RegisterDocument
    BY <2>1, <2>4, FinishType, Holding, Released
    DEF RegisterDocument, Physical
  <2>5. CASE AbortIngest BY <2>5 DEF AbortIngest
  <2>6. CASE UndoDocument
    <3>1. registry' \in [Docs -> Physical \cup {NoRef}]
      BY <2>6 DEF UndoDocument
    <3>2. corpus' \subseteq Docs
      BY <2>6 DEF UndoDocument
    <3>3. pc' \in WorkerPcs
      BY <2>6 DEF UndoDocument
    <3> QED
      BY <2>6, <3>1, <3>2, <3>3 DEF UndoDocument
  <2>7. CASE UndoIndex
    <3>1. rows' \in [Physical -> SUBSET Docs]
      BY <2>7 DEF UndoIndex
    <3>2. pc' \in WorkerPcs
      BY <2>7 DEF UndoIndex
    <3> QED
      BY <2>7, <3>1, <3>2 DEF UndoIndex
  <2> QED
    BY <1>6, <2>2, <2>3, <2>4, <2>5, <2>6, <2>7 DEF Ingesting
<1>7. CASE Settle
  BY <1>7, Holding, MarkCancelledType, RequeueType, FailType, Released
  DEF Settle
<1>8. CASE UNCHANGED vars
  BY <1>8 DEF vars
<1> QED
  BY <1>1, <1>2, <1>3, <1>4, <1>5, <1>6, <1>7, <1>8 DEF Next

-----------------------------------------------------------------------------
(* Control: which job the worker holds, and that its row is open.          *)

LEMMA ControlInit == Init => ControlInv
BY DEF Init, ControlInv, RebuildPcs, CheckPcs, IngestPcs, Unfinished, NoRow,
       Queued, Running

LEMMA ControlStep ==
  ASSUME TypeOK, ControlInv, [Next]_vars
  PROVE  ControlInv'
<1> USE DEF At, Goto, catalog, store, attempt, routes, around, worker,
            RebuildPcs, CheckPcs, IngestPcs
<1>0. jobs \in JobTables /\ cur \in Jobs \cup {NoJob}
  BY DEF TypeOK
<1>1. CASE Requests
  <2>1. ASSUME NEW j \in Jobs, Submit(j), pc' = pc, cur' = cur
        PROVE  ControlInv'
    <3>1. clock' \in Nat /\ jobs' = CreateJob(jobs, j, clock')
      BY <2>1 DEF Submit, TypeOK
    <3>2. /\ \A k \in Jobs \ {j} : jobs'[k] = jobs[k]
          /\ jobs'[j].status = Queued /\ jobs'[j].attempts = 0
      BY <3>1, CreateRow DEF TypeOK
    <3>3. cur # NoJob => cur # j
      BY <2>1 DEF Submit, Exists, ControlInv, Unfinished, Queued, Running
    <3>4. \A k \in Jobs : Unfinished(jobs', k) => jobs'[k].attempts < MaxAttempts
      BY <3>2, MaxAttemptsAssumption DEF ControlInv, Unfinished
    <3>5. cur # NoJob => Unfinished(jobs', cur)
      BY <1>0, <3>2, <3>3 DEF ControlInv, Unfinished
    <3> QED
      BY <2>1, <3>4, <3>5 DEF ControlInv
  <2>2. ASSUME NEW j \in Jobs, CancelJob(j) PROVE ControlInv'
    <3>1. \A k \in Jobs : /\ jobs'[k].status = jobs[k].status
                          /\ jobs'[k].attempts = jobs[k].attempts
      BY <1>0, <2>2, RequestCancelRow DEF CancelJob
    <3> QED
      BY <1>0, <2>2, <3>1 DEF CancelJob, ControlInv, Unfinished
  <2>3. ASSUME NEW j \in Jobs, SubmitJob(j) PROVE ControlInv'
    BY <2>1, <2>3 DEF SubmitJob
  <2>4. ASSUME NEW c \in Checks, SubmitCheck(c) PROVE ControlInv'
    BY <2>1, <2>4, JobsAssumption DEF SubmitCheck, ReadCanary, CreateCheck
  <2>5. CASE jobs' = jobs /\ pc' = pc /\ cur' = cur
    BY <2>5 DEF ControlInv
  <2> QED
    BY <1>1, <2>2, <2>3, <2>4, <2>5
    DEF Requests, ReadCanary, CreateCheck, BeginPromotion, AuthorizePromotion, PromoteIndex, NoCanary,
        RetireIndex, BeginDeletion, DeleteRow, DeleteFails, DeleteChunk
<1>2. ASSUME NEW j \in Jobs, Claim(j) PROVE ControlInv'
  <2>1. jobs[j].status = Queued
    BY <1>2 DEF Claim, ClaimNextQueued, IsOldest, Claimable
  <2>2. Unfinished(jobs, j) /\ j # NoJob
    BY <2>1, NamesAssumption DEF Unfinished
  <2>3. /\ j \in Targets => pc' = "begin"
        /\ j \in Checks => pc' = "candidate"
        /\ j \in Uploads => pc' = "store"
    BY <1>2, JobsAssumption DEF Claim
  <2>4. j \in Targets \/ j \in Checks \/ j \in Uploads
    BY JobsAssumption
  <2> QED
    BY <1>2, <2>2, <2>3, <2>4 DEF Claim, ControlInv
<1>3. ASSUME NEW j \in Jobs, BackoffElapses(j) PROVE ControlInv'
  <2>1. \A k \in Jobs : /\ jobs'[k].status = jobs[k].status
                        /\ jobs'[k].attempts = jobs[k].attempts
    BY <1>0, <1>3 DEF BackoffElapses, JobTables, JobRow
  <2> QED
    BY <1>0, <1>3, <2>1 DEF BackoffElapses, ControlInv, Unfinished
\* The worker's steps: the row stays, enters a stage, or ends with the hold.
<1>4. ASSUME jobs' = jobs, pc # "claim", pc' # "claim", cur' = cur,
             \/ pc' \in RebuildPcs \cup {"cleanup"} /\ cur \in Targets
             \/ pc' \in CheckPcs /\ cur \in Checks
             \/ pc' \in IngestPcs /\ cur \in Uploads
             \/ pc' = "settle"
      PROVE  ControlInv'
  BY <1>4, JobsAssumption DEF ControlInv
<1>5. ASSUME NEW s \in Running, jobs' = MarkJob(jobs, cur, s),
             pc # "claim", pc' # "claim", cur' = cur,
             \/ pc' \in RebuildPcs \cup {"cleanup"} /\ cur \in Targets
             \/ pc' \in CheckPcs /\ cur \in Checks
             \/ pc' \in IngestPcs /\ cur \in Uploads
      PROVE  ControlInv'
  <2>1. /\ cur \in Jobs /\ Unfinished(jobs, cur)
        /\ \A k \in Jobs \ {cur} : jobs'[k] = jobs[k]
        /\ jobs'[cur].status = s /\ jobs'[cur].attempts = jobs[cur].attempts
    BY <1>0, <1>5, Holding, MarkRow
  <2>2. Unfinished(jobs', cur)
    BY <2>1 DEF Unfinished
  <2>3. \A k \in Jobs : Unfinished(jobs', k) => jobs'[k].attempts < MaxAttempts
    BY <2>1 DEF ControlInv, Unfinished
  <2> QED
    BY <1>5, <2>2, <2>3 DEF ControlInv
<1>6. ASSUME pc # "claim", Release,
             \A k \in Jobs \ {cur} : jobs'[k] = jobs[k],
             Unfinished(jobs', cur) => jobs'[cur].attempts < MaxAttempts
      PROVE  ControlInv'
  <2>1. \A k \in Jobs : Unfinished(jobs', k) => jobs'[k].attempts < MaxAttempts
    BY <1>6 DEF ControlInv, Unfinished
  <2> QED
    BY <1>6, <2>1 DEF Release, ControlInv
<1>7. ASSUME pc # "claim", Release, jobs' = FinishJob(jobs, cur)
      PROVE  ControlInv'
  <2>1. ~ Unfinished(jobs', cur) /\ \A k \in Jobs \ {cur} : jobs'[k] = jobs[k]
    BY <1>0, <1>7, Holding, FinishRow DEF Unfinished, Queued, Running
  <2> QED
    BY <1>6, <1>7, <2>1
<1>8. ASSUME pc # "claim", Release, jobs' = MarkCancelled(jobs, cur)
      PROVE  ControlInv'
  <2>1. ~ Unfinished(jobs', cur) /\ \A k \in Jobs \ {cur} : jobs'[k] = jobs[k]
    BY <1>0, <1>8, Holding, MarkCancelledRow DEF Unfinished, Queued, Running
  <2> QED
    BY <1>6, <1>8, <2>1
<1>9. CASE Rebuilding
  <2>1. CASE BeginRebuild
    BY <1>5, <2>1, StagesMarked DEF BeginRebuild, ControlInv
  <2>2. CASE EmbedBatch
    BY <1>5, <2>2, StagesMarked DEF EmbedBatch, ControlInv
  <2>3. CASE FinishRebuild
    BY <1>7, <2>3 DEF FinishRebuild
  <2>4. CASE StopAtGate \/ NothingToRebuild \/ CountMismatch \/ FailRebuild
    BY <1>4, <2>4
    DEF StopAtGate, NothingToRebuild, CountMismatch, FailRebuild, GiveUp,
        ControlInv
  <2>5. CASE \/ EmbedderUnavailable \/ ListLeaves \/ DropLeftover \/ CreateTarget
             \/ CountRows \/ ParkCanary \/ Cleanup
    BY <1>4, <2>5
    DEF EmbedderUnavailable, ListLeaves, DropLeftover, CreateTarget, CountRows,
        ParkCanary, Cleanup, ControlInv
  <2>6. CASE UpsertBatch
    BY <1>4, <2>6 DEF UpsertBatch, ControlInv
  <2> QED
    BY <1>9, <2>1, <2>2, <2>3, <2>4, <2>5, <2>6 DEF Rebuilding
<1>10. CASE Checking
  <2>1. CASE AskQuestions
    BY <1>5, <2>1, StagesMarked DEF AskQuestions, ControlInv
  <2>2. CASE CancelCheck
    BY <1>8, <2>2 DEF CancelCheck
  <2>3. CASE FinishCheck
    BY <1>7, <2>3 DEF FinishCheck
  <2>4. CASE ReadCandidate \/ RecordVerdict \/ FailCheck
    BY <1>4, <2>4 DEF ReadCandidate, RecordVerdict, FailCheck, ControlInv
  <2> QED
    BY <1>10, <2>1, <2>2, <2>3, <2>4 DEF Checking
<1>11. CASE Ingesting
  <2>1. CASE StoreDocument
    BY <1>5, <2>1, StagesMarked DEF StoreDocument, ControlInv
  <2>2. CASE IndexDocument
    BY <1>5, <2>2, StagesMarked DEF IndexDocument, ControlInv
  <2>3. CASE RegisterDocument
    BY <1>7, <2>3 DEF RegisterDocument
  <2>4. CASE AbortIngest \/ UndoDocument \/ UndoIndex
    BY <1>4, <2>4 DEF AbortIngest, UndoDocument, UndoIndex, ControlInv
  <2> QED
    BY <1>11, <2>1, <2>2, <2>3, <2>4 DEF Ingesting
<1>12. CASE Settle
  <2> DEFINE spent == jobs[cur].attempts + 1
  <2>1. pc # "claim" /\ Release
    BY <1>12 DEF Settle
  <2>2. cur \in Jobs /\ spent \in 0 .. MaxAttempts
    BY <2>1, Holding
  <2>3. CASE jobs' = MarkCancelled(jobs, cur)
    BY <1>8, <2>1, <2>3
  <2>4. CASE spent < MaxAttempts /\ jobs' = RequeueJob(jobs, cur, spent, TRUE)
    <3>1. /\ \A k \in Jobs \ {cur} : jobs'[k] = jobs[k]
          /\ jobs'[cur].attempts = spent
      BY <1>0, <2>2, <2>4 DEF RequeueJob, JobTables, JobRow
    <3> QED
      BY <1>6, <2>1, <2>4, <3>1
  <2>5. CASE jobs' = FailJob(jobs, cur, spent)
    <3>1. ~ Unfinished(jobs', cur) /\ \A k \in Jobs \ {cur} : jobs'[k] = jobs[k]
      BY <1>0, <2>2, <2>5, FailRow DEF Unfinished, Queued, Running
    <3> QED
      BY <1>6, <2>1, <3>1
  <2> QED
    BY <1>12, <2>3, <2>4, <2>5 DEF Settle
<1>13. CASE UNCHANGED vars
  BY <1>13 DEF vars, ControlInv
<1> QED
  BY <1>1, <1>2, <1>3, <1>9, <1>10, <1>11, <1>12, <1>13 DEF Next

LEMMA ControlCorrect == Spec => [](TypeOK /\ ControlInv)
<1>1. Init => TypeOK /\ ControlInv
  BY TypeInit, ControlInit
<1>2. TypeOK /\ ControlInv /\ [Next]_vars => TypeOK' /\ ControlInv'
  BY TypeStep, ControlStep
<1> QED
  BY <1>1, <1>2, PTL DEF Spec

\* Every reachable state is well typed: a binding always has an active index,
\* and no attempt is counted beyond the budget.
THEOREM TypeCorrect == Spec => []TypeOK
BY ControlCorrect, PTL

\* A row at rest keeps its status, although no UPDATE but the cancellation's
\* has a WHERE clause on it.
LEMMA EndedStays ==
  ASSUME TypeOK, ControlInv, [Next]_vars,
         NEW j \in Jobs, IsTerminal(jobs, j)
  PROVE  jobs'[j].status = jobs[j].status
<1> USE DEF At, Terminal
<1>1. jobs \in JobTables /\ cur \in Jobs \cup {NoJob}
  BY DEF TypeOK
<1>2. ~ Unfinished(jobs, j) /\ Exists(jobs, j)
  BY DEF IsTerminal, Unfinished, Exists, Queued, Running
<1>3. pc # "claim" => cur \in Jobs /\ cur # j
  BY <1>2, Holding
<1>4. CASE Requests
  <2>1. ASSUME NEW k \in Jobs, Submit(k) PROVE jobs'[j].status = jobs[j].status
    <3>1. clock' \in Nat /\ jobs' = CreateJob(jobs, k, clock') /\ k # j
      BY <1>2, <2>1 DEF Submit, TypeOK
    <3> QED
      BY <1>1, <3>1, CreateRow
  <2>2. ASSUME NEW k \in Jobs, CancelJob(k) PROVE jobs'[j].status = jobs[j].status
    BY <1>1, <2>2, RequestCancelRow DEF CancelJob
  <2>3. ASSUME NEW k \in Jobs, SubmitJob(k) PROVE jobs'[j].status = jobs[j].status
    BY <2>1, <2>3 DEF SubmitJob
  <2>4. ASSUME NEW c \in Checks, SubmitCheck(c)
        PROVE  jobs'[j].status = jobs[j].status
    BY <2>1, <2>4, JobsAssumption DEF SubmitCheck, ReadCanary, CreateCheck
  <2> QED
    BY <1>4, <2>2, <2>3, <2>4
    DEF Requests, ReadCanary, CreateCheck, BeginPromotion, AuthorizePromotion, PromoteIndex, NoCanary,
        RetireIndex, BeginDeletion, DeleteRow, DeleteFails, DeleteChunk, worker
<1>5. ASSUME NEW k \in Jobs, Claim(k) PROVE jobs'[j].status = jobs[j].status
  BY <1>5 DEF Claim
<1>6. ASSUME NEW k \in Jobs, BackoffElapses(k)
      PROVE  jobs'[j].status = jobs[j].status
  BY <1>1, <1>6 DEF BackoffElapses, JobTables, JobRow
<1>7. CASE Rebuilding
  <2>1. CASE BeginRebuild
    BY <1>1, <1>3, <2>1, StagesMarked, MarkRow DEF BeginRebuild
  <2>2. CASE EmbedBatch
    BY <1>1, <1>3, <2>2, StagesMarked, MarkRow DEF EmbedBatch
  <2>3. CASE FinishRebuild
    BY <1>1, <1>3, <2>3, FinishRow DEF FinishRebuild
  <2> QED
    BY <1>7, <2>1, <2>2, <2>3
    DEF Rebuilding, StopAtGate, EmbedderUnavailable, ListLeaves,
        NothingToRebuild, DropLeftover, CreateTarget, UpsertBatch, CountRows,
        CountMismatch, ParkCanary, FailRebuild, Cleanup
<1>8. CASE Checking
  <2>1. CASE AskQuestions
    BY <1>1, <1>3, <2>1, StagesMarked, MarkRow DEF AskQuestions
  <2>2. CASE CancelCheck
    BY <1>1, <1>3, <2>2, MarkCancelledRow DEF CancelCheck
  <2>3. CASE FinishCheck
    BY <1>1, <1>3, <2>3, FinishRow DEF FinishCheck
  <2> QED
    BY <1>8, <2>1, <2>2, <2>3
    DEF Checking, ReadCandidate, RecordVerdict, FailCheck
<1>9. CASE Ingesting
  <2>1. CASE StoreDocument
    BY <1>1, <1>3, <2>1, StagesMarked, MarkRow DEF StoreDocument
  <2>2. CASE IndexDocument
    BY <1>1, <1>3, <2>2, StagesMarked, MarkRow DEF IndexDocument
  <2>3. CASE RegisterDocument
    BY <1>1, <1>3, <2>3, FinishRow DEF RegisterDocument
  <2>4. CASE AbortIngest \/ UndoDocument \/ UndoIndex
    BY <2>4 DEF AbortIngest, UndoDocument, UndoIndex
  <2> QED
    BY <1>9, <2>1, <2>2, <2>3, <2>4 DEF Ingesting
<1>10. CASE Settle
  <2>1. cur \in Jobs /\ cur # j /\ jobs[cur].attempts + 1 \in 0 .. MaxAttempts
    BY <1>3, <1>10, Holding DEF Settle
  <2> QED
    BY <1>1, <1>10, <2>1, MarkCancelledRow, FailRow
    DEF Settle, RequeueJob, JobTables, JobRow
<1>11. CASE UNCHANGED vars
  BY <1>11 DEF vars
<1> QED
  BY <1>4, <1>5, <1>6, <1>7, <1>8, <1>9, <1>10, <1>11 DEF Next

-----------------------------------------------------------------------------
(* What the binding names.                                                 *)

LEMMA BindingInit == Init => BindingInv
BY NamesAssumption
DEF Init, BindingInv, BoundIndexesExist, Bound, NoPromotion

LEMMA BindingStep ==
  ASSUME TypeOK, ControlInv, BindingInv, [Next]_vars
  PROVE  BindingInv'
<1> USE DEF At, Goto, catalog, store, attempt, routes, around, worker
<1>1. \A r \in Targets : jobs[r].status = "done" => jobs'[r].status = "done"
  BY EndedStays, JobsAssumption DEF IsTerminal, Terminal
<1>2. cur # NoJob => jobs[cur].status # "done"
  BY DEF ControlInv, Unfinished, Queued, Running
<1>3. pc \in RebuildPcs \cup {"cleanup"} => cur \in Targets /\ cur # NoJob
  BY NamesAssumption, JobsAssumption DEF ControlInv
<1>4. CASE Requests
  <2>1. CASE PromoteIndex
    <3> SUFFICES ASSUME faults = 0 \/ "finish" \notin Faults
                 PROVE  BindingInv'
      BY <2>1 DEF PromoteIndex, BindingInv
    <3>1. /\ bound' = [active |-> bound.canary, canary |-> NoRef]
          /\ bound.canary \in Targets /\ bound.active \in Physical
          /\ bound.canary # NoRef
          /\ promoter'.at = "retire" /\ promoter'.old = bound.active
          /\ UNCHANGED <<worker, present, faults>>
      <4>1. bound.active # bound.canary
        BY DEF BindingInv
      <4> QED
        BY <2>1, <4>1 DEF PromoteIndex, NoPromotion, TypeOK
    <3>2. Bound' = {bound.canary} /\ Bound' \subseteq Bound
      BY <3>1, NamesAssumption DEF Bound
    <3>3. bound.active \notin Bound'
      BY <3>2 DEF BindingInv
    <3>4. bound.active \in Targets => jobs[bound.active].status = "done"
      <4>1. pc = "finish" => bound.active # cur
        BY <3>1 DEF BindingInv
      <4> QED
        BY <3>1, <4>1, NamesAssumption DEF BindingInv, Bound
    <3> QED
      BY <3>1, <3>2, <3>3, <3>4, NamesAssumption
      DEF BindingInv, BoundIndexesExist, Physical
  <2>2. CASE RetireIndex
    <3>1. faults' = 0 => faults = 0
      BY <2>2, FaultAssumption DEF RetireIndex, Fault, TypeOK
    <3>2. promoter'.at # "retire"
      BY <2>2 DEF RetireIndex, NoPromotion
    <3>3. present \ {promoter.old} \subseteq present' /\ promoter.at = "retire"
      BY <2>2 DEF RetireIndex, DropCollection
    <3>4. pc = "finish" \/ pc \in {"batch", "upsert", "count", "park"} =>
            cur \in Targets /\ jobs[cur].status # "done"
      BY <1>2, <1>3 DEF RebuildPcs
    <3>5. UNCHANGED <<jobs, bound, pc, cur>>
      BY <2>2 DEF RetireIndex
    <3> QED
      BY <3>1, <3>2, <3>3, <3>4, <3>5 DEF BindingInv, BoundIndexesExist, Bound
  <2>3. ASSUME bound' = bound, present' = present, pc' = pc, cur' = cur,
               faults' = 0 => faults = 0,
               promoter'.at = "retire" => promoter' = promoter
        PROVE  BindingInv'
    BY <1>1, <2>3 DEF BindingInv, BoundIndexesExist, Bound
  <2>4. faults \in Nat
    BY FaultAssumption DEF TypeOK
  <2>5. CASE BeginPromotion \/ AuthorizePromotion \/ NoCanary
    <3>1. promoter'.at # "retire"
      <4>1. CASE BeginPromotion
        BY <4>1 DEF BeginPromotion, NoPromotion
      <4>2. CASE AuthorizePromotion \/ NoCanary
        BY <4>2 DEF AuthorizePromotion, NoCanary, NoPromotion
      <4> QED
        BY <2>5, <4>1, <4>2
    <3> QED
      BY <2>3, <2>5, <3>1 DEF BeginPromotion, AuthorizePromotion, NoCanary
  <2>6. CASE DeleteFails
    <3>1. faults' = 0 => faults = 0
      BY <2>4, <2>6 DEF DeleteFails, Fault
    <3> QED
      BY <2>3, <2>6, <3>1 DEF DeleteFails
  <2>7. CASE \/ \E j \in Jobs : SubmitJob(j) \/ CancelJob(j)
             \/ \E c \in Checks : ReadCanary(c) \/ CreateCheck(c) \/ SubmitCheck(c)
             \/ \E d \in Docs : BeginDeletion(d)
             \/ DeleteRow \/ DeleteChunk
    BY <2>3, <2>7
    DEF SubmitJob, CancelJob, SubmitCheck, ReadCanary, CreateCheck, BeginDeletion, DeleteRow, DeleteChunk
  <2> QED
    BY <1>4, <2>1, <2>2, <2>5, <2>6, <2>7 DEF Requests
\* Most steps of the worker concern neither the binding nor the collections.
<1>5. ASSUME UNCHANGED <<bound, promoter, present, faults>>,
             pc # "finish", pc' # "finish",
             pc' \in {"batch", "upsert", "count", "park"} =>
               cur' = cur /\ pc \in {"batch", "upsert", "count", "park"}
      PROVE  BindingInv'
  BY <1>1, <1>5 DEF BindingInv, BoundIndexesExist, Bound
<1>6. CASE Rebuilding
  <2>1. CASE DropLeftover
    BY <1>2, <1>3, <2>1
    DEF DropLeftover, DropCollection, BindingInv, BoundIndexesExist, Bound,
        RebuildPcs
  <2>2. CASE CreateTarget
    BY <1>2, <1>3, <2>2
    DEF CreateTarget, BindingInv, BoundIndexesExist, Bound, RebuildPcs
  <2>3. CASE ParkCanary
    <3> SUFFICES ASSUME faults = 0 \/ "finish" \notin Faults
                 PROVE  BindingInv'
      BY <2>3 DEF ParkCanary, BindingInv
    <3>1. cur \in Targets /\ jobs[cur].status # "done" /\ cur # NoRef
      BY <1>2, <1>3, <2>3, NamesAssumption DEF ParkCanary, RebuildPcs
    <3>2. bound'.active = bound.active /\ bound'.canary = cur
      BY <2>3 DEF ParkCanary, TypeOK
    <3>3. cur \notin Bound
      BY <2>3, <3>1 DEF ParkCanary, BindingInv
    <3>4. bound.active # cur /\ Bound' \subseteq Bound \cup {cur}
      BY <3>1, <3>2, <3>3 DEF Bound
    <3>5. promoter.at = "retire" => promoter.old # cur
      BY <3>1 DEF BindingInv
    <3> QED
      BY <2>3, <3>1, <3>2, <3>4, <3>5
      DEF ParkCanary, BindingInv, BoundIndexesExist
  <2>4. CASE FinishRebuild
    <3>1. cur \in Jobs /\ jobs'[cur].status = "done"
      BY <2>4, Holding, FinishRow DEF FinishRebuild, TypeOK
    <3> QED
      BY <1>1, <2>4, <3>1, Released
      DEF FinishRebuild, BindingInv, BoundIndexesExist, Bound
  <2>5. CASE FailRebuild
    <3>1. CASE pc = "finish"
      <4>1. "finish" \in Faults /\ faults' # 0
        BY <2>5, <3>1, FaultAssumption DEF FailRebuild, Fault, TypeOK
      <4> QED
        BY <4>1 DEF BindingInv
    <3>2. CASE pc # "finish"
      BY <1>5, <2>5, <3>2 DEF FailRebuild, GiveUp
    <3> QED
      BY <3>1, <3>2
  <2>6. CASE Cleanup
    <3>1. faults' = 0 => faults = 0
      BY <2>6, FaultAssumption DEF Cleanup, Fault, TypeOK
    <3>2. CASE present' = present
      BY <1>1, <2>6, <3>1, <3>2 DEF Cleanup, BindingInv, BoundIndexesExist, Bound
    <3>3. CASE present' = present \ {cur}
      BY <1>2, <1>3, <2>6, <3>1, <3>3
      DEF Cleanup, BindingInv, BoundIndexesExist, Bound
    <3> QED
      BY <2>6, <3>2, <3>3 DEF Cleanup, DropCollection
  <2>7. CASE \/ StopAtGate \/ BeginRebuild \/ EmbedderUnavailable \/ ListLeaves
             \/ NothingToRebuild \/ CountMismatch
    BY <1>5, <2>7
    DEF StopAtGate, BeginRebuild, EmbedderUnavailable, ListLeaves,
        NothingToRebuild, CountMismatch, GiveUp
  <2>8. CASE EmbedBatch \/ UpsertBatch \/ CountRows
    BY <1>5, <2>8 DEF EmbedBatch, UpsertBatch, CountRows
  <2> QED
    BY <1>6, <2>1, <2>2, <2>3, <2>4, <2>5, <2>6, <2>7, <2>8 DEF Rebuilding
<1>7. CASE Checking
  BY <1>5, <1>7, Released
  DEF Checking, ReadCandidate, AskQuestions, CancelCheck, RecordVerdict,
      FinishCheck, FailCheck
<1>8. CASE Ingesting
  <2>1. CASE IndexDocument
    BY <1>1, <2>1 DEF IndexDocument, BindingInv, BoundIndexesExist, Bound
  <2>2. CASE \/ StoreDocument \/ RegisterDocument \/ AbortIngest
             \/ UndoDocument \/ UndoIndex
    BY <1>5, <2>2, Released
    DEF StoreDocument, RegisterDocument, AbortIngest, UndoDocument, UndoIndex, IngestPcs
  <2> QED
    BY <1>8, <2>1, <2>2 DEF Ingesting
<1>9. CASE Settle
  BY <1>5, <1>9, Released DEF Settle
<1>10. ASSUME NEW j \in Jobs, Claim(j) \/ BackoffElapses(j) PROVE BindingInv'
  <2>1. CASE Claim(j)
    BY <1>5, <2>1 DEF Claim
  <2>2. CASE BackoffElapses(j)
    BY <1>1, <2>2 DEF BackoffElapses, BindingInv, BoundIndexesExist, Bound
  <2> QED
    BY <1>10, <2>1, <2>2
<1>11. CASE UNCHANGED vars
  BY <1>11 DEF vars, BindingInv, BoundIndexesExist, Bound
<1> QED
  BY <1>4, <1>6, <1>7, <1>8, <1>9, <1>10, <1>11 DEF Next

LEMMA BindingCorrect == Spec => []BindingInv
<1>1. Init => BindingInv
  BY BindingInit
<1>2. TypeOK /\ ControlInv /\ BindingInv /\ [Next]_vars => BindingInv'
  BY BindingStep
<1> QED
  BY <1>1, <1>2, ControlCorrect, PTL DEF Spec

\* Unless the very last statement of a rebuild fails, promotions, retirements,
\* retries and clean-ups never drop a collection the binding names.
THEOREM IndexesExist ==
  ASSUME "finish" \notin Faults
  PROVE  Spec => []BoundIndexesExist
<1>1. BindingInv => BoundIndexesExist
  BY DEF BindingInv
<1> QED
  BY <1>1, BindingCorrect, PTL

-----------------------------------------------------------------------------
(* What failed rebuilds leave.                                             *)

LEMMA FaultsCount ==
  ASSUME TypeOK, [Next]_vars
  PROVE  faults' = 0 => faults = 0
<1> USE DEF catalog, store, attempt, routes, around, worker
<1>1. faults \in Nat
  BY FaultAssumption DEF TypeOK
<1>2. ASSUME NEW kind, Fault(kind) PROVE faults' # 0
  BY <1>1, <1>2 DEF Fault
<1>3. CASE Requests
  BY <1>2, <1>3
  DEF Requests, SubmitJob, CancelJob, SubmitCheck, ReadCanary, CreateCheck, BeginPromotion,
      AuthorizePromotion, PromoteIndex, NoCanary, RetireIndex, BeginDeletion,
      DeleteRow, DeleteFails, DeleteChunk
<1>4. CASE Rebuilding
  <2>1. CASE FailRebuild \/ Cleanup
    BY <1>2, <2>1 DEF FailRebuild, Cleanup
  <2>2. CASE ~ (FailRebuild \/ Cleanup)
    BY <1>4, <2>2
    DEF Rebuilding, StopAtGate, BeginRebuild, EmbedderUnavailable,
        ListLeaves, NothingToRebuild, DropLeftover, CreateTarget, EmbedBatch,
        UpsertBatch, CountRows, CountMismatch, ParkCanary, FinishRebuild
  <2> QED
    BY <2>1, <2>2
<1>5. CASE Checking
  BY <1>5
  DEF Checking, ReadCandidate, AskQuestions, CancelCheck, RecordVerdict,
      FinishCheck, FailCheck
<1>6. CASE Ingesting
  BY <1>6
  DEF Ingesting, StoreDocument, IndexDocument, RegisterDocument, AbortIngest, UndoDocument, UndoIndex
<1>7. CASE \/ \E j \in Jobs : Claim(j) \/ BackoffElapses(j)
           \/ Settle \/ UNCHANGED vars
  BY <1>7 DEF Claim, BackoffElapses, Settle, vars
<1> QED
  BY <1>3, <1>4, <1>5, <1>6, <1>7 DEF Next

LEMMA LeftoverStep ==
  ASSUME TypeOK, ControlInv, LeftoverInv, [Next]_vars
  PROVE  LeftoverInv'
<1> DEFINE Building == {"batch", "upsert", "count", "park", "finish", "cleanup"}
<1> USE DEF At, Goto, catalog, store, attempt, routes, around, worker
<1>1. \A r \in Targets : jobs[r].status = "done" => jobs'[r].status = "done"
  BY EndedStays, JobsAssumption DEF IsTerminal, Terminal
<1>2. faults' = 0 => faults = 0
  BY FaultsCount
\* Nothing is created, and the worker does not leave what it builds.
<1>3. ASSUME present' \cap Targets \subseteq present,
             pc \in Building => pc' \in Building /\ cur' = cur
      PROVE  LeftoverInv'
  BY <1>1, <1>2, <1>3 DEF LeftoverInv
<1>4. CASE Requests
  <2>1. present' \subseteq present /\ pc' = pc /\ cur' = cur
    BY <1>4
    DEF Requests, SubmitJob, CancelJob, SubmitCheck, ReadCanary, CreateCheck, BeginPromotion,
        AuthorizePromotion, PromoteIndex, NoCanary, RetireIndex, BeginDeletion,
        DeleteRow, DeleteFails, DeleteChunk, DropCollection
  <2> QED
    BY <1>3, <2>1
<1>5. ASSUME NEW j \in Jobs, Claim(j) \/ BackoffElapses(j) PROVE LeftoverInv'
  BY <1>3, <1>5 DEF Claim, BackoffElapses
<1>6. CASE Rebuilding
  <2>1. CASE CreateTarget
    BY <1>1, <1>2, <2>1 DEF CreateTarget, LeftoverInv
  <2>2. CASE FinishRebuild
    <3>1. cur \in Jobs /\ jobs'[cur].status = "done"
      BY <2>2, Holding, FinishRow DEF FinishRebuild, TypeOK
    <3> QED
      BY <1>1, <1>2, <2>2, <3>1 DEF FinishRebuild, LeftoverInv
  <2>3. CASE Cleanup
    <3>1. CASE present' = present \ {cur}
      BY <1>1, <1>2, <2>3, <3>1 DEF Cleanup, LeftoverInv
    <3>2. CASE Fault("cleanup")
      <4>1. faults' # 0
        BY <3>2, FaultAssumption DEF Fault, TypeOK
      <4> QED
        BY <4>1 DEF LeftoverInv
    <3> QED
      BY <2>3, <3>1, <3>2 DEF Cleanup, DropCollection
  <2>4. CASE \/ StopAtGate \/ BeginRebuild \/ EmbedderUnavailable \/ ListLeaves
             \/ NothingToRebuild \/ DropLeftover \/ FailRebuild
    BY <1>3, <2>4
    DEF StopAtGate, BeginRebuild, EmbedderUnavailable, ListLeaves,
        NothingToRebuild, DropLeftover, FailRebuild, GiveUp, DropCollection
  <2>5. CASE \/ EmbedBatch \/ UpsertBatch \/ CountRows \/ CountMismatch
             \/ ParkCanary
    BY <1>3, <2>5
    DEF EmbedBatch, UpsertBatch, CountRows, CountMismatch, ParkCanary, GiveUp
  <2> QED
    BY <1>6, <2>1, <2>2, <2>3, <2>4, <2>5 DEF Rebuilding
<1>7. CASE Checking \/ Settle
  BY <1>3, <1>7
  DEF Checking, ReadCandidate, AskQuestions, CancelCheck, RecordVerdict,
      FinishCheck, FailCheck, Settle
<1>8. CASE Ingesting
  BY <1>3, <1>8, NamesAssumption
  DEF Ingesting, StoreDocument, IndexDocument, RegisterDocument, AbortIngest, UndoDocument, UndoIndex,
      IngestPcs
<1>9. CASE UNCHANGED vars
  BY <1>3, <1>9 DEF vars
<1> QED
  BY <1>4, <1>5, <1>6, <1>7, <1>8, <1>9 DEF Next

LEMMA LeftoverCorrect == Spec => []LeftoverInv
<1>1. Init => LeftoverInv
  BY NamesAssumption DEF Init, LeftoverInv
<1>2. TypeOK /\ ControlInv /\ LeftoverInv /\ [Next]_vars => LeftoverInv'
  BY LeftoverStep
<1> QED
  BY <1>1, <1>2, ControlCorrect, PTL DEF Spec

\* While no fault has happened, a rebuild job that failed or was cancelled has
\* left neither a collection nor a binding to one.
THEOREM FailuresLeaveNothing == Spec => []FailedLeavesNothing
<1>1. ControlInv /\ BindingInv /\ LeftoverInv => FailedLeavesNothing
  <2> SUFFICES ASSUME ControlInv, BindingInv, LeftoverInv, faults = 0,
                      NEW r \in Targets, jobs[r].status \in {"failed", "cancelled"}
               PROVE  r \notin present \cup Bound
    BY DEF FailedLeavesNothing
  <2>1. r # cur
    BY JobsAssumption, NamesAssumption
    DEF ControlInv, Unfinished, Queued, Running
  <2> QED
    BY <2>1 DEF BindingInv, LeftoverInv
<1> QED
  BY <1>1, ControlCorrect, BindingCorrect, LeftoverCorrect, PTL

-----------------------------------------------------------------------------
(* The registry.                                                           *)

LEMMA RegistryStep ==
  ASSUME TypeOK, ControlInv, RegistryFollowsBinding, [Next]_vars
  PROVE  RegistryFollowsBinding'
<1> USE DEF At, Goto, catalog, store, attempt, routes, around, worker,
            RegistryFollowsBinding
<1>1. CASE PromoteIndex
  BY <1>1 DEF PromoteIndex
<1>2. CASE ParkCanary
  BY <1>2 DEF ParkCanary, TypeOK
<1>3. CASE RegisterDocument
  BY <1>3 DEF RegisterDocument, ControlInv, IngestPcs, TypeOK
<1>4. CASE DeleteChunk \/ UndoDocument
  BY <1>4 DEF DeleteChunk, UndoDocument, TypeOK
<1>5. CASE registry' = registry /\ bound' = bound
  BY <1>5
<1> QED
  BY <1>1, <1>2, <1>3, <1>4, <1>5
  DEF Next, Requests, Rebuilding, Checking, Ingesting, SubmitJob, CancelJob,
      SubmitCheck, ReadCanary, CreateCheck, BeginPromotion, AuthorizePromotion, NoCanary,
      RetireIndex, BeginDeletion, DeleteRow, DeleteFails, Claim,
      BackoffElapses, StopAtGate, BeginRebuild, EmbedderUnavailable,
      ListLeaves, NothingToRebuild, DropLeftover, CreateTarget, EmbedBatch,
      UpsertBatch, CountRows, CountMismatch, FinishRebuild,
      FailRebuild, Cleanup, ReadCandidate, AskQuestions, CancelCheck,
      RecordVerdict, FinishCheck, FailCheck, StoreDocument, IndexDocument,
      AbortIngest, UndoIndex, Settle, vars

\* The registry names the active index, or what ingest wrote since, whichever
\* faults happen.
THEOREM RegistryFollows == Spec => []RegistryFollowsBinding
<1>1. Init => RegistryFollowsBinding
  BY DEF Init, RegistryFollowsBinding
<1>2. /\ TypeOK /\ ControlInv /\ RegistryFollowsBinding /\ [Next]_vars
      => RegistryFollowsBinding'
  BY RegistryStep
<1> QED
  BY <1>1, <1>2, ControlCorrect, PTL DEF Spec

-----------------------------------------------------------------------------
(* What the bound indexes hold.                                            *)

LEMMA UploadStep ==
  ASSUME TypeOK, ControlInv, UploadInv, [Next]_vars
  PROVE  UploadInv'
<1> USE DEF At, Goto, catalog, store, attempt, routes, around, worker
<1>1. \A u \in Uploads : jobs[u].status = "done" => jobs'[u].status = "done"
  BY EndedStays, JobsAssumption DEF IsTerminal, Terminal
<1>2. \A u \in Uploads : u \notin Targets /\ u \notin Checks /\ u \in Docs /\ u \in Jobs
  BY JobsAssumption
\* Nothing is stored, or meant to be indexed, that was not before.
<1>3. ASSUME corpus' \subseteq corpus,
             \A p \in Physical : basis'[p] \subseteq basis[p],
             pc \in {"index", "register", "undoDoc"} =>
               pc' \in {"index", "register", "undoDoc"} /\ cur' = cur
      PROVE  UploadInv'
  BY <1>1, <1>3 DEF UploadInv
<1>4. CASE Requests
  <2>1. corpus' \subseteq corpus /\ UNCHANGED <<basis, pc, cur>>
    BY <1>4
    DEF Requests, SubmitJob, CancelJob, SubmitCheck, ReadCanary, CreateCheck, BeginPromotion,
        AuthorizePromotion, PromoteIndex, NoCanary, RetireIndex, BeginDeletion,
        DeleteRow, DeleteFails, DeleteChunk
  <2> QED
    BY <1>3, <2>1
<1>5. ASSUME NEW j \in Jobs, Claim(j) \/ BackoffElapses(j) PROVE UploadInv'
  BY <1>3, <1>5 DEF Claim, BackoffElapses
<1>6. CASE Rebuilding
  <2>1. CASE ListLeaves
    <3>1. \A u \in Uploads : jobs[u].status # "done" => u \notin corpus
      BY <1>2, <2>1 DEF ListLeaves, UploadInv
    <3>2. \A p \in Physical : basis'[p] \subseteq basis[p] \cup corpus
      BY <2>1 DEF ListLeaves, TypeOK
    <3>3. corpus' = corpus /\ jobs' = jobs
      BY <2>1 DEF ListLeaves
    <3> QED
      BY <3>1, <3>2, <3>3 DEF UploadInv
  <2>2. CASE ~ ListLeaves
    <3>1. /\ UNCHANGED <<corpus, basis>>
          /\ pc \notin {"index", "register", "undoDoc"}
      BY <1>6, <2>2
      DEF Rebuilding, StopAtGate, BeginRebuild, EmbedderUnavailable,
          NothingToRebuild, DropLeftover, CreateTarget, EmbedBatch,
          UpsertBatch, CountRows, CountMismatch, ParkCanary, FinishRebuild,
          FailRebuild, Cleanup, RebuildPcs
    <3> QED
      BY <1>3, <3>1
  <2> QED
    BY <2>1, <2>2
<1>7. CASE Checking \/ Settle
  BY <1>3, <1>7
  DEF Checking, ReadCandidate, AskQuestions, CancelCheck, RecordVerdict,
      FinishCheck, FailCheck, Settle
<1>8. CASE Ingesting
  <2>1. pc \in IngestPcs => cur \in Uploads
    BY DEF ControlInv
  <2>2. CASE StoreDocument
    BY <1>1, <2>1, <2>2 DEF StoreDocument, UploadInv, IngestPcs
  <2>3. CASE IndexDocument
    BY <1>3, <2>3 DEF IndexDocument
  <2>4. CASE RegisterDocument
    <3>1. cur \in Jobs /\ jobs'[cur].status = "done"
      BY <2>4, Holding, FinishRow DEF RegisterDocument, TypeOK
    <3>2. \A p \in Physical : basis'[p] \subseteq basis[p] \cup {cur}
      BY <2>4 DEF RegisterDocument, TypeOK
    <3> QED
      BY <1>1, <2>4, <3>1, <3>2 DEF RegisterDocument, UploadInv
  <2>5. CASE AbortIngest \/ UndoIndex
    BY <1>3, <2>5 DEF AbortIngest, UndoIndex
  <2>6. CASE UndoDocument
    BY <1>1, <2>6 DEF UndoDocument, UploadInv
  <2> QED
    BY <1>8, <2>2, <2>3, <2>4, <2>5, <2>6 DEF Ingesting
<1>9. CASE UNCHANGED vars
  BY <1>3, <1>9 DEF vars
<1> QED
  BY <1>4, <1>5, <1>6, <1>7, <1>8, <1>9 DEF Next

\* The collection a rebuild fills is out of reach of promotions and deletions.
LEMMA TargetApart ==
  ASSUME TypeOK, ControlInv, BindingInv, DeletionInv, Clean,
         pc \in RebuildPcs \cup {"cleanup"}
  PROVE  /\ cur \in Targets /\ cur \in Jobs /\ cur \in Physical /\ cur # NoRef
         /\ jobs[cur].status # "done"
         /\ pc # "finish" => cur \notin Bound /\ cur \notin RefsLeft
         /\ promoter.at = "retire" => promoter.old # cur
<1>1. cur \in Targets /\ cur \in Jobs /\ cur \in Physical /\ cur # NoRef
  BY JobsAssumption, NamesAssumption DEF ControlInv, Physical
<1>2. jobs[cur].status # "done"
  BY <1>1, NamesAssumption DEF ControlInv, Unfinished, Queued, Running
<1> QED
  BY <1>1, <1>2 DEF BindingInv, DeletionInv, Clean

\* A full count means that nothing is missing.
LEMMA FullCount ==
  ASSUME TypeOK, NEW p \in Physical, rows[p] \subseteq leaves,
         Cardinality(rows[p]) = Cardinality(leaves)
  PROVE  rows[p] = leaves
<1>1. IsFiniteSet(leaves)
  BY JobsAssumption, FS_Subset DEF TypeOK
<1> QED
  BY <1>1, FS_Subset

LEMMA BuildStep ==
  ASSUME TypeOK, ControlInv, BindingInv, BuildInv, DeletionInv, Clean,
         [Next]_vars
  PROVE  BuildInv'
<1> DEFINE Filling == {"prepare", "create", "batch", "upsert", "count", "park"}
<1> USE DEF At, Goto, catalog, store, attempt, routes, around, worker
<1>1. pc \in Filling => /\ cur \in Targets /\ cur \in Physical
                        /\ cur \notin RefsLeft
                        /\ promoter.at = "retire" => promoter.old # cur
  BY TargetApart DEF RebuildPcs
<1>2. rows \in [Physical -> SUBSET Docs] /\ basis \in [Physical -> SUBSET Docs]
  BY DEF TypeOK
<1>3. ASSUME pc' \notin Filling PROVE BuildInv'
  BY <1>3 DEF BuildInv
<1>4. ASSUME UNCHANGED <<pc, cur, leaves, basis>>,
             pc \in Filling => rows'[cur] = rows[cur]
      PROVE  BuildInv'
  BY <1>4 DEF BuildInv
<1>5. CASE Requests
  <2>1. CASE RetireIndex
    <3>1. pc \in Filling => rows'[cur] = rows[cur]
      BY <1>1, <1>2, <2>1 DEF RetireIndex, DropCollection
    <3> QED
      BY <1>4, <2>1, <3>1 DEF RetireIndex
  <2>2. CASE DeleteRow
    <3>1. Head(deletion.refs) \in RefsLeft
      BY <2>2 DEF DeleteRow, RefsLeft, TypeOK
    <3>2. pc \in Filling => rows'[cur] = rows[cur]
      BY <1>1, <1>2, <2>2, <3>1 DEF DeleteRow
    <3> QED
      BY <1>4, <2>2, <3>2 DEF DeleteRow
  <2>3. CASE ~ (RetireIndex \/ DeleteRow)
    BY <1>4, <1>5, <2>3
    DEF Requests, SubmitJob, CancelJob, SubmitCheck, ReadCanary, CreateCheck, BeginPromotion,
        AuthorizePromotion, PromoteIndex, NoCanary, BeginDeletion, DeleteFails,
        DeleteChunk
  <2> QED
    BY <2>1, <2>2, <2>3
<1>6. ASSUME NEW j \in Jobs, Claim(j) \/ BackoffElapses(j) PROVE BuildInv'
  BY <1>3, <1>4, <1>6 DEF Claim, BackoffElapses
<1>7. CASE Rebuilding
  <2>1. CASE ListLeaves
    <3>1. cur \in Physical
      BY <2>1, TargetApart DEF ListLeaves, RebuildPcs
    <3> QED
      BY <1>2, <2>1, <3>1 DEF ListLeaves, BuildInv
  <2>2. CASE DropLeftover
    BY <1>1, <1>2, <2>2 DEF DropLeftover, DropCollection, BuildInv
  <2>3. CASE CreateTarget
    BY <2>3 DEF CreateTarget, BuildInv
  <2>4. CASE EmbedBatch
    BY <2>4 DEF EmbedBatch, BuildInv
  <2>5. CASE UpsertBatch
    <3>1. PICK d \in left : \E stored \in SUBSET {d} :
            rows' = [rows EXCEPT ![cur] = @ \cup stored]
      BY <2>5 DEF UpsertBatch
    <3>2. rows'[cur] \subseteq leaves
      BY <1>1, <1>2, <2>5, <3>1 DEF UpsertBatch, BuildInv, TypeOK
    <3> QED
      BY <2>5, <3>2 DEF UpsertBatch, BuildInv
  <2>6. CASE CountRows
    <3>1. rows[cur] = leaves /\ basis[cur] = leaves
      BY <1>1, <2>6, FullCount DEF CountRows, BuildInv
    <3> QED
      BY <2>6, <3>1 DEF CountRows, BuildInv
  <2>7. CASE ParkCanary \/ FinishRebuild
    BY <1>3, <2>7, Released DEF ParkCanary, FinishRebuild
  <2>8. CASE \/ StopAtGate \/ BeginRebuild \/ EmbedderUnavailable
             \/ NothingToRebuild \/ CountMismatch \/ FailRebuild \/ Cleanup
    BY <1>3, <2>8
    DEF StopAtGate, BeginRebuild, EmbedderUnavailable, NothingToRebuild,
        CountMismatch, FailRebuild, Cleanup, GiveUp
  <2> QED
    BY <1>7, <2>1, <2>2, <2>3, <2>4, <2>5, <2>6, <2>7, <2>8 DEF Rebuilding
<1>8. CASE Checking \/ Ingesting \/ Settle
  <2>1. pc' \notin Filling
    BY <1>8
    DEF Checking, ReadCandidate, AskQuestions, CancelCheck, RecordVerdict,
        FinishCheck, FailCheck, Ingesting, StoreDocument, IndexDocument,
        RegisterDocument, AbortIngest, UndoDocument, UndoIndex, Settle, Release
  <2> QED
    BY <1>3, <2>1
<1>9. CASE UNCHANGED vars
  BY <1>4, <1>9 DEF vars
<1> QED
  BY <1>5, <1>6, <1>7, <1>8, <1>9 DEF Next

-----------------------------------------------------------------------------
\* The steps that change neither the binding nor the deletion.
LEMMA DeletionFrame ==
  ASSUME TypeOK, ControlInv, DeletionInv, NothingMissing, [Next]_vars,
         bound' = bound, deletion' = deletion,
         promoter'.at = "retire" => promoter' = promoter,
         \A q \in RefsLeft \cap present :
           q \in present' \/ (promoter.at = "retire" /\ promoter.old = q),
         pc = "finish" => \/ pc' = "finish" /\ cur' = cur
                          \/ jobs'[cur].status = "done",
         \A p \in Bound : Missing(p)' \subseteq Missing(p)
  PROVE  DeletionInv' /\ NothingMissing'
<1>1. \A r \in Targets : jobs[r].status = "done" => jobs'[r].status = "done"
  BY EndedStays, JobsAssumption DEF IsTerminal, Terminal
<1>2. Bound' = Bound /\ RefsLeft' = RefsLeft
  BY DEF Bound, RefsLeft
<1>3. NothingMissing'
  BY <1>2 DEF NothingMissing
<1>4. Len(deletion.refs) = 2 => deletion.refs[2] \in RefsLeft
  BY DEF RefsLeft, TypeOK
<1>5. Len(deletion.refs) = 1 => deletion.refs[1] \in RefsLeft
  BY DEF RefsLeft, TypeOK
<1>6. \A r \in RefsLeft' \cap Targets : \/ jobs'[r].status = "done"
                                        \/ cur' = r /\ pc' = "finish"
  <2>1. \A r \in RefsLeft \cap Targets : \/ jobs[r].status = "done"
                                         \/ cur = r /\ pc = "finish"
    BY DEF DeletionInv
  <2> QED
    BY <1>1, <1>2, <2>1
<1>7. Len(deletion.refs) = 2 /\ deletion.refs[1] \in Bound =>
        /\ deletion.refs[1] = bound.active
        /\ deletion.refs[2] \in present'
        /\ promoter'.at = "retire" => promoter'.old # deletion.refs[2]
  BY <1>4 DEF DeletionInv
<1>8. \A p \in Bound : Missing(p)' # {} /\ deletion.refs # <<>> =>
        /\ p = bound.active
        /\ Len(deletion.refs) = 1
        /\ deletion.refs[1] \in present'
        /\ promoter'.at = "retire" => promoter'.old # deletion.refs[1]
  <2> SUFFICES ASSUME NEW p \in Bound, Missing(p)' # {}, deletion.refs # <<>>
               PROVE  /\ p = bound.active
                      /\ Len(deletion.refs) = 1
                      /\ deletion.refs[1] \in present'
                      /\ promoter'.at = "retire" =>
                           promoter'.old # deletion.refs[1]
    OBVIOUS
  <2>1. Missing(p) # {}
    OBVIOUS
  <2> QED
    BY <1>5, <2>1 DEF DeletionInv
<1> QED
  BY <1>2, <1>3, <1>6, <1>7, <1>8 DEF DeletionInv

LEMMA DeletionStep ==
  ASSUME TypeOK, ControlInv, BindingInv, UploadInv, BuildInv, DeletionInv,
         NothingMissing, Clean, [Next]_vars, Clean'
  PROVE  DeletionInv' /\ NothingMissing'
<1> USE DEF At, Goto, catalog, store, attempt, routes, around, worker
<1>1. \A r \in Targets : jobs[r].status = "done" => jobs'[r].status = "done"
  BY EndedStays, JobsAssumption DEF IsTerminal, Terminal
<1>2. /\ rows \in [Physical -> SUBSET Docs] /\ basis \in [Physical -> SUBSET Docs]
      /\ bound \in [active : Physical, canary : Targets \cup {NoRef}]
      /\ deletion.refs \in Seq(Physical)
  BY DEF TypeOK
<1>3. Bound \subseteq Physical
  BY DEF TypeOK, Bound, Physical
<1>4. /\ Bound \subseteq present /\ bound.active # bound.canary
      /\ promoter.at = "retire" => promoter.old \notin Bound
  BY DEF BindingInv, BoundIndexesExist, Clean
<1>5. ASSUME NEW kind \in {"finish", "delete"} PROVE ~ Fault(kind)
  BY <1>5, FaultAssumption DEF Clean, Fault, TypeOK
\* Outside "register", what an index is meant to hold is its basis.
<1>6. ASSUME UNCHANGED <<corpus, basis, rows>>,
             pc' = "register" => pc = "register" /\ cur' = cur
      PROVE  \A p \in Bound : Missing(p)' \subseteq Missing(p)
  BY <1>6 DEF Missing, Meant
<1>7. CASE PromoteIndex
  <2>1. /\ bound' = [active |-> bound.canary, canary |-> NoRef]
        /\ bound.canary \in Bound /\ bound.active \in Bound
        /\ promoter'.old = bound.active
        /\ Bound' = {bound.canary}
        /\ UNCHANGED <<worker, corpus, store, deletion, faults>>
    BY <1>4, <1>7, NamesAssumption
    DEF PromoteIndex, NoPromotion, Bound, TypeOK, Physical
  <2>2. \A p \in Physical : Missing(p)' = Missing(p)
    BY <2>1 DEF Missing, Meant
  <2>3. deletion.refs # <<>> => Missing(bound.canary) = {}
    BY <1>4, <2>1 DEF DeletionInv
  <2>4. NothingMissing'
    BY <1>3, <2>1, <2>2 DEF NothingMissing
  <2>5. Len(deletion.refs) = 2 => deletion.refs[1] # bound.canary
    BY <1>4, <2>1 DEF DeletionInv
  <2>6. RefsLeft' = RefsLeft
    BY <2>1 DEF RefsLeft
  <2>7. \A p \in Bound' : Missing(p)' # {} => deletion.refs = <<>>
    BY <1>3, <2>1, <2>2, <2>3
  <2>8. \A r \in RefsLeft' \cap Targets : \/ jobs'[r].status = "done"
                                          \/ cur' = r /\ pc' = "finish"
    BY <2>1, <2>6 DEF DeletionInv
  <2>9. /\ deletion.at = "none" => deletion = NoDeletion
        /\ Len(deletion.refs) <= 2
    BY DEF DeletionInv
  <2> QED
    BY <2>1, <2>4, <2>5, <2>7, <2>8, <2>9 DEF DeletionInv
<1>8. CASE RetireIndex
  <2>1. /\ UNCHANGED <<bound, deletion, pc, cur, corpus, basis>>
        /\ promoter.at = "retire" /\ promoter'.at # "retire"
        /\ present \ {promoter.old} \subseteq present'
    BY <1>8 DEF RetireIndex, NoPromotion, DropCollection
  <2>2. \A p \in Bound : rows'[p] = rows[p]
    BY <1>2, <1>3, <1>4, <1>8 DEF RetireIndex, DropCollection
  <2>3. \A p \in Bound : Missing(p)' \subseteq Missing(p)
    BY <2>1, <2>2 DEF Missing, Meant
  <2> QED
    BY <2>1, <2>3, DeletionFrame
<1>9. ASSUME NEW d \in Docs, BeginDeletion(d)
      PROVE  DeletionInv' /\ NothingMissing'
  <2>1. deletion.doc = NoRef
    BY <1>9 DEF BeginDeletion, DeletionInv, NoDeletion
  <2>2. \A p \in Bound : Missing(p) = {}
    BY <1>3, <2>1, NamesAssumption DEF NothingMissing, Missing, TypeOK
  <2>3. /\ UNCHANGED <<worker, catalog, store, promoter, faults>>
        /\ deletion'.at = "rows" /\ deletion'.doc = d
        /\ deletion'.refs = IF bound.canary = NoRef THEN <<bound.active>>
                            ELSE <<bound.active, bound.canary>>
    BY <1>9 DEF BeginDeletion
  <2>4. Bound' = Bound /\ \A p \in Bound : Missing(p)' = {}
    BY <2>2, <2>3 DEF Bound, Missing, Meant
  <2>5. NothingMissing'
    BY <2>4 DEF NothingMissing
  <2>6. RefsLeft' \subseteq Bound
    <3>1. CASE bound.canary = NoRef
      BY <1>2, <2>3, <3>1, NamesAssumption DEF RefsLeft, Bound, Physical
    <3>2. CASE bound.canary # NoRef
      BY <1>2, <2>3, <3>2, NamesAssumption DEF RefsLeft, Bound, Physical
    <3> QED
      BY <3>1, <3>2
  <2>7. \A r \in RefsLeft' \cap Targets : \/ jobs'[r].status = "done"
                                          \/ cur' = r /\ pc' = "finish"
    BY <2>3, <2>6 DEF BindingInv, Clean
  <2>8. /\ Len(deletion'.refs) <= 2
        /\ Len(deletion'.refs) = 2 =>
             /\ deletion'.refs[1] = bound.active
             /\ deletion'.refs[2] \in Bound
    BY <2>3 DEF Bound
  <2> QED
    BY <1>4, <2>3, <2>4, <2>5, <2>7, <2>8 DEF DeletionInv
<1>10. CASE DeleteRow
  <2> DEFINE refs == deletion.refs
             first == deletion.refs[1]
  <2>1. /\ refs # <<>> /\ Head(refs) = first /\ first \in Physical
        /\ rows' = [rows EXCEPT ![first] = @ \ {deletion.doc}]
        /\ deletion' = [deletion EXCEPT !.refs = Tail(refs)]
        /\ UNCHANGED <<worker, catalog, present, promoter, faults>>
    BY <1>2, <1>10 DEF DeleteRow
  <2>2. /\ deletion'.refs = Tail(refs) /\ deletion'.at = deletion.at
        /\ deletion'.doc = deletion.doc /\ Bound' = Bound
        /\ deletion.at = "rows"
    BY <1>10, <2>1 DEF TypeOK, Bound, DeleteRow
  <2>3. \A p \in Physical :
          /\ Missing(p)' \subseteq Missing(p) \cup {deletion.doc}
          /\ p # first => Missing(p)' = Missing(p)
    BY <1>2, <2>1 DEF Missing, Meant
  <2>4. NothingMissing'
    BY <1>3, <2>2, <2>3 DEF NothingMissing
  <2>5. /\ Len(refs) = 1 \/ Len(refs) = 2
        /\ Tail(refs) \in Seq(Physical) /\ Len(Tail(refs)) = Len(refs) - 1
        /\ \A n \in 1 .. Len(Tail(refs)) : Tail(refs)[n] = refs[n + 1]
    <3>1. Len(refs) \in Nat \ {0} /\ Len(refs) <= 2
      BY <1>2, <2>1, EmptySeq DEF DeletionInv
    <3>2. Len(refs) = 1 \/ Len(refs) = 2
      <4>1. \A n \in Nat \ {0} : n <= 2 => n = 1 \/ n = 2
        OBVIOUS
      <4> QED
        BY <3>1, <4>1, Zenon
    <3>3. /\ Tail(refs) \in Seq(Physical) /\ Len(Tail(refs)) = Len(refs) - 1
          /\ \A n \in 1 .. Len(Tail(refs)) : Tail(refs)[n] = refs[n + 1]
      BY <1>2, <2>1, HeadTailProperties
    <3> QED
      BY <3>2, <3>3
  <2>6. RefsLeft' \subseteq RefsLeft
    BY <1>2, <2>1, <2>2 DEF RefsLeft
  <2>7. \A r \in RefsLeft' \cap Targets : \/ jobs'[r].status = "done"
                                          \/ cur' = r /\ pc' = "finish"
    BY <2>1, <2>6 DEF DeletionInv
  <2>8. CASE Len(refs) = 1
    <3>1. deletion'.refs = <<>> /\ Len(deletion'.refs) = 0
      BY <2>2, <2>5, <2>8, EmptySeq
    <3>2. deletion'.at # "none"
      BY <2>2
    <3> QED
      BY <2>4, <2>7, <3>1, <3>2 DEF DeletionInv
  <2>9. CASE Len(refs) = 2
    <3>1. Len(deletion'.refs) = 1 /\ deletion'.refs[1] = refs[2]
      BY <2>2, <2>5, <2>9
    <3>2. \A p \in Bound : Missing(p) = {}
      BY <2>1, <2>9 DEF DeletionInv
    <3>3. \A p \in Bound : Missing(p)' # {} => p = first
      BY <1>3, <2>3, <3>2
    <3>4. first \in Bound => /\ first = bound.active
                             /\ refs[2] \in present
                             /\ promoter.at = "retire" => promoter.old # refs[2]
      BY <2>9 DEF DeletionInv
    <3>5. deletion'.at # "none" /\ UNCHANGED <<bound, present, promoter>>
      BY <2>1, <2>2
    <3>6. Bound' = Bound
      BY <2>2
    <3> QED
      BY <2>4, <2>7, <3>1, <3>3, <3>4, <3>5, <3>6 DEF DeletionInv
  <2> QED
    BY <2>5, <2>8, <2>9
\* The deletion ends, and nothing is missing any more.
<1>11. ASSUME deletion' = NoDeletion, \A p \in Bound : Missing(p)' = {},
              bound' = bound
       PROVE  DeletionInv' /\ NothingMissing'
  <2>1. Bound' = Bound /\ deletion'.refs = <<>> /\ RefsLeft' = {}
        /\ Len(deletion'.refs) = 0
    BY <1>11 DEF Bound, RefsLeft, NoDeletion
  <2> QED
    BY <1>11, <2>1 DEF DeletionInv, NothingMissing
<1>12. CASE DeleteFails
  <2>1. Head(deletion.refs) \notin present /\ deletion.refs # <<>>
    BY <1>5, <1>12 DEF DeleteFails
  <2>2. deletion.refs[1] \notin present
    BY <1>2, <2>1
  <2>3. \A p \in Bound : Missing(p) = {}
    BY <2>1, <2>2 DEF DeletionInv
  <2>4. UNCHANGED <<worker, catalog, store>> /\ deletion' = NoDeletion
    BY <1>12 DEF DeleteFails
  <2> QED
    BY <1>11, <2>3, <2>4 DEF Missing, Meant
<1>13. CASE DeleteChunk
  <2>1. \A p \in Bound : Missing(p)' \subseteq Missing(p) \ {deletion.doc}
    BY <1>13 DEF DeleteChunk, Missing, Meant
  <2>2. \A p \in Bound : Missing(p)' = {}
    BY <2>1 DEF NothingMissing
  <2> QED
    BY <1>11, <1>13, <2>2 DEF DeleteChunk
<1>14. CASE \/ \E j \in Jobs : SubmitJob(j) \/ CancelJob(j)
            \/ \E c \in Checks : ReadCanary(c) \/ CreateCheck(c) \/ SubmitCheck(c)
  BY <1>6, <1>14, DeletionFrame DEF SubmitJob, CancelJob, SubmitCheck, ReadCanary, CreateCheck
<1>15. CASE BeginPromotion \/ AuthorizePromotion \/ NoCanary
  <2>1. /\ UNCHANGED <<worker, catalog, store, deletion, faults>>
        /\ promoter'.at # "retire"
    <3>1. CASE BeginPromotion
      BY <3>1 DEF BeginPromotion, NoPromotion
    <3>2. CASE AuthorizePromotion \/ NoCanary
      BY <3>2 DEF AuthorizePromotion, NoCanary, NoPromotion
    <3> QED
      BY <1>15, <3>1, <3>2
  <2> QED
    BY <1>6, <2>1, DeletionFrame
<1>16. CASE Requests
  BY <1>7, <1>8, <1>9, <1>10, <1>12, <1>13, <1>14, <1>15, <1>16 DEF Requests
<1>17. ASSUME NEW j \in Jobs, Claim(j) \/ BackoffElapses(j)
       PROVE  DeletionInv' /\ NothingMissing'
  <2>1. CASE Claim(j)
    <3>1. /\ pc' # "register" /\ pc # "finish"
          /\ UNCHANGED <<catalog, store, routes, basis>>
      BY <2>1 DEF Claim
    <3> QED
      BY <1>6, <3>1, DeletionFrame
  <2>2. CASE BackoffElapses(j)
    BY <1>6, <2>2, DeletionFrame DEF BackoffElapses
  <2> QED
    BY <1>17, <2>1, <2>2
\* The worker's steps that leave what is bound and what is to be deleted alone.
<1>18. ASSUME UNCHANGED <<bound, routes>>, RefsLeft \cap present \subseteq present',
              pc # "finish", \A p \in Bound : Missing(p)' \subseteq Missing(p)
       PROVE  DeletionInv' /\ NothingMissing'
  BY <1>18, DeletionFrame
<1>19. ASSUME UNCHANGED <<catalog, store, routes, basis>>, pc # "finish",
              pc' # "register"
       PROVE  DeletionInv' /\ NothingMissing'
  BY <1>6, <1>18, <1>19
<1>20. CASE Rebuilding
  <2>1. pc \in RebuildPcs \cup {"cleanup"} => cur \in Physical
    BY TargetApart
  <2>2. pc \in (RebuildPcs \cup {"cleanup"}) \ {"finish"} =>
          cur \notin Bound /\ cur \notin RefsLeft
    BY TargetApart
  <2>3. CASE \/ StopAtGate \/ BeginRebuild \/ EmbedderUnavailable
             \/ NothingToRebuild \/ EmbedBatch \/ CountRows \/ CountMismatch
    BY <1>19, <2>3
    DEF StopAtGate, BeginRebuild, EmbedderUnavailable, NothingToRebuild,
        EmbedBatch, CountRows, CountMismatch, GiveUp
  <2>4. CASE ListLeaves
    <3>1. \A p \in Bound : basis'[p] = basis[p]
      BY <1>2, <1>3, <2>2, <2>4 DEF ListLeaves, RebuildPcs
    <3>2. \A p \in Bound : Missing(p)' \subseteq Missing(p)
      BY <2>4, <3>1 DEF ListLeaves, Missing, Meant
    <3> QED
      BY <1>18, <2>4, <3>2 DEF ListLeaves
  <2>5. CASE DropLeftover \/ Cleanup
    <3>1. /\ UNCHANGED <<catalog, routes, basis, cur>>
          /\ pc \in {"prepare", "cleanup"} /\ pc' # "register"
      BY <2>5 DEF DropLeftover, Cleanup
    <3>2. cur \notin Bound /\ cur \notin RefsLeft
      BY <2>2, <3>1 DEF RebuildPcs
    <3>3. /\ \A p \in Bound : rows'[p] = rows[p]
          /\ RefsLeft \cap present \subseteq present'
      BY <1>2, <1>3, <2>5, <3>2 DEF DropLeftover, Cleanup, DropCollection
    <3>4. \A p \in Bound : Missing(p)' \subseteq Missing(p)
      BY <3>1, <3>3 DEF Missing, Meant
    <3> QED
      BY <1>18, <3>1, <3>3, <3>4
  <2>6. CASE CreateTarget
    <3>1. \A p \in Bound : Missing(p)' \subseteq Missing(p)
      BY <2>6 DEF CreateTarget, Missing, Meant
    <3> QED
      BY <1>18, <2>6, <3>1 DEF CreateTarget
  <2>7. CASE UpsertBatch
    <3>1. /\ UNCHANGED <<present, corpus, bound, routes, basis, cur>>
          /\ pc = "upsert" /\ pc' # "register"
      BY <2>7 DEF UpsertBatch
    <3>2. \E d \in left : \E stored \in SUBSET {d} :
            rows' = [rows EXCEPT ![cur] = @ \cup stored]
      BY <2>7 DEF UpsertBatch
    <3>3. \A p \in Physical : rows[p] \subseteq rows'[p]
      BY <1>2, <3>2
    <3>4. \A p \in Bound : Missing(p)' \subseteq Missing(p)
      BY <1>3, <3>1, <3>3 DEF Missing, Meant
    <3> QED
      BY <1>18, <3>1, <3>4
  <2>8. CASE FailRebuild
    <3>1. pc # "finish"
      BY <1>5, <2>8 DEF FailRebuild
    <3>2. \A p \in Physical : rows[p] \subseteq rows'[p]
      BY <1>2, <2>8 DEF FailRebuild
    <3>3. \A p \in Bound : Missing(p)' \subseteq Missing(p)
      BY <1>3, <2>8, <3>2 DEF FailRebuild, GiveUp, Missing, Meant
    <3> QED
      BY <1>18, <2>8, <3>1, <3>3 DEF FailRebuild
  <2>9. CASE FinishRebuild
    <3>1. jobs'[cur].status = "done"
      BY <2>9, Holding, FinishRow DEF FinishRebuild, TypeOK
    <3>2. UNCHANGED <<catalog, store, routes, basis>> /\ pc' # "register"
      BY <2>9, Released DEF FinishRebuild
    <3> QED
      BY <1>6, <3>1, <3>2, DeletionFrame
  <2>10. CASE ParkCanary
    <3>1. /\ bound'.active = bound.active /\ bound'.canary = cur
          /\ UNCHANGED <<corpus, store, basis, routes, jobs, cur>>
          /\ pc = "park" /\ pc' = "finish"
      BY <1>2, <2>10 DEF ParkCanary
    <3>2. cur \notin Bound /\ cur \notin RefsLeft /\ cur \in Physical
      BY <2>1, <2>2, <3>1 DEF RebuildPcs
    <3>3. Bound' \subseteq Bound \cup {cur} /\ RefsLeft' = RefsLeft
      BY <3>1 DEF Bound, RefsLeft
    <3>4. \A p \in Physical : Missing(p)' = Missing(p)
      BY <3>1 DEF Missing, Meant
    <3>5. \A p \in Physical : p = cur => Missing(p)' = {}
      <4>1. basis[cur] \subseteq rows[cur] /\ cur # Logical
        BY <3>1, NamesAssumption DEF BuildInv, ControlInv, RebuildPcs
      <4> QED
        BY <3>1, <4>1 DEF Missing, Meant
    <3>6. NothingMissing'
      BY <1>3, <3>1, <3>2, <3>3, <3>4, <3>5 DEF NothingMissing
    <3>7. \A r \in RefsLeft' \cap Targets : \/ jobs'[r].status = "done"
                                            \/ cur' = r /\ pc' = "finish"
      BY <3>1, <3>3 DEF DeletionInv
    <3>8. deletion.refs[1] \in Bound' /\ Len(deletion.refs) = 2 =>
            deletion.refs[1] \in Bound
      BY <1>2, <3>2, <3>3 DEF RefsLeft
    <3>9. \A p \in Bound' : Missing(p)' # {} => p \in Bound /\ Missing(p) # {}
      BY <1>3, <3>2, <3>3, <3>4, <3>5
    <3>10. /\ deletion.at = "none" => deletion = NoDeletion
           /\ Len(deletion.refs) <= 2
           /\ Len(deletion.refs) = 2 /\ deletion.refs[1] \in Bound =>
                /\ deletion.refs[1] = bound.active
                /\ deletion.refs[2] \in present
                /\ promoter.at = "retire" => promoter.old # deletion.refs[2]
           /\ \A p \in Bound : Missing(p) # {} /\ deletion.refs # <<>> =>
                /\ p = bound.active
                /\ Len(deletion.refs) = 1
                /\ deletion.refs[1] \in present
                /\ promoter.at = "retire" => promoter.old # deletion.refs[1]
      BY DEF DeletionInv
    <3> QED
      BY <3>1, <3>6, <3>7, <3>8, <3>9, <3>10 DEF DeletionInv
  <2> QED
    BY <1>20, <2>3, <2>4, <2>5, <2>6, <2>7, <2>8, <2>9, <2>10 DEF Rebuilding
<1>21. CASE Checking \/ Settle
  <2>1. /\ UNCHANGED <<catalog, store, routes, basis>> /\ pc # "finish"
        /\ pc' # "register"
    BY <1>21
    DEF Checking, ReadCandidate, AskQuestions, CancelCheck, RecordVerdict,
        FinishCheck, FailCheck, Settle, Release
  <2> QED
    BY <1>19, <2>1
<1>22. CASE Ingesting
  <2>1. /\ UNCHANGED <<bound, routes>> /\ present \subseteq present' /\ pc # "finish"
    BY <1>22
    DEF Ingesting, StoreDocument, IndexDocument, RegisterDocument, AbortIngest, UndoDocument, UndoIndex,
        IngestPcs
  <2>2. /\ cur \in Uploads /\ cur \in Docs /\ Logical \in Physical
        /\ \A p \in Physical : cur \notin basis[p]
    <3>1. cur \in Uploads /\ cur \in Jobs /\ cur # NoJob
      BY <1>22, JobsAssumption, NamesAssumption
      DEF Ingesting, StoreDocument, IndexDocument, RegisterDocument,
          AbortIngest, UndoDocument, UndoIndex, IngestPcs, ControlInv
    <3>2. jobs[cur].status # "done"
      BY <3>1 DEF ControlInv, Unfinished, Queued, Running
    <3> QED
      BY <3>1, <3>2, JobsAssumption DEF UploadInv, Physical
  <2>3. \A p \in Bound : Missing(p)' \subseteq Missing(p)
    <3>1. CASE StoreDocument
      BY <1>3, <2>2, <3>1 DEF StoreDocument, Missing, Meant
    <3>2. CASE IndexDocument
      BY <1>2, <1>3, <2>2, <3>2 DEF IndexDocument, Missing, Meant
    <3>3. CASE RegisterDocument
      BY <1>2, <1>3, <2>2, <3>3, Released DEF RegisterDocument, Missing, Meant
    <3>4. CASE AbortIngest \/ UndoDocument
      BY <3>4 DEF AbortIngest, UndoDocument, Missing, Meant
    <3>5. CASE UndoIndex
      BY <1>2, <1>3, <2>2, <3>5 DEF UndoIndex, Missing, Meant
    <3> QED
      BY <1>22, <3>1, <3>2, <3>3, <3>4, <3>5 DEF Ingesting
  <2> QED
    BY <1>18, <2>1, <2>3
<1>23. CASE UNCHANGED vars
  BY <1>6, <1>23, DeletionFrame DEF vars
<1> QED
  BY <1>16, <1>17, <1>20, <1>21, <1>22, <1>23 DEF Next

LEMMA CompleteInit == Init => CompleteInv
<1> SUFFICES ASSUME Init PROVE CompleteInv
  OBVIOUS
<1>1. UploadInv
  BY JobsAssumption DEF Init, UploadInv
<1>2. BuildInv
  BY DEF Init, BuildInv
<1>3. Bound = {Logical} /\ Missing(Logical) = {}
  BY NamesAssumption DEF Init, Bound, Missing, Meant, Physical
<1>4. deletion = NoDeletion /\ deletion.refs = <<>> /\ RefsLeft = {}
  BY DEF Init, NoDeletion, RefsLeft
<1>5. DeletionInv /\ NothingMissing
  BY <1>3, <1>4 DEF DeletionInv, NothingMissing
<1> QED
  BY <1>1, <1>2, <1>5 DEF CompleteInv

LEMMA CompleteCorrect == Spec => []CompleteInv
<1>1. /\ TypeOK /\ ControlInv /\ BindingInv /\ CompleteInv /\ [Next]_vars
      => CompleteInv'
  <2> SUFFICES ASSUME TypeOK, ControlInv, BindingInv, CompleteInv, [Next]_vars,
                      Clean'
               PROVE  (UploadInv /\ BuildInv /\ DeletionInv /\ NothingMissing)'
    BY DEF CompleteInv
  <2>1. Clean
    BY FaultsCount DEF Clean
  <2>2. UploadInv /\ BuildInv /\ DeletionInv /\ NothingMissing
    BY <2>1 DEF CompleteInv
  <2> QED
    BY <2>1, <2>2, UploadStep, BuildStep, DeletionStep
<1> QED
  BY <1>1, CompleteInit, ControlCorrect, BindingCorrect, PTL DEF Spec

\* Unless the end of a rebuild or a deletion errs, a bound index has a row for
\* every document of the corpus it was built from: the count before the parking
\* is enough, whatever is deleted, retired or promoted around it.
THEOREM BoundIsComplete ==
  ASSUME Faults \cap {"finish", "delete"} = {}
  PROVE  Spec => []IndexComplete
<1>1. CompleteInv => IndexComplete
  BY DEF CompleteInv, Clean, NothingMissing, Missing, Meant, IndexComplete
<1> QED
  BY <1>1, CompleteCorrect, PTL
-----------------------------------------------------------------------------
(* The gate.                                                               *)

\* A row comes into being by its submission only.
LEMMA RowAppears ==
  ASSUME TypeOK, ControlInv, [Next]_vars,
         NEW j \in Jobs, ~ Exists(jobs, j), jobs'[j].status # "absent"
  PROVE  SubmitJob(j) \/ (j \in Checks /\ SubmitCheck(j))
<1> SUFFICES ASSUME ~ SubmitJob(j), j \in Checks => ~ SubmitCheck(j)
             PROVE  jobs'[j].status = jobs[j].status
  BY DEF Exists
<1> USE DEF At
<1>1. jobs \in JobTables /\ cur \in Jobs \cup {NoJob}
  BY DEF TypeOK
<1>2. ~ Unfinished(jobs, j)
  BY DEF Unfinished, Exists, Queued, Running
<1>3. pc # "claim" => cur \in Jobs /\ cur # j
  BY <1>2, Holding
<1>4. CASE Requests
  <2>1. ASSUME NEW k \in Jobs, k # j, Submit(k) PROVE jobs'[j].status = jobs[j].status
    <3>1. clock' \in Nat /\ jobs' = CreateJob(jobs, k, clock')
      BY <2>1 DEF Submit, TypeOK
    <3> QED
      BY <1>1, <2>1, <3>1, CreateRow
  <2>2. ASSUME NEW k \in Jobs, CancelJob(k) PROVE jobs'[j].status = jobs[j].status
    BY <1>1, <2>2, RequestCancelRow DEF CancelJob
  <2>3. ASSUME NEW k \in Jobs, SubmitJob(k) PROVE jobs'[j].status = jobs[j].status
    BY <2>1, <2>3 DEF SubmitJob
  <2>4. ASSUME NEW c \in Checks, SubmitCheck(c)
        PROVE  jobs'[j].status = jobs[j].status
    BY <2>1, <2>4, JobsAssumption DEF SubmitCheck, ReadCanary, CreateCheck
  <2> QED
    BY <1>4, <2>2, <2>3, <2>4
    DEF Requests, ReadCanary, CreateCheck, BeginPromotion, AuthorizePromotion, PromoteIndex, NoCanary,
        RetireIndex, BeginDeletion, DeleteRow, DeleteFails, DeleteChunk, worker
<1>5. ASSUME NEW k \in Jobs, Claim(k) PROVE jobs'[j].status = jobs[j].status
  BY <1>5 DEF Claim
<1>6. ASSUME NEW k \in Jobs, BackoffElapses(k)
      PROVE  jobs'[j].status = jobs[j].status
  BY <1>1, <1>6 DEF BackoffElapses, JobTables, JobRow
<1>7. CASE Rebuilding
  <2>1. CASE BeginRebuild
    BY <1>1, <1>3, <2>1, StagesMarked, MarkRow DEF BeginRebuild
  <2>2. CASE EmbedBatch
    BY <1>1, <1>3, <2>2, StagesMarked, MarkRow DEF EmbedBatch
  <2>3. CASE FinishRebuild
    BY <1>1, <1>3, <2>3, FinishRow DEF FinishRebuild
  <2> QED
    BY <1>7, <2>1, <2>2, <2>3
    DEF Rebuilding, StopAtGate, EmbedderUnavailable, ListLeaves,
        NothingToRebuild, DropLeftover, CreateTarget, UpsertBatch, CountRows,
        CountMismatch, ParkCanary, FailRebuild, Cleanup
<1>8. CASE Checking
  <2>1. CASE AskQuestions
    BY <1>1, <1>3, <2>1, StagesMarked, MarkRow DEF AskQuestions
  <2>2. CASE CancelCheck
    BY <1>1, <1>3, <2>2, MarkCancelledRow DEF CancelCheck
  <2>3. CASE FinishCheck
    BY <1>1, <1>3, <2>3, FinishRow DEF FinishCheck
  <2> QED
    BY <1>8, <2>1, <2>2, <2>3
    DEF Checking, ReadCandidate, RecordVerdict, FailCheck
<1>9. CASE Ingesting
  <2>1. CASE StoreDocument
    BY <1>1, <1>3, <2>1, StagesMarked, MarkRow DEF StoreDocument
  <2>2. CASE IndexDocument
    BY <1>1, <1>3, <2>2, StagesMarked, MarkRow DEF IndexDocument
  <2>3. CASE RegisterDocument
    BY <1>1, <1>3, <2>3, FinishRow DEF RegisterDocument
  <2>4. CASE AbortIngest \/ UndoDocument \/ UndoIndex
    BY <2>4 DEF AbortIngest, UndoDocument, UndoIndex
  <2> QED
    BY <1>9, <2>1, <2>2, <2>3, <2>4 DEF Ingesting
<1>10. CASE Settle
  <2>1. cur \in Jobs /\ cur # j /\ jobs[cur].attempts + 1 \in 0 .. MaxAttempts
    BY <1>3, <1>10, Holding DEF Settle
  <2> QED
    BY <1>1, <1>10, <2>1, MarkCancelledRow, FailRow
    DEF Settle, RequeueJob, JobTables, JobRow
<1>11. CASE UNCHANGED vars
  BY <1>11 DEF vars
<1> QED
  BY <1>4, <1>5, <1>6, <1>7, <1>8, <1>9, <1>10, <1>11 DEF Next

LEMMA GateStep ==
  ASSUME TypeOK, ControlInv, GateInv, [Next]_vars
  PROVE  GateInv'
<1> USE DEF At, Goto, catalog, store, attempt, routes, around, worker
<1>1. \A c \in Checks : c \in Jobs /\ c \notin Uploads /\ c \notin Targets
  BY JobsAssumption
<1>2. \A c \in Checks : jobs[c].status = "done" => jobs'[c].status = "done"
  BY <1>1, EndedStays DEF IsTerminal, Terminal
<1>3. \A c \in Checks : checks[c].status = "passed" =>
        Exists(jobs, c) /\ (c = cur /\ pc # "claim" => pc = "checked")
  BY <1>1, Holding DEF GateInv, Exists, Unfinished, Queued, Running
<1>4. checks \in [Checks -> [candidate : Targets \cup {NoRef},
                            status : CheckStatuses,
                            created : Nat]]
  BY DEF TypeOK
<1>5. ASSUME NEW c \in Checks, SubmitCheck(c) PROVE GateInv'
  <2>1. /\ checks[c].status = "running"
        /\ UNCHANGED <<checks, gated, pc, cur, promoter>>
    BY <1>5 DEF SubmitCheck
  <2>2. \A d \in Checks \ {c} : jobs'[d] = jobs[d]
    <3>1. clock' \in Nat /\ jobs' = CreateJob(jobs, c, clock')
      BY <1>5 DEF SubmitCheck, Submit, TypeOK
    <3> QED
      BY <1>1, <3>1, CreateRow DEF TypeOK
  <2>3. \A d \in Checks : Exists(jobs', d) => checks'[d].status # "absent"
    BY <2>1, <2>2 DEF GateInv, Exists
  <2>4. \A d \in Checks : checks'[d].status = "passed" =>
          jobs'[d].status = "done" \/ (cur' = d /\ pc' = "checked")
    BY <1>2, <2>1 DEF GateInv
  <2> QED
    BY <2>1, <2>3, <2>4 DEF GateInv, Exists
<1>a. ASSUME NEW c \in Checks, ReadCanary(c) \/ CreateCheck(c) PROVE GateInv'
  <2>1. /\ checks[c].status \in {"absent", "read"}
        /\ UNCHANGED <<jobs, gated, pc, cur, promoter>>
        /\ \A d \in Checks \ {c} : checks'[d] = checks[d]
        /\ checks'[c].status \in {"read", "running"}
    BY <1>4, <1>a DEF ReadCanary, CreateCheck
  <2>2. checks'[c].candidate \in Targets
    <3>1. CASE ReadCanary(c)
      BY <1>4, <3>1 DEF ReadCanary, TypeOK
    <3>2. CASE CreateCheck(c)
      BY <1>4, <3>2 DEF CreateCheck, GateInv
    <3> QED
      BY <1>a, <3>1, <3>2
  <2>3. \A d \in Checks : checks'[d].status = "passed" <=> checks[d].status = "passed"
    BY <2>1
  <2>4. \A d \in Checks :
          checks'[d].status # "absent" => checks'[d].candidate \in Targets
    BY <2>1, <2>2 DEF GateInv
  <2>5. \A d \in Checks : Exists(jobs', d) => checks'[d].status # "absent"
    BY <2>1 DEF GateInv, Exists
  <2> QED
    BY <2>1, <2>3, <2>4, <2>5 DEF GateInv, Exists
<1>6. SUFFICES ASSUME \A c \in Checks : /\ ~ SubmitCheck(c) /\ ~ ReadCanary(c)
                                         /\ ~ CreateCheck(c)
               PROVE  GateInv'
  BY <1>5, <1>a
\* But for a submission and a verdict, what passed stays as it is.
<1>7. ASSUME \A c \in Checks : /\ checks'[c].candidate = checks[c].candidate
                               /\ checks'[c].status = "absent" <=>
                                    checks[c].status = "absent"
                               /\ checks'[c].status = "passed" =>
                                    \/ checks[c].status = "passed"
                                    \/ cur' = c /\ pc' = "checked"
                               /\ checks[c].status = "passed" =>
                                    checks'[c].status = "passed",
             pc = "checked" => \/ pc' = "checked" /\ cur' = cur
                               \/ cur \in Checks => jobs'[cur].status = "done",
             gated' = gated,
             promoter'.at = "cleared" =>
               \/ promoter.at = "cleared" \/ ~ gated
               \/ \E c \in Checks : checks[c].status = "passed"
      PROVE  GateInv'
  <2>1. ASSUME NEW c \in Checks, Exists(jobs, c)' PROVE checks'[c].status # "absent"
    <3>1. Exists(jobs, c)
      <4>1. ~ SubmitJob(c)
        BY DEF SubmitJob
      <4> QED
        BY <1>1, <1>6, <2>1, <4>1, RowAppears DEF Exists
    <3> QED
      BY <1>7, <3>1 DEF GateInv
  <2>a. \A c \in Checks :
          checks'[c].status # "absent" => checks'[c].candidate \in Targets
    BY <1>7 DEF GateInv
  <2>2. ASSUME NEW c \in Checks, checks'[c].status = "passed"
        PROVE  jobs'[c].status = "done" \/ (cur' = c /\ pc' = "checked")
    BY <1>2, <1>7, <2>2 DEF GateInv
  <2>3. gated' /\ promoter'.at = "cleared" =>
          \E c \in Checks : checks'[c].status = "passed"
    BY <1>7 DEF GateInv
  <2> QED
    BY <2>1, <2>a, <2>2, <2>3 DEF GateInv
<1>8. ASSUME UNCHANGED <<checks, gated, promoter>>,
             pc = "checked" => pc' = "checked" /\ cur' = cur
      PROVE  GateInv'
  BY <1>7, <1>8
<1>9. CASE Requests
  <2>1. CASE BeginPromotion
    BY <1>7, <2>1 DEF BeginPromotion, NoPromotion
  <2>2. CASE AuthorizePromotion
    BY <1>7, <2>2 DEF AuthorizePromotion, GatePasses, NoPromotion
  <2>3. CASE PromoteIndex \/ NoCanary \/ RetireIndex
    BY <1>7, <2>3 DEF PromoteIndex, NoCanary, RetireIndex, NoPromotion
  <2>4. CASE \/ \E j \in Jobs : SubmitJob(j) \/ CancelJob(j)
             \/ \E d \in Docs : BeginDeletion(d)
             \/ DeleteRow \/ DeleteFails \/ DeleteChunk
    BY <1>8, <2>4
    DEF SubmitJob, CancelJob, BeginDeletion, DeleteRow, DeleteFails, DeleteChunk
  <2> QED
    BY <1>6, <1>9, <2>1, <2>2, <2>3, <2>4 DEF Requests
<1>10. ASSUME NEW j \in Jobs, Claim(j) \/ BackoffElapses(j) PROVE GateInv'
  BY <1>8, <1>10 DEF Claim, BackoffElapses
<1>11. CASE Rebuilding
  <2>1. UNCHANGED <<checks, gated, promoter>> /\ pc # "checked"
    BY <1>11
    DEF Rebuilding, StopAtGate, BeginRebuild, EmbedderUnavailable, ListLeaves,
        NothingToRebuild, DropLeftover, CreateTarget, EmbedBatch, UpsertBatch,
        CountRows, CountMismatch, ParkCanary, FinishRebuild, FailRebuild, Cleanup,
        RebuildPcs
  <2> QED
    BY <1>8, <2>1
<1>12. CASE Checking
  <2>1. CASE CancelCheck
    <3>1. /\ cur \in Checks /\ checks[cur].status # "passed"
          /\ checks[cur].status # "absent"
      <4>1. cur \in Checks /\ checks[cur].status # "passed"
        BY <1>3, <2>1 DEF CancelCheck, ControlInv, CheckPcs
      <4>2. Exists(jobs, cur)
        BY <2>1, Holding DEF CancelCheck, Exists, Unfinished, Queued, Running
      <4> QED
        BY <4>1, <4>2 DEF GateInv
    <3>2. /\ checks'[cur].candidate = checks[cur].candidate
          /\ checks'[cur].status = "cancelled"
          /\ \A c \in Checks \ {cur} : checks'[c] = checks[c]
          /\ UNCHANGED <<gated, promoter>> /\ pc = "ask"
      BY <1>4, <2>1, <3>1 DEF CancelCheck
    <3> QED
      BY <1>7, <3>1, <3>2
  <2>2. CASE RecordVerdict
    <3>1. /\ cur \in Checks /\ checks[cur].status # "passed"
          /\ checks[cur].status # "absent"
      <4>1. cur \in Checks /\ checks[cur].status # "passed"
        BY <1>3, <2>2 DEF RecordVerdict, ControlInv, CheckPcs
      <4>2. Exists(jobs, cur)
        BY <2>2, Holding DEF RecordVerdict, Exists, Unfinished, Queued, Running
      <4> QED
        BY <4>1, <4>2 DEF GateInv
    <3>2. /\ checks'[cur].candidate = checks[cur].candidate
          /\ checks'[cur].status \in {"passed", "failed"}
          /\ \A c \in Checks \ {cur} : checks'[c] = checks[c]
          /\ UNCHANGED <<gated, promoter, cur>> /\ pc = "record" /\ pc' = "checked"
      BY <1>4, <2>2, <3>1 DEF RecordVerdict
    <3> QED
      BY <1>7, <3>1, <3>2
  <2>3. CASE FinishCheck
    <3>1. cur \in Checks /\ cur \in Jobs
      BY <1>1, <2>3 DEF FinishCheck, ControlInv, CheckPcs
    <3>2. jobs'[cur].status = "done"
      BY <2>3, <3>1, FinishRow DEF FinishCheck, TypeOK
    <3>3. UNCHANGED <<checks, gated, promoter>>
      BY <2>3 DEF FinishCheck
    <3> QED
      BY <1>7, <3>2, <3>3
  <2>4. CASE ReadCandidate \/ AskQuestions \/ FailCheck
    BY <1>8, <2>4 DEF ReadCandidate, AskQuestions, FailCheck
  <2> QED
    BY <1>12, <2>1, <2>2, <2>3, <2>4 DEF Checking
<1>13. CASE Ingesting \/ Settle
  BY <1>8, <1>13
  DEF Ingesting, StoreDocument, IndexDocument, RegisterDocument, AbortIngest, UndoDocument, UndoIndex,
      IngestPcs, Settle
<1>14. CASE UNCHANGED vars
  BY <1>8, <1>14 DEF vars
<1> QED
  BY <1>9, <1>10, <1>11, <1>12, <1>13, <1>14 DEF Next

\* While one rebuild makes the only canary there can be, a gated collection is
\* switched to it only after a check has passed for it.  With a second rebuild the
\* canary may be replaced between the gate and the switch, and this is false.
THEOREM PromotionNeedsPass ==
  ASSUME \A r, s \in Targets : r = s
  PROVE  Spec => PromotionAuthorized
<1>1. Init => GateInv
  <2> SUFFICES ASSUME Init PROVE GateInv
    OBVIOUS
  <2>1. \A c \in Checks : jobs[c].status = "absent" /\ checks[c].status = "absent"
    BY JobsAssumption DEF Init, NoRow, NoCheck
  <2>2. promoter.at = "none"
    BY DEF Init, NoPromotion
  <2> QED
    BY <2>1, <2>2 DEF GateInv, Exists
<1>2. TypeOK /\ ControlInv /\ GateInv /\ [Next]_vars => GateInv'
  BY GateStep
<1>3. TypeOK /\ ControlInv /\ GateInv /\ [Next]_vars
      => [ bound'.active # bound.active /\ gated =>
             \E c \in Checks : /\ checks[c].status = "passed"
                               /\ checks[c].candidate = bound'.active ]_vars
  <2> SUFFICES ASSUME TypeOK, ControlInv, GateInv, Next,
                      bound'.active # bound.active, gated
               PROVE  \E c \in Checks : /\ checks[c].status = "passed"
                                        /\ checks[c].candidate = bound'.active
    OBVIOUS
  <2>1. PromoteIndex
    BY DEF Next, Requests, SubmitJob, CancelJob, SubmitCheck, ReadCanary, CreateCheck, BeginPromotion,
        AuthorizePromotion, NoCanary, RetireIndex, BeginDeletion, DeleteRow,
        DeleteFails, DeleteChunk, Claim, BackoffElapses, Rebuilding, StopAtGate,
        BeginRebuild, EmbedderUnavailable, ListLeaves, NothingToRebuild,
        DropLeftover, CreateTarget, EmbedBatch, UpsertBatch, CountRows,
        CountMismatch, ParkCanary, FinishRebuild, FailRebuild, Cleanup, Checking,
        ReadCandidate, AskQuestions, CancelCheck, RecordVerdict, FinishCheck,
        FailCheck, Ingesting, StoreDocument, IndexDocument, RegisterDocument,
        AbortIngest, UndoDocument, UndoIndex, Settle, worker, catalog, TypeOK
  <2>2. bound'.active = bound.canary /\ bound.canary \in Targets
    BY <2>1 DEF PromoteIndex, TypeOK
  <2>3. PICK c \in Checks : checks[c].status = "passed"
    BY <2>1 DEF PromoteIndex, GateInv
  <2>4. checks[c].candidate \in Targets
    BY <2>3 DEF GateInv
  <2> QED
    BY <2>2, <2>3, <2>4
<1> QED
  BY <1>1, <1>2, <1>3, ControlCorrect, PTL DEF Spec, PromotionAuthorized

-----------------------------------------------------------------------------
(* The job lifecycle, of all three kinds of job.                           *)

\* A step that changes the row of one job moves that job in the lifecycle.
LEMMA ShownMove ==
  ASSUME NEW j \in Jobs, NEW to, jobs \in JobTables, jobs' \in JobTables,
         \A k \in Jobs \ {j} : jobs'[k] = jobs[k],
         to = IF jobs'[j].status \in Running THEN "running"
                                            ELSE jobs'[j].status
  PROVE  Shown' = [Shown EXCEPT ![j] = to]
BY DEF Shown, IsRunning

LEMMA SpentMove ==
  ASSUME NEW j \in Jobs, NEW n, jobs \in JobTables, jobs' \in JobTables,
         \A k \in Jobs \ {j} : jobs'[k] = jobs[k], jobs'[j].attempts = n
  PROVE  Spent' = [Spent EXCEPT ![j] = n]
BY DEF Spent

LEMMA SpentSame ==
  ASSUME NEW j \in Jobs, jobs \in JobTables, jobs' \in JobTables,
         \A k \in Jobs \ {j} : jobs'[k] = jobs[k],
         jobs'[j].attempts = jobs[j].attempts
  PROVE  Spent' = Spent
BY DEF Spent

\* A step that leaves the table alone is not visible.
LEMMA Invisible ==
  ASSUME UNCHANGED jobs
  PROVE  UNCHANGED Lifecycle!vars
BY DEF Shown, Spent, IsRunning, Lifecycle!vars

\* A step that changes a row, but neither what a client sees of its status
\* nor its attempts, is not visible either.
LEMMA RowOnly ==
  ASSUME NEW j \in Jobs, jobs \in JobTables, jobs' \in JobTables,
         \A k \in Jobs \ {j} : jobs'[k] = jobs[k],
         jobs'[j].status = jobs[j].status,
         jobs'[j].attempts = jobs[j].attempts
  PROVE  UNCHANGED Lifecycle!vars
BY DEF Shown, Spent, IsRunning, Lifecycle!vars

LEMMA Submits ==
  ASSUME NEW j \in Jobs, Shown[j] = "absent",
         Shown' = [Shown EXCEPT ![j] = "queued"], Spent' = Spent
  PROVE  Lifecycle!Next
BY DEF Lifecycle!Next, Lifecycle!Submit, Lifecycle!Move

LEMMA Starts ==
  ASSUME NEW j \in Jobs, Shown[j] = "queued",
         Shown' = [Shown EXCEPT ![j] = "running"], Spent' = Spent
  PROVE  Lifecycle!Next
BY DEF Lifecycle!Next, Lifecycle!Progress, Lifecycle!Start, Lifecycle!Move

LEMMA Finishes ==
  ASSUME NEW j \in Jobs, Shown[j] = "running",
         Shown' = [Shown EXCEPT ![j] = "done"], Spent' = Spent
  PROVE  Lifecycle!Next
BY DEF Lifecycle!Next, Lifecycle!Progress, Lifecycle!Finish, Lifecycle!Move

LEMMA Cancels ==
  ASSUME NEW j \in Jobs, Shown[j] \in {"queued", "running"},
         Shown' = [Shown EXCEPT ![j] = "cancelled"], Spent' = Spent
  PROVE  Lifecycle!Next
BY DEF Lifecycle!Next, Lifecycle!Progress, Lifecycle!Cancel, Lifecycle!Move

LEMMA Retries ==
  ASSUME NEW j \in Jobs, Shown[j] \in {"queued", "running"},
         Spent[j] + 1 < MaxAttempts,
         Shown' = [Shown EXCEPT ![j] = "queued"],
         Spent' = [Spent EXCEPT ![j] = Spent[j] + 1]
  PROVE  Lifecycle!Next
BY DEF Lifecycle!Next, Lifecycle!Progress, Lifecycle!Retry, Lifecycle!Move

LEMMA Fails ==
  ASSUME NEW j \in Jobs, Shown[j] \in {"queued", "running"},
         NEW n \in {Spent[j], Spent[j] + 1},
         Shown' = [Shown EXCEPT ![j] = "failed"],
         Spent' = [Spent EXCEPT ![j] = n]
  PROVE  Lifecycle!Next
BY DEF Lifecycle!Next, Lifecycle!Progress, Lifecycle!Fail, Lifecycle!Move

\* The steps in which the worker enters a stage.
LEMMA Marked ==
  ASSUME TypeOK, ControlInv, pc # "claim", NEW s \in Running,
         jobs' = MarkJob(jobs, cur, s)
  PROVE  [Lifecycle!Next]_(Lifecycle!vars) /\ IsRunning(jobs', cur)
<1>0. jobs \in JobTables /\ cur \in Jobs
  BY Holding DEF TypeOK
<1>1. /\ jobs' \in JobTables
      /\ \A k \in Jobs \ {cur} : jobs'[k] = jobs[k]
      /\ jobs'[cur].status = s
      /\ jobs'[cur].attempts = jobs[cur].attempts
  BY <1>0, MarkType, MarkRow
<1>2. Shown' = [Shown EXCEPT ![cur] = "running"]
  BY <1>0, <1>1, ShownMove
<1>3. Spent' = Spent
  BY <1>0, <1>1, SpentSame
<1>4. Shown[cur] \in {"queued", "running"}
  BY <1>0, Holding DEF Shown, Unfinished, IsRunning, Queued
<1>5. CASE Shown[cur] = "queued"
  BY <1>0, <1>1, <1>2, <1>3, <1>5, Starts DEF IsRunning
<1>6. CASE Shown[cur] = "running"
  <2>1. Shown' = Shown
    BY <1>0, <1>2, <1>6 DEF Shown
  <2> QED
    BY <1>1, <1>3, <2>1 DEF Lifecycle!vars, IsRunning
<1> QED
  BY <1>4, <1>5, <1>6

\* The steps that end a job as done find it running.
LEMMA Done ==
  ASSUME TypeOK, ControlInv, pc # "claim", IsRunning(jobs, cur),
         jobs' = FinishJob(jobs, cur)
  PROVE  Lifecycle!Next
<1>0. jobs \in JobTables /\ cur \in Jobs
  BY Holding DEF TypeOK
<1>1. /\ jobs' \in JobTables
      /\ \A k \in Jobs \ {cur} : jobs'[k] = jobs[k]
      /\ jobs'[cur].status = "done"
      /\ jobs'[cur].attempts = jobs[cur].attempts
  BY <1>0, FinishType, FinishRow DEF FinishJob, JobTables, JobRow
<1>2. Shown' = [Shown EXCEPT ![cur] = "done"]
  BY <1>0, <1>1, ShownMove DEF Running
<1>3. Spent' = Spent
  BY <1>0, <1>1, SpentSame
<1>4. Shown[cur] = "running"
  BY <1>0 DEF Shown
<1> QED
  BY <1>0, <1>2, <1>3, <1>4, Finishes

\* Those that end it as cancelled find it open, running or not.
LEMMA Cancelled ==
  ASSUME TypeOK, ControlInv, pc # "claim", jobs' = MarkCancelled(jobs, cur)
  PROVE  Lifecycle!Next
<1>0. jobs \in JobTables /\ cur \in Jobs
  BY Holding DEF TypeOK
<1>1. /\ jobs' \in JobTables
      /\ \A k \in Jobs \ {cur} : jobs'[k] = jobs[k]
      /\ jobs'[cur].status = "cancelled"
      /\ jobs'[cur].attempts = jobs[cur].attempts
  BY <1>0, MarkCancelledType, MarkCancelledRow
  DEF MarkCancelled, JobTables, JobRow
<1>2. Shown' = [Shown EXCEPT ![cur] = "cancelled"]
  BY <1>0, <1>1, ShownMove DEF Running
<1>3. Spent' = Spent
  BY <1>0, <1>1, SpentSame
<1>4. Shown[cur] \in {"queued", "running"}
  BY <1>0, Holding DEF Shown, Unfinished, IsRunning, Queued
<1> QED
  BY <1>0, <1>2, <1>3, <1>4, Cancels

\* A failed attempt is counted, whether the job is queued again or not.
LEMMA Retried ==
  ASSUME TypeOK, ControlInv, pc # "claim",
         jobs[cur].attempts + 1 < MaxAttempts,
         jobs' = RequeueJob(jobs, cur, jobs[cur].attempts + 1, TRUE)
  PROVE  Lifecycle!Next
<1>0. jobs \in JobTables /\ cur \in Jobs /\ jobs[cur].attempts + 1 \in 0 .. MaxAttempts
  BY Holding DEF TypeOK
<1>1. /\ jobs' \in JobTables
      /\ \A k \in Jobs \ {cur} : jobs'[k] = jobs[k]
      /\ jobs'[cur].status = "queued"
      /\ jobs'[cur].attempts = jobs[cur].attempts + 1
  BY <1>0, RequeueType DEF RequeueJob, JobTables, JobRow, Queued
<1>2. Shown' = [Shown EXCEPT ![cur] = "queued"]
  BY <1>0, <1>1, ShownMove DEF Running
<1>3. Spent' = [Spent EXCEPT ![cur] = jobs[cur].attempts + 1]
  BY <1>0, <1>1, SpentMove
<1>4. Shown[cur] \in {"queued", "running"}
  BY <1>0, Holding DEF Shown, Unfinished, IsRunning, Queued
<1>5. Spent[cur] = jobs[cur].attempts
  BY <1>0 DEF Spent
<1> QED
  BY <1>0, <1>2, <1>3, <1>4, <1>5, Retries

LEMMA Failed ==
  ASSUME TypeOK, ControlInv, pc # "claim",
         jobs' = FailJob(jobs, cur, jobs[cur].attempts + 1)
  PROVE  Lifecycle!Next
<1>0. jobs \in JobTables /\ cur \in Jobs /\ jobs[cur].attempts + 1 \in 0 .. MaxAttempts
  BY Holding DEF TypeOK
<1>1. /\ jobs' \in JobTables
      /\ \A k \in Jobs \ {cur} : jobs'[k] = jobs[k]
      /\ jobs'[cur].status = "failed"
      /\ jobs'[cur].attempts = jobs[cur].attempts + 1
  BY <1>0, FailType DEF FailJob, JobTables, JobRow
<1>2. Shown' = [Shown EXCEPT ![cur] = "failed"]
  BY <1>0, <1>1, ShownMove DEF Running
<1>3. Spent' = [Spent EXCEPT ![cur] = jobs[cur].attempts + 1]
  BY <1>0, <1>1, SpentMove
<1>4. Shown[cur] \in {"queued", "running"}
  BY <1>0, Holding DEF Shown, Unfinished, IsRunning, Queued
<1>5. jobs[cur].attempts + 1 \in {Spent[cur], Spent[cur] + 1}
  BY <1>0 DEF Spent
<1> QED
  BY <1>0, <1>2, <1>3, <1>4, <1>5, Fails

\* No statement makes a row but the one that inserts it.
LEMMA FreshStep ==
  ASSUME TypeOK, ControlInv, [Next]_vars, NEW j \in Jobs, ~ Exists(jobs', j)
  PROVE  ~ Exists(jobs, j) /\ jobs'[j].attempts = jobs[j].attempts
<1> USE DEF At, Goto, catalog, store, attempt, routes, around, worker, Exists
<1>0. jobs \in JobTables
  BY DEF TypeOK
<1>1. ASSUME NEW k \in Jobs, Submit(k) PROVE jobs'[j] = jobs[j]
  <2>1. clock' \in Nat /\ jobs' = CreateJob(jobs, k, clock')
    BY <1>1 DEF Submit, TypeOK
  <2> QED
    BY <1>0, <2>1, CreateRow DEF Queued
<1>2. CASE Requests
  <2>1. ASSUME NEW k \in Jobs, SubmitJob(k) PROVE jobs'[j] = jobs[j]
    BY <1>1, <2>1 DEF SubmitJob
  <2>2. ASSUME NEW c \in Checks, SubmitCheck(c) PROVE jobs'[j] = jobs[j]
    BY <1>1, <2>2, JobsAssumption DEF SubmitCheck, ReadCanary, CreateCheck
  <2>3. ASSUME NEW k \in Jobs, CancelJob(k)
        PROVE  /\ jobs'[j].status = jobs[j].status
               /\ jobs'[j].attempts = jobs[j].attempts
    BY <1>0, <2>3, RequestCancelRow DEF CancelJob
  <2> QED
    BY <1>2, <2>1, <2>2, <2>3
    DEF Requests, ReadCanary, CreateCheck, BeginPromotion, AuthorizePromotion, PromoteIndex, NoCanary,
        RetireIndex, BeginDeletion, DeleteRow, DeleteFails, DeleteChunk
<1>3. ASSUME NEW k \in Jobs, BackoffElapses(k)
      PROVE  /\ jobs'[j].status = jobs[j].status
             /\ jobs'[j].attempts = jobs[j].attempts
  BY <1>0, <1>3 DEF BackoffElapses, JobTables, JobRow
<1>4. ASSUME NEW s \in Running, pc # "claim", jobs' = MarkJob(jobs, cur, s)
      PROVE  jobs'[j] = jobs[j]
  <2>1. s # "absent"
    BY DEF Running
  <2> QED
    BY <1>0, <1>4, <2>1, Holding, MarkRow
<1>5. ASSUME pc # "claim",
             \/ jobs' = FinishJob(jobs, cur)
             \/ jobs' = MarkCancelled(jobs, cur)
             \/ jobs' = RequeueJob(jobs, cur, jobs[cur].attempts + 1, TRUE)
             \/ jobs' = FailJob(jobs, cur, jobs[cur].attempts + 1)
      PROVE  jobs'[j] = jobs[j]
  <2>1. cur \in Jobs /\ jobs[cur].attempts + 1 \in 0 .. MaxAttempts
    BY <1>5, Holding
  <2>2. CASE jobs' = RequeueJob(jobs, cur, jobs[cur].attempts + 1, TRUE)
    BY <1>0, <2>1, <2>2 DEF RequeueJob, JobTables, JobRow, Queued
  <2>3. CASE jobs' = FinishJob(jobs, cur)
    BY <1>0, <2>1, <2>3, FinishRow
  <2>4. CASE jobs' = MarkCancelled(jobs, cur)
    BY <1>0, <2>1, <2>4, MarkCancelledRow
  <2>5. CASE jobs' = FailJob(jobs, cur, jobs[cur].attempts + 1)
    BY <1>0, <2>1, <2>5, FailRow
  <2> QED
    BY <1>5, <2>2, <2>3, <2>4, <2>5
<1>6. CASE Rebuilding
  <2>1. CASE BeginRebuild
    BY <1>4, <2>1, StagesMarked DEF BeginRebuild
  <2>2. CASE EmbedBatch
    BY <1>4, <2>2, StagesMarked DEF EmbedBatch
  <2>3. CASE FinishRebuild
    BY <1>5, <2>3 DEF FinishRebuild
  <2> QED
    BY <1>6, <2>1, <2>2, <2>3
    DEF Rebuilding, StopAtGate, EmbedderUnavailable, ListLeaves,
        NothingToRebuild, DropLeftover, CreateTarget, UpsertBatch, CountRows,
        CountMismatch, ParkCanary, FailRebuild, Cleanup
<1>7. CASE Checking
  <2>1. CASE AskQuestions
    BY <1>4, <2>1, StagesMarked DEF AskQuestions
  <2>2. CASE CancelCheck \/ FinishCheck
    BY <1>5, <2>2 DEF CancelCheck, FinishCheck
  <2> QED
    BY <1>7, <2>1, <2>2 DEF Checking, ReadCandidate, RecordVerdict, FailCheck
<1>8. CASE Ingesting
  <2>1. CASE StoreDocument \/ IndexDocument
    BY <1>4, <2>1, StagesMarked DEF StoreDocument, IndexDocument
  <2>2. CASE RegisterDocument
    BY <1>5, <2>2 DEF RegisterDocument
  <2> QED
    BY <1>8, <2>1, <2>2 DEF Ingesting, AbortIngest, UndoDocument, UndoIndex
<1>9. CASE Settle
  BY <1>5, <1>9 DEF Settle
<1>10. CASE UNCHANGED vars
  BY <1>10 DEF vars
<1> QED
  BY <1>2, <1>3, <1>6, <1>7, <1>8, <1>9, <1>10 DEF Next, Claim

\* The row of the job in hand.
Held ==
  pc \in (RebuildPcs \ {"begin"}) \cup {"record", "checked", "index", "register"}
    => IsRunning(jobs, cur)

LEMMA RunningStep ==
  ASSUME TypeOK, ControlInv, RowInv, [Next]_vars
  PROVE  Held'
<1> USE DEF At, Goto, GiveUp, Release, catalog, store, attempt, routes, around,
            worker, RebuildPcs, RowInv, Held
<1>0. jobs \in JobTables /\ (pc # "claim" => cur \in Jobs)
  BY Holding DEF TypeOK
<1>1. CASE Requests
  <2>1. ASSUME NEW j \in Jobs, Submit(j), pc' = pc, cur' = cur
        PROVE  Held'
    <3>1. clock' \in Nat /\ jobs' = CreateJob(jobs, j, clock')
      BY <2>1 DEF Submit, TypeOK
    <3>2. pc # "claim" => cur # j
      BY <2>1, Holding DEF Submit, Exists, Unfinished, Queued, Running
    <3> QED
      BY <1>0, <2>1, <3>1, <3>2, CreateRow DEF IsRunning
  <2>2. ASSUME NEW j \in Jobs, CancelJob(j) PROVE Held'
    <3>1. \A k \in Jobs : jobs'[k].status = jobs[k].status
      BY <1>0, <2>2, RequestCancelRow DEF CancelJob
    <3> QED
      BY <1>0, <2>2, <3>1 DEF CancelJob, IsRunning
  <2>3. ASSUME NEW j \in Jobs, SubmitJob(j) PROVE Held'
    BY <2>1, <2>3 DEF SubmitJob
  <2>4. ASSUME NEW c \in Checks, SubmitCheck(c) PROVE Held'
    BY <2>1, <2>4, JobsAssumption DEF SubmitCheck, ReadCanary, CreateCheck
  <2>5. CASE jobs' = jobs /\ pc' = pc /\ cur' = cur
    BY <2>5
  <2> QED
    BY <1>1, <2>2, <2>3, <2>4, <2>5
    DEF Requests, ReadCanary, CreateCheck, BeginPromotion, AuthorizePromotion, PromoteIndex, NoCanary,
        RetireIndex, BeginDeletion, DeleteRow, DeleteFails, DeleteChunk
<1>2. ASSUME NEW j \in Jobs, Claim(j) PROVE Held'
  BY <1>2 DEF Claim
<1>3. ASSUME NEW j \in Jobs, BackoffElapses(j) PROVE Held'
  <2>1. \A k \in Jobs : jobs'[k].status = jobs[k].status
    BY <1>0, <1>3 DEF BackoffElapses, JobTables, JobRow
  <2> QED
    BY <1>0, <1>3, <2>1 DEF BackoffElapses, IsRunning
<1>4. CASE Rebuilding
  <2>1. CASE BeginRebuild
    BY <2>1, StagesMarked, Marked DEF BeginRebuild
  <2>2. CASE EmbedBatch
    BY <2>2, StagesMarked, Marked DEF EmbedBatch
  <2>3. CASE FinishRebuild
    BY <2>3 DEF FinishRebuild
  <2> QED
    BY <1>4, <2>1, <2>2, <2>3
    DEF Rebuilding, StopAtGate, EmbedderUnavailable, ListLeaves,
        NothingToRebuild, DropLeftover, CreateTarget, UpsertBatch, CountRows,
        CountMismatch, ParkCanary, FailRebuild, Cleanup
<1>5. CASE Checking
  <2>1. CASE AskQuestions
    BY <2>1, StagesMarked, Marked DEF AskQuestions
  <2> QED
    BY <1>5, <2>1
    DEF Checking, ReadCandidate, CancelCheck, RecordVerdict, FinishCheck,
        FailCheck
<1>6. CASE Ingesting
  <2>1. CASE StoreDocument
    BY <2>1, StagesMarked, Marked DEF StoreDocument
  <2>2. CASE IndexDocument
    BY <2>2, StagesMarked, Marked DEF IndexDocument
  <2> QED
    BY <1>6, <2>1, <2>2 DEF Ingesting, RegisterDocument, AbortIngest, UndoDocument, UndoIndex
<1>7. CASE Settle
  BY <1>7 DEF Settle
<1>8. CASE UNCHANGED vars
  BY <1>8 DEF vars
<1> QED
  BY <1>1, <1>2, <1>3, <1>4, <1>5, <1>6, <1>7, <1>8 DEF Next

LEMMA RowStep ==
  ASSUME TypeOK, ControlInv, RowInv, [Next]_vars
  PROVE  RowInv'
<1>1. Held'
  BY RunningStep
<1>2. \A j \in Jobs : Exists(jobs', j) \/ jobs'[j].attempts = 0
  BY FreshStep DEF RowInv
<1> QED
  BY <1>1, <1>2 DEF RowInv, Held

LEMMA LifecycleStep ==
  ASSUME TypeOK, ControlInv, RowInv, [Next]_vars
  PROVE  [Lifecycle!Next]_(Lifecycle!vars)
<1> USE DEF At, Goto, catalog, store, attempt, routes, around, worker
<1>0. jobs \in JobTables /\ jobs' \in JobTables
  BY TypeStep DEF TypeOK
<1>1. CASE Requests
  <2>1. ASSUME NEW j \in Jobs, Submit(j) PROVE Lifecycle!Next
    <3>1. clock' \in Nat /\ jobs' = CreateJob(jobs, j, clock')
      BY <2>1, TypeStep DEF Submit, TypeOK
    <3>2. /\ \A k \in Jobs \ {j} : jobs'[k] = jobs[k]
          /\ jobs'[j].status = "queued" /\ jobs'[j].attempts = 0
      BY <1>0, <3>1, CreateRow DEF Queued
    <3>3. Shown' = [Shown EXCEPT ![j] = "queued"]
      BY <1>0, <3>2, ShownMove DEF Running
    <3>4. jobs[j].status = "absent"
      BY <2>1 DEF Submit, Exists
    <3>5. Shown[j] = "absent"
      BY <3>4 DEF Shown, IsRunning, Running
    <3>6. jobs[j].attempts = 0
      BY <3>4 DEF RowInv, Exists
    <3>7. Spent' = Spent
      BY <1>0, <3>2, <3>6, SpentSame
    <3> QED
      BY <3>3, <3>5, <3>7, Submits
  <2>2. ASSUME NEW j \in Jobs, CancelJob(j)
        PROVE  UNCHANGED Lifecycle!vars
    <3>1. /\ \A k \in Jobs \ {j} : jobs'[k] = jobs[k]
          /\ jobs'[j].status = jobs[j].status
          /\ jobs'[j].attempts = jobs[j].attempts
      BY <1>0, <2>2, RequestCancelRow DEF CancelJob
    <3> QED
      BY <1>0, <3>1, RowOnly
  <2>3. ASSUME NEW j \in Jobs, SubmitJob(j) PROVE Lifecycle!Next
    BY <2>1, <2>3 DEF SubmitJob
  <2>4. ASSUME NEW c \in Checks, SubmitCheck(c) PROVE Lifecycle!Next
    BY <2>1, <2>4, JobsAssumption DEF SubmitCheck, ReadCanary, CreateCheck
  <2>5. CASE UNCHANGED jobs
    BY <2>5, Invisible
  <2> QED
    BY <1>1, <2>2, <2>3, <2>4, <2>5
    DEF Requests, ReadCanary, CreateCheck, BeginPromotion, AuthorizePromotion, PromoteIndex, NoCanary,
        RetireIndex, BeginDeletion, DeleteRow, DeleteFails, DeleteChunk
<1>2. ASSUME NEW j \in Jobs, Claim(j) PROVE UNCHANGED Lifecycle!vars
  BY <1>2, Invisible DEF Claim
<1>3. ASSUME NEW j \in Jobs, BackoffElapses(j) PROVE UNCHANGED Lifecycle!vars
  <2>1. /\ \A k \in Jobs \ {j} : jobs'[k] = jobs[k]
        /\ jobs'[j].status = jobs[j].status
        /\ jobs'[j].attempts = jobs[j].attempts
    BY <1>0, <1>3 DEF BackoffElapses, JobTables, JobRow
  <2> QED
    BY <1>0, <2>1, RowOnly
<1>4. CASE Rebuilding
  <2>1. CASE BeginRebuild
    BY <2>1, StagesMarked, Marked DEF BeginRebuild
  <2>2. CASE EmbedBatch
    BY <2>2, StagesMarked, Marked DEF EmbedBatch
  <2>3. CASE FinishRebuild
    BY <2>3, Done DEF FinishRebuild, RowInv, RebuildPcs
  <2>4. CASE UNCHANGED jobs
    BY <2>4, Invisible
  <2> QED
    BY <1>4, <2>1, <2>2, <2>3, <2>4
    DEF Rebuilding, StopAtGate, EmbedderUnavailable, ListLeaves,
        NothingToRebuild, DropLeftover, CreateTarget, UpsertBatch, CountRows,
        CountMismatch, ParkCanary, FailRebuild, Cleanup
<1>5. CASE Checking
  <2>1. CASE AskQuestions
    BY <2>1, StagesMarked, Marked DEF AskQuestions
  <2>2. CASE CancelCheck
    BY <2>2, Cancelled DEF CancelCheck
  <2>3. CASE FinishCheck
    BY <2>3, Done DEF FinishCheck, RowInv
  <2>4. CASE UNCHANGED jobs
    BY <2>4, Invisible
  <2> QED
    BY <1>5, <2>1, <2>2, <2>3, <2>4
    DEF Checking, ReadCandidate, RecordVerdict, FailCheck
<1>6. CASE Ingesting
  <2>1. CASE StoreDocument
    BY <2>1, StagesMarked, Marked DEF StoreDocument
  <2>2. CASE IndexDocument
    BY <2>2, StagesMarked, Marked DEF IndexDocument
  <2>3. CASE RegisterDocument
    BY <2>3, Done DEF RegisterDocument, RowInv
  <2>4. CASE AbortIngest \/ UndoDocument \/ UndoIndex
    BY <2>4, Invisible DEF AbortIngest, UndoDocument, UndoIndex
  <2> QED
    BY <1>6, <2>1, <2>2, <2>3, <2>4 DEF Ingesting
<1>7. CASE Settle
  BY <1>7, Cancelled, Retried, Failed DEF Settle
<1>8. CASE UNCHANGED vars
  BY <1>8, Invisible DEF vars
<1> QED
  BY <1>1, <1>2, <1>3, <1>4, <1>5, <1>6, <1>7, <1>8 DEF Next

\* To a client that polls, a rebuild, a gate check and an ingest job are jobs of
\* one lifecycle: whichever handler runs, and whatever fails, no row is finished
\* that was not running, none leaves its terminal status, and every return to the
\* queue spends an attempt of the budget.
THEOREM RebuildsFollowLifecycle == Spec => ImplementsLifecycle
<1>1. Init => Lifecycle!Init
  BY DEF Init, NoRow, Shown, Spent, IsRunning, Running, Lifecycle!Init
<1>2. Init => RowInv
  BY DEF Init, RowInv, RebuildPcs, NoRow
<1>3. TypeOK /\ ControlInv /\ RowInv /\ [Next]_vars => RowInv'
  BY RowStep
<1>4. TypeOK /\ ControlInv /\ RowInv /\ [Next]_vars
      => [Lifecycle!Next]_(Lifecycle!vars)
  BY LifecycleStep
<1> QED
  BY <1>1, <1>2, <1>3, <1>4, ControlCorrect, PTL DEF Spec, ImplementsLifecycle
=============================================================================
