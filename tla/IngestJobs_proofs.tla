------------------------- MODULE IngestJobs_proofs -------------------------
(***************************************************************************)
(* Safety of IngestJobs for every set of jobs, every attempt budget and    *)
(* any number of crashes and faults.                                       *)
(***************************************************************************)
EXTENDS IngestJobs, JobTable_proofs, TLAPS

-----------------------------------------------------------------------------
(* Types.                                                                  *)

\* While the worker holds a job, that job is one of Jobs, and its next
\* attempt is within the budget.
LEMMA Holding ==
  ASSUME TypeOK, ControlInv
  PROVE  /\ pc \notin {"claim", "lull", "idle", "next"} => cur \in Jobs
         /\ pc \in AttemptPcs => tries + 1 \in 0 .. MaxAttempts
<1>1. pc \notin {"claim", "lull", "idle", "next"} => cur \in Jobs
  BY DEF TypeOK, ControlInv
<1>2. ASSUME pc \in AttemptPcs PROVE tries + 1 \in 0 .. MaxAttempts
  <2>1. cur \in Jobs
    BY <1>1, <1>2 DEF AttemptPcs, PipelinePcs
  <2>2. tries < MaxAttempts
    BY <1>2, <2>1 DEF ControlInv
  <2> QED
    BY <2>2, MaxAttemptsAssumption DEF TypeOK
<1> QED
  BY <1>1, <1>2

\* Letting go of a job resets the attempt.
LEMMA ReleaseType ==
  ASSUME Release
  PROVE  /\ pc' \in WorkerPcs \cup RecoveryPcs /\ cur' \in Jobs \cup {NoJob}
         /\ stage' \in 0 .. 4 /\ stored' \in BOOLEAN
         /\ tries' \in 0 .. MaxAttempts /\ verdict' \in Verdicts
BY Zero DEF Release, Goto, WorkerPcs, RecoveryPcs, Verdicts

LEMMA TypeInit == Init => TypeOK
<1> SUFFICES ASSUME Init PROVE TypeOK
  OBVIOUS
<1>1. NoRow \in JobRow
  BY Zero DEF NoRow, JobRow, Statuses
<1>2. jobs \in JobTables
  BY <1>1 DEF Init, JobTables
<1>3. /\ submit \in [Jobs -> SubmitPcs] /\ pc \in WorkerPcs /\ verdict \in Verdicts
      /\ phase \in {"serving", "down", "recovering"}
  BY DEF Init, SubmitPcs, WorkerPcs, Verdicts
<1>4. stage \in 0 .. 4 /\ tries \in 0 .. MaxAttempts /\ clock \in Nat
  BY Zero DEF Init
<1>5. crashes \in 0 .. MaxCrashes /\ faults \in 0 .. MaxFaults
  BY BoundAssumption DEF Init
<1>6. /\ docs \subseteq Jobs /\ registry \subseteq Jobs /\ index \subseteq Jobs
      /\ artifacts \subseteq Jobs /\ spool \subseteq Jobs
      /\ originals \subseteq Digests /\ todo \subseteq Jobs
      /\ acked \subseteq Jobs /\ unsettled \subseteq Jobs
  BY DEF Init
<1>7. event \in BOOLEAN /\ stored \in BOOLEAN /\ cur \in Jobs \cup {NoJob}
  BY DEF Init
<1> QED
  BY <1>2, <1>3, <1>4, <1>5, <1>6, <1>7 DEF TypeOK

LEMMA TypeStep ==
  ASSUME TypeOK, ControlInv, [Next]_vars
  PROVE  TypeOK'
<1> USE DEF TypeOK, At, Goto, disk, attempt, around, WorkerPcs, RecoveryPcs,
            PipelinePcs, UndoPcs, Verdicts
<1>1. ASSUME NEW j \in Jobs, Submission(j) PROVE TypeOK'
  <2>1. CASE SpoolUpload(j)
    BY <2>1 DEF SpoolUpload, SubmitStep, SubmitPcs
  <2>2. CASE InsertRow(j)
    BY <2>2, CreateType, MaxAttemptsAssumption DEF InsertRow, SubmitStep, SubmitPcs
  <2>3. CASE InsertRowFails(j)
    BY <2>3, BoundAssumption DEF InsertRowFails, SubmitStep, SubmitPcs, Fault
  <2>4. CASE WakeWorker(j)
    BY <2>4 DEF WakeWorker, SubmitStep, SubmitPcs
  <2> QED
    BY <1>1, <2>1, <2>2, <2>3, <2>4 DEF Submission
<1>2. ASSUME NEW j \in Jobs, CancelJob(j) PROVE TypeOK'
  BY <1>2, RequestCancelType, MaxAttemptsAssumption DEF CancelJob
<1>3. CASE WorkerLoop
  <2>1. ASSUME NEW j \in Jobs, Claim(j) PROVE TypeOK'
    BY <2>1, RowType DEF Claim
  <2>2. CASE NothingToClaim BY <2>2 DEF NothingToClaim
  <2>3. CASE ClaimFails BY <2>3, BoundAssumption DEF ClaimFails, Fault
  <2>4. CASE StopIdling BY <2>4 DEF StopIdling
  <2>8. CASE StartIdling BY <2>8 DEF StartIdling
  <2>5. CASE LoadInputs BY <2>5 DEF LoadInputs
  <2>6. CASE InputsUnreadable
    BY <2>6, FailType, RowType, Holding DEF InputsUnreadable
  <2>7. CASE EmbedderUnavailable BY <2>7 DEF EmbedderUnavailable
  <2> QED
    BY <1>3, <2>1, <2>2, <2>3, <2>4, <2>5, <2>6, <2>7, <2>8 DEF WorkerLoop
<1>4. CASE Pipeline
  <2>1. CASE PassGate BY <2>1 DEF PassGate
  <2>2. CASE StopAtGate BY <2>2 DEF StopAtGate, Undo
  <2>3. CASE MarkStage
    <3>1. Stages[stage] \in Running
      BY <2>3 DEF MarkStage, ControlInv, Stages, Running
    <3> QED
      BY <2>3, <3>1, MarkType, Holding, MaxAttemptsAssumption DEF MarkStage
  <2>4. CASE Parse BY <2>4, Holding DEF Parse
  <2>5. CASE Chunk BY <2>5 DEF Chunk
  <2>6. CASE ChunkEmpty
    BY <2>6, BoundAssumption DEF ChunkEmpty, DropArtifacts, Fault
  <2>7. CASE Embed BY <2>7 DEF Embed
  <2>8. CASE StoreDocument BY <2>8, Holding DEF StoreDocument
  <2>9. CASE Upsert BY <2>9, Holding DEF Upsert
  <2>10. CASE RecordIndexes BY <2>10, Holding DEF RecordIndexes
  <2>11. CASE Finish
    BY <2>11, FinishType, Holding, MaxAttemptsAssumption DEF Finish
  <2>12. CASE PromoteUpload
    BY <2>12, Holding, DigestAssumption, ReleaseType DEF PromoteUpload
  <2>13. CASE PromoteFails
    BY <2>13, BoundAssumption, ReleaseType DEF PromoteFails, Fault
  <2> QED
    BY <1>4, <2>1, <2>2, <2>3, <2>4, <2>5, <2>6, <2>7, <2>8, <2>9, <2>10,
       <2>11, <2>12, <2>13 DEF Pipeline
<1>5. CASE Failure
  <2>1. CASE FailAttempt BY <2>1, Holding DEF FailAttempt, Undo
  <2>2. CASE RefuseAttempt BY <2>2 DEF RefuseAttempt, Undo
  <2>3. CASE UndoDocument
    BY <2>3, BoundAssumption DEF UndoDocument, Fault
  <2>4. CASE UndoIndex BY <2>4, BoundAssumption DEF UndoIndex, Fault
  <2>5. CASE UndoFiles
    BY <2>5, BoundAssumption DEF UndoFiles, DropArtifacts, Fault
  <2>6. CASE SettleCancel
    BY <2>6, MarkCancelledType, Holding, MaxAttemptsAssumption DEF SettleCancel
  <2>7. CASE SettleRetry
    BY <2>7, RequeueType, Holding, ReleaseType
    DEF SettleRetry, AttemptPcs
  <2>8. CASE SettleFail
    BY <2>8, FailType, Holding DEF SettleFail, AttemptPcs
  <2>9. CASE SettleErrs
    <3>1. unsettled' \subseteq Jobs
      BY <2>9, Holding DEF SettleErrs, LeaveUnsettled, AttemptPcs
    <3> QED
      BY <2>9, <3>1, BoundAssumption, ReleaseType DEF SettleErrs, Undo, Fault
  <2>10. CASE DiscardSpool
    BY <2>10, BoundAssumption, ReleaseType DEF DiscardSpool, Fault
  <2> QED
    BY <1>5, <2>1, <2>2, <2>3, <2>4, <2>5, <2>6, <2>7, <2>8, <2>9, <2>10
    DEF Failure
<1>6. CASE Crash
  <2>1. /\ pc' \in RecoveryPcs /\ cur' \in Jobs \cup {NoJob} /\ stage' \in 0 .. 4
        /\ stored' \in BOOLEAN /\ tries' \in 0 .. MaxAttempts
        /\ verdict' \in Verdicts
    BY <1>6, Zero DEF Crash
  <2>2. submit' \in [Jobs -> SubmitPcs]
    BY <1>6 DEF Crash, SubmitPcs
  <2>3. crashes' \in 0 .. MaxCrashes
    BY <1>6, BoundAssumption DEF Crash
  <2> QED
    BY <1>6, <2>1, <2>2, <2>3 DEF Crash
<1>7. CASE Recovery
  <2>1. CASE Restart BY <2>1 DEF Restart, FindInterrupted
  <2>2. CASE RestartUnrecovered
    BY <2>2, BoundAssumption DEF RestartUnrecovered, Fault, LeaveUnsettled
  <2>3. CASE StartServing BY <2>3 DEF StartServing
  <2>4. ASSUME NEW j \in Jobs, RecoverRow(j) PROVE TypeOK'
    BY <2>4, RowType DEF RecoverRow
  <2>5. CASE RecoverMissingSpool
    BY <2>5, FailType, RowType, Holding DEF RecoverMissingSpool
  <2>6. CASE RecoverCancelled
    BY <2>6, MarkCancelledType, Holding, MaxAttemptsAssumption DEF RecoverCancelled
  <2>7. CASE RecoverExhausted
    BY <2>7, FailType, Holding DEF RecoverExhausted, AttemptPcs
  <2>8. CASE RecoverRequeue
    BY <2>8, RequeueType, Holding, ReleaseType
    DEF RecoverRequeue, AttemptPcs
  <2>9. CASE RecoveryErrs
    <3>1. /\ pc' \in WorkerPcs /\ cur' \in Jobs \cup {NoJob} /\ stage' \in 0 .. 4
          /\ stored' \in BOOLEAN /\ tries' \in 0 .. MaxAttempts
          /\ verdict' \in Verdicts
      BY <2>9, Zero DEF RecoveryErrs
    <3>2. faults' \in 0 .. MaxFaults
      BY <2>9, BoundAssumption DEF RecoveryErrs, Fault
    <3>3. unsettled' \subseteq Jobs
      BY <2>9, Holding DEF RecoveryErrs, LeaveUnsettled, AttemptPcs
    <3> QED
      BY <2>9, <3>1, <3>2, <3>3 DEF RecoveryErrs
  <2> QED
    BY <1>7, <2>1, <2>2, <2>3, <2>4, <2>5, <2>6, <2>7, <2>8, <2>9 DEF Recovery
<1>8. ASSUME NEW j \in Jobs, BackoffElapses(j) PROVE TypeOK'
  BY <1>8 DEF BackoffElapses, JobTables, JobRow
<1>9. ASSUME NEW j \in Jobs, LoseSpool(j) PROVE TypeOK'
  BY <1>9, BoundAssumption DEF LoseSpool, Fault
<1>10. CASE UNCHANGED vars
  BY <1>10 DEF vars
<1> QED
  BY <1>1, <1>2, <1>3, <1>4, <1>5, <1>6, <1>7, <1>8, <1>9, <1>10 DEF Next

-----------------------------------------------------------------------------
(* Control: where the worker is, and what its row looks like.              *)

LEMMA StageRunning ==
  ASSUME TypeOK, ControlInv, pc = "mark"
  PROVE  Stages[stage] \in Running
BY DEF TypeOK, ControlInv, Stages, Running, PipelinePcs

LEMMA ControlStep ==
  ASSUME TypeOK, ControlInv, [Next]_vars
  PROVE  ControlInv'
<1> USE NoJobAssumption DEF TypeOK, ControlInv, At, Goto, disk, attempt, around,
      WorkerPcs, RecoveryPcs, PipelinePcs, UndoPcs, AttemptPcs, Verdicts, vars,
      Exists, IsTerminal, IsRunning, Unfinished, Queued, Running, Terminal
<1>1. ASSUME NEW j \in Jobs, Submission(j) PROVE ControlInv'
  <2>1. CASE SpoolUpload(j)
    BY <2>1, Holding
    DEF SpoolUpload, SubmitStep
  <2>2. CASE InsertRow(j)
    BY <2>2, Holding, CreateRow, MaxAttemptsAssumption
    DEF InsertRow, SubmitStep
  <2>3. CASE InsertRowFails(j)
    BY <2>3, Holding
    DEF InsertRowFails, SubmitStep, Fault
  <2>4. CASE WakeWorker(j)
    BY <2>4, Holding
    DEF WakeWorker, SubmitStep
  <2> QED
    BY <1>1, <2>1, <2>2, <2>3, <2>4 DEF Submission
<1>2. ASSUME NEW j \in Jobs, CancelJob(j) PROVE ControlInv'
  BY <1>2, Holding, RequestCancelRow
  DEF CancelJob, CanRequestCancel
<1>3. CASE WorkerLoop
  <2>1. ASSUME NEW j \in Jobs, Claim(j) PROVE ControlInv'
    BY <2>1, Holding
    DEF Claim, ClaimNextQueued, IsOldest, Claimable
  <2>2. CASE NothingToClaim
    BY <2>2, Holding
    DEF NothingToClaim
  <2>3. CASE ClaimFails
    BY <2>3, Holding
    DEF ClaimFails
  <2>4. CASE StopIdling
    BY <2>4, Holding
    DEF StopIdling
  <2>8. CASE StartIdling
    BY <2>8, Holding
    DEF StartIdling
  <2>5. CASE LoadInputs
    BY <2>5, Holding
    DEF LoadInputs
  <2>6. CASE InputsUnreadable
    BY <2>6, Holding, FailRow, RowType
    DEF InputsUnreadable
  <2>7. CASE EmbedderUnavailable
    BY <2>7, Holding
    DEF EmbedderUnavailable
  <2> QED
    BY <1>3, <2>1, <2>2, <2>3, <2>4, <2>5, <2>6, <2>7, <2>8 DEF WorkerLoop
<1>4. CASE Pipeline
  <2>1. CASE PassGate
    BY <2>1, Holding
    DEF PassGate
  <2>2. CASE StopAtGate
    BY <2>2, Holding
    DEF StopAtGate, Undo
  <2>3. CASE MarkStage
    BY <2>3, Holding, StageRunning, MarkRow
    DEF MarkStage
  <2>4. CASE Parse
    BY <2>4, Holding
    DEF Parse
  <2>5. CASE Chunk
    BY <2>5, Holding
    DEF Chunk
  <2>6. CASE ChunkEmpty
    BY <2>6, Holding
    DEF ChunkEmpty, DropArtifacts
  <2>7. CASE Embed
    BY <2>7, Holding
    DEF Embed
  <2>8. CASE StoreDocument
    BY <2>8, Holding
    DEF StoreDocument
  <2>9. CASE Upsert
    BY <2>9, Holding
    DEF Upsert
  <2>10. CASE RecordIndexes
    BY <2>10, Holding
    DEF RecordIndexes
  <2>11. CASE Finish
    BY <2>11, Holding, FinishRow
    DEF Finish
  <2>12. CASE PromoteUpload
    BY <2>12, Holding
    DEF PromoteUpload, Release
  <2>13. CASE PromoteFails
    BY <2>13, Holding
    DEF PromoteFails, Release
  <2> QED
    BY <1>4, <2>1, <2>2, <2>3, <2>4, <2>5, <2>6, <2>7, <2>8, <2>9, <2>10,
       <2>11, <2>12, <2>13 DEF Pipeline
<1>5. CASE Failure
  <2>1. CASE FailAttempt
    BY <2>1, Holding
    DEF FailAttempt, Undo
  <2>2. CASE RefuseAttempt
    BY <2>2, Holding
    DEF RefuseAttempt, Undo
  <2>3. CASE UndoDocument
    BY <2>3, Holding
    DEF UndoDocument
  <2>4. CASE UndoIndex
    BY <2>4, Holding
    DEF UndoIndex
  <2>5. CASE UndoFiles
    BY <2>5, Holding
    DEF UndoFiles, DropArtifacts
  <2>6. CASE SettleCancel
    BY <2>6, Holding, MarkCancelledRow
    DEF SettleCancel
  <2>7. CASE SettleRetry
    <3> DEFINE t == RequeueJob(jobs, cur, tries + 1, TRUE)
    <3>1. /\ jobs \in JobTables /\ cur \in Jobs
          /\ tries + 1 \in 0 .. MaxAttempts /\ TRUE \in BOOLEAN
      BY <2>7, Holding DEF SettleRetry
    <3>2. /\ \A k \in Jobs \ {cur} : t[k] = jobs[k]
          /\ t[cur].status = Queued /\ t[cur].attempts = tries + 1
      BY <3>1 DEF t, RequeueJob, JobTables, JobRow
    <3>3. jobs' = t /\ tries + 1 < MaxAttempts
      BY <2>7 DEF SettleRetry
    <3> HIDE DEF t
    <3>4. /\ cur' = NoJob /\ pc' = "claim" /\ verdict' = "none"
          /\ UNCHANGED <<phase, submit, todo>> /\ phase = "serving"
      BY <2>7 DEF SettleRetry, Release
    <3>5. \A j \in todo : IsRunning(jobs, j) /\ j # cur
      OBVIOUS
    <3>6. \A j \in Jobs :
            /\ t[j].parked => t[j].status = Queued
            /\ submit[j] \in {"new", "spooled", "rejected"} => ~ Exists(t, j)
            /\ Unfinished(t, j) => t[j].attempts < MaxAttempts
      BY <2>7, <3>1, <3>2, <3>3 DEF SettleRetry
    <3> QED
      BY <3>1, <3>2, <3>3, <3>4, <3>5, <3>6
  <2>8. CASE SettleFail
    BY <2>8, Holding, FailRow
    DEF SettleFail
  <2>9. CASE SettleErrs
    BY <2>9, Holding
    DEF SettleErrs, Release, Undo
  <2>10. CASE DiscardSpool
    BY <2>10, Holding
    DEF DiscardSpool, Release
  <2> QED
    BY <1>5, <2>1, <2>2, <2>3, <2>4, <2>5, <2>6, <2>7, <2>8, <2>9, <2>10 DEF Failure
<1>6. CASE Crash
  BY <1>6, Holding
  DEF Crash
<1>7. CASE Recovery
  <2>1. CASE Restart
    BY <2>1, Holding
    DEF Restart, FindInterrupted
  <2>2. CASE RestartUnrecovered
    BY <2>2, Holding
    DEF RestartUnrecovered
  <2>3. CASE StartServing
    BY <2>3, Holding
    DEF StartServing
  <2>4. ASSUME NEW j \in Jobs, RecoverRow(j) PROVE ControlInv'
    BY <2>4, Holding
    DEF RecoverRow, IsOldest
  <2>5. CASE RecoverMissingSpool
    BY <2>5, Holding, FailRow, RowType
    DEF RecoverMissingSpool
  <2>6. CASE RecoverCancelled
    BY <2>6, Holding, MarkCancelledRow
    DEF RecoverCancelled
  <2>7. CASE RecoverExhausted
    BY <2>7, Holding, FailRow
    DEF RecoverExhausted
  <2>8. CASE RecoverRequeue
    <3> DEFINE t == RequeueJob(jobs, cur, tries + 1, FALSE)
    <3>1. /\ jobs \in JobTables /\ cur \in Jobs
          /\ tries + 1 \in 0 .. MaxAttempts /\ FALSE \in BOOLEAN
      BY <2>8, Holding DEF RecoverRequeue
    <3>2. /\ \A k \in Jobs \ {cur} : t[k] = jobs[k]
          /\ t[cur].status = Queued /\ t[cur].attempts = tries + 1
      BY <3>1 DEF t, RequeueJob, JobTables, JobRow
    <3>3. jobs' = t /\ tries + 1 < MaxAttempts
      BY <2>8 DEF RecoverRequeue
    <3> HIDE DEF t
    <3>4. /\ cur' = NoJob /\ pc' = "next" /\ verdict' = "none"
          /\ UNCHANGED <<phase, submit, todo>> /\ phase = "recovering"
      BY <2>8 DEF RecoverRequeue, Release
    <3>5. \A j \in todo : IsRunning(jobs, j) /\ j # cur
      OBVIOUS
    <3>6. \A j \in Jobs :
            /\ t[j].parked => t[j].status = Queued
            /\ submit[j] \in {"new", "spooled", "rejected"} => ~ Exists(t, j)
            /\ Unfinished(t, j) => t[j].attempts < MaxAttempts
      BY <2>8, <3>1, <3>2, <3>3 DEF RecoverRequeue
    <3> QED
      BY <3>1, <3>2, <3>3, <3>4, <3>5, <3>6
  <2>9. CASE RecoveryErrs
    BY <2>9, Holding
    DEF RecoveryErrs
  <2> QED
    BY <1>7, <2>1, <2>2, <2>3, <2>4, <2>5, <2>6, <2>7, <2>8, <2>9 DEF Recovery
<1>8. ASSUME NEW j \in Jobs, BackoffElapses(j) PROVE ControlInv'
  BY <1>8, Holding
  DEF BackoffElapses, JobTables, JobRow
<1>9. ASSUME NEW j \in Jobs, LoseSpool(j) PROVE ControlInv'
  BY <1>9, Holding
  DEF LoseSpool
<1>10. CASE UNCHANGED vars
  BY <1>10, Holding
  DEF vars
<1> QED
  BY <1>1, <1>2, <1>3, <1>4, <1>5, <1>6, <1>7, <1>8, <1>9, <1>10 DEF Next

LEMMA ControlInit == Init => ControlInv
BY DEF Init, ControlInv, AttemptPcs, PipelinePcs, UndoPcs, NoRow, Exists,
       IsRunning, Unfinished, Queued, Running

-----------------------------------------------------------------------------
(* Theorems that hold whatever fails and however often.                    *)

\* The two invariants are inductive together: types need control, because an
\* attempt is only counted while the worker holds a job with attempts left.
THEOREM ControlCorrect == Spec => [](TypeOK /\ ControlInv)
<1>1. Init => TypeOK /\ ControlInv
  BY TypeInit, ControlInit
<1>2. TypeOK /\ ControlInv /\ [Next]_vars => (TypeOK /\ ControlInv)'
  BY TypeStep, ControlStep
<1> QED
  BY <1>1, <1>2, PTL DEF Spec

\* Every variable of the job machinery keeps its type.
THEOREM TypeCorrect == Spec => []TypeOK
BY ControlCorrect, PTL

\* No job is attempted more often than max_attempts, and the worker's count is
\* never a stale one, whatever crashes and faults happen: the count it writes
\* back when it settles an attempt is the row's own plus one.
THEOREM BudgetKept == Spec => []AttemptsInBudget
<1>1. TypeOK /\ ControlInv => AttemptsInBudget
  BY DEF TypeOK, ControlInv, AttemptsInBudget, AttemptPcs, PipelinePcs, UndoPcs,
         WorkerPcs, RecoveryPcs, Unfinished, IsTerminal, Queued, Running, Terminal
<1> QED
  BY <1>1, ControlCorrect, PTL

LEMMA TerminalStep ==
  ASSUME TypeOK, ControlInv, [Next]_vars
  PROVE  \A k \in Jobs : IsTerminal(jobs, k) => jobs'[k] = jobs[k]
<1> DEFINE Stay == \A k \in Jobs : IsTerminal(jobs, k) => jobs'[k] = jobs[k]
<1> USE DEF TypeOK, ControlInv, At, AttemptPcs, PipelinePcs, UndoPcs, around,
        Exists, IsTerminal, IsRunning, Unfinished, Queued, Running, Terminal
<1>1. ASSUME NEW j \in Jobs, Submission(j) PROVE Stay
  <2>1. CASE SpoolUpload(j)
    BY <2>1 DEF SpoolUpload
  <2>2. CASE InsertRow(j)
    BY <2>2, Holding, CreateRow
    DEF InsertRow, SubmitStep
  <2>3. CASE InsertRowFails(j)
    BY <2>3 DEF InsertRowFails
  <2>4. CASE WakeWorker(j)
    BY <2>4 DEF WakeWorker
  <2> QED
    BY <1>1, <2>1, <2>2, <2>3, <2>4 DEF Submission
<1>2. ASSUME NEW j \in Jobs, CancelJob(j) PROVE Stay
  BY <1>2, Holding, RequestCancelRow
  DEF CancelJob, CanRequestCancel
<1>3. CASE WorkerLoop
  <2>1. ASSUME NEW j \in Jobs, Claim(j) PROVE Stay
    BY <2>1 DEF Claim
  <2>2. CASE NothingToClaim
    BY <2>2 DEF NothingToClaim
  <2>3. CASE ClaimFails
    BY <2>3 DEF ClaimFails
  <2>4. CASE StopIdling
    BY <2>4 DEF StopIdling
  <2>8. CASE StartIdling
    BY <2>8 DEF StartIdling
  <2>5. CASE LoadInputs
    BY <2>5 DEF LoadInputs
  <2>6. CASE InputsUnreadable
    BY <2>6, Holding, FailRow, RowType
    DEF InputsUnreadable
  <2>7. CASE EmbedderUnavailable
    BY <2>7 DEF EmbedderUnavailable
  <2> QED
    BY <1>3, <2>1, <2>2, <2>3, <2>4, <2>5, <2>6, <2>7, <2>8 DEF WorkerLoop
<1>4. CASE Pipeline
  <2>1. CASE PassGate
    BY <2>1 DEF PassGate
  <2>2. CASE StopAtGate
    BY <2>2 DEF StopAtGate
  <2>3. CASE MarkStage
    BY <2>3, Holding, StageRunning, MarkRow
    DEF MarkStage
  <2>4. CASE Parse
    BY <2>4 DEF Parse
  <2>5. CASE Chunk
    BY <2>5 DEF Chunk
  <2>6. CASE ChunkEmpty
    BY <2>6 DEF ChunkEmpty
  <2>7. CASE Embed
    BY <2>7 DEF Embed
  <2>8. CASE StoreDocument
    BY <2>8 DEF StoreDocument
  <2>9. CASE Upsert
    BY <2>9 DEF Upsert
  <2>10. CASE RecordIndexes
    BY <2>10 DEF RecordIndexes
  <2>11. CASE Finish
    BY <2>11, Holding, FinishRow
    DEF Finish
  <2>12. CASE PromoteUpload
    BY <2>12 DEF PromoteUpload
  <2>13. CASE PromoteFails
    BY <2>13 DEF PromoteFails
  <2> QED
    BY <1>4, <2>1, <2>2, <2>3, <2>4, <2>5, <2>6, <2>7, <2>8, <2>9, <2>10,
       <2>11, <2>12, <2>13 DEF Pipeline
<1>5. CASE Failure
  <2>1. CASE FailAttempt
    BY <2>1 DEF FailAttempt
  <2>2. CASE RefuseAttempt
    BY <2>2 DEF RefuseAttempt
  <2>3. CASE UndoDocument
    BY <2>3 DEF UndoDocument
  <2>4. CASE UndoIndex
    BY <2>4 DEF UndoIndex
  <2>5. CASE UndoFiles
    BY <2>5 DEF UndoFiles
  <2>6. CASE SettleCancel
    BY <2>6, Holding, MarkCancelledRow
    DEF SettleCancel
  <2>7. CASE SettleRetry
    BY <2>7, Holding
    DEF SettleRetry, RequeueJob, JobTables, JobRow
  <2>8. CASE SettleFail
    BY <2>8, Holding, FailRow
    DEF SettleFail
  <2>9. CASE SettleErrs
    BY <2>9 DEF SettleErrs
  <2>10. CASE DiscardSpool
    BY <2>10 DEF DiscardSpool
  <2> QED
    BY <1>5, <2>1, <2>2, <2>3, <2>4, <2>5, <2>6, <2>7, <2>8, <2>9, <2>10 DEF Failure
<1>6. CASE Crash
  BY <1>6 DEF Crash
<1>7. CASE Recovery
  <2>1. CASE Restart
    BY <2>1 DEF Restart
  <2>2. CASE RestartUnrecovered
    BY <2>2 DEF RestartUnrecovered
  <2>3. CASE StartServing
    BY <2>3 DEF StartServing
  <2>4. ASSUME NEW j \in Jobs, RecoverRow(j) PROVE Stay
    BY <2>4 DEF RecoverRow
  <2>5. CASE RecoverMissingSpool
    BY <2>5, Holding, FailRow, RowType
    DEF RecoverMissingSpool
  <2>6. CASE RecoverCancelled
    BY <2>6, Holding, MarkCancelledRow
    DEF RecoverCancelled
  <2>7. CASE RecoverExhausted
    BY <2>7, Holding, FailRow
    DEF RecoverExhausted
  <2>8. CASE RecoverRequeue
    BY <2>8, Holding
    DEF RecoverRequeue, RequeueJob, JobTables, JobRow
  <2>9. CASE RecoveryErrs
    BY <2>9 DEF RecoveryErrs
  <2> QED
    BY <1>7, <2>1, <2>2, <2>3, <2>4, <2>5, <2>6, <2>7, <2>8, <2>9 DEF Recovery
<1>8. ASSUME NEW j \in Jobs, BackoffElapses(j) PROVE Stay
  BY <1>8, Holding
  DEF BackoffElapses, JobTables, JobRow
<1>9. ASSUME NEW j \in Jobs, LoseSpool(j) PROVE Stay
  BY <1>9 DEF LoseSpool
<1>10. CASE UNCHANGED vars
  BY <1>10 DEF vars
<1> QED
  BY <1>1, <1>2, <1>3, <1>4, <1>5, <1>6, <1>7, <1>8, <1>9, <1>10 DEF Next

\* "From any of these the job never moves again."
THEOREM TerminalForever == Spec => TerminalStays
<1>1. TypeOK /\ ControlInv /\ [Next]_vars =>
        [\A j \in Jobs : IsTerminal(jobs, j) => jobs'[j] = jobs[j]]_vars
  BY TerminalStep
<1> QED
  BY <1>1, ControlCorrect, PTL DEF Spec, TerminalStays

-----------------------------------------------------------------------------
(* The upload.                                                             *)

LEMMA SpoolStep ==
  ASSUME "spool" \notin Faults, TypeOK, ControlInv, SpoolInv, [Next]_vars
  PROVE  SpoolInv'
<1> USE NoJobAssumption DEF TypeOK, ControlInv, At, Goto, disk, attempt, around,
        WorkerPcs, RecoveryPcs, PipelinePcs, UndoPcs, AttemptPcs, vars,
        Exists, IsTerminal, IsRunning, Unfinished, Queued, Running, Terminal, SpoolInv,
        SpoolHeld
<1>1. ASSUME NEW j \in Jobs, Submission(j) PROVE SpoolInv'
  <2>1. CASE SpoolUpload(j)
    BY <2>1, Holding
    DEF SpoolUpload, SubmitStep
  <2>2. CASE InsertRow(j)
    BY <2>2, Holding, CreateRow
    DEF InsertRow, SubmitStep
  <2>3. CASE InsertRowFails(j)
    BY <2>3, Holding
    DEF InsertRowFails, SubmitStep, Fault
  <2>4. CASE WakeWorker(j)
    BY <2>4, Holding
    DEF WakeWorker, SubmitStep
  <2> QED
    BY <1>1, <2>1, <2>2, <2>3, <2>4 DEF Submission
<1>2. ASSUME NEW j \in Jobs, CancelJob(j) PROVE SpoolInv'
  BY <1>2, Holding, RequestCancelRow
  DEF CancelJob, CanRequestCancel
<1>3. CASE WorkerLoop
  <2>1. ASSUME NEW j \in Jobs, Claim(j) PROVE SpoolInv'
    BY <2>1, Holding
    DEF Claim, ClaimNextQueued, IsOldest, Claimable
  <2>2. CASE NothingToClaim
    BY <2>2, Holding
    DEF NothingToClaim
  <2>3. CASE ClaimFails
    BY <2>3, Holding
    DEF ClaimFails
  <2>4. CASE StopIdling
    BY <2>4, Holding
    DEF StopIdling
  <2>8. CASE StartIdling
    BY <2>8, Holding
    DEF StartIdling
  <2>5. CASE LoadInputs
    BY <2>5, Holding
    DEF LoadInputs
  <2>6. CASE InputsUnreadable
    BY <2>6, Holding, FailRow, RowType
    DEF InputsUnreadable
  <2>7. CASE EmbedderUnavailable
    BY <2>7, Holding
    DEF EmbedderUnavailable
  <2> QED
    BY <1>3, <2>1, <2>2, <2>3, <2>4, <2>5, <2>6, <2>7, <2>8 DEF WorkerLoop
<1>4. CASE Pipeline
  <2>1. CASE PassGate
    BY <2>1, Holding
    DEF PassGate
  <2>2. CASE StopAtGate
    BY <2>2, Holding
    DEF StopAtGate, Undo
  <2>3. CASE MarkStage
    BY <2>3, Holding, StageRunning, MarkRow
    DEF MarkStage
  <2>4. CASE Parse
    BY <2>4, Holding
    DEF Parse
  <2>5. CASE Chunk
    BY <2>5, Holding
    DEF Chunk
  <2>6. CASE ChunkEmpty
    BY <2>6, Holding
    DEF ChunkEmpty, DropArtifacts, Fault
  <2>7. CASE Embed
    BY <2>7, Holding
    DEF Embed
  <2>8. CASE StoreDocument
    BY <2>8, Holding
    DEF StoreDocument
  <2>9. CASE Upsert
    BY <2>9, Holding
    DEF Upsert
  <2>10. CASE RecordIndexes
    BY <2>10, Holding
    DEF RecordIndexes
  <2>11. CASE Finish
    BY <2>11, Holding, FinishRow
    DEF Finish
  <2>12. CASE PromoteUpload
    BY <2>12, Holding
    DEF PromoteUpload, Release
  <2>13. CASE PromoteFails
    BY <2>13, Holding
    DEF PromoteFails, Release
  <2> QED
    BY <1>4, <2>1, <2>2, <2>3, <2>4, <2>5, <2>6, <2>7, <2>8, <2>9, <2>10,
       <2>11, <2>12, <2>13 DEF Pipeline
<1>5. CASE Failure
  <2>1. CASE FailAttempt
    BY <2>1, Holding
    DEF FailAttempt, Undo
  <2>2. CASE RefuseAttempt
    BY <2>2, Holding
    DEF RefuseAttempt, Undo
  <2>3. CASE UndoDocument
    BY <2>3, Holding
    DEF UndoDocument, Fault
  <2>4. CASE UndoIndex
    BY <2>4, Holding
    DEF UndoIndex, Fault
  <2>5. CASE UndoFiles
    BY <2>5, Holding
    DEF UndoFiles, DropArtifacts, Fault
  <2>6. CASE SettleCancel
    BY <2>6, Holding, MarkCancelledRow
    DEF SettleCancel
  <2>7. CASE SettleRetry
    BY <2>7, Holding
    DEF SettleRetry, RequeueJob, JobTables, JobRow, Release
  <2>8. CASE SettleFail
    BY <2>8, Holding, FailRow
    DEF SettleFail
  <2>9. CASE SettleErrs
    BY <2>9, Holding
    DEF SettleErrs, Undo, Release, Fault
  <2>10. CASE DiscardSpool
    BY <2>10, Holding
    DEF DiscardSpool, Release, Fault
  <2> QED
    BY <1>5, <2>1, <2>2, <2>3, <2>4, <2>5, <2>6, <2>7, <2>8, <2>9, <2>10 DEF Failure
<1>6. CASE Crash
  BY <1>6, Holding
  DEF Crash
<1>7. CASE Recovery
  <2>1. CASE Restart
    BY <2>1, Holding
    DEF Restart, FindInterrupted
  <2>2. CASE RestartUnrecovered
    BY <2>2, Holding
    DEF RestartUnrecovered, Fault
  <2>3. CASE StartServing
    BY <2>3, Holding
    DEF StartServing
  <2>4. ASSUME NEW j \in Jobs, RecoverRow(j) PROVE SpoolInv'
    BY <2>4, Holding
    DEF RecoverRow, IsOldest
  <2>5. CASE RecoverMissingSpool
    BY <2>5, Holding, FailRow, RowType
    DEF RecoverMissingSpool
  <2>6. CASE RecoverCancelled
    BY <2>6, Holding, MarkCancelledRow
    DEF RecoverCancelled
  <2>7. CASE RecoverExhausted
    BY <2>7, Holding, FailRow
    DEF RecoverExhausted
  <2>8. CASE RecoverRequeue
    BY <2>8, Holding
    DEF RecoverRequeue, RequeueJob, JobTables, JobRow, Release
  <2>9. CASE RecoveryErrs
    BY <2>9, Holding
    DEF RecoveryErrs, Fault
  <2> QED
    BY <1>7, <2>1, <2>2, <2>3, <2>4, <2>5, <2>6, <2>7, <2>8, <2>9 DEF Recovery
<1>8. ASSUME NEW j \in Jobs, BackoffElapses(j) PROVE SpoolInv'
  BY <1>8, Holding
  DEF BackoffElapses, JobTables, JobRow
<1>9. ASSUME NEW j \in Jobs, LoseSpool(j) PROVE SpoolInv'
  BY <1>9, Holding
  DEF LoseSpool, Fault
<1>10. CASE UNCHANGED vars
  BY <1>10, Holding
  DEF vars
<1> QED
  BY <1>1, <1>2, <1>3, <1>4, <1>5, <1>6, <1>7, <1>8, <1>9, <1>10 DEF Next

\* As long as nobody else deletes files from the spool, a job that has not
\* ended has its upload, whatever crashes and other faults happen.
THEOREM UploadHeld ==
  ASSUME "spool" \notin Faults
  PROVE  Spec => []SpoolHeld
<1>1. Init => SpoolInv
  BY DEF Init, SpoolInv, SpoolHeld, NoRow, Unfinished, Queued, Running
<1>2. TypeOK /\ ControlInv /\ SpoolInv /\ [Next]_vars => SpoolInv'
  BY SpoolStep
<1>3. SpoolInv => SpoolHeld
  BY DEF SpoolInv
<1> QED
  BY <1>1, <1>2, <1>3, ControlCorrect, PTL DEF Spec

-----------------------------------------------------------------------------
(* Rows in a stage.                                                        *)

LEMMA StageStep ==
  ASSUME "settle" \notin Faults, TypeOK, ControlInv, StageInv, [Next]_vars
  PROVE  StageInv'
<1> USE NoJobAssumption DEF TypeOK, ControlInv, At, Goto, disk, attempt, around,
        WorkerPcs, RecoveryPcs, PipelinePcs, UndoPcs, AttemptPcs, vars,
        Exists, IsTerminal, IsRunning, Unfinished, Queued, Running, Terminal, StageInv
<1>1. ASSUME NEW j \in Jobs, Submission(j) PROVE StageInv'
  <2>1. CASE SpoolUpload(j)
    BY <2>1, Holding
    DEF SpoolUpload, SubmitStep
  <2>2. CASE InsertRow(j)
    BY <2>2, Holding, CreateRow
    DEF InsertRow, SubmitStep
  <2>3. CASE InsertRowFails(j)
    BY <2>3, Holding
    DEF InsertRowFails, SubmitStep, Fault
  <2>4. CASE WakeWorker(j)
    BY <2>4, Holding
    DEF WakeWorker, SubmitStep
  <2> QED
    BY <1>1, <2>1, <2>2, <2>3, <2>4 DEF Submission
<1>2. ASSUME NEW j \in Jobs, CancelJob(j) PROVE StageInv'
  BY <1>2, Holding, RequestCancelRow
  DEF CancelJob, CanRequestCancel
<1>3. CASE WorkerLoop
  <2>1. ASSUME NEW j \in Jobs, Claim(j) PROVE StageInv'
    BY <2>1, Holding
    DEF Claim, ClaimNextQueued, IsOldest, Claimable
  <2>2. CASE NothingToClaim
    BY <2>2, Holding
    DEF NothingToClaim
  <2>3. CASE ClaimFails
    BY <2>3, Holding
    DEF ClaimFails
  <2>4. CASE StopIdling
    BY <2>4, Holding
    DEF StopIdling
  <2>8. CASE StartIdling
    BY <2>8, Holding
    DEF StartIdling
  <2>5. CASE LoadInputs
    BY <2>5, Holding
    DEF LoadInputs
  <2>6. CASE InputsUnreadable
    BY <2>6, Holding, FailRow, RowType
    DEF InputsUnreadable
  <2>7. CASE EmbedderUnavailable
    BY <2>7, Holding
    DEF EmbedderUnavailable
  <2> QED
    BY <1>3, <2>1, <2>2, <2>3, <2>4, <2>5, <2>6, <2>7, <2>8 DEF WorkerLoop
<1>4. CASE Pipeline
  <2>1. CASE PassGate
    BY <2>1, Holding
    DEF PassGate
  <2>2. CASE StopAtGate
    BY <2>2, Holding
    DEF StopAtGate, Undo
  <2>3. CASE MarkStage
    BY <2>3, Holding, StageRunning, MarkRow
    DEF MarkStage
  <2>4. CASE Parse
    BY <2>4, Holding
    DEF Parse
  <2>5. CASE Chunk
    BY <2>5, Holding
    DEF Chunk
  <2>6. CASE ChunkEmpty
    BY <2>6, Holding
    DEF ChunkEmpty, DropArtifacts, Fault
  <2>7. CASE Embed
    BY <2>7, Holding
    DEF Embed
  <2>8. CASE StoreDocument
    BY <2>8, Holding
    DEF StoreDocument
  <2>9. CASE Upsert
    BY <2>9, Holding
    DEF Upsert
  <2>10. CASE RecordIndexes
    BY <2>10, Holding
    DEF RecordIndexes
  <2>11. CASE Finish
    BY <2>11, Holding, FinishRow
    DEF Finish
  <2>12. CASE PromoteUpload
    BY <2>12, Holding
    DEF PromoteUpload, Release
  <2>13. CASE PromoteFails
    BY <2>13, Holding
    DEF PromoteFails, Release
  <2> QED
    BY <1>4, <2>1, <2>2, <2>3, <2>4, <2>5, <2>6, <2>7, <2>8, <2>9, <2>10,
       <2>11, <2>12, <2>13 DEF Pipeline
<1>5. CASE Failure
  <2>1. CASE FailAttempt
    BY <2>1, Holding
    DEF FailAttempt, Undo
  <2>2. CASE RefuseAttempt
    BY <2>2, Holding
    DEF RefuseAttempt, Undo
  <2>3. CASE UndoDocument
    BY <2>3, Holding
    DEF UndoDocument, Fault
  <2>4. CASE UndoIndex
    BY <2>4, Holding
    DEF UndoIndex, Fault
  <2>5. CASE UndoFiles
    BY <2>5, Holding
    DEF UndoFiles, DropArtifacts, Fault
  <2>6. CASE SettleCancel
    BY <2>6, Holding, MarkCancelledRow
    DEF SettleCancel
  <2>7. CASE SettleRetry
    BY <2>7, Holding
    DEF SettleRetry, RequeueJob, JobTables, JobRow, Release
  <2>8. CASE SettleFail
    BY <2>8, Holding, FailRow
    DEF SettleFail
  <2>9. CASE SettleErrs
    BY <2>9, Holding
    DEF SettleErrs, Undo, Release, Fault
  <2>10. CASE DiscardSpool
    BY <2>10, Holding
    DEF DiscardSpool, Release, Fault
  <2> QED
    BY <1>5, <2>1, <2>2, <2>3, <2>4, <2>5, <2>6, <2>7, <2>8, <2>9, <2>10 DEF Failure
<1>6. CASE Crash
  BY <1>6, Holding
  DEF Crash
<1>7. CASE Recovery
  <2>1. CASE Restart
    BY <2>1, Holding
    DEF Restart, FindInterrupted
  <2>2. CASE RestartUnrecovered
    BY <2>2, Holding
    DEF RestartUnrecovered, Fault
  <2>3. CASE StartServing
    BY <2>3, Holding
    DEF StartServing
  <2>4. ASSUME NEW j \in Jobs, RecoverRow(j) PROVE StageInv'
    BY <2>4, Holding
    DEF RecoverRow, IsOldest
  <2>5. CASE RecoverMissingSpool
    BY <2>5, Holding, FailRow, RowType
    DEF RecoverMissingSpool
  <2>6. CASE RecoverCancelled
    BY <2>6, Holding, MarkCancelledRow
    DEF RecoverCancelled
  <2>7. CASE RecoverExhausted
    BY <2>7, Holding, FailRow
    DEF RecoverExhausted
  <2>8. CASE RecoverRequeue
    BY <2>8, Holding
    DEF RecoverRequeue, RequeueJob, JobTables, JobRow, Release
  <2>9. CASE RecoveryErrs
    BY <2>9, Holding
    DEF RecoveryErrs, Fault
  <2> QED
    BY <1>7, <2>1, <2>2, <2>3, <2>4, <2>5, <2>6, <2>7, <2>8, <2>9 DEF Recovery
<1>8. ASSUME NEW j \in Jobs, BackoffElapses(j) PROVE StageInv'
  BY <1>8, Holding
  DEF BackoffElapses, JobTables, JobRow
<1>9. ASSUME NEW j \in Jobs, LoseSpool(j) PROVE StageInv'
  BY <1>9, Holding
  DEF LoseSpool, Fault
<1>10. CASE UNCHANGED vars
  BY <1>10, Holding
  DEF vars
<1> QED
  BY <1>1, <1>2, <1>3, <1>4, <1>5, <1>6, <1>7, <1>8, <1>9, <1>10 DEF Next

\* As long as the statement that settles an attempt succeeds, no row is left
\* in a stage that nobody executes.
THEOREM StagesExecute ==
  ASSUME "settle" \notin Faults
  PROVE  Spec => []StageMeansExecuting
<1>1. Init => StageInv
  BY DEF Init, StageInv, NoRow, IsRunning, Running
<1>2. TypeOK /\ ControlInv /\ StageInv /\ [Next]_vars => StageInv'
  BY StageStep
<1>3. ControlInv /\ StageInv => StageMeansExecuting
  BY DEF ControlInv, StageInv, StageMeansExecuting
<1> QED
  BY <1>1, <1>2, <1>3, ControlCorrect, PTL DEF Spec

-----------------------------------------------------------------------------
(* What a job that did not succeed leaves behind.                          *)

LEMMA ResidueStep ==
  ASSUME "cleanup" \notin Faults, TypeOK, ControlInv, ResidueInv, [Next]_vars
  PROVE  ResidueInv'
<1> USE NoJobAssumption DEF TypeOK, ControlInv, At, Goto, disk, attempt, around,
        WorkerPcs, RecoveryPcs, PipelinePcs, UndoPcs, AttemptPcs, vars,
        Exists, IsTerminal, IsRunning, Unfinished, Queued, Running, Terminal, ResidueInv,
        NoResidue, Clean
<1>1. ASSUME NEW j \in Jobs, Submission(j) PROVE ResidueInv'
  <2>1. CASE SpoolUpload(j)
    BY <2>1, Holding
    DEF SpoolUpload, SubmitStep
  <2>2. CASE InsertRow(j)
    BY <2>2, Holding, CreateRow
    DEF InsertRow, SubmitStep
  <2>3. CASE InsertRowFails(j)
    BY <2>3, Holding
    DEF InsertRowFails, SubmitStep, Fault
  <2>4. CASE WakeWorker(j)
    BY <2>4, Holding
    DEF WakeWorker, SubmitStep
  <2> QED
    BY <1>1, <2>1, <2>2, <2>3, <2>4 DEF Submission
<1>2. ASSUME NEW j \in Jobs, CancelJob(j) PROVE ResidueInv'
  BY <1>2, Holding, RequestCancelRow
  DEF CancelJob, CanRequestCancel
<1>3. CASE WorkerLoop
  <2>1. ASSUME NEW j \in Jobs, Claim(j) PROVE ResidueInv'
    BY <2>1, Holding
    DEF Claim, ClaimNextQueued, IsOldest, Claimable
  <2>2. CASE NothingToClaim
    BY <2>2, Holding
    DEF NothingToClaim
  <2>3. CASE ClaimFails
    BY <2>3, Holding
    DEF ClaimFails
  <2>4. CASE StopIdling
    BY <2>4, Holding
    DEF StopIdling
  <2>8. CASE StartIdling
    BY <2>8, Holding
    DEF StartIdling
  <2>5. CASE LoadInputs
    BY <2>5, Holding
    DEF LoadInputs
  <2>6. CASE InputsUnreadable
    BY <2>6, Holding, FailRow, RowType
    DEF InputsUnreadable
  <2>7. CASE EmbedderUnavailable
    BY <2>7, Holding
    DEF EmbedderUnavailable
  <2> QED
    BY <1>3, <2>1, <2>2, <2>3, <2>4, <2>5, <2>6, <2>7, <2>8 DEF WorkerLoop
<1>4. CASE Pipeline
  <2>1. CASE PassGate
    BY <2>1, Holding
    DEF PassGate
  <2>2. CASE StopAtGate
    BY <2>2, Holding
    DEF StopAtGate, Undo
  <2>3. CASE MarkStage
    BY <2>3, Holding, StageRunning, MarkRow
    DEF MarkStage
  <2>4. CASE Parse
    BY <2>4, Holding
    DEF Parse
  <2>5. CASE Chunk
    BY <2>5, Holding
    DEF Chunk
  <2>6. CASE ChunkEmpty
    BY <2>6, Holding
    DEF ChunkEmpty, DropArtifacts, Fault
  <2>7. CASE Embed
    BY <2>7, Holding
    DEF Embed
  <2>8. CASE StoreDocument
    BY <2>8, Holding
    DEF StoreDocument
  <2>9. CASE Upsert
    BY <2>9, Holding
    DEF Upsert
  <2>10. CASE RecordIndexes
    BY <2>10, Holding
    DEF RecordIndexes
  <2>11. CASE Finish
    BY <2>11, Holding, FinishRow
    DEF Finish
  <2>12. CASE PromoteUpload
    BY <2>12, Holding
    DEF PromoteUpload, Release
  <2>13. CASE PromoteFails
    BY <2>13, Holding
    DEF PromoteFails, Release
  <2> QED
    BY <1>4, <2>1, <2>2, <2>3, <2>4, <2>5, <2>6, <2>7, <2>8, <2>9, <2>10,
       <2>11, <2>12, <2>13 DEF Pipeline
<1>5. CASE Failure
  <2>1. CASE FailAttempt
    BY <2>1, Holding
    DEF FailAttempt, Undo
  <2>2. CASE RefuseAttempt
    BY <2>2, Holding
    DEF RefuseAttempt, Undo
  <2>3. CASE UndoDocument
    BY <2>3, Holding
    DEF UndoDocument, Fault
  <2>4. CASE UndoIndex
    BY <2>4, Holding
    DEF UndoIndex, Fault
  <2>5. CASE UndoFiles
    BY <2>5, Holding
    DEF UndoFiles, DropArtifacts, Fault
  <2>6. CASE SettleCancel
    BY <2>6, Holding, MarkCancelledRow
    DEF SettleCancel
  <2>7. CASE SettleRetry
    BY <2>7, Holding
    DEF SettleRetry, RequeueJob, JobTables, JobRow, Release
  <2>8. CASE SettleFail
    BY <2>8, Holding, FailRow
    DEF SettleFail
  <2>9. CASE SettleErrs
    BY <2>9, Holding
    DEF SettleErrs, Undo, Release, Fault
  <2>10. CASE DiscardSpool
    BY <2>10, Holding
    DEF DiscardSpool, Release, Fault
  <2> QED
    BY <1>5, <2>1, <2>2, <2>3, <2>4, <2>5, <2>6, <2>7, <2>8, <2>9, <2>10 DEF Failure
<1>6. CASE Crash
  BY <1>6, Holding
  DEF Crash
<1>7. CASE Recovery
  <2>1. CASE Restart
    BY <2>1, Holding
    DEF Restart, FindInterrupted
  <2>2. CASE RestartUnrecovered
    BY <2>2, Holding
    DEF RestartUnrecovered, Fault
  <2>3. CASE StartServing
    BY <2>3, Holding
    DEF StartServing
  <2>4. ASSUME NEW j \in Jobs, RecoverRow(j) PROVE ResidueInv'
    BY <2>4, Holding
    DEF RecoverRow, IsOldest
  <2>5. CASE RecoverMissingSpool
    BY <2>5, Holding, FailRow, RowType
    DEF RecoverMissingSpool
  <2>6. CASE RecoverCancelled
    BY <2>6, Holding, MarkCancelledRow
    DEF RecoverCancelled
  <2>7. CASE RecoverExhausted
    BY <2>7, Holding, FailRow
    DEF RecoverExhausted
  <2>8. CASE RecoverRequeue
    BY <2>8, Holding
    DEF RecoverRequeue, RequeueJob, JobTables, JobRow, Release
  <2>9. CASE RecoveryErrs
    BY <2>9, Holding
    DEF RecoveryErrs, Fault
  <2> QED
    BY <1>7, <2>1, <2>2, <2>3, <2>4, <2>5, <2>6, <2>7, <2>8, <2>9 DEF Recovery
<1>8. ASSUME NEW j \in Jobs, BackoffElapses(j) PROVE ResidueInv'
  BY <1>8, Holding
  DEF BackoffElapses, JobTables, JobRow
<1>9. ASSUME NEW j \in Jobs, LoseSpool(j) PROVE ResidueInv'
  BY <1>9, Holding
  DEF LoseSpool, Fault
<1>10. CASE UNCHANGED vars
  BY <1>10, Holding
  DEF vars
<1> QED
  BY <1>1, <1>2, <1>3, <1>4, <1>5, <1>6, <1>7, <1>8, <1>9, <1>10 DEF Next

\* As long as the deletions of a rollback succeed, a job that is not running
\* and not done has left nothing in any store, whichever step it died in.
THEOREM NothingLeftBehind ==
  ASSUME "cleanup" \notin Faults
  PROVE  Spec => []NoResidue
<1>1. Init => ResidueInv
  BY DEF Init, ResidueInv, NoResidue, Clean, PipelinePcs, IsRunning, Running
<1>2. TypeOK /\ ControlInv /\ ResidueInv /\ [Next]_vars => ResidueInv'
  BY ResidueStep
<1>3. ResidueInv => NoResidue
  BY DEF ResidueInv
<1> QED
  BY <1>1, <1>2, <1>3, ControlCorrect, PTL DEF Spec

-----------------------------------------------------------------------------
(* Cancellation.                                                           *)

LEMMA CancelStep ==
  ASSUME TypeOK, ControlInv, CancelInv, [Next]_vars
  PROVE  CancelInv'
<1> USE NoJobAssumption DEF TypeOK, ControlInv, At, Goto, disk, attempt, around,
        WorkerPcs, RecoveryPcs, PipelinePcs, UndoPcs, AttemptPcs, vars,
        Exists, IsTerminal, IsRunning, Unfinished, Queued, Running, Terminal, CancelInv,
        CancelledOnRequest
<1>1. ASSUME NEW j \in Jobs, Submission(j) PROVE CancelInv'
  <2>1. CASE SpoolUpload(j)
    BY <2>1, Holding
    DEF SpoolUpload, SubmitStep
  <2>2. CASE InsertRow(j)
    BY <2>2, Holding, CreateRow
    DEF InsertRow, SubmitStep
  <2>3. CASE InsertRowFails(j)
    BY <2>3, Holding
    DEF InsertRowFails, SubmitStep, Fault
  <2>4. CASE WakeWorker(j)
    BY <2>4, Holding
    DEF WakeWorker, SubmitStep
  <2> QED
    BY <1>1, <2>1, <2>2, <2>3, <2>4 DEF Submission
<1>2. ASSUME NEW j \in Jobs, CancelJob(j) PROVE CancelInv'
  BY <1>2, Holding, RequestCancelRow
  DEF CancelJob, CanRequestCancel
<1>3. CASE WorkerLoop
  <2>1. ASSUME NEW j \in Jobs, Claim(j) PROVE CancelInv'
    BY <2>1, Holding
    DEF Claim, ClaimNextQueued, IsOldest, Claimable
  <2>2. CASE NothingToClaim
    BY <2>2, Holding
    DEF NothingToClaim
  <2>3. CASE ClaimFails
    BY <2>3, Holding
    DEF ClaimFails
  <2>4. CASE StopIdling
    BY <2>4, Holding
    DEF StopIdling
  <2>8. CASE StartIdling
    BY <2>8, Holding
    DEF StartIdling
  <2>5. CASE LoadInputs
    BY <2>5, Holding
    DEF LoadInputs
  <2>6. CASE InputsUnreadable
    BY <2>6, Holding, FailRow, RowType
    DEF InputsUnreadable
  <2>7. CASE EmbedderUnavailable
    BY <2>7, Holding
    DEF EmbedderUnavailable
  <2> QED
    BY <1>3, <2>1, <2>2, <2>3, <2>4, <2>5, <2>6, <2>7, <2>8 DEF WorkerLoop
<1>4. CASE Pipeline
  <2>1. CASE PassGate
    BY <2>1, Holding
    DEF PassGate
  <2>2. CASE StopAtGate
    BY <2>2, Holding
    DEF StopAtGate, Undo
  <2>3. CASE MarkStage
    BY <2>3, Holding, StageRunning, MarkRow
    DEF MarkStage
  <2>4. CASE Parse
    BY <2>4, Holding
    DEF Parse
  <2>5. CASE Chunk
    BY <2>5, Holding
    DEF Chunk
  <2>6. CASE ChunkEmpty
    BY <2>6, Holding
    DEF ChunkEmpty, DropArtifacts, Fault
  <2>7. CASE Embed
    BY <2>7, Holding
    DEF Embed
  <2>8. CASE StoreDocument
    BY <2>8, Holding
    DEF StoreDocument
  <2>9. CASE Upsert
    BY <2>9, Holding
    DEF Upsert
  <2>10. CASE RecordIndexes
    BY <2>10, Holding
    DEF RecordIndexes
  <2>11. CASE Finish
    BY <2>11, Holding, FinishRow
    DEF Finish
  <2>12. CASE PromoteUpload
    BY <2>12, Holding
    DEF PromoteUpload, Release
  <2>13. CASE PromoteFails
    BY <2>13, Holding
    DEF PromoteFails, Release
  <2> QED
    BY <1>4, <2>1, <2>2, <2>3, <2>4, <2>5, <2>6, <2>7, <2>8, <2>9, <2>10,
       <2>11, <2>12, <2>13 DEF Pipeline
<1>5. CASE Failure
  <2>1. CASE FailAttempt
    BY <2>1, Holding
    DEF FailAttempt, Undo
  <2>2. CASE RefuseAttempt
    BY <2>2, Holding
    DEF RefuseAttempt, Undo
  <2>3. CASE UndoDocument
    BY <2>3, Holding
    DEF UndoDocument, Fault
  <2>4. CASE UndoIndex
    BY <2>4, Holding
    DEF UndoIndex, Fault
  <2>5. CASE UndoFiles
    BY <2>5, Holding
    DEF UndoFiles, DropArtifacts, Fault
  <2>6. CASE SettleCancel
    BY <2>6, Holding, MarkCancelledRow
    DEF SettleCancel
  <2>7. CASE SettleRetry
    BY <2>7, Holding
    DEF SettleRetry, RequeueJob, JobTables, JobRow, Release
  <2>8. CASE SettleFail
    BY <2>8, Holding, FailRow
    DEF SettleFail
  <2>9. CASE SettleErrs
    BY <2>9, Holding
    DEF SettleErrs, Undo, Release, Fault
  <2>10. CASE DiscardSpool
    BY <2>10, Holding
    DEF DiscardSpool, Release, Fault
  <2> QED
    BY <1>5, <2>1, <2>2, <2>3, <2>4, <2>5, <2>6, <2>7, <2>8, <2>9, <2>10 DEF Failure
<1>6. CASE Crash
  BY <1>6, Holding
  DEF Crash
<1>7. CASE Recovery
  <2>1. CASE Restart
    BY <2>1, Holding
    DEF Restart, FindInterrupted
  <2>2. CASE RestartUnrecovered
    BY <2>2, Holding
    DEF RestartUnrecovered, Fault
  <2>3. CASE StartServing
    BY <2>3, Holding
    DEF StartServing
  <2>4. ASSUME NEW j \in Jobs, RecoverRow(j) PROVE CancelInv'
    BY <2>4, Holding
    DEF RecoverRow, IsOldest
  <2>5. CASE RecoverMissingSpool
    BY <2>5, Holding, FailRow, RowType
    DEF RecoverMissingSpool
  <2>6. CASE RecoverCancelled
    BY <2>6, Holding, MarkCancelledRow
    DEF RecoverCancelled
  <2>7. CASE RecoverExhausted
    BY <2>7, Holding, FailRow
    DEF RecoverExhausted
  <2>8. CASE RecoverRequeue
    BY <2>8, Holding
    DEF RecoverRequeue, RequeueJob, JobTables, JobRow, Release
  <2>9. CASE RecoveryErrs
    BY <2>9, Holding
    DEF RecoveryErrs, Fault
  <2> QED
    BY <1>7, <2>1, <2>2, <2>3, <2>4, <2>5, <2>6, <2>7, <2>8, <2>9 DEF Recovery
<1>8. ASSUME NEW j \in Jobs, BackoffElapses(j) PROVE CancelInv'
  BY <1>8, Holding
  DEF BackoffElapses, JobTables, JobRow
<1>9. ASSUME NEW j \in Jobs, LoseSpool(j) PROVE CancelInv'
  BY <1>9, Holding
  DEF LoseSpool, Fault
<1>10. CASE UNCHANGED vars
  BY <1>10, Holding
  DEF vars
<1> QED
  BY <1>1, <1>2, <1>3, <1>4, <1>5, <1>6, <1>7, <1>8, <1>9, <1>10 DEF Next

\* Whatever fails and whenever the process dies: no job ends cancelled that no client
\* was told is being cancelled.  An undo for another reason never ends that way.
THEOREM CancelledWhenAsked == Spec => []CancelledOnRequest
<1>1. Init => CancelInv
  BY DEF Init, CancelInv, CancelledOnRequest, NoRow
<1>2. TypeOK /\ ControlInv /\ CancelInv /\ [Next]_vars => CancelInv'
  BY CancelStep
<1>3. CancelInv => CancelledOnRequest
  BY DEF CancelInv
<1> QED
  BY <1>1, <1>2, <1>3, ControlCorrect, PTL DEF Spec

-----------------------------------------------------------------------------
(* Where an upload ends.                                                   *)

LEMMA UploadStep ==
  ASSUME MaxCrashes = 0, Faults \cap {"spool", "cleanup", "promote"} = {},
         TypeOK, ControlInv, SpoolInv, UploadInv, [Next]_vars
  PROVE  UploadInv'
<1> USE NoJobAssumption DEF TypeOK, ControlInv, At, Goto, disk, attempt, around,
        WorkerPcs, RecoveryPcs, PipelinePcs, UndoPcs, AttemptPcs, vars,
        Exists, IsTerminal, IsRunning, Unfinished, Queued, Running, Terminal, UploadInv,
        UploadsSettled, SpoolReleased, OriginalKept, SpoolInv, SpoolHeld
<1>0. "spool" \notin Faults /\ "cleanup" \notin Faults /\ "promote" \notin Faults
  OBVIOUS
<1>1. ASSUME NEW j \in Jobs, Submission(j) PROVE UploadInv'
  <2>1. CASE SpoolUpload(j)
    BY <2>1, Holding
    DEF SpoolUpload, SubmitStep
  <2>2. CASE InsertRow(j)
    BY <2>2, Holding, CreateRow
    DEF InsertRow, SubmitStep
  <2>3. CASE InsertRowFails(j)
    BY <2>3, Holding
    DEF InsertRowFails, SubmitStep, Fault
  <2>4. CASE WakeWorker(j)
    BY <2>4, Holding
    DEF WakeWorker, SubmitStep
  <2> QED
    BY <1>1, <2>1, <2>2, <2>3, <2>4 DEF Submission
<1>2. ASSUME NEW j \in Jobs, CancelJob(j) PROVE UploadInv'
  BY <1>2, Holding, RequestCancelRow
  DEF CancelJob, CanRequestCancel
<1>3. CASE WorkerLoop
  <2>1. ASSUME NEW j \in Jobs, Claim(j) PROVE UploadInv'
    BY <2>1, Holding
    DEF Claim, ClaimNextQueued, IsOldest, Claimable
  <2>2. CASE NothingToClaim
    BY <2>2, Holding
    DEF NothingToClaim
  <2>3. CASE ClaimFails
    BY <2>3, Holding
    DEF ClaimFails
  <2>4. CASE StopIdling
    BY <2>4, Holding
    DEF StopIdling
  <2>8. CASE StartIdling
    BY <2>8, Holding
    DEF StartIdling
  <2>5. CASE LoadInputs
    BY <2>5, Holding
    DEF LoadInputs
  <2>6. CASE InputsUnreadable
    BY <2>6, Holding, FailRow, RowType
    DEF InputsUnreadable
  <2>7. CASE EmbedderUnavailable
    BY <2>7, Holding
    DEF EmbedderUnavailable
  <2> QED
    BY <1>3, <2>1, <2>2, <2>3, <2>4, <2>5, <2>6, <2>7, <2>8 DEF WorkerLoop
<1>4. CASE Pipeline
  <2>1. CASE PassGate
    BY <2>1, Holding
    DEF PassGate
  <2>2. CASE StopAtGate
    BY <2>2, Holding
    DEF StopAtGate, Undo
  <2>3. CASE MarkStage
    BY <2>3, Holding, StageRunning, MarkRow
    DEF MarkStage
  <2>4. CASE Parse
    BY <2>4, Holding
    DEF Parse
  <2>5. CASE Chunk
    BY <2>5, Holding
    DEF Chunk
  <2>6. CASE ChunkEmpty
    BY <2>6, Holding
    DEF ChunkEmpty, DropArtifacts, Fault
  <2>7. CASE Embed
    BY <2>7, Holding
    DEF Embed
  <2>8. CASE StoreDocument
    BY <2>8, Holding
    DEF StoreDocument
  <2>9. CASE Upsert
    BY <2>9, Holding
    DEF Upsert
  <2>10. CASE RecordIndexes
    BY <2>10, Holding
    DEF RecordIndexes
  <2>11. CASE Finish
    BY <2>11, Holding, FinishRow
    DEF Finish
  <2>12. CASE PromoteUpload
    BY <2>12, Holding
    DEF PromoteUpload, Release
  <2>13. CASE PromoteFails
    BY <1>0, <2>13, Holding
    DEF PromoteFails, Release, Fault
  <2> QED
    BY <1>4, <2>1, <2>2, <2>3, <2>4, <2>5, <2>6, <2>7, <2>8, <2>9, <2>10,
       <2>11, <2>12, <2>13 DEF Pipeline
<1>5. CASE Failure
  <2>1. CASE FailAttempt
    BY <2>1, Holding
    DEF FailAttempt, Undo
  <2>2. CASE RefuseAttempt
    BY <2>2, Holding
    DEF RefuseAttempt, Undo
  <2>3. CASE UndoDocument
    BY <2>3, Holding
    DEF UndoDocument, Fault
  <2>4. CASE UndoIndex
    BY <2>4, Holding
    DEF UndoIndex, Fault
  <2>5. CASE UndoFiles
    BY <2>5, Holding
    DEF UndoFiles, DropArtifacts, Fault
  <2>6. CASE SettleCancel
    BY <2>6, Holding, MarkCancelledRow
    DEF SettleCancel
  <2>7. CASE SettleRetry
    BY <2>7, Holding
    DEF SettleRetry, RequeueJob, JobTables, JobRow, Release
  <2>8. CASE SettleFail
    BY <2>8, Holding, FailRow
    DEF SettleFail
  <2>9. CASE SettleErrs
    BY <2>9, Holding
    DEF SettleErrs, Undo, Release, Fault
  <2>10. CASE DiscardSpool
    BY <1>0, <2>10, Holding
    DEF DiscardSpool, Release, Fault
  <2> QED
    BY <1>5, <2>1, <2>2, <2>3, <2>4, <2>5, <2>6, <2>7, <2>8, <2>9, <2>10 DEF Failure
<1>6. CASE Crash
  BY <1>6, Holding
  DEF Crash
<1>7. CASE Recovery
  <2>1. CASE Restart
    BY <2>1, Holding
    DEF Restart, FindInterrupted
  <2>2. CASE RestartUnrecovered
    BY <2>2, Holding
    DEF RestartUnrecovered, Fault
  <2>3. CASE StartServing
    BY <2>3, Holding
    DEF StartServing
  <2>4. ASSUME NEW j \in Jobs, RecoverRow(j) PROVE UploadInv'
    BY <2>4, Holding
    DEF RecoverRow, IsOldest
  <2>5. CASE RecoverMissingSpool
    BY <2>5, Holding, FailRow, RowType
    DEF RecoverMissingSpool
  <2>6. CASE RecoverCancelled
    BY <2>6, Holding, MarkCancelledRow
    DEF RecoverCancelled
  <2>7. CASE RecoverExhausted
    BY <2>7, Holding, FailRow
    DEF RecoverExhausted
  <2>8. CASE RecoverRequeue
    BY <2>8, Holding
    DEF RecoverRequeue, RequeueJob, JobTables, JobRow, Release
  <2>9. CASE RecoveryErrs
    BY <2>9, Holding
    DEF RecoveryErrs, Fault
  <2> QED
    BY <1>7, <2>1, <2>2, <2>3, <2>4, <2>5, <2>6, <2>7, <2>8, <2>9 DEF Recovery
<1>8. ASSUME NEW j \in Jobs, BackoffElapses(j) PROVE UploadInv'
  BY <1>8, Holding
  DEF BackoffElapses, JobTables, JobRow
<1>9. ASSUME NEW j \in Jobs, LoseSpool(j) PROVE UploadInv'
  BY <1>9, Holding
  DEF LoseSpool, Fault
<1>10. CASE UNCHANGED vars
  BY <1>10, Holding
  DEF vars
<1> QED
  BY <1>1, <1>2, <1>3, <1>4, <1>5, <1>6, <1>7, <1>8, <1>9, <1>10 DEF Next

\* As long as the process lives and neither the file system nor the move of an
\* upload fails, whatever the database does: the upload of a job that ended is gone,
\* and a document that stays has its original.
THEOREM UploadsEnd ==
  ASSUME MaxCrashes = 0, Faults \cap {"spool", "cleanup", "promote"} = {}
  PROVE  Spec => []UploadsSettled
<1>1. Init => UploadInv /\ SpoolInv
  BY DEF Init, UploadInv, UploadsSettled, SpoolReleased, OriginalKept, SpoolInv, SpoolHeld,
         NoRow, Unfinished, Queued, Running
<1>2. TypeOK /\ ControlInv /\ SpoolInv /\ [Next]_vars => SpoolInv'
  BY SpoolStep
<1>3. TypeOK /\ ControlInv /\ SpoolInv /\ UploadInv /\ [Next]_vars => UploadInv'
  BY UploadStep
<1>4. UploadInv => UploadsSettled
  BY DEF UploadInv
<1> QED
  BY <1>1, <1>2, <1>3, <1>4, ControlCorrect, PTL DEF Spec

-----------------------------------------------------------------------------
(* The stores and the job table.                                           *)

LEMMA AgreeStep ==
  ASSUME Faults \cap {"cleanup", "settle"} = {}, TypeOK, ControlInv, StageInv, ResidueInv,
         AgreeInv, [Next]_vars
  PROVE  AgreeInv'
<1> USE NoJobAssumption DEF TypeOK, ControlInv, At, Goto, disk, attempt, around,
        WorkerPcs, RecoveryPcs, PipelinePcs, UndoPcs, AttemptPcs, vars,
        Exists, IsTerminal, IsRunning, Unfinished, Queued, Running, Terminal, ResidueInv,
        NoResidue, Clean, AgreeInv, StoresAgree, DoneIsComplete, StoredBeforeIndexed, StageInv
<1>0. "cleanup" \notin Faults /\ "settle" \notin Faults
  OBVIOUS
<1>1. ASSUME NEW j \in Jobs, Submission(j) PROVE AgreeInv'
  <2>1. CASE SpoolUpload(j)
    BY <2>1, Holding
    DEF SpoolUpload, SubmitStep
  <2>2. CASE InsertRow(j)
    BY <2>2, Holding, CreateRow
    DEF InsertRow, SubmitStep
  <2>3. CASE InsertRowFails(j)
    BY <2>3, Holding
    DEF InsertRowFails, SubmitStep, Fault
  <2>4. CASE WakeWorker(j)
    BY <2>4, Holding
    DEF WakeWorker, SubmitStep
  <2> QED
    BY <1>1, <2>1, <2>2, <2>3, <2>4 DEF Submission
<1>2. ASSUME NEW j \in Jobs, CancelJob(j) PROVE AgreeInv'
  BY <1>2, Holding, RequestCancelRow
  DEF CancelJob, CanRequestCancel
<1>3. CASE WorkerLoop
  <2>1. ASSUME NEW j \in Jobs, Claim(j) PROVE AgreeInv'
    BY <2>1, Holding
    DEF Claim, ClaimNextQueued, IsOldest, Claimable
  <2>2. CASE NothingToClaim
    BY <2>2, Holding
    DEF NothingToClaim
  <2>3. CASE ClaimFails
    BY <2>3, Holding
    DEF ClaimFails
  <2>4. CASE StopIdling
    BY <2>4, Holding
    DEF StopIdling
  <2>8. CASE StartIdling
    BY <2>8, Holding
    DEF StartIdling
  <2>5. CASE LoadInputs
    BY <2>5, Holding
    DEF LoadInputs
  <2>6. CASE InputsUnreadable
    BY <2>6, Holding, FailRow, RowType
    DEF InputsUnreadable
  <2>7. CASE EmbedderUnavailable
    BY <2>7, Holding
    DEF EmbedderUnavailable
  <2> QED
    BY <1>3, <2>1, <2>2, <2>3, <2>4, <2>5, <2>6, <2>7, <2>8 DEF WorkerLoop
<1>4. CASE Pipeline
  <2>1. CASE PassGate
    BY <2>1, Holding
    DEF PassGate
  <2>2. CASE StopAtGate
    BY <2>2, Holding
    DEF StopAtGate, Undo
  <2>3. CASE MarkStage
    BY <2>3, Holding, StageRunning, MarkRow
    DEF MarkStage
  <2>4. CASE Parse
    BY <2>4, Holding
    DEF Parse
  <2>5. CASE Chunk
    BY <2>5, Holding
    DEF Chunk
  <2>6. CASE ChunkEmpty
    BY <1>0, <2>6, Holding
    DEF ChunkEmpty, DropArtifacts, Fault
  <2>7. CASE Embed
    BY <2>7, Holding
    DEF Embed
  <2>8. CASE StoreDocument
    BY <2>8, Holding
    DEF StoreDocument
  <2>9. CASE Upsert
    BY <2>9, Holding
    DEF Upsert
  <2>10. CASE RecordIndexes
    BY <2>10, Holding
    DEF RecordIndexes
  <2>11. CASE Finish
    BY <2>11, Holding, FinishRow
    DEF Finish
  <2>12. CASE PromoteUpload
    BY <2>12, Holding
    DEF PromoteUpload, Release
  <2>13. CASE PromoteFails
    BY <2>13, Holding
    DEF PromoteFails, Release
  <2> QED
    BY <1>4, <2>1, <2>2, <2>3, <2>4, <2>5, <2>6, <2>7, <2>8, <2>9, <2>10,
       <2>11, <2>12, <2>13 DEF Pipeline
<1>5. CASE Failure
  <2>1. CASE FailAttempt
    BY <2>1, Holding
    DEF FailAttempt, Undo
  <2>2. CASE RefuseAttempt
    BY <2>2, Holding
    DEF RefuseAttempt, Undo
  <2>3. CASE UndoDocument
    BY <2>3, Holding
    DEF UndoDocument, Fault
  <2>4. CASE UndoIndex
    BY <2>4, Holding
    DEF UndoIndex, Fault
  <2>5. CASE UndoFiles
    BY <2>5, Holding
    DEF UndoFiles, DropArtifacts, Fault
  <2>6. CASE SettleCancel
    BY <2>6, Holding, MarkCancelledRow
    DEF SettleCancel
  <2>7. CASE SettleRetry
    BY <2>7, Holding
    DEF SettleRetry, RequeueJob, JobTables, JobRow, Release
  <2>8. CASE SettleFail
    BY <2>8, Holding, FailRow
    DEF SettleFail
  <2>9. CASE SettleErrs
    BY <2>9, Holding
    DEF SettleErrs, Undo, Release, Fault
  <2>10. CASE DiscardSpool
    BY <2>10, Holding
    DEF DiscardSpool, Release, Fault
  <2> QED
    BY <1>5, <2>1, <2>2, <2>3, <2>4, <2>5, <2>6, <2>7, <2>8, <2>9, <2>10 DEF Failure
<1>6. CASE Crash
  BY <1>6, Holding
  DEF Crash
<1>7. CASE Recovery
  <2>1. CASE Restart
    BY <2>1, Holding
    DEF Restart, FindInterrupted
  <2>2. CASE RestartUnrecovered
    BY <2>2, Holding
    DEF RestartUnrecovered, Fault
  <2>3. CASE StartServing
    BY <2>3, Holding
    DEF StartServing
  <2>4. ASSUME NEW j \in Jobs, RecoverRow(j) PROVE AgreeInv'
    BY <2>4, Holding
    DEF RecoverRow, IsOldest
  <2>5. CASE RecoverMissingSpool
    BY <2>5, Holding, FailRow, RowType
    DEF RecoverMissingSpool
  <2>6. CASE RecoverCancelled
    BY <2>6, Holding, MarkCancelledRow
    DEF RecoverCancelled
  <2>7. CASE RecoverExhausted
    BY <2>7, Holding, FailRow
    DEF RecoverExhausted
  <2>8. CASE RecoverRequeue
    BY <2>8, Holding
    DEF RecoverRequeue, RequeueJob, JobTables, JobRow, Release
  <2>9. CASE RecoveryErrs
    BY <2>9, Holding
    DEF RecoveryErrs, Fault
  <2> QED
    BY <1>7, <2>1, <2>2, <2>3, <2>4, <2>5, <2>6, <2>7, <2>8, <2>9 DEF Recovery
<1>8. ASSUME NEW j \in Jobs, BackoffElapses(j) PROVE AgreeInv'
  BY <1>8, Holding
  DEF BackoffElapses, JobTables, JobRow
<1>9. ASSUME NEW j \in Jobs, LoseSpool(j) PROVE AgreeInv'
  BY <1>9, Holding
  DEF LoseSpool, Fault
<1>10. CASE UNCHANGED vars
  BY <1>10, Holding
  DEF vars
<1> QED
  BY <1>1, <1>2, <1>3, <1>4, <1>5, <1>6, <1>7, <1>8, <1>9, <1>10 DEF Next

\* As long as neither a rollback nor the statement that settles a job fails, and
\* however often the process dies: a done document is whole in every store, and the
\* vector store holds nothing of a document the corpus does not have, unless it is
\* being undone or will be.
THEOREM StoresStayInStep ==
  ASSUME Faults \cap {"cleanup", "settle"} = {}
  PROVE  Spec => []StoresAgree
<1>1. Init => AgreeInv /\ ResidueInv /\ StageInv
  BY DEF Init, AgreeInv, StoresAgree, DoneIsComplete, StoredBeforeIndexed, ResidueInv,
         NoResidue, Clean, StageInv, PipelinePcs, NoRow, IsRunning, Running
<1>2. TypeOK /\ ControlInv /\ StageInv /\ [Next]_vars => StageInv'
  BY StageStep
<1>3. TypeOK /\ ControlInv /\ ResidueInv /\ [Next]_vars => ResidueInv'
  BY ResidueStep
<1>4. TypeOK /\ ControlInv /\ StageInv /\ ResidueInv /\ AgreeInv /\ [Next]_vars => AgreeInv'
  BY AgreeStep
<1>5. AgreeInv => StoresAgree
  BY DEF AgreeInv
<1> QED
  BY <1>1, <1>2, <1>3, <1>4, <1>5, ControlCorrect, PTL DEF Spec

-----------------------------------------------------------------------------
(* The job lifecycle.                                                      *)

\* A step that changes the row of one job moves that job in the lifecycle.
LEMMA ShownMove ==
  ASSUME NEW j \in Jobs, NEW to, jobs \in JobTables, jobs' \in JobTables,
         \A k \in Jobs \ {j} : jobs'[k] = jobs[k],
         to = IF jobs'[j].status \in Running THEN "running"
                                            ELSE jobs'[j].status
  PROVE  Shown' = [Shown EXCEPT ![j] = to]
BY DEF Shown, IsRunning

LEMMA SpentMove ==
  ASSUME NEW j \in Jobs, NEW n, jobs \in JobTables, jobs' \in JobTables,
         \A k \in Jobs \ {j} : jobs'[k] = jobs[k], jobs'[j].attempts = n
  PROVE  Spent' = [Spent EXCEPT ![j] = n]
BY DEF Spent

LEMMA SpentSame ==
  ASSUME NEW j \in Jobs, jobs \in JobTables, jobs' \in JobTables,
         \A k \in Jobs \ {j} : jobs'[k] = jobs[k],
         jobs'[j].attempts = jobs[j].attempts
  PROVE  Spent' = Spent
BY DEF Spent

\* A step that leaves the table alone is not visible.
LEMMA Invisible ==
  ASSUME UNCHANGED jobs
  PROVE  UNCHANGED Lifecycle!vars
BY DEF Shown, Spent, IsRunning, Lifecycle!vars

\* A step that changes a row, but neither what a client sees of its status
\* nor its attempts, is not visible either.
LEMMA RowOnly ==
  ASSUME NEW j \in Jobs, jobs \in JobTables, jobs' \in JobTables,
         \A k \in Jobs \ {j} : jobs'[k] = jobs[k],
         jobs'[j].status = jobs[j].status,
         jobs'[j].attempts = jobs[j].attempts
  PROVE  UNCHANGED Lifecycle!vars
BY DEF Shown, Spent, IsRunning, Lifecycle!vars

LEMMA Submits ==
  ASSUME NEW j \in Jobs, Shown[j] = "absent",
         Shown' = [Shown EXCEPT ![j] = "queued"], Spent' = Spent
  PROVE  Lifecycle!Next
BY DEF Lifecycle!Next, Lifecycle!Submit, Lifecycle!Move

LEMMA Starts ==
  ASSUME NEW j \in Jobs, Shown[j] = "queued",
         Shown' = [Shown EXCEPT ![j] = "running"], Spent' = Spent
  PROVE  Lifecycle!Next
BY DEF Lifecycle!Next, Lifecycle!Progress, Lifecycle!Start, Lifecycle!Move

LEMMA Finishes ==
  ASSUME NEW j \in Jobs, Shown[j] = "running",
         Shown' = [Shown EXCEPT ![j] = "done"], Spent' = Spent
  PROVE  Lifecycle!Next
BY DEF Lifecycle!Next, Lifecycle!Progress, Lifecycle!Finish, Lifecycle!Move

LEMMA Cancels ==
  ASSUME NEW j \in Jobs, Shown[j] \in {"queued", "running"},
         Shown' = [Shown EXCEPT ![j] = "cancelled"], Spent' = Spent
  PROVE  Lifecycle!Next
BY DEF Lifecycle!Next, Lifecycle!Progress, Lifecycle!Cancel, Lifecycle!Move

LEMMA Retries ==
  ASSUME NEW j \in Jobs, Shown[j] \in {"queued", "running"},
         Spent[j] + 1 < MaxAttempts,
         Shown' = [Shown EXCEPT ![j] = "queued"],
         Spent' = [Spent EXCEPT ![j] = Spent[j] + 1]
  PROVE  Lifecycle!Next
BY DEF Lifecycle!Next, Lifecycle!Progress, Lifecycle!Retry, Lifecycle!Move

LEMMA Fails ==
  ASSUME NEW j \in Jobs, Shown[j] \in {"queued", "running"},
         NEW n \in {Spent[j], Spent[j] + 1},
         Shown' = [Shown EXCEPT ![j] = "failed"],
         Spent' = [Spent EXCEPT ![j] = n]
  PROVE  Lifecycle!Next
BY DEF Lifecycle!Next, Lifecycle!Progress, Lifecycle!Fail, Lifecycle!Move

LEMMA LifecycleStep ==
  ASSUME TypeOK, ControlInv, [Next]_vars
  PROVE  [Lifecycle!Next]_(Lifecycle!vars)
<1> USE DEF TypeOK, ControlInv, At, AttemptPcs, PipelinePcs, UndoPcs, around,
        Exists, IsTerminal, IsRunning, Unfinished, Queued, Running, Terminal
<1>0. jobs \in JobTables /\ jobs' \in JobTables
  BY TypeStep
<1>1. ASSUME NEW j \in Jobs, Submission(j) PROVE [Lifecycle!Next]_(Lifecycle!vars)
  <2>1. CASE SpoolUpload(j)
    BY <2>1, Invisible DEF SpoolUpload
  <2>2. CASE InsertRow(j)
    <3>1. /\ j \in Jobs
          /\ \A k \in Jobs \ {j} : jobs'[k] = jobs[k]
          /\ jobs'[j].status = "queued" /\ jobs'[j].attempts = jobs[j].attempts
      BY <2>2, Holding, CreateRow
      DEF InsertRow, SubmitStep
    <3>2. Shown' = [Shown EXCEPT ![j] = "queued"]
      BY <3>1, <1>0, ShownMove
    <3>3. Spent' = Spent
      BY <3>1, <1>0, SpentSame
    <3>4. Shown[j] = "absent"
      BY <2>2, <3>1 DEF InsertRow, SubmitStep, Shown
    <3> QED
      BY <3>1, <3>2, <3>3, <3>4, Submits
  <2>3. CASE InsertRowFails(j)
    BY <2>3, Invisible DEF InsertRowFails
  <2>4. CASE WakeWorker(j)
    BY <2>4, Invisible DEF WakeWorker
  <2> QED
    BY <1>1, <2>1, <2>2, <2>3, <2>4 DEF Submission
<1>2. ASSUME NEW j \in Jobs, CancelJob(j) PROVE [Lifecycle!Next]_(Lifecycle!vars)
  <2>1. /\ \A k \in Jobs \ {j} : jobs'[k] = jobs[k]
        /\ jobs'[j].status = jobs[j].status
        /\ jobs'[j].attempts = jobs[j].attempts
    BY <1>2, RequestCancelRow DEF CancelJob, CanRequestCancel
  <2> QED
    BY <2>1, <1>0, RowOnly
<1>3. CASE WorkerLoop
  <2>1. ASSUME NEW j \in Jobs, Claim(j) PROVE [Lifecycle!Next]_(Lifecycle!vars)
    BY <2>1, Invisible DEF Claim
  <2>2. CASE NothingToClaim
    BY <2>2, Invisible DEF NothingToClaim
  <2>3. CASE ClaimFails
    BY <2>3, Invisible DEF ClaimFails
  <2>4. CASE StopIdling
    BY <2>4, Invisible DEF StopIdling
  <2>8. CASE StartIdling
    BY <2>8, Invisible DEF StartIdling
  <2>5. CASE LoadInputs
    BY <2>5, Invisible DEF LoadInputs
  <2>6. CASE InputsUnreadable
    <3>1. /\ cur \in Jobs
          /\ \A k \in Jobs \ {cur} : jobs'[k] = jobs[k]
          /\ jobs'[cur].status = "failed" /\ jobs'[cur].attempts = jobs[cur].attempts
      BY <2>6, Holding
      DEF InputsUnreadable, FailJob, JobTables, JobRow
    <3>2. Shown' = [Shown EXCEPT ![cur] = "failed"]
      BY <3>1, <1>0, ShownMove
    <3>3. Spent' = [Spent EXCEPT ![cur] = jobs[cur].attempts]
      BY <3>1, <1>0, SpentMove
    <3>4. Shown[cur] \in {"queued", "running"}
      BY <2>6, <3>1 DEF InputsUnreadable, FailJob, JobTables, JobRow, Shown
    <3>5. jobs[cur].attempts \in {Spent[cur], Spent[cur] + 1}
      BY <2>6, <3>1 DEF InputsUnreadable, Spent
    <3> QED
      BY <3>1, <3>2, <3>3, <3>4, <3>5, Fails
  <2>7. CASE EmbedderUnavailable
    BY <2>7, Invisible DEF EmbedderUnavailable
  <2> QED
    BY <1>3, <2>1, <2>2, <2>3, <2>4, <2>5, <2>6, <2>7, <2>8 DEF WorkerLoop
<1>4. CASE Pipeline
  <2>1. CASE PassGate
    BY <2>1, Invisible DEF PassGate
  <2>2. CASE StopAtGate
    BY <2>2, Invisible DEF StopAtGate
  <2>3. CASE MarkStage
    <3>1. /\ cur \in Jobs /\ Stages[stage] \in Running
          /\ \A k \in Jobs \ {cur} : jobs'[k] = jobs[k]
          /\ jobs'[cur].status \in Running
          /\ jobs'[cur].attempts = jobs[cur].attempts
      BY <2>3, Holding, StageRunning, MarkRow DEF MarkStage
    <3>2. Spent' = Spent
      BY <3>1, <1>0, SpentSame
    <3>3. Shown' = [Shown EXCEPT ![cur] = "running"]
      BY <3>1, <1>0, ShownMove
    <3>4. Shown[cur] \in {"queued", "running"}
      BY <2>3, <3>1 DEF MarkStage, Shown
    <3>5. CASE Shown[cur] = "queued"
      BY <3>1, <3>2, <3>3, <3>5, Starts
    <3>6. CASE Shown[cur] = "running"
      BY <3>1, <3>2, <3>3, <3>6 DEF Shown, Lifecycle!vars
    <3> QED
      BY <3>4, <3>5, <3>6
  <2>4. CASE Parse
    BY <2>4, Invisible DEF Parse
  <2>5. CASE Chunk
    BY <2>5, Invisible DEF Chunk
  <2>6. CASE ChunkEmpty
    BY <2>6, Invisible DEF ChunkEmpty
  <2>7. CASE Embed
    BY <2>7, Invisible DEF Embed
  <2>8. CASE StoreDocument
    BY <2>8, Invisible DEF StoreDocument
  <2>9. CASE Upsert
    BY <2>9, Invisible DEF Upsert
  <2>10. CASE RecordIndexes
    BY <2>10, Invisible DEF RecordIndexes
  <2>11. CASE Finish
    <3>1. /\ cur \in Jobs
          /\ \A k \in Jobs \ {cur} : jobs'[k] = jobs[k]
          /\ jobs'[cur].status = "done" /\ jobs'[cur].attempts = jobs[cur].attempts
      BY <2>11, Holding
      DEF Finish, FinishJob, JobTables, JobRow
    <3>2. Shown' = [Shown EXCEPT ![cur] = "done"]
      BY <3>1, <1>0, ShownMove
    <3>3. Spent' = Spent
      BY <3>1, <1>0, SpentSame
    <3>4. Shown[cur] = "running"
      BY <2>11, <3>1 DEF Finish, FinishJob, JobTables, JobRow, Shown
    <3> QED
      BY <3>1, <3>2, <3>3, <3>4, Finishes
  <2>12. CASE PromoteUpload
    BY <2>12, Invisible DEF PromoteUpload
  <2>13. CASE PromoteFails
    BY <2>13, Invisible DEF PromoteFails
  <2> QED
    BY <1>4, <2>1, <2>2, <2>3, <2>4, <2>5, <2>6, <2>7, <2>8, <2>9, <2>10,
       <2>11, <2>12, <2>13 DEF Pipeline
<1>5. CASE Failure
  <2>1. CASE FailAttempt
    BY <2>1, Invisible DEF FailAttempt
  <2>2. CASE RefuseAttempt
    BY <2>2, Invisible DEF RefuseAttempt
  <2>3. CASE UndoDocument
    BY <2>3, Invisible DEF UndoDocument
  <2>4. CASE UndoIndex
    BY <2>4, Invisible DEF UndoIndex
  <2>5. CASE UndoFiles
    BY <2>5, Invisible DEF UndoFiles
  <2>6. CASE SettleCancel
    <3>1. /\ cur \in Jobs
          /\ \A k \in Jobs \ {cur} : jobs'[k] = jobs[k]
          /\ jobs'[cur].status = "cancelled" /\ jobs'[cur].attempts = jobs[cur].attempts
      BY <2>6, Holding
      DEF SettleCancel, MarkCancelled, JobTables, JobRow
    <3>2. Shown' = [Shown EXCEPT ![cur] = "cancelled"]
      BY <3>1, <1>0, ShownMove
    <3>3. Spent' = Spent
      BY <3>1, <1>0, SpentSame
    <3>4. Shown[cur] \in {"queued", "running"}
      BY <2>6, <3>1 DEF SettleCancel, MarkCancelled, JobTables, JobRow, Shown
    <3> QED
      BY <3>1, <3>2, <3>3, <3>4, Cancels
  <2>7. CASE SettleRetry
    <3>1. /\ cur \in Jobs
          /\ \A k \in Jobs \ {cur} : jobs'[k] = jobs[k]
          /\ jobs'[cur].status = "queued" /\ jobs'[cur].attempts = tries + 1
      BY <2>7, Holding
      DEF SettleRetry, RequeueJob, JobTables, JobRow
    <3>2. Shown' = [Shown EXCEPT ![cur] = "queued"]
      BY <3>1, <1>0, ShownMove
    <3>3. Spent' = [Spent EXCEPT ![cur] = tries + 1]
      BY <3>1, <1>0, SpentMove
    <3>4. Shown[cur] \in {"queued", "running"}
      BY <2>7, <3>1 DEF SettleRetry, RequeueJob, JobTables, JobRow, Shown
    <3>5. Spent[cur] = tries /\ tries + 1 < MaxAttempts
      BY <2>7, <3>1 DEF SettleRetry, Spent
    <3> QED
      BY <3>1, <3>2, <3>3, <3>4, <3>5, Retries
  <2>8. CASE SettleFail
    <3>1. /\ cur \in Jobs
          /\ \A k \in Jobs \ {cur} : jobs'[k] = jobs[k]
          /\ jobs'[cur].status = "failed" /\ jobs'[cur].attempts = tries + 1
      BY <2>8, Holding
      DEF SettleFail, FailJob, JobTables, JobRow
    <3>2. Shown' = [Shown EXCEPT ![cur] = "failed"]
      BY <3>1, <1>0, ShownMove
    <3>3. Spent' = [Spent EXCEPT ![cur] = tries + 1]
      BY <3>1, <1>0, SpentMove
    <3>4. Shown[cur] \in {"queued", "running"}
      BY <2>8, <3>1 DEF SettleFail, FailJob, JobTables, JobRow, Shown
    <3>5. tries + 1 \in {Spent[cur], Spent[cur] + 1}
      BY <2>8, <3>1 DEF SettleFail, Spent
    <3> QED
      BY <3>1, <3>2, <3>3, <3>4, <3>5, Fails
  <2>9. CASE SettleErrs
    BY <2>9, Invisible DEF SettleErrs
  <2>10. CASE DiscardSpool
    BY <2>10, Invisible DEF DiscardSpool
  <2> QED
    BY <1>5, <2>1, <2>2, <2>3, <2>4, <2>5, <2>6, <2>7, <2>8, <2>9, <2>10 DEF Failure
<1>6. CASE Crash
  BY <1>6, Invisible DEF Crash
<1>7. CASE Recovery
  <2>1. CASE Restart
    BY <2>1, Invisible DEF Restart
  <2>2. CASE RestartUnrecovered
    BY <2>2, Invisible DEF RestartUnrecovered
  <2>3. CASE StartServing
    BY <2>3, Invisible DEF StartServing
  <2>4. ASSUME NEW j \in Jobs, RecoverRow(j) PROVE [Lifecycle!Next]_(Lifecycle!vars)
    BY <2>4, Invisible DEF RecoverRow
  <2>5. CASE RecoverMissingSpool
    <3>1. /\ cur \in Jobs
          /\ \A k \in Jobs \ {cur} : jobs'[k] = jobs[k]
          /\ jobs'[cur].status = "failed" /\ jobs'[cur].attempts = jobs[cur].attempts
      BY <2>5, Holding
      DEF RecoverMissingSpool, FailJob, JobTables, JobRow
    <3>2. Shown' = [Shown EXCEPT ![cur] = "failed"]
      BY <3>1, <1>0, ShownMove
    <3>3. Spent' = [Spent EXCEPT ![cur] = jobs[cur].attempts]
      BY <3>1, <1>0, SpentMove
    <3>4. Shown[cur] \in {"queued", "running"}
      BY <2>5, <3>1 DEF RecoverMissingSpool, FailJob, JobTables, JobRow, Shown
    <3>5. jobs[cur].attempts \in {Spent[cur], Spent[cur] + 1}
      BY <2>5, <3>1 DEF RecoverMissingSpool, Spent
    <3> QED
      BY <3>1, <3>2, <3>3, <3>4, <3>5, Fails
  <2>6. CASE RecoverCancelled
    <3>1. /\ cur \in Jobs
          /\ \A k \in Jobs \ {cur} : jobs'[k] = jobs[k]
          /\ jobs'[cur].status = "cancelled" /\ jobs'[cur].attempts = jobs[cur].attempts
      BY <2>6, Holding
      DEF RecoverCancelled, MarkCancelled, JobTables, JobRow
    <3>2. Shown' = [Shown EXCEPT ![cur] = "cancelled"]
      BY <3>1, <1>0, ShownMove
    <3>3. Spent' = Spent
      BY <3>1, <1>0, SpentSame
    <3>4. Shown[cur] \in {"queued", "running"}
      BY <2>6, <3>1 DEF RecoverCancelled, MarkCancelled, JobTables, JobRow, Shown
    <3> QED
      BY <3>1, <3>2, <3>3, <3>4, Cancels
  <2>7. CASE RecoverExhausted
    <3>1. /\ cur \in Jobs
          /\ \A k \in Jobs \ {cur} : jobs'[k] = jobs[k]
          /\ jobs'[cur].status = "failed" /\ jobs'[cur].attempts = tries + 1
      BY <2>7, Holding
      DEF RecoverExhausted, FailJob, JobTables, JobRow
    <3>2. Shown' = [Shown EXCEPT ![cur] = "failed"]
      BY <3>1, <1>0, ShownMove
    <3>3. Spent' = [Spent EXCEPT ![cur] = tries + 1]
      BY <3>1, <1>0, SpentMove
    <3>4. Shown[cur] \in {"queued", "running"}
      BY <2>7, <3>1 DEF RecoverExhausted, FailJob, JobTables, JobRow, Shown
    <3>5. tries + 1 \in {Spent[cur], Spent[cur] + 1}
      BY <2>7, <3>1 DEF RecoverExhausted, Spent
    <3> QED
      BY <3>1, <3>2, <3>3, <3>4, <3>5, Fails
  <2>8. CASE RecoverRequeue
    <3>1. /\ cur \in Jobs
          /\ \A k \in Jobs \ {cur} : jobs'[k] = jobs[k]
          /\ jobs'[cur].status = "queued" /\ jobs'[cur].attempts = tries + 1
      BY <2>8, Holding
      DEF RecoverRequeue, RequeueJob, JobTables, JobRow
    <3>2. Shown' = [Shown EXCEPT ![cur] = "queued"]
      BY <3>1, <1>0, ShownMove
    <3>3. Spent' = [Spent EXCEPT ![cur] = tries + 1]
      BY <3>1, <1>0, SpentMove
    <3>4. Shown[cur] \in {"queued", "running"}
      BY <2>8, <3>1 DEF RecoverRequeue, RequeueJob, JobTables, JobRow, Shown
    <3>5. Spent[cur] = tries /\ tries + 1 < MaxAttempts
      BY <2>8, <3>1 DEF RecoverRequeue, Spent
    <3> QED
      BY <3>1, <3>2, <3>3, <3>4, <3>5, Retries
  <2>9. CASE RecoveryErrs
    BY <2>9, Invisible DEF RecoveryErrs
  <2> QED
    BY <1>7, <2>1, <2>2, <2>3, <2>4, <2>5, <2>6, <2>7, <2>8, <2>9 DEF Recovery
<1>8. ASSUME NEW j \in Jobs, BackoffElapses(j) PROVE [Lifecycle!Next]_(Lifecycle!vars)
  <2>1. /\ \A k \in Jobs \ {j} : jobs'[k] = jobs[k]
        /\ jobs'[j].status = jobs[j].status
        /\ jobs'[j].attempts = jobs[j].attempts
    BY <1>8 DEF BackoffElapses, JobTables, JobRow
  <2> QED
    BY <2>1, <1>0, RowOnly
<1>9. ASSUME NEW j \in Jobs, LoseSpool(j) PROVE [Lifecycle!Next]_(Lifecycle!vars)
  BY <1>9, Invisible DEF LoseSpool
<1>10. CASE UNCHANGED vars
  BY <1>10, Invisible DEF vars
<1> QED
  BY <1>1, <1>2, <1>3, <1>4, <1>5, <1>6, <1>7, <1>8, <1>9, <1>10 DEF Next

\* To a client that polls, the whole machinery is the job lifecycle: whatever
\* crashes and faults happen, every change of a row is a step of it.
THEOREM RefinesLifecycle == Spec => ImplementsLifecycle
<1>1. Init => Lifecycle!Init
  BY DEF Init, NoRow, Shown, Spent, IsRunning, Running, Lifecycle!Init
<1>2. TypeOK /\ ControlInv /\ [Next]_vars => [Lifecycle!Next]_(Lifecycle!vars)
  BY LifecycleStep
<1> QED
  BY <1>1, <1>2, ControlCorrect, PTL DEF Spec, ImplementsLifecycle
=============================================================================
