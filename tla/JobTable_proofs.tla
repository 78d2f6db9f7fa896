-------------------------- MODULE JobTable_proofs --------------------------
(***************************************************************************)
(* What the statements do to a table: each changes the row it names and    *)
(* keeps the table well formed.                                            *)
(***************************************************************************)
EXTENDS JobTable, TLAPS

LEMMA RowType ==
  ASSUME NEW t \in JobTables, NEW j \in Jobs
  PROVE  /\ t[j].status \in Statuses \cup {"absent"}
         /\ t[j].cancel \in BOOLEAN /\ t[j].parked \in BOOLEAN
         /\ t[j].attempts \in 0 .. MaxAttempts
         /\ t[j].created \in Nat
BY DEF JobTables, JobRow

LEMMA Zero == 0 \in 0 .. MaxAttempts /\ 0 \in 0 .. 4
BY MaxAttemptsAssumption

LEMMA CreateType ==
  ASSUME NEW t \in JobTables, NEW j \in Jobs, NEW now \in Nat
  PROVE  CreateJob(t, j, now) \in JobTables
BY Zero DEF CreateJob, JobTables, JobRow, Queued, Statuses

LEMMA MarkType ==
  ASSUME NEW t \in JobTables, NEW j \in Jobs, NEW s \in Running
  PROVE  MarkJob(t, j, s) \in JobTables
BY DEF MarkJob, JobTables, JobRow, Statuses

LEMMA RequestCancelType ==
  ASSUME NEW t \in JobTables, NEW j \in Jobs
  PROVE  RequestCancel(t, j) \in JobTables
BY DEF RequestCancel, JobTables, JobRow

LEMMA RequeueType ==
  ASSUME NEW t \in JobTables, NEW j \in Jobs, NEW n \in 0 .. MaxAttempts,
         NEW b \in BOOLEAN
  PROVE  RequeueJob(t, j, n, b) \in JobTables
BY DEF RequeueJob, JobTables, JobRow, Queued, Statuses

LEMMA MarkCancelledType ==
  ASSUME NEW t \in JobTables, NEW j \in Jobs
  PROVE  MarkCancelled(t, j) \in JobTables
BY DEF MarkCancelled, JobTables, JobRow, Statuses, Terminal

LEMMA FinishType ==
  ASSUME NEW t \in JobTables, NEW j \in Jobs
  PROVE  FinishJob(t, j) \in JobTables
BY DEF FinishJob, JobTables, JobRow, Statuses, Terminal

LEMMA FailType ==
  ASSUME NEW t \in JobTables, NEW j \in Jobs, NEW n \in 0 .. MaxAttempts
  PROVE  FailJob(t, j, n) \in JobTables
BY DEF FailJob, JobTables, JobRow, Statuses, Terminal

-----------------------------------------------------------------------------
\* A statement touches no row but its own, and of that row only what it names.
LEMMA CreateRow ==
  ASSUME NEW t \in JobTables, NEW j \in Jobs, NEW now \in Nat
  PROVE  /\ \A k \in Jobs \ {j} : CreateJob(t, j, now)[k] = t[k]
         /\ CreateJob(t, j, now)[j].status = Queued
         /\ ~ CreateJob(t, j, now)[j].parked
         /\ ~ CreateJob(t, j, now)[j].cancel
         /\ CreateJob(t, j, now)[j].attempts = 0
BY DEF CreateJob, JobTables, JobRow

LEMMA MarkRow ==
  ASSUME NEW t \in JobTables, NEW j \in Jobs, NEW s \in Running
  PROVE  /\ \A k \in Jobs \ {j} : MarkJob(t, j, s)[k] = t[k]
         /\ MarkJob(t, j, s)[j].status = s
         /\ MarkJob(t, j, s)[j].parked = t[j].parked
         /\ MarkJob(t, j, s)[j].cancel = t[j].cancel
         /\ MarkJob(t, j, s)[j].attempts = t[j].attempts
BY DEF MarkJob, JobTables, JobRow

LEMMA RequestCancelRow ==
  ASSUME NEW t \in JobTables, NEW j \in Jobs
  PROVE  /\ \A k \in Jobs \ {j} : RequestCancel(t, j)[k] = t[k]
         /\ RequestCancel(t, j)[j].status = t[j].status
         /\ RequestCancel(t, j)[j].parked = t[j].parked
         /\ RequestCancel(t, j)[j].cancel
         /\ RequestCancel(t, j)[j].attempts = t[j].attempts
BY DEF RequestCancel, JobTables, JobRow

LEMMA MarkCancelledRow ==
  ASSUME NEW t \in JobTables, NEW j \in Jobs
  PROVE  /\ \A k \in Jobs \ {j} : MarkCancelled(t, j)[k] = t[k]
         /\ MarkCancelled(t, j)[j].status = "cancelled"
         /\ MarkCancelled(t, j)[j].parked = t[j].parked
         /\ MarkCancelled(t, j)[j].cancel = t[j].cancel
BY DEF MarkCancelled, JobTables, JobRow

LEMMA FinishRow ==
  ASSUME NEW t \in JobTables, NEW j \in Jobs
  PROVE  /\ \A k \in Jobs \ {j} : FinishJob(t, j)[k] = t[k]
         /\ FinishJob(t, j)[j].status = "done"
         /\ FinishJob(t, j)[j].parked = t[j].parked
         /\ FinishJob(t, j)[j].cancel = t[j].cancel
BY DEF FinishJob, JobTables, JobRow

LEMMA FailRow ==
  ASSUME NEW t \in JobTables, NEW j \in Jobs, NEW n \in 0 .. MaxAttempts
  PROVE  /\ \A k \in Jobs \ {j} : FailJob(t, j, n)[k] = t[k]
         /\ FailJob(t, j, n)[j].status = "failed"
         /\ FailJob(t, j, n)[j].parked = t[j].parked
         /\ FailJob(t, j, n)[j].cancel = t[j].cancel
BY DEF FailJob, JobTables, JobRow
=============================================================================
