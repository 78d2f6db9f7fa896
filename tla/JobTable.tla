------------------------------ MODULE JobTable ------------------------------
(***************************************************************************)
(* The ingest_jobs table of the corpus database and the statements that    *)
(* CorpusRepository runs against it.  A table is a function from job ids   *)
(* to rows; every operator below is one transaction, given the table and   *)
(* returning the table it leaves behind.  The statements are unconditional *)
(* updates unless their WHERE clause says otherwise: which of them may run *)
(* against which row is up to the callers, the worker and the API.         *)
(***************************************************************************)
EXTENDS Naturals

CONSTANTS Jobs,         \* the job ids that may be submitted
          MaxAttempts   \* jobs.max_attempts of the configuration

ASSUME MaxAttemptsAssumption == MaxAttempts \in Nat \ {0}

Queued   == "queued"
Terminal == {"done", "failed", "cancelled"}

\* The stages an ingest job passes, in order.
Stages   == <<"parsing", "chunking", "embedding", "upserting">>
Running  == {"parsing", "chunking", "extracting", "graphing", "evaluating",
             "embedding", "upserting"}
Statuses == {Queued} \cup Running \cup Terminal

\* A job id without a row.  created_ts is the order of the insertions.
NoRow == [status |-> "absent", cancel |-> FALSE, attempts |-> 0,
          parked |-> FALSE, created |-> 0]

JobRow == [status   : Statuses \cup {"absent"},
           cancel   : BOOLEAN,               \* cancel_requested
           attempts : 0 .. MaxAttempts,
           parked   : BOOLEAN,               \* not_before_ts in the future
           created  : Nat]                   \* created_ts

JobTables == [Jobs -> JobRow]

Exists(t, j)      == t[j].status # "absent"
IsTerminal(t, j)  == t[j].status \in Terminal
IsRunning(t, j)   == t[j].status \in Running
Unfinished(t, j)  == t[j].status \in {Queued} \cup Running

-----------------------------------------------------------------------------
(* Statements.                                                             *)

CreateJob(t, j, now) ==
  [t EXCEPT ![j] = [status   |-> Queued, cancel |-> FALSE, parked |-> FALSE,
                    attempts |-> 0, created |-> now]]

MarkJob(t, j, stage) == [t EXCEPT ![j].status = stage]

\* UPDATE ... WHERE status NOT IN (terminal): the caller tests rowcount.
CanRequestCancel(t, j) == Unfinished(t, j)
RequestCancel(t, j)    == [t EXCEPT ![j].cancel = TRUE]

\* Mutant: the attempt is not counted.
RequeueJobUncounted(t, j, attempts, parked) ==
  [t EXCEPT ![j] = [status   |-> Queued, cancel |-> FALSE, parked |-> parked,
                    attempts |-> t[j].attempts, created |-> t[j].created]]

\* The transient state of the attempt goes, the cancel flag included.
RequeueJob(t, j, attempts, parked) ==
  [t EXCEPT ![j] = [status   |-> Queued, cancel |-> FALSE, parked |-> parked,
                    attempts |-> attempts, created |-> t[j].created]]

MarkCancelled(t, j)      == [t EXCEPT ![j].status = "cancelled"]
FinishJob(t, j)          == [t EXCEPT ![j].status = "done"]
FailJob(t, j, attempts)  == [t EXCEPT ![j].status = "failed",
                                      ![j].attempts = attempts]

-----------------------------------------------------------------------------
(* Queries.                                                                *)

Claimable(t) == {j \in Jobs : t[j].status = Queued /\ ~ t[j].parked}

\* ORDER BY created_ts, job_id LIMIT 1
IsOldest(t, S, j) == /\ j \in S
                     /\ \A k \in S : t[j].created <= t[k].created

ClaimNextQueued(t, j) == IsOldest(t, Claimable(t), j)

\* Mutant: the last stage is forgotten.
FindInterruptedShort(t) == {j \in Jobs : t[j].status \in Running \ {"upserting"}}

FindInterrupted(t) == {j \in Jobs : IsRunning(t, j)}
=============================================================================
