------------------------------ MODULE Evaluation ------------------------------
(***************************************************************************)
(* Evaluation sets, frozen versions, runs, the regression gate and its        *)
(* checks (api/evaluation.py, the eval tables of corpus/repository.py), and   *)
(* the worker's execution of eval_run and gate_check jobs.                    *)
(*                                                                         *)
(* There is one evaluation set and one gate scope.  Every run id has its      *)
(* job, its eval_runs row and, when the job is a gate check, its              *)
(* gate_checks row; they are written in transactions of their own.  A         *)
(* transaction is a step; a handler that only reads before its one write is   *)
(* that write, since a foreign key or a unique index that refuses the write    *)
(* changes no more than an early return.  The canary a check queries is in     *)
(* IndexRebuild.                                                             *)
(***************************************************************************)
EXTENDS Naturals, Sequences, SequencesExt

CONSTANTS
  EvalRuns,          \* run ids
  Questions,         \* question ids
  Tags,              \* version tags
  Freezers,          \* concurrent create_version calls
  EvalAttempts,      \* jobs.max_attempts
  MaxDisturbances    \* bound on restarts and retrieval faults

NoTag  == "none"
Live   == "live"             \* a run without version_id
NoRun  == "no_run"

ASSUME EvaluationAssumption ==
  /\ EvalAttempts \in Nat \ {0} /\ MaxDisturbances \in Nat
  /\ {NoTag, Live} \cap Tags = {} /\ NoRun \notin EvalRuns

VARIABLES
  evalset,           \* the set: is the row there, its questions in rowid order
  frozen,            \* version snapshots by tag, <<>> for no version
  freezers,          \* create_version calls in progress
  rgate,             \* the tag the gate row names, NoTag for no row
  evruns,            \* per run id: the eval_runs, job and gate_checks rows
  evworker,          \* what the worker holds of the job it executes
  evstuck,           \* jobs an exception left in their stage since the last start
  evfaults           \* restarts and faults so far

eval_vars == <<evalset, frozen, freezers, rgate, evruns, evworker, evstuck, evfaults>>

NoEvalRun == [kind |-> "eval_run", tag |-> Live, row |-> FALSE, results |-> <<>>,
              job |-> "absent", attempts |-> 0, cancel |-> FALSE, check |-> "absent"]
IdleWorker   == [run |-> NoRun, step |-> "idle", list |-> <<>>, got |-> <<>>]
IdleFreezer  == [step |-> "idle", tag |-> NoTag, list |-> <<>>]

EvalUnfinished(r) == evruns[r].job \in {"queued", "evaluating"}

EvalInit ==
  /\ evalset = [there |-> TRUE, questions |-> <<>>]
  /\ frozen = [t \in Tags |-> <<>>]
  /\ freezers = [c \in Freezers |-> IdleFreezer]
  /\ rgate = NoTag
  /\ evruns = [r \in EvalRuns |-> NoEvalRun]
  /\ evworker = IdleWorker
  /\ evstuck = {}
  /\ evfaults = 0

-----------------------------------------------------------------------------
(* The set and its questions.                                               *)

AddQuestion(q) ==
  /\ evalset.there /\ ~Contains(evalset.questions, q)
  /\ evalset' = [evalset EXCEPT !.questions = Append(@, q)]
  /\ UNCHANGED <<frozen, freezers, rgate, evruns, evworker, evstuck, evfaults>>

\* ON DELETE CASCADE from the gate row: its checks.
WithoutChecks(rs) == [r \in EvalRuns |-> [rs[r] EXCEPT !.check = "absent"]]

\* ON DELETE CASCADE from the set row: the runs and their results.  Jobs stay.
WithoutRuns(rs) == [r \in EvalRuns |-> [rs[r] EXCEPT !.row = FALSE, !.results = <<>>]]

DeleteSet ==
  /\ evalset.there
  /\ evalset' = [there |-> FALSE, questions |-> <<>>]
  /\ frozen' = [t \in Tags |-> <<>>]
  /\ rgate' = NoTag
  /\ evruns' = WithoutChecks(WithoutRuns(evruns))
  /\ UNCHANGED <<freezers, evworker, evstuck, evfaults>>

-----------------------------------------------------------------------------
(* create_version: the tag, the questions and the insertion are read and     *)
(* written in three transactions.                                           *)

AskTag(c, t) ==
  /\ freezers[c] = IdleFreezer
  /\ evalset.there /\ frozen[t] = <<>>
  /\ freezers' = [freezers EXCEPT ![c] = [step |-> "asked", tag |-> t, list |-> <<>>]]
  /\ UNCHANGED <<evalset, frozen, rgate, evruns, evworker, evstuck, evfaults>>

\* No questions, or no set any more: 422.
ReadQuestions(c) ==
  /\ freezers[c].step = "asked"
  /\ freezers' = [freezers EXCEPT ![c] =
       IF evalset.questions = <<>> THEN IdleFreezer
       ELSE [@ EXCEPT !.step = "read", !.list = evalset.questions]]
  /\ UNCHANGED <<evalset, frozen, rgate, evruns, evworker, evstuck, evfaults>>

\* REFERENCES eval_sets and UNIQUE(set_id, tag).
VersionInsertable(t) == evalset.there /\ frozen[t] = <<>>

CreateVersion(c) ==
  /\ freezers[c].step = "read"
  /\ frozen' = IF VersionInsertable(freezers[c].tag)
               THEN [frozen EXCEPT ![freezers[c].tag] = freezers[c].list]
               ELSE frozen
  /\ freezers' = [freezers EXCEPT ![c] = IdleFreezer]
  /\ UNCHANGED <<evalset, rgate, evruns, evworker, evstuck, evfaults>>

-----------------------------------------------------------------------------
(* The gate.                                                                *)

CreateGate(t) ==
  /\ rgate = NoTag /\ frozen[t] # <<>>
  /\ rgate' = t
  /\ UNCHANGED <<evalset, frozen, freezers, evruns, evworker, evstuck, evfaults>>

DeleteGate ==
  /\ rgate # NoTag
  /\ rgate' = NoTag
  /\ evruns' = WithoutChecks(evruns)
  /\ UNCHANGED <<evalset, frozen, freezers, evworker, evstuck, evfaults>>

-----------------------------------------------------------------------------
(* Submission: the run or check row first, the job in a later transaction.   *)

CreateEvalRun(r, t) ==
  /\ evruns[r] = NoEvalRun
  /\ evalset.there
  /\ IF t = Live THEN evalset.questions # <<>> ELSE frozen[t] # <<>>
  /\ evruns' = [evruns EXCEPT ![r] =
       [@ EXCEPT !.tag = t, !.row = TRUE, !.job = "submitted"]]
  /\ UNCHANGED <<evalset, frozen, freezers, rgate, evworker, evstuck, evfaults>>

\* The canary was there when the handler read the binding.
CreateGateCheck(r) ==
  /\ evruns[r] = NoEvalRun
  /\ rgate # NoTag
  /\ evruns' = [evruns EXCEPT ![r] =
       [@ EXCEPT !.kind = "gate_check", !.tag = rgate, !.check = "running",
                 !.job = "submitted"]]
  /\ UNCHANGED <<evalset, frozen, freezers, rgate, evworker, evstuck, evfaults>>

CreateEvalJob(r) ==
  /\ evruns[r].job = "submitted"
  /\ evruns' = [evruns EXCEPT ![r].job = "queued"]
  /\ UNCHANGED <<evalset, frozen, freezers, rgate, evworker, evstuck, evfaults>>

RequestEvalCancel(r) ==
  /\ EvalUnfinished(r) /\ ~evruns[r].cancel
  /\ evruns' = [evruns EXCEPT ![r].cancel = TRUE]
  /\ UNCHANGED <<evalset, frozen, freezers, rgate, evworker, evstuck, evfaults>>

-----------------------------------------------------------------------------
(* The worker.  claim_next_queued skips parked jobs, so that which of the     *)
(* queued jobs is the oldest claimable one is open.                           *)

EvalSettings(r, new, step) ==
  /\ evruns' = [evruns EXCEPT ![r] = new]
  /\ evworker' = IF step = "idle" THEN IdleWorker
                 ELSE [evworker EXCEPT !.step = step]
  /\ UNCHANGED <<evalset, frozen, freezers, rgate>>

Executes(step) == evworker.step = step
EvalRow == evruns[evworker.run]

ClaimEval(r) ==
  /\ evworker = IdleWorker
  /\ evruns[r].job = "queued"
  /\ evworker' = [IdleWorker EXCEPT !.run = r, !.step = "load"]
  /\ UNCHANGED <<evalset, frozen, freezers, rgate, evruns, evstuck, evfaults>>

\* The live questions, or the snapshot of the version; <<>> when any of the
\* rows the pipeline reads is gone.
QuestionsOf(r) ==
  IF r.tag = Live THEN evalset.questions ELSE frozen[r.tag]

\* A run reads its own row, a check that of its gate, which is there as long as
\* the check is; 404 and 422 are final.
CanLoad(r) ==
  /\ QuestionsOf(r) # <<>>
  /\ IF r.kind = "eval_run" THEN r.row ELSE r.check # "absent"

GivenUp(r) == [r EXCEPT !.job = "failed", !.attempts = @ + 1]

LoadQuestions ==
  /\ Executes("load")
  /\ IF CanLoad(EvalRow)
     THEN /\ evworker' = [evworker EXCEPT !.list = QuestionsOf(EvalRow),
                !.step = IF EvalRow.kind = "eval_run" THEN "mark" ELSE "open"]
          /\ UNCHANGED <<evalset, frozen, freezers, rgate, evruns>>
     ELSE EvalSettings(evworker.run, GivenUp(EvalRow), "idle")
  /\ UNCHANGED <<evstuck, evfaults>>

\* run_gate_check creates its run once; a retry finds it.  The foreign key's
\* IntegrityError is no HTTPException: it leaves the job queued.
OpenRun ==
  /\ Executes("open")
  /\ IF evalset.there
     THEN EvalSettings(evworker.run, [EvalRow EXCEPT !.row = TRUE], "mark")
     ELSE EvalSettings(evworker.run, EvalRow, "idle")
  /\ UNCHANGED <<evstuck, evfaults>>

MarkEvaluating ==
  /\ Executes("mark")
  /\ EvalSettings(evworker.run, [EvalRow EXCEPT !.job = "evaluating"], "ask")
  /\ UNCHANGED <<evstuck, evfaults>>

\* The probe before each question; a check's row is updated after the job's.
ObserveEvalCancel ==
  /\ Executes("ask") /\ EvalRow.cancel
  /\ EvalSettings(evworker.run, [EvalRow EXCEPT !.job = "cancelled"],
                  IF EvalRow.kind = "gate_check" THEN "withdraw" ELSE "idle")
  /\ UNCHANGED <<evstuck, evfaults>>

\* Mutant: the check stands on the questions answered so far.
WithdrawnAs(r) == IF r.results = <<>> THEN "cancelled" ELSE "passed"

Withdrawn(r) == "cancelled"

\* update_gate_check: no row, no update.
Conclude(r, status) ==
  [r EXCEPT !.check = IF @ = "absent" THEN @ ELSE status]

WithdrawCheck ==
  /\ Executes("withdraw")
  /\ EvalSettings(evworker.run, Conclude(EvalRow, Withdrawn(EvalRow)), "idle")
  /\ UNCHANGED <<evstuck, evfaults>>

AskQuestion(hit) ==
  /\ Executes("ask") /\ ~EvalRow.cancel
  /\ LET asked == evworker.list[Len(evworker.got) + 1]
     IN evworker' = [evworker EXCEPT !.step = "keep",
                       !.got = Append(@, [of |-> asked, hit |-> hit])]
  /\ UNCHANGED <<evalset, frozen, freezers, rgate, evruns, evstuck, evfaults>>

\* An HTTPException while a question is asked, after the probe: a 5xx of the
\* retrieval, or of the LLM that is not there, is requeued until the attempts are
\* used up, a 4xx is final.  The check's row is not touched.
EvalFault(retryable) ==
  /\ Executes("ask")
  /\ evfaults < MaxDisturbances
  /\ evfaults' = evfaults + 1
  /\ LET tried == EvalRow.attempts + 1
     IN EvalSettings(evworker.run,
          IF retryable /\ tried < EvalAttempts
          THEN [EvalRow EXCEPT !.job = "queued", !.attempts = tried, !.cancel = FALSE]
          ELSE GivenUp(EvalRow),
          "idle")
  /\ UNCHANGED evstuck

\* The worker logs any other exception and turns to the next job; what it leaves
\* in its stage is settled by the next start.
LeaveStuck ==
  /\ EvalSettings(evworker.run, EvalRow, "idle")
  /\ evstuck' = IF EvalRow.job = "evaluating" THEN evstuck \cup {evworker.run} ELSE evstuck

\* The retrieval, or any statement, raises what is no HTTPException.
EvalRaises ==
  /\ ~Executes("idle")
  /\ evfaults < MaxDisturbances
  /\ evfaults' = evfaults + 1
  /\ LeaveStuck

ResultsInsertable(r) == r.row

\* replace_eval_results; the IntegrityError of a run that is gone leaves the
\* job evaluating.
KeepResults ==
  /\ Executes("keep")
  /\ IF ResultsInsertable(EvalRow)
     THEN /\ EvalSettings(evworker.run, [EvalRow EXCEPT !.results = evworker.got],
               IF Len(evworker.got) < Len(evworker.list) THEN "ask"
               ELSE IF EvalRow.kind = "gate_check" THEN "verdict" ELSE "finish")
          /\ UNCHANGED evstuck
     ELSE LeaveStuck
  /\ UNCHANGED evfaults

HitCount(results) == Len(SelectSeq(results, LAMBDA x : x.hit))

\* The floor of the instance: mean recall at least one half.
ClearsFloor(results) == 2 * HitCount(results) >= Len(results)

GiveVerdict ==
  /\ Executes("verdict")
  /\ EvalSettings(evworker.run,
       Conclude(EvalRow, IF ClearsFloor(evworker.got) THEN "passed" ELSE "failed"),
       "finish")
  /\ UNCHANGED <<evstuck, evfaults>>

FinishEval ==
  /\ Executes("finish")
  /\ EvalSettings(evworker.run, [EvalRow EXCEPT !.job = "done"], "idle")
  /\ UNCHANGED <<evstuck, evfaults>>

WorkerStep ==
  \/ \E r \in EvalRuns : ClaimEval(r)
  \/ LoadQuestions \/ OpenRun \/ MarkEvaluating
  \/ ObserveEvalCancel \/ WithdrawCheck
  \/ \E hit \in BOOLEAN : AskQuestion(hit)
  \/ KeepResults \/ GiveVerdict \/ FinishEval

-----------------------------------------------------------------------------
(* A restart: these jobs have no spool, so the recovery fails the ones it     *)
(* finds in a stage; submissions in progress are lost with the process.        *)

\* Mutant: "evaluating" is no stage to the recovery.
RecoveredOther(r) == IF r.job = "submitted" THEN [r EXCEPT !.job = "lost"] ELSE r

RecoveredEval(r) ==
  IF r.job = "evaluating" THEN [r EXCEPT !.job = "failed"]
  ELSE IF r.job = "submitted" THEN [r EXCEPT !.job = "lost"] ELSE r

EvalRestart ==
  /\ evfaults < MaxDisturbances
  /\ evfaults' = evfaults + 1
  /\ evruns' = [r \in EvalRuns |-> RecoveredEval(evruns[r])]
  /\ evworker' = IdleWorker
  /\ evstuck' = {}
  /\ freezers' = [c \in Freezers |-> IdleFreezer]
  /\ UNCHANGED <<evalset, frozen, rgate>>

EvalNext ==
  \/ \E q \in Questions : AddQuestion(q)
  \/ DeleteSet \/ DeleteGate
  \/ \E c \in Freezers : (\E t \in Tags : AskTag(c, t)) \/ ReadQuestions(c) \/ CreateVersion(c)
  \/ \E t \in Tags : CreateGate(t)
  \/ \E r \in EvalRuns : (\E t \in Tags \cup {Live} : CreateEvalRun(r, t))
  \/ \E r \in EvalRuns : CreateGateCheck(r) \/ CreateEvalJob(r) \/ RequestEvalCancel(r)
  \/ WorkerStep \/ (\E retryable \in BOOLEAN : EvalFault(retryable))
  \/ EvalRaises \/ EvalRestart

\* The worker loop runs as long as the process.
EvalFairness == WF_eval_vars(WorkerStep)

EvalSpec == EvalInit /\ [][EvalNext]_eval_vars /\ EvalFairness

-----------------------------------------------------------------------------
(* Properties.                                                              *)

Asked(results) == [i \in DOMAIN results |-> results[i].of]

\* What a run has recorded is an initial part of the questions it is about, in
\* their order: those of the frozen version whatever was added to the set
\* since, or those of the set; and of a done run of a version it is all of them.
RunFollowsVersion ==
  \A r \in EvalRuns :
    LET e == evruns[r] IN
    e.row =>
      /\ IsPrefix(Asked(e.results), QuestionsOf(e))
      /\ (e.job = "done" /\ e.tag # Live) => Asked(e.results) = frozen[e.tag]

\* A check that passed did so on every question of the version the gate names,
\* and the results that made it pass are the ones on record: neither a retry, a
\* cancel nor a restart leaves a pass that rests on part of them.
PassIsEarned ==
  \A r \in EvalRuns :
    LET e == evruns[r] IN
    e.check = "passed" =>
      /\ Asked(e.results) = frozen[e.tag]
      /\ ClearsFloor(e.results)

\* Nothing outlives the set: a result has its run, a run its set, a check its
\* gate, a gate its version, although each was written in a transaction that
\* did not look for the parent.
EvalRowsOwned ==
  /\ \A r \in EvalRuns :
       /\ evruns[r].results # <<>> => evruns[r].row
       /\ evruns[r].row => evalset.there
       /\ evruns[r].check # "absent" => rgate = evruns[r].tag
  /\ rgate # NoTag => frozen[rgate] # <<>>
  /\ (\E t \in Tags : frozen[t] # <<>>) => evalset.there

\* A submitted evaluation job ends, whatever becomes of its set, its gate and its
\* attempts, unless an exception that is no HTTPException leaves it in its stage;
\* and then the next start ends it.  One that a restart interrupts ends as failed,
\* and is not run again as docs/evaluation.md has it.
EvalEnds ==
  \A r \in EvalRuns : EvalUnfinished(r) ~>
    (evruns[r].job \in {"done", "failed", "cancelled"} \/ r \in evstuck)

\* What is on record about a collection's quality is whole, is about what it says
\* it is about, and belongs to something that still exists.
EvaluationSound == RunFollowsVersion /\ PassIsEarned /\ EvalRowsOwned

=============================================================================
