---------------------------- MODULE JobLifecycle ----------------------------
(***************************************************************************)
(* What the job table promises to a client that polls a job: a submitted   *)
(* job is queued, runs, and comes to rest in exactly one terminal status,  *)
(* which it never leaves.  Every return to the queue spends one attempt    *)
(* out of a fixed budget.  How a job is run, which process runs it, and    *)
(* how often that process dies, is not visible at this level.              *)
(***************************************************************************)
EXTENDS Naturals

CONSTANTS Jobs, MaxAttempts

VARIABLES status,     \* status[j]: what GET /v1/jobs/{j} reports
          attempts    \* attempts[j]: the attempts that have been spent

vars == <<status, attempts>>

AtRest == {"done", "failed", "cancelled"}

Init ==
  /\ status = [j \in Jobs |-> "absent"]
  /\ attempts = [j \in Jobs |-> 0]

Move(j, from, to) ==
  /\ status[j] \in from
  /\ status' = [status EXCEPT ![j] = to]

Submit(j) == Move(j, {"absent"}, "queued") /\ UNCHANGED attempts
Start(j)  == Move(j, {"queued"}, "running") /\ UNCHANGED attempts
Finish(j) == Move(j, {"running"}, "done") /\ UNCHANGED attempts
Cancel(j) == Move(j, {"queued", "running"}, "cancelled") /\ UNCHANGED attempts

Retry(j) ==
  /\ Move(j, {"queued", "running"}, "queued")
  /\ attempts[j] + 1 < MaxAttempts
  /\ attempts' = [attempts EXCEPT ![j] = @ + 1]

\* A failed attempt is counted, unless no attempt could be made at all.
Fail(j) ==
  /\ Move(j, {"queued", "running"}, "failed")
  /\ \E n \in {attempts[j], attempts[j] + 1} :
        attempts' = [attempts EXCEPT ![j] = n]

Progress(j) == Start(j) \/ Finish(j) \/ Cancel(j) \/ Retry(j) \/ Fail(j)

Next == \E j \in Jobs : Submit(j) \/ Progress(j)

Spec == Init /\ [][Next]_vars /\ \A j \in Jobs : WF_vars(Progress(j))
=============================================================================
