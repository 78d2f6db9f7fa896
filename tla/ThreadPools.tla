----------------------------- MODULE ThreadPools -----------------------------
(***************************************************************************)
(* One pool of core/threadpools.py: a semaphore of MaxPending permits in   *)
(* front of an executor with Workers threads.  A call that is cancelled    *)
(* (asyncio.wait_for in the routes, a stopped worker) gives its permit     *)
(* back while its function runs on, or leaves a dead entry in the queue of *)
(* the executor.                                                           *)
(***************************************************************************)
EXTENDS Naturals, Sequences, FiniteSets, SequencesExt

CONSTANTS PoolCalls, Workers, MaxPending

ASSUME PoolAssumption ==
  /\ Workers \in Nat \ {0} /\ MaxPending \in Nat
  /\ MaxPending >= Workers          \* PoolSettings checks this

VARIABLES
  await,     \* await[c]: what the coroutine of call c waits for
  line,      \* the callers the semaphore has not woken, in order
  permits,   \* the semaphore's value
  inflight, waiting,
  work,      \* the executor's queue; the entry of a cancelled call is dead
  dead,
  busy,      \* the calls whose function runs on a thread
  closed     \* shutdown has begun

counters == <<inflight, waiting>>
executor == <<work, dead, busy>>
pool == <<await, line, permits, counters, executor, closed>>

PoolInit ==
  /\ await = [c \in PoolCalls |-> "new"]
  /\ line = <<>> /\ permits = MaxPending
  /\ inflight = 0 /\ waiting = 0
  /\ work = <<>> /\ dead = {} /\ busy = {}
  /\ closed = FALSE

Waits(c, from, to) == await[c] = from /\ await' = [await EXCEPT ![c] = to]

\* The event loop stands still while shutdown joins the threads.
LoopRuns == closed => busy = {}

-----------------------------------------------------------------------------
(* The semaphore, which belongs to asyncio.  Release wakes the first in    *)
(* line; a caller that was woken, and one whose wait was cancelled, wake   *)
(* as many as there are permits for.  Nobody overtakes a woken caller.     *)

Woken == {c \in PoolCalls : await[c] = "woken"}

WakeUp(most, callers, queue, free) ==
  LET n == CHOOSE m \in 0..most :
             /\ m <= free /\ m <= Len(queue)
             /\ m \in {most, free, Len(queue)}
      first == {queue[i] : i \in 1..n}
  IN /\ await' = [c \in PoolCalls |-> IF c \in first THEN "woken" ELSE callers[c]]
     /\ line' = SubSeq(queue, n + 1, Len(queue))
     /\ permits' = free - n

Release(callers) == WakeUp(1, callers, line, permits + 1)

Ended(c) == [await EXCEPT ![c] = "ended"]

-----------------------------------------------------------------------------
(* ThreadPools.run                                                         *)

\* A permit is free: the call reaches the executor without a pause.  Once
\* the pools are unbound a call goes elsewhere.
AdmitAtOnce(c) ==
  /\ LoopRuns /\ ~ closed
  /\ permits > 0 /\ Woken = {} /\ line = <<>>
  /\ Waits(c, "new", "result")
  /\ permits' = permits - 1 /\ inflight' = inflight + 1
  /\ work' = Append(work, c)
  /\ UNCHANGED <<line, waiting, dead, busy, closed>>

StandInLine(c) ==
  /\ LoopRuns /\ ~ closed
  /\ permits = 0 \/ Woken # {} \/ line # <<>>
  /\ Waits(c, "new", "permit")
  /\ line' = Append(line, c) /\ waiting' = waiting + 1
  /\ UNCHANGED <<permits, inflight, executor, closed>>

\* The wait for a permit is cancelled.
GiveUp(c) ==
  /\ LoopRuns
  /\ await[c] = "permit"
  /\ \E i \in DOMAIN line :
       line[i] = c /\ WakeUp(Len(line), Ended(c), RemoveAt(line, i), permits)
  /\ waiting' = waiting - 1
  /\ UNCHANGED <<inflight, executor, closed>>

\* A woken caller goes on to the executor, which refuses it after shutdown:
\* then the finally clause releases the permit.
Admit(c) ==
  /\ LoopRuns
  /\ await[c] = "woken" /\ waiting' = waiting - 1
  /\ IF closed
     THEN /\ WakeUp(Len(line), Ended(c), line, permits + 1)
          /\ UNCHANGED <<inflight, work>>
     ELSE /\ WakeUp(Len(line), [await EXCEPT ![c] = "result"], line, permits)
          /\ inflight' = inflight + 1 /\ work' = Append(work, c)
  /\ UNCHANGED <<dead, busy, closed>>

\* ... or was cancelled after it was woken: the semaphore takes back the permit.
GiveBack(c) ==
  /\ LoopRuns
  /\ await[c] = "woken" /\ waiting' = waiting - 1
  /\ WakeUp(Len(line), Ended(c), line, permits + 1)
  /\ UNCHANGED <<inflight, executor, closed>>

\* Mutant: the permit of a cancelled call is not released.
AbandonUnreleased(c) ==
  /\ LoopRuns
  /\ Waits(c, "result", "ended")
  /\ inflight' = inflight - 1
  /\ dead' = dead \cup {x \in {c} : \E i \in DOMAIN work : work[i] = x}
  /\ UNCHANGED <<line, permits, waiting, work, busy, closed>>

\* Mutant: the permit of a cancelled call is given to nobody in line.
AbandonQuietly(c) ==
  /\ LoopRuns
  /\ Waits(c, "result", "ended")
  /\ permits' = permits + 1 /\ inflight' = inflight - 1
  /\ dead' = dead \cup {x \in {c} : \E i \in DOMAIN work : work[i] = x}
  /\ UNCHANGED <<line, waiting, work, busy, closed>>

\* The wait for the result is cancelled.  A queued call dies, a running one
\* goes on without anybody waiting for it; either way the permit is free.
AbandonCall(c) ==
  /\ LoopRuns
  /\ await[c] = "result"
  /\ Release(Ended(c))
  /\ inflight' = inflight - 1
  /\ dead' = dead \cup {x \in {c} : \E i \in DOMAIN work : work[i] = x}
  /\ UNCHANGED <<waiting, work, busy, closed>>

\* The event loop hears that the function returned or raised.
Return(c) ==
  /\ LoopRuns
  /\ await[c] = "posted"
  /\ Release(Ended(c))
  /\ inflight' = inflight - 1
  /\ UNCHANGED <<waiting, executor, closed>>

-----------------------------------------------------------------------------
(* The executor's threads, and shutdown.                                   *)

Start ==
  /\ work # <<>> /\ Cardinality(busy) < Workers
  /\ work' = Tail(work)
  /\ IF Head(work) \in dead
     THEN dead' = dead \ {Head(work)} /\ UNCHANGED busy
     ELSE busy' = busy \cup {Head(work)} /\ UNCHANGED dead
  /\ UNCHANGED <<await, line, permits, counters, closed>>

Finish(c) ==
  /\ c \in busy /\ busy' = busy \ {c}
  /\ await' = [await EXCEPT ![c] = IF @ = "result" THEN "posted" ELSE @]
  /\ UNCHANGED <<line, permits, counters, work, dead, closed>>

\* shutdown(wait=True, cancel_futures=True): what is queued is cancelled,
\* which its callers hear of when the threads are done.
Shutdown ==
  /\ ~ closed /\ closed' = TRUE
  /\ work' = <<>> /\ dead' = {}
  /\ await' = [c \in PoolCalls |->
                 IF \E i \in DOMAIN work : work[i] = c /\ c \notin dead
                 THEN "posted" ELSE await[c]]
  /\ UNCHANGED <<line, permits, counters, busy>>

-----------------------------------------------------------------------------
PoolLoop(c) == Admit(c) \/ Return(c)
PoolRequest(c) == AdmitAtOnce(c) \/ StandInLine(c)
PoolCancel(c) == GiveUp(c) \/ GiveBack(c) \/ AbandonCall(c)

PoolNext ==
  \/ \E c \in PoolCalls :
       PoolRequest(c) \/ PoolCancel(c) \/ PoolLoop(c) \/ Finish(c)
  \/ Start \/ Shutdown

\* The event loop turns, the threads run, and what they run comes to an end.
PoolFairness ==
  /\ WF_pool(Start)
  /\ \A c \in PoolCalls : WF_pool(PoolLoop(c)) /\ WF_pool(Finish(c))

PoolSpec == PoolInit /\ [][PoolNext]_pool

-----------------------------------------------------------------------------
(* Properties.                                                             *)

Holders == {c \in PoolCalls : await[c] \in {"result", "posted"}}

\* Whatever is cancelled, and when: every permit is free or held by one call,
\* and describe() reports the calls that hold one and those that wait.
PermitsConserved ==
  /\ permits + Cardinality(Holders) + Cardinality(Woken) = MaxPending
  /\ inflight = Cardinality(Holders)
  /\ waiting = Len(line) + Cardinality(Woken)

\* Nobody stands in line while a permit is free, unless a woken caller is
\* about to pass it on.
NoIdlePermit == line # <<>> => permits = 0 \/ Woken # {}

\* The functions queued and running exceed max_pending only by those nobody
\* waits for any more, which hold a thread each.
WorkBounded ==
  Cardinality(busy) + Len(work) - Cardinality(dead)
    <= MaxPending + Cardinality({c \in busy : await[c] = "ended"})

\* Admission counts right through every cancellation, also of a caller that was
\* woken and of one whose function still runs.
AdmissionExact == PermitsConserved /\ NoIdlePermit /\ WorkBounded

\* A call that stands in line is admitted in the end, also when those before
\* it are cancelled and when the service shuts down.
LineMoves == \A c \in PoolCalls : await[c] = "permit" ~> await[c] # "permit"
=============================================================================
