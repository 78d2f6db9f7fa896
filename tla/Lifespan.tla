------------------------------- MODULE Lifespan -------------------------------
(***************************************************************************)
(* Processes of the service over one corpus directory: the start-up and the   *)
(* shutdown of core/lifespan.py, the instance lock of core/instance_lock.py,   *)
(* and the work that outlives the coroutine that asked for it.               *)
(*                                                                         *)
(* Threads of the bounded pools do everything that touches the corpus, the    *)
(* models and the vector store; neither a cancelled task nor a stopped worker  *)
(* kills a thread.                                                          *)
(***************************************************************************)
EXTENDS Naturals, FiniteSets

CONSTANTS
  Procs,            \* processes an operator may start
  Families,         \* model families with auto_load
  MaxThreads,       \* pool threads of a process
  MaxCrashes        \* bound on crashes

NoProc == "no_process"

ASSUME LifespanAssumption ==
  /\ {MaxThreads, MaxCrashes} \subseteq Nat
  /\ NoProc \notin Procs

VARIABLES
  holder,           \* the process with the OS lock, NoProc for none
  phase,            \* where each process is in its lifespan
  loaded,           \* families whose slot holds an instance
  tried,            \* families whose eager load was tried
  threads,          \* calls running on the process's pool threads
  leftover,            \* rows that a dead process left in a stage are waiting
  crashes

life_vars == <<holder, phase, loaded, tried, threads, leftover, crashes>>

\* The shutdown runs through these in order; "off" is no process.
NextPhase == [stop_maintenance |-> "stop_worker", stop_worker |-> "unload",
              unload |-> "close_store", close_store |-> "shutdown_pools",
              shutdown_pools |-> "release_lock"]

Alive(p) == phase[p] # "off"

LifeInit ==
  /\ holder = NoProc
  /\ phase = [p \in Procs |-> "off"]
  /\ loaded = [p \in Procs |-> {}]
  /\ tried = [p \in Procs |-> {}]
  /\ threads = [p \in Procs |-> 0]
  /\ leftover = FALSE
  /\ crashes = 0

PhaseGoes(p, to) == phase' = [phase EXCEPT ![p] = to]
InPhase(p, at)   == phase[p] = at

\* The pools are bound before the lock is asked for.
StartProcess(p) ==
  /\ InPhase(p, "off")
  /\ PhaseGoes(p, "acquire")
  /\ UNCHANGED <<holder, loaded, tried, threads, leftover, crashes>>

LockFree(p) == holder = NoProc

\* InstanceLock.acquire: InstanceAlreadyRunning ends the process.
Acquire(p) ==
  /\ InPhase(p, "acquire")
  /\ IF LockFree(p)
     THEN holder' = p /\ PhaseGoes(p, "initialize")
     ELSE PhaseGoes(p, "off") /\ UNCHANGED holder
  /\ UNCHANGED <<loaded, tried, threads, leftover, crashes>>

\* Schema, store and slots; a store that is not there is only logged.
InitializeCorpus(p) ==
  /\ InPhase(p, "initialize")
  /\ PhaseGoes(p, "load")
  /\ UNCHANGED <<holder, loaded, tried, threads, leftover, crashes>>

\* One eager load; it fails open.
EagerLoad(p, f, ok) ==
  /\ InPhase(p, "load") /\ f \notin tried[p]
  /\ tried' = [tried EXCEPT ![p] = @ \cup {f}]
  /\ loaded' = [loaded EXCEPT ![p] = IF ok THEN @ \cup {f} ELSE @]
  /\ UNCHANGED <<holder, phase, threads, leftover, crashes>>

EagerLoadsDone(p) ==
  /\ InPhase(p, "load") /\ tried[p] = Families
  /\ PhaseGoes(p, "recover")
  /\ UNCHANGED <<holder, loaded, tried, threads, leftover, crashes>>

\* recover_interrupted, best-effort, before the workers start.
RecoverAndServe(p, ok) ==
  /\ InPhase(p, "recover")
  /\ leftover' = (leftover /\ ~ok)
  /\ PhaseGoes(p, "serve")
  /\ UNCHANGED <<holder, loaded, tried, threads, crashes>>

\* A request or a worker puts a blocking call on a pool; until the pools are
\* shut down, the clean-ups of the shutdown do so too.
CallThread(p) ==
  /\ phase[p] \in {"serve", "stop_maintenance", "stop_worker", "unload", "close_store"}
  /\ threads[p] < MaxThreads
  /\ threads' = [threads EXCEPT ![p] = @ + 1]
  /\ UNCHANGED <<holder, phase, loaded, tried, leftover, crashes>>

ThreadReturns(p) ==
  /\ threads[p] > 0
  /\ threads' = [threads EXCEPT ![p] = @ - 1]
  /\ UNCHANGED <<holder, phase, loaded, tried, leftover, crashes>>

\* A model that a route loads or unloads; its thread may outlast the serving.
HotSwap(p, f) ==
  /\ InPhase(p, "serve") \/ (phase[p] \in DOMAIN NextPhase /\ threads[p] > 0)
  /\ loaded' = [loaded EXCEPT ![p] = IF f \in @ THEN @ \ {f} ELSE @ \cup {f}]
  /\ UNCHANGED <<holder, phase, tried, threads, leftover, crashes>>

\* The end of the serving; uvicorn leaves the context manager.
StopServing(p) ==
  /\ InPhase(p, "serve")
  /\ PhaseGoes(p, "stop_maintenance")
  /\ UNCHANGED <<holder, loaded, tried, threads, leftover, crashes>>

\* Mutant: executor.shutdown(wait=False).
PoolsQuietAtOnce(p) == TRUE

\* executor.shutdown(wait=True, cancel_futures=True).
PoolsQuiet(p) == threads[p] = 0

\* Each clean-up is best-effort: it is gone through whether it works or not.
\* A job that the worker's cancelled task leaves in a stage is leftover.
ShutdownStep(p) ==
  /\ phase[p] \in DOMAIN NextPhase
  /\ InPhase(p, "shutdown_pools") => PoolsQuiet(p)
  /\ \E kept \in SUBSET loaded[p] :
       /\ ~ InPhase(p, "unload") => kept = loaded[p]
       /\ loaded' = [loaded EXCEPT ![p] = kept]
  /\ leftover' \in {leftover, leftover \/ InPhase(p, "stop_worker")}
  /\ PhaseGoes(p, NextPhase[phase[p]])
  /\ UNCHANGED <<holder, tried, threads, crashes>>

\* InstanceLock.release, then the process ends.
ReleaseLock(p) ==
  /\ InPhase(p, "release_lock")
  /\ holder' = NoProc
  /\ tried' = [tried EXCEPT ![p] = {}] /\ loaded' = [loaded EXCEPT ![p] = {}]
  /\ PhaseGoes(p, "off")
  /\ UNCHANGED <<threads, leftover, crashes>>

\* The process dies, its threads and its models with it; the OS drops the lock.
CrashProcess(p) ==
  /\ Alive(p) /\ crashes < MaxCrashes
  /\ crashes' = crashes + 1
  /\ holder' = IF holder = p THEN NoProc ELSE holder
  /\ threads' = [threads EXCEPT ![p] = 0]
  /\ loaded' = [loaded EXCEPT ![p] = {}]
  /\ tried' = [tried EXCEPT ![p] = {}]
  /\ leftover' \in {leftover, leftover \/ InPhase(p, "serve")}
  /\ PhaseGoes(p, "off")

StartupStep(p) ==
  \/ Acquire(p) \/ InitializeCorpus(p) \/ EagerLoadsDone(p)
  \/ \E f \in Families, ok \in BOOLEAN : EagerLoad(p, f, ok)
  \/ \E ok \in BOOLEAN : RecoverAndServe(p, ok)

LifeNext ==
  \E p \in Procs :
    \/ StartProcess(p) \/ StartupStep(p) \/ CallThread(p) \/ ThreadReturns(p)
    \/ \E f \in Families : HotSwap(p, f)
    \/ StopServing(p) \/ ShutdownStep(p) \/ ReleaseLock(p) \/ CrashProcess(p)

LifeSpec == LifeInit /\ [][LifeNext]_life_vars

-----------------------------------------------------------------------------
(* Properties.                                                              *)

\* Two processes never work on the corpus at once: whatever thread still runs,
\* and whatever model is still held, belongs to the process with the lock, also
\* while that process is being shut down and after it cancelled its tasks.
OneProcessWorks ==
  \A p \in Procs :
    (threads[p] > 0 \/ loaded[p] # {} \/ phase[p] \in {"recover", "serve"}) => holder = p

=============================================================================
