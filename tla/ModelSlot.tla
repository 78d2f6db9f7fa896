------------------------------ MODULE ModelSlot ------------------------------
(***************************************************************************)
(* One model family: its ModelSlot, the routes that load and unload it,    *)
(* and the app.state mirror that inference reads.  The slow half of a load *)
(* and the whole of an unload run on threads of the model pool; a thread   *)
(* leaves the slot's lock before its result is posted to the event loop,   *)
(* and the loop resumes the awaiting handlers in the order of the posts.   *)
(*                                                                         *)
(* An instance is named after the request that built it.  Whether a load   *)
(* that finds an instance names the same model id (200) or another (409)   *)
(* makes no difference to the slot, so model ids are left out.             *)
(***************************************************************************)
EXTENDS Naturals, Sequences

CONSTANTS Requests,      \* the load and unload requests that may arrive
          NoInst

ASSUME NoInstAssumption == NoInst \notin Requests

VARIABLES
  lock,      \* _lock is held
  instance,  \* _instance
  state,     \* _load_state
  mirror,    \* app.state.<family>
  op,        \* op[r]: how far request r has got
  ready      \* results posted to the event loop, not handled yet

slot == <<lock, instance, state>>
vars == <<slot, mirror, op, ready>>

Critical == {"building", "unloading"}
OpStates == Critical \cup
  {"new", "unload", "built", "released", "builtPosted", "releasedPosted",
   "ended"}

Init ==
  /\ lock = FALSE /\ instance = NoInst /\ state = "unloaded"
  /\ mirror = NoInst
  /\ op = [r \in Requests |-> "new"]
  /\ ready = <<>>

Step(r, from, to) == op[r] = from /\ op' = [op EXCEPT ![r] = to]

-----------------------------------------------------------------------------
(* begin_load, on the event loop.                                          *)

\* 409 model_busy, 409 conflict_loaded, or 200: the slot is as it was.
LoadSettledAtOnce(r) ==
  /\ Step(r, "new", "ended")
  /\ lock \/ instance # NoInst
  /\ UNCHANGED <<slot, mirror, ready>>

LoadBegin(r) ==
  /\ Step(r, "new", "building")
  /\ ~ lock
  /\ instance = NoInst
  /\ lock' = TRUE /\ state' = "loading"
  /\ UNCHANGED <<instance, mirror, ready>>

-----------------------------------------------------------------------------
(* finish_load, on a thread.                                               *)

BuildSucceeds(r) ==
  /\ Step(r, "building", "built")
  /\ instance' = r /\ state' = "loaded" /\ lock' = FALSE
  /\ UNCHANGED <<mirror, ready>>

\* Mutant: the failure is not recorded.
BuildFailsSilently(r) ==
  /\ Step(r, "building", "ended")
  /\ lock' = FALSE
  /\ UNCHANGED <<instance, state, mirror, ready>>

\* The partial instance is released; the route's task only logs.
BuildFails(r) ==
  /\ Step(r, "building", "ended")
  /\ state' = "failed" /\ lock' = FALSE
  /\ UNCHANGED <<instance, mirror, ready>>

-----------------------------------------------------------------------------
(* unload, on a thread.                                                    *)

SubmitUnload(r) ==
  /\ Step(r, "new", "unload")
  /\ UNCHANGED <<slot, mirror, ready>>

\* 409 model_busy or 409 not_loaded.
UnloadRefused(r) ==
  /\ Step(r, "unload", "ended")
  /\ lock \/ instance = NoInst
  /\ UNCHANGED <<slot, mirror, ready>>

UnloadBegin(r) ==
  /\ Step(r, "unload", "unloading")
  /\ ~ lock /\ instance # NoInst
  /\ lock' = TRUE
  /\ UNCHANGED <<instance, state, mirror, ready>>

\* The unload() of every registered class swallows its errors.
UnloadEnds(r) ==
  /\ Step(r, "unloading", "released")
  /\ instance' = NoInst /\ state' = "unloaded" /\ lock' = FALSE
  /\ UNCHANGED <<mirror, ready>>

-----------------------------------------------------------------------------
(* The event loop hears of a thread's result and resumes the handler.      *)

Post(r) ==
  /\ op[r] \in {"built", "released"}
  /\ op' = [op EXCEPT ![r] = IF @ = "built" THEN "builtPosted"
                                            ELSE "releasedPosted"]
  /\ ready' = Append(ready, r)
  /\ UNCHANGED <<slot, mirror>>

\* _settle after a load, the rest of the route after an unload.
Resume(r) ==
  /\ op[r] \in {"builtPosted", "releasedPosted"}
  /\ ready # <<>> /\ Head(ready) = r
  /\ mirror' = IF op[r] = "builtPosted" THEN r ELSE NoInst
  /\ op' = [op EXCEPT ![r] = "ended"]
  /\ ready' = Tail(ready)
  /\ UNCHANGED slot

-----------------------------------------------------------------------------
Arrive(r)  == LoadSettledAtOnce(r) \/ LoadBegin(r) \/ SubmitUnload(r)
Thread(r)  == \/ BuildSucceeds(r) \/ BuildFails(r) \/ UnloadRefused(r)
              \/ UnloadBegin(r) \/ UnloadEnds(r) \/ Post(r)

Next == \E r \in Requests : Arrive(r) \/ Thread(r) \/ Resume(r)

Spec == Init /\ [][Next]_vars

-----------------------------------------------------------------------------
(* Properties.                                                             *)

Working == {r \in Requests : op[r] \in Critical}

\* The lock is held exactly while one request works on the slot, from
\* begin_load on the event loop to the release on another thread: it is
\* neither taken twice nor leaked by a path that answers at once.
LockExclusive ==
  /\ lock = (Working # {})
  /\ \A r, s \in Working : r = s

\* What GET /v1/models reports is true: "loading" while somebody builds,
\* "loaded" with an instance there, "failed" and "unloaded" without one.
StatusTruthful ==
  /\ (state = "loading") = (\E r \in Requests : op[r] = "building")
  /\ (state = "loaded") = (instance # NoInst)

\* Whoever loads and unloads, the lock and the reported state tell what is
\* going on: a load that raises leaves neither a held lock nor "loading".
SlotTruthful == LockExclusive /\ StatusTruthful

\* An instance leaves the slot only by an unload, never under another one.
NeverReplaced ==
  [][instance # NoInst => instance' \in {instance, NoInst}]_vars
=============================================================================
