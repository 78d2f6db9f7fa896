------------------------------ MODULE JobEvents ------------------------------
(***************************************************************************)
(* The event stream of one job: the worker and the cancel route commit a   *)
(* change of the row and then nudge the subscribers (jobs/bus.py); a       *)
(* stream reads the row again on a nudge and on its resync timer, and      *)
(* sends a frame when the row has changed (api/jobs.py).                   *)
(*                                                                         *)
(* A row is its version: every statement that changes it moves updated_ts, *)
(* so equal signatures are equal versions.  The last version is terminal.  *)
(***************************************************************************)
EXTENDS Naturals, FiniteSets

CONSTANTS Streams, LastVersion,
          QueueSize,                  \* maxsize of a subscriber's queue
          Heartbeat, Resync           \* the intervals of the two timers

ASSUME EventsAssumption ==
  /\ {LastVersion, QueueSize} \subseteq Nat \ {0}
  /\ Heartbeat \in Nat /\ Resync \in Nat

VARIABLES
  version,     \* the committed row
  unsent,      \* commits whose nudge is still to come
  conn,        \* conn[s]: where the connection is
  row,         \* row[s]: the row it read last
  sent,        \* sent[s]: the row of its last frame, 0 before the first
  queue,       \* queue[s]: how many nudges wait for it
  subscribed,
  woken        \* woken[s]: the timers and nudges that ended its wait

events == <<version, unsent, conn, row, sent, queue, subscribed, woken>>

Versions == 1..LastVersion
TerminalRow(v) == v = LastVersion

EventsInit ==
  /\ version = 1 /\ unsent = 0
  /\ conn = [s \in Streams |-> "new"]
  /\ row = [s \in Streams |-> 0] /\ sent = [s \in Streams |-> 0]
  /\ queue = [s \in Streams |-> 0]
  /\ subscribed = {}
  /\ woken = [s \in Streams |-> {}]

-----------------------------------------------------------------------------
\* A statement on the row: the publisher awaits it, then nudges.
CommitRow ==
  /\ version < LastVersion
  /\ version' = version + 1 /\ unsent' = unsent + 1
  /\ UNCHANGED <<conn, row, sent, queue, subscribed, woken>>

\* publish: a full queue loses the nudge.
Publish ==
  /\ unsent > 0 /\ unsent' = unsent - 1
  /\ queue' = [s \in Streams |->
                 IF s \in subscribed /\ queue[s] < QueueSize THEN queue[s] + 1
                 ELSE queue[s]]
  /\ UNCHANGED <<version, conn, row, sent, subscribed, woken>>

Moves(s, from, to) == conn[s] = from /\ conn' = [conn EXCEPT ![s] = to]

\* The route reads the row before it returns the stream.
OpenStream(s) ==
  /\ Moves(s, "new", "opened")
  /\ row' = [row EXCEPT ![s] = version]
  /\ UNCHANGED <<version, unsent, sent, queue, subscribed, woken>>

SendFrame(s) == sent' = [sent EXCEPT ![s] = row[s]]
ClientLeaves(s) == subscribed' = subscribed \ {s}

\* The generator starts: it subscribes and sends what the route read, which
\* closes it when that is terminal.
FirstFrame(s) ==
  /\ conn[s] = "opened"
  /\ SendFrame(s)
  /\ IF TerminalRow(row[s])
     THEN conn' = [conn EXCEPT ![s] = "closed"] /\ UNCHANGED subscribed
     ELSE /\ conn' = [conn EXCEPT ![s] = "waiting"]
          /\ subscribed' = subscribed \cup {s}
  /\ UNCHANGED <<version, unsent, row, queue, woken>>

\* Both timers are started anew for each wait, so the longer one never ends
\* it; two that are equal may end it together.
Timers ==
  CASE Resync < Heartbeat -> {{"resync"}}
    [] Resync > Heartbeat -> {{"heartbeat"}}
    [] OTHER -> {{"resync"}, {"heartbeat"}, {"resync", "heartbeat"}}

Nudges(s) == IF queue[s] > 0 THEN {"nudge"} ELSE {}

\* asyncio.wait: a nudge ends it, or a timer does; further nudges coalesce.
Wake(s) ==
  /\ Moves(s, "waiting", "awake")
  /\ \/ /\ queue[s] > 0 /\ woken' = [woken EXCEPT ![s] = {"nudge"}]
     \/ \E timer \in Timers :
          woken' = [woken EXCEPT ![s] = timer \cup Nudges(s)]
  /\ queue' = [queue EXCEPT ![s] = 0]
  /\ UNCHANGED <<version, unsent, row, sent, subscribed>>

\* Mutant: the resync timer is taken for a heartbeat.
FetchOnNudge(s) ==
  /\ conn[s] = "awake"
  /\ IF "nudge" \in woken[s]
     THEN /\ conn' = [conn EXCEPT ![s] = "fetched"]
          /\ row' = [row EXCEPT ![s] = version]
     ELSE conn' = [conn EXCEPT ![s] = "waiting"] /\ UNCHANGED row
  /\ UNCHANGED <<version, unsent, sent, queue, subscribed, woken>>

\* Only a nudge and a resync read the row.
Fetch(s) ==
  /\ conn[s] = "awake"
  /\ IF woken[s] \cap {"nudge", "resync"} # {}
     THEN /\ conn' = [conn EXCEPT ![s] = "fetched"]
          /\ row' = [row EXCEPT ![s] = version]
     ELSE conn' = [conn EXCEPT ![s] = "waiting"] /\ UNCHANGED row
  /\ UNCHANGED <<version, unsent, sent, queue, subscribed, woken>>

\* A frame for a changed row; a terminal row closes the stream.
Frame(s) ==
  /\ conn[s] = "fetched"
  /\ IF row[s] # sent[s] THEN SendFrame(s) ELSE UNCHANGED sent
  /\ IF TerminalRow(row[s])
     THEN conn' = [conn EXCEPT ![s] = "closed"] /\ ClientLeaves(s)
     ELSE conn' = [conn EXCEPT ![s] = "waiting"] /\ UNCHANGED subscribed
  /\ UNCHANGED <<version, unsent, row, queue, woken>>

\* Mutant: the finally clause is missing.
DisconnectOnly(s) ==
  /\ conn[s] \notin {"new", "closed", "gone"}
  /\ conn' = [conn EXCEPT ![s] = "gone"]
  /\ UNCHANGED <<version, unsent, row, sent, queue, subscribed, woken>>

\* The client disconnects: the generator is cancelled and unsubscribes.
Disconnect(s) ==
  /\ conn[s] \notin {"new", "closed", "gone"}
  /\ conn' = [conn EXCEPT ![s] = "gone"]
  /\ ClientLeaves(s)
  /\ UNCHANGED <<version, unsent, row, sent, queue, woken>>

StreamStep(s) == FirstFrame(s) \/ Wake(s) \/ Fetch(s) \/ Frame(s)

EventsNext ==
  \/ CommitRow \/ Publish
  \/ \E s \in Streams : OpenStream(s) \/ StreamStep(s) \/ Disconnect(s)

EventsSpec == EventsInit /\ [][EventsNext]_events

\* The generator is resumed when what it awaits is done; a publisher may die
\* between its commit and its nudge.
EventsFairness == \A s \in Streams : WF_events(StreamStep(s))

-----------------------------------------------------------------------------
(* Properties.                                                             *)

\* Only a connection that is open takes part in the bus.
NoLeakedSubscription ==
  subscribed \subseteq {s \in Streams : conn[s] \notin {"new", "closed", "gone"}}

\* The stream closes right after the terminal frame, and not before; and no
\* frame shows more than was committed.
ClosesOnTerminal ==
  \A s \in Streams :
    /\ conn[s] = "closed" => TerminalRow(sent[s])
    /\ TerminalRow(sent[s]) => conn[s] \in {"closed", "gone"}
    /\ sent[s] <= version

\* A stream says what was committed, ends with the job, and leaves no queue
\* behind however it ends.
StreamsFaithful == NoLeakedSubscription /\ ClosesOnTerminal

\* A missed nudge never leaves the view stale: whatever nudges are lost, an
\* open stream shows every version, or a later one.
ViewCatchesUp ==
  \A s \in Streams, v \in Versions :
    version = v /\ conn[s] = "waiting"
      ~> sent[s] >= v \/ conn[s] = "gone"
=============================================================================
