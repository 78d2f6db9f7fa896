------------------------------- MODULE Parsing -------------------------------
(***************************************************************************)
(* The document parser's converters (parsers/docling_parser.py) and the       *)
(* streaming parse route (api/parse.py).                                    *)
(*                                                                         *)
(* A converter is cached per profile under a lock, parse calls and warm-ups   *)
(* on pool threads share it, an eviction drops it while they use it.  A       *)
(* conversion ticks as pages complete; a tick is a callback scheduled on the  *)
(* event loop, which puts it into the queue of the response stream.           *)
(* Docling itself is external: it yields pages or fails.                     *)
(***************************************************************************)
EXTENDS Naturals, FiniteSets, Sequences, SequencesExt

CONSTANTS
  ParseCalls,         \* parse requests, each on a stream of its own
  WarmCalls,          \* warm routes
  Profiles,           \* profiles the calls name (concrete ones)
  MaxPages,           \* pages of a document, at most
  MaxEvictions        \* bound on the evictions that found a converter

NoCall == "no_call"
AllCalls == ParseCalls \cup WarmCalls

ASSUME ParsingAssumption ==
  {MaxPages, MaxEvictions} \subseteq Nat /\ NoCall \notin AllCalls

VARIABLES
  converters,         \* profile -> is a converter cached
  builder,            \* holder of DoclingParser._lock, NoCall if free
  built, evicted,     \* converters built and evicted so far, per profile
  calls,              \* progress of a call
  streams             \* per parse call: scheduled ticks, queue, what was read

parse_vars == <<converters, builder, built, evicted, calls, streams>>

NewCall   == [step |-> "new", profile |-> "none", pages |-> 0]
NewStream == [due |-> <<>>, scheduled |-> 0, queue |-> <<>>, read |-> <<>>]

ParseInit ==
  /\ converters = [p \in Profiles |-> FALSE]
  /\ builder = NoCall
  /\ built = [p \in Profiles |-> 0]
  /\ evicted = [p \in Profiles |-> 0]
  /\ calls = [c \in AllCalls |-> NewCall]
  /\ streams = [c \in ParseCalls |-> NewStream]

CallGoes(c, step) == calls' = [calls EXCEPT ![c].step = step]
CallAt(c, step)   == calls[c].step = step
ProfileOf(c)      == calls[c].profile

-----------------------------------------------------------------------------
(* _ensure_converter.                                                       *)

StartCall(c, p, n) ==
  /\ CallAt(c, "new")
  /\ calls' = [calls EXCEPT ![c] = [step |-> "ensure", profile |-> p, pages |-> n]]
  /\ UNCHANGED <<converters, builder, built, evicted, streams>>

\* What a call with a converter does next: convert, or initialise pipelines.
HasConverter(c) == IF c \in ParseCalls THEN "convert" ELSE "warmed"

\* The look without the lock.
LookUpConverter(c) ==
  /\ CallAt(c, "ensure")
  /\ CallGoes(c, IF converters[ProfileOf(c)] THEN HasConverter(c) ELSE "locking")
  /\ UNCHANGED <<converters, builder, built, evicted, streams>>

\* Mutant: the second look is missing.
FoundUnderLockNever(c) == FALSE

FoundUnderLock(c) == converters[ProfileOf(c)]

TakeBuildLock(c) ==
  /\ CallAt(c, "locking")
  /\ IF FoundUnderLock(c)
     THEN builder = NoCall /\ CallGoes(c, HasConverter(c)) /\ UNCHANGED builder
     ELSE builder = NoCall /\ CallGoes(c, "building") /\ builder' = c
  /\ UNCHANGED <<converters, built, evicted, streams>>

BuildConverter(c) ==
  /\ CallAt(c, "building")
  /\ converters' = [converters EXCEPT ![ProfileOf(c)] = TRUE]
  /\ built' = [built EXCEPT ![ProfileOf(c)] = @ + 1]
  /\ builder' = NoCall
  /\ CallGoes(c, HasConverter(c))
  /\ UNCHANGED <<evicted, streams>>

\* What ends a call that fails: the terminal event of a parse stream.
FailureGoes(c) == IF c \in ParseCalls THEN "failing" ELSE "refused"

\* Mutant: the lock of a build that failed stays taken.
ConverterFailsLocked(c) ==
  /\ CallAt(c, "building")
  /\ CallGoes(c, FailureGoes(c))
  /\ UNCHANGED <<converters, builder, built, evicted, streams>>

\* Docling is missing, or its construction fails.
ConverterFails(c) ==
  /\ CallAt(c, "building")
  /\ builder' = NoCall
  /\ CallGoes(c, FailureGoes(c))
  /\ UNCHANGED <<converters, built, evicted, streams>>

\* release(profile): the calls that hold the converter go on with it.
EvictConverter(p) ==
  /\ builder = NoCall /\ converters[p]
  /\ evicted[p] < MaxEvictions
  /\ converters' = [converters EXCEPT ![p] = FALSE]
  /\ evicted' = [evicted EXCEPT ![p] = @ + 1]
  /\ UNCHANGED <<builder, built, calls, streams>>

-----------------------------------------------------------------------------
(* The conversion on its thread, the loop and the reader of the stream.       *)

Tick(n) == [type |-> "progress", page |-> n]
Closing(type) == [type |-> type, page |-> 0]

\* Pages are done, one or a batch (the threaded pipeline counts the completed
\* ones): on_progress schedules one tick.
ConvertPages(c) ==
  /\ CallAt(c, "convert")
  /\ \E n \in streams[c].scheduled + 1 .. calls[c].pages :
       streams' = [streams EXCEPT ![c].scheduled = n,
                                  ![c].due = Append(@, Tick(n))]
  /\ UNCHANGED <<converters, builder, built, evicted, calls>>

ConvertDone(c) ==
  /\ CallAt(c, "convert")
  /\ streams[c].scheduled = calls[c].pages
  /\ CallGoes(c, "draining")
  /\ UNCHANGED <<converters, builder, built, evicted, streams>>

ConvertFails(c) ==
  /\ CallAt(c, "convert")
  /\ CallGoes(c, "failing")
  /\ UNCHANGED <<converters, builder, built, evicted, streams>>

\* The loop runs a scheduled callback: _put_tick.
PutTick(c) ==
  /\ streams[c].due # <<>>
  /\ streams' = [streams EXCEPT ![c].queue = Append(@, Head(streams[c].due)),
                                ![c].due = Tail(@)]
  /\ UNCHANGED <<converters, builder, built, evicted, calls>>

\* tick_flushed = tick_scheduled.
Drained(c) == streams[c].due = <<>>

\* The terminal event and the sentinel follow each other in the queue.
EndStream(c, type) ==
  /\ streams' = [streams EXCEPT ![c].queue = @ \o <<Closing(type), Closing("sentinel")>>]
  /\ CallGoes(c, "ended")
  /\ UNCHANGED <<converters, builder, built, evicted>>

SendResult(c) == CallAt(c, "draining") /\ Drained(c) /\ EndStream(c, "result")

\* No draining on the way of an error.
SendError(c) == CallAt(c, "failing") /\ EndStream(c, "error")

\* The generator stops reading at the sentinel.
ReadEvent(c) ==
  /\ streams[c].queue # <<>>
  /\ ~Contains(streams[c].read, Closing("sentinel"))
  /\ streams' = [streams EXCEPT ![c].read = Append(@, Head(streams[c].queue)),
                                ![c].queue = Tail(@)]
  /\ UNCHANGED <<converters, builder, built, evicted, calls>>

ParseStep(c) ==
  \/ LookUpConverter(c) \/ TakeBuildLock(c) \/ BuildConverter(c)
  \/ c \in ParseCalls /\ (ConvertPages(c) \/ ConvertDone(c) \/ SendResult(c) \/ SendError(c))

ParseNext ==
  \/ \E c \in AllCalls, p \in Profiles, n \in 0 .. MaxPages :
       StartCall(c, p, IF c \in ParseCalls THEN n ELSE 0)
  \/ \E c \in AllCalls : ParseStep(c) \/ ConverterFails(c)
  \/ \E c \in ParseCalls : PutTick(c) \/ ReadEvent(c) \/ ConvertFails(c)
  \/ \E p \in Profiles : EvictConverter(p)

\* Threads run, callbacks run, the stream is read; a thread that waits for the
\* lock gets it, however often others take it.
ParseFairness ==
  /\ \A c \in AllCalls : WF_parse_vars(ParseStep(c)) /\ SF_parse_vars(TakeBuildLock(c))
  /\ \A c \in ParseCalls : WF_parse_vars(PutTick(c)) /\ WF_parse_vars(ReadEvent(c))

ParseSpec == ParseInit /\ [][ParseNext]_parse_vars /\ ParseFairness

-----------------------------------------------------------------------------
(* Properties.                                                              *)

\* A converter is built only when there was none: as many times as it was
\* evicted and at most once more, whichever calls raced for it.
BuiltOnce ==
  \A p \in Profiles :
    /\ built[p] = evicted[p] + (IF converters[p] THEN 1 ELSE 0)

\* A client that reads a result has read the last page before it, the ticks came
\* in order, and no client reads anything after the terminal event.
ResultAfterPages ==
  \A c \in ParseCalls :
    LET r == streams[c].read
        ends == {i \in DOMAIN r : r[i].type \in {"result", "error"}}
    IN /\ \A i \in ends :
            /\ i = Len(r) \/ (i = Len(r) - 1 /\ r[i + 1] = Closing("sentinel"))
            /\ (r[i].type = "result" /\ calls[c].pages > 0) =>
                 i > 1 /\ r[i - 1] = Tick(calls[c].pages)
       /\ \A i, j \in DOMAIN r \ ends :
            (i < j /\ r[j].type = "progress") => r[i].page < r[j].page

\* Calls that race for a converter share one, and what a client reads of its
\* conversion is in order and whole.
ParsingSound == BuiltOnce /\ ResultAfterPages

\* Every stream that opened is closed by its sentinel, also when the build or
\* the conversion fails or the converter is evicted meanwhile.
StreamsEnd ==
  \A c \in ParseCalls :
    CallAt(c, "ensure") ~> Contains(streams[c].read, Closing("sentinel"))

=============================================================================
