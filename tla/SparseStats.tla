----------------------------- MODULE SparseStats -----------------------------
(***************************************************************************)
(* The BM25 statistics of one physical collection (corpus/bm25.py): a      *)
(* cached encoder and a state file, both derived from the leaves of the    *)
(* corpus, under one lock.  Ingests fit them, queries load or rebuild      *)
(* them, deletions discard them.                                           *)
(*                                                                         *)
(* Statistics are the set of texts they were fitted over, and a text is    *)
(* the ingest that stored it.                                              *)
(***************************************************************************)
EXTENDS Naturals

CONSTANTS Fitters,     \* ingests
          Askers,      \* queries, and repairs with ensure_ready
          Removers,    \* deletions
          NoStats, Torn

BmCalls == Fitters \cup Askers \cup Removers
Nobody == "nobody"

ASSUME SparseAssumption ==
  /\ NoStats # Torn
  /\ \A S \in SUBSET Fitters : S # NoStats /\ S # Torn
  /\ Fitters \cap Askers = {} /\ (Fitters \cup Askers) \cap Removers = {}
  /\ Nobody \notin BmCalls

VARIABLES
  texts,      \* leaf_chunk_texts
  file, ef,   \* the state file and the entry of _efs
  keeper,     \* who holds the lock of the key
  doing,      \* doing[c]: the step of call c
  input,      \* input[c]: what it has read, or removed from the corpus
  disturbed   \* the ingests after whose fit the statistics were discarded

stats == <<file, ef>>
sparse_vars == <<texts, stats, keeper, doing, input, disturbed>>

SparseInit ==
  /\ texts = {} /\ file = NoStats /\ ef = NoStats /\ keeper = Nobody
  /\ doing = [c \in BmCalls |-> "new"]
  /\ input = [c \in BmCalls |-> {}] /\ disturbed = {}

Does(c, from, to) == doing[c] = from /\ doing' = [doing EXCEPT ![c] = to]
Locks(c) == keeper = Nobody /\ keeper' = c
Unlocks(c) == keeper' = Nobody

-----------------------------------------------------------------------------
\* The ingest has stored its chunks before it fits.
StoreText(c) ==
  /\ c \in Fitters /\ Does(c, "new", "stored")
  /\ texts' = texts \cup {c}
  /\ UNCHANGED <<stats, keeper, input, disturbed>>

\* Mutant: the texts are read before the lock is taken.
ReadEarly(c) ==
  /\ c \in Fitters
  /\ \/ /\ Does(c, "stored", "read") /\ input' = [input EXCEPT ![c] = texts]
        /\ UNCHANGED keeper
     \/ Does(c, "read", "fitted") /\ Locks(c) /\ UNCHANGED input
  /\ UNCHANGED <<texts, stats, disturbed>>

\* fit_for_ingest and fit_for_rebuild take the lock, read the corpus and fit;
\* then save opens the file, writes it, and the encoder is cached.
ReadTexts(c) ==
  /\ c \in Fitters
  /\ \/ Does(c, "stored", "locked") /\ Locks(c) /\ UNCHANGED input
     \/ /\ Does(c, "locked", "fitted") /\ input' = [input EXCEPT ![c] = texts]
        /\ UNCHANGED keeper
  /\ UNCHANGED <<texts, stats, disturbed>>

OpenFile(c) ==
  /\ Does(c, "fitted", "writing") /\ file' = Torn
  /\ UNCHANGED <<texts, ef, keeper, input, disturbed>>

WriteFile(c) ==
  /\ Does(c, "writing", IF c \in Fitters THEN "ready" ELSE "answered")
  /\ file' = input[c] /\ ef' = input[c] /\ Unlocks(c)
  /\ UNCHANGED <<texts, input, disturbed>>

\* encode_documents takes the cached encoder, whoever fitted it: a KeyError
\* when there is none.
Encode(c) ==
  /\ c \in Fitters /\ keeper = Nobody
  /\ Does(c, "ready", IF ef = NoStats THEN "failed" ELSE "encoded")
  /\ input' = [input EXCEPT ![c] = IF ef = NoStats THEN {} ELSE ef]
  /\ UNCHANGED <<texts, stats, keeper, disturbed>>

\* _load_or_rebuild: the cached encoder, else the file, else a fit over the
\* corpus, which needs a text.
LoadOrRebuild(c) ==
  /\ c \in Askers /\ keeper = Nobody
  /\ \/ /\ ef # NoStats /\ Does(c, "new", "answered") /\ UNCHANGED <<ef, keeper>>
        /\ input' = [input EXCEPT ![c] = ef]
     \/ /\ ef = NoStats /\ file = Torn /\ Does(c, "new", "failed")
        /\ UNCHANGED <<ef, keeper, input>>
     \/ /\ ef = NoStats /\ file \notin {NoStats, Torn}
        /\ Does(c, "new", "answered") /\ ef' = file /\ UNCHANGED keeper
        /\ input' = [input EXCEPT ![c] = file]
     \/ /\ ef = NoStats /\ file = NoStats
        /\ Does(c, "new", "missing") /\ Locks(c) /\ UNCHANGED <<ef, input>>
  /\ UNCHANGED <<texts, file, disturbed>>

Rebuild(c) ==
  /\ c \in Askers
  /\ IF texts = {} THEN Does(c, "missing", "failed") /\ Unlocks(c) /\ UNCHANGED input
     ELSE /\ Does(c, "missing", "fitted") /\ input' = [input EXCEPT ![c] = texts]
          /\ UNCHANGED keeper
  /\ UNCHANGED <<texts, stats, disturbed>>

\* A deletion removes texts from the corpus, and discards afterwards.
RemoveTexts(c) ==
  /\ c \in Removers /\ Does(c, "new", "removed")
  /\ \E some \in SUBSET texts :
       /\ some # {} /\ texts' = texts \ some
       /\ input' = [input EXCEPT ![c] = some]
  /\ UNCHANGED <<stats, keeper, disturbed>>

\* discard: the cache, then the file.
Discard(c) ==
  /\ c \in Removers
  /\ \/ /\ Does(c, "removed", "popped") /\ Locks(c)
        /\ ef' = NoStats /\ UNCHANGED <<file, disturbed>>
     \/ /\ Does(c, "popped", "ended") /\ Unlocks(c)
        /\ file' = NoStats /\ UNCHANGED ef
        /\ disturbed' = disturbed \cup {i \in Fitters : doing[i] = "ready"}
  /\ UNCHANGED <<texts, input>>

\* The process dies and starts again: the file stays as it is.
SparseRestart ==
  /\ \E c \in BmCalls : doing[c] \notin {"new", "gone"}
  /\ doing' = [c \in BmCalls |-> IF doing[c] = "new" THEN "new" ELSE "gone"]
  /\ input' = [c \in BmCalls |-> {}]
  /\ ef' = NoStats /\ keeper' = Nobody /\ disturbed' = {}
  /\ UNCHANGED <<texts, file>>

SparseNext ==
  \/ \E c \in BmCalls :
       \/ StoreText(c) \/ ReadTexts(c) \/ OpenFile(c) \/ WriteFile(c) \/ Encode(c)
       \/ LoadOrRebuild(c) \/ Rebuild(c) \/ RemoveTexts(c) \/ Discard(c)
  \/ SparseRestart

SparseSpec == SparseInit /\ [][SparseNext]_sparse_vars

-----------------------------------------------------------------------------
(* Properties.                                                             *)

\* After a deletion has ended no statistics know a text it removed: those that
\* are cached, and those a restart would load.
NoStaleStatistics ==
  keeper = Nobody =>
    \A c \in Removers : doing[c] = "ended" =>
      /\ ef # NoStats => ef \cap input[c] = {}
      /\ file \notin {NoStats, Torn} => file \cap input[c] = {}

\* The cached encoder is the one a restart would load.
CacheMatchesFile == keeper = Nobody /\ ef # NoStats => file = ef

\* A document is encoded against statistics that include it, although others
\* fit, load and discard between its fit and its encoding, unless a deletion
\* removes it; the encoder is missing only when it was discarded meanwhile.
EncodedWithOwnText ==
  \A c \in Fitters :
    /\ doing[c] = "encoded" => c \in input[c] \/ c \in disturbed \/ c \notin texts
    /\ doing[c] = "failed" => c \in disturbed

\* The statistics follow the corpus through races of ingests, queries and
\* deletions and through restarts.
StatisticsSound == NoStaleStatistics /\ CacheMatchesFile /\ EncodedWithOwnText

=============================================================================
