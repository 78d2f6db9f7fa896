--------------------------- MODULE Corpus_proofs ----------------------------
(****************************************************************************)
(* What is computed from the documents of the corpus: sparse statistics, the*)
(* knowledge graph with its algorithms and the evaluation runs, for any     *)
(* number of writers and restarts at any step.                              *)
(****************************************************************************)
EXTENDS SparseStats, GraphBuild, Evaluation, GraphMerge, FiniteSetTheorems,
        SequenceTheorems, TLAPS

-----------------------------------------------------------------------------
(****************************************************************************)
(* SparseStats: the statistics of a collection under any number of ingests, *)
(* queries and deletions.                                                   *)
(****************************************************************************)

Holding == {"locked", "fitted", "writing", "missing", "popped"}
Fresh == {"fitted", "writing"}

FitterStates == {"new", "stored", "locked", "fitted", "writing", "ready",
                 "encoded", "failed", "gone"}
AskerStates == {"new", "missing", "fitted", "writing", "answered", "failed", "gone"}
RemoverStates == {"new", "removed", "popped", "ended", "gone"}

StatsType ==
  /\ texts \subseteq Fitters /\ disturbed \subseteq Fitters
  /\ file \in (SUBSET Fitters) \cup {NoStats, Torn}
  /\ ef \in (SUBSET Fitters) \cup {NoStats}
  /\ input \in [BmCalls -> SUBSET Fitters]
  /\ doing \in [BmCalls -> FitterStates \cup AskerStates \cup RemoverStates]
  /\ \A c \in Fitters : doing[c] \in FitterStates
  /\ \A c \in Askers : doing[c] \in AskerStates
  /\ \A c \in Removers : doing[c] \in RemoverStates

\* The lock: who holds it, and what that does to the statistics.
KeeperInv ==
  \A c \in BmCalls :
    /\ doing[c] \in Holding <=> keeper = c
    /\ doing[c] = "writing" => file = Torn
    /\ doing[c] = "popped" => ef = NoStats

CacheInv == (\A c \in BmCalls : doing[c] # "writing") => (ef # NoStats => file = ef)

Removed(r) == r \in Removers /\ doing[r] \in {"removed", "popped", "ended"}

\* A text that was removed does not come back, and is in nothing that was read
\* or kept since the deletion ended.
RemovedInv ==
  \A r \in BmCalls :
    /\ Removed(r) => /\ input[r] \cap texts = {}
                     /\ \A x \in input[r] : doing[x] # "new"
    /\ r \in Removers /\ doing[r] = "ended" =>
         /\ ef # NoStats => ef \cap input[r] = {}
         /\ file \notin {NoStats, Torn} => file \cap input[r] = {}
         /\ \A c \in BmCalls : doing[c] \in Fresh => input[c] \cap input[r] = {}

\* What the holder of the lock has read covers the ingests that are ready, and
\* its own; so does what is cached, unless it was discarded.
CoveredInv ==
  /\ \A c \in BmCalls, x \in Fitters :
       doing[c] \in Fresh /\ (x = c \/ doing[x] = "ready")
         => x \in input[c] \/ x \notin texts
  /\ \A x \in Fitters :
       /\ x \in texts => doing[x] # "new"
       /\ doing[x] = "ready" /\ x \notin disturbed
            => \/ \E r \in BmCalls : doing[r] = "popped"
               \/ ef # NoStats /\ (x \in ef \/ x \notin texts)

StatsInv ==
  StatsType /\ KeeperInv /\ CacheInv /\ RemovedInv /\ CoveredInv /\ EncodedWithOwnText

LEMMA StatsInitInv == SparseInit => StatsInv
<1> SUFFICES ASSUME SparseInit PROVE StatsInv
  OBVIOUS
<1> USE SparseAssumption DEF SparseInit, BmCalls
<1>1. StatsType
  BY DEF StatsType, FitterStates, AskerStates, RemoverStates
<1>2. KeeperInv
  BY DEF KeeperInv, Holding
<1>3. CacheInv
  BY DEF CacheInv
<1>4. RemovedInv
  BY DEF RemovedInv, Removed, Fresh
<1>5. CoveredInv
  BY DEF CoveredInv, Fresh
<1>6. EncodedWithOwnText
  BY DEF EncodedWithOwnText
<1> QED
  BY <1>1, <1>2, <1>3, <1>4, <1>5, <1>6 DEF StatsInv

LEMMA StatsStep ==
  ASSUME StatsInv, [SparseNext]_sparse_vars
  PROVE  StatsInv'
<1> USE SparseAssumption
    DEF StatsInv, StatsType, KeeperInv, CacheInv, RemovedInv, CoveredInv,
        EncodedWithOwnText, Removed, Holding, Fresh, FitterStates, AskerStates,
        RemoverStates, BmCalls, Does, Locks, Unlocks, stats
<1>1. ASSUME NEW c \in BmCalls, StoreText(c) PROVE StatsInv'
  BY <1>1 DEF StoreText
<1>2. ASSUME NEW c \in BmCalls, ReadTexts(c) PROVE StatsInv'
  BY <1>2 DEF ReadTexts
<1>3. ASSUME NEW c \in BmCalls, OpenFile(c) PROVE StatsInv'
  <2>1. StatsType'
    BY <1>3 DEF OpenFile
  <2>2. KeeperInv'
    BY <1>3 DEF OpenFile
  <2>3. CacheInv'
    BY <1>3 DEF OpenFile
  <2>4. RemovedInv'
    BY <1>3 DEF OpenFile
  <2>5. CoveredInv'
    BY <1>3 DEF OpenFile
  <2>6. EncodedWithOwnText'
    BY <1>3 DEF OpenFile
  <2> QED
    BY <2>1, <2>2, <2>3, <2>4, <2>5, <2>6
<1>4. ASSUME NEW c \in BmCalls, WriteFile(c) PROVE StatsInv'
  BY <1>4 DEF WriteFile
<1>5. ASSUME NEW c \in BmCalls, Encode(c) PROVE StatsInv'
  <2>1. StatsType'
    BY <1>5 DEF Encode
  <2>2. KeeperInv'
    BY <1>5 DEF Encode
  <2>3. CacheInv'
    BY <1>5 DEF Encode
  <2>4. RemovedInv'
    BY <1>5 DEF Encode
  <2>5. CoveredInv'
    BY <1>5 DEF Encode
  <2>6. EncodedWithOwnText'
    BY <1>5 DEF Encode
  <2> QED
    BY <2>1, <2>2, <2>3, <2>4, <2>5, <2>6
<1>6. ASSUME NEW c \in BmCalls, LoadOrRebuild(c) PROVE StatsInv'
  <2>1. StatsType'
    BY <1>6 DEF LoadOrRebuild
  <2>2. KeeperInv'
    BY <1>6 DEF LoadOrRebuild
  <2>3. CacheInv'
    BY <1>6 DEF LoadOrRebuild
  <2>4. RemovedInv'
    BY <1>6 DEF LoadOrRebuild
  <2>5. CoveredInv'
    BY <1>6 DEF LoadOrRebuild
  <2>6. EncodedWithOwnText'
    BY <1>6 DEF LoadOrRebuild
  <2> QED
    BY <2>1, <2>2, <2>3, <2>4, <2>5, <2>6
<1>7. ASSUME NEW c \in BmCalls, Rebuild(c) PROVE StatsInv'
  BY <1>7 DEF Rebuild
<1>8. ASSUME NEW c \in BmCalls, RemoveTexts(c) PROVE StatsInv'
  BY <1>8 DEF RemoveTexts
<1>9. ASSUME NEW c \in BmCalls, Discard(c) PROVE StatsInv'
  <2>1. StatsType'
    BY <1>9 DEF Discard
  <2>2. KeeperInv'
    BY <1>9 DEF Discard
  <2>3. CacheInv'
    BY <1>9 DEF Discard
  <2>4. RemovedInv'
    BY <1>9 DEF Discard
  <2>5. CoveredInv'
    BY <1>9 DEF Discard
  <2>6. EncodedWithOwnText'
    BY <1>9 DEF Discard
  <2> QED
    BY <2>1, <2>2, <2>3, <2>4, <2>5, <2>6
<1>10. CASE SparseRestart
  <2>1. StatsType'
    BY <1>10 DEF SparseRestart
  <2>2. KeeperInv'
    BY <1>10 DEF SparseRestart
  <2>3. CacheInv'
    BY <1>10 DEF SparseRestart
  <2>4. RemovedInv'
    BY <1>10 DEF SparseRestart
  <2>5. CoveredInv'
    BY <1>10 DEF SparseRestart
  <2>6. EncodedWithOwnText'
    BY <1>10 DEF SparseRestart
  <2> QED
    BY <2>1, <2>2, <2>3, <2>4, <2>5, <2>6
<1>11. CASE UNCHANGED sparse_vars
  BY <1>11 DEF sparse_vars
<1> QED
  BY <1>1, <1>2, <1>3, <1>4, <1>5, <1>6, <1>7, <1>8, <1>9, <1>10, <1>11
  DEF SparseNext

\* For any number of ingests, queries and deletions, whatever step the process
\* dies in: BM25Registry serves no statistics of removed texts, keeps the cache
\* equal to the file, and encodes a document with statistics that include it.
THEOREM StatisticsStaySound == SparseSpec => []StatisticsSound
<1>1. StatsInv => StatisticsSound
  <2> SUFFICES ASSUME StatsInv PROVE StatisticsSound
    OBVIOUS
  <2>1. NoStaleStatistics
    BY DEF StatsInv, RemovedInv, NoStaleStatistics, BmCalls
  <2>2. CacheMatchesFile
    BY SparseAssumption
    DEF StatsInv, KeeperInv, CacheInv, CacheMatchesFile, Holding
  <2> QED
    BY <2>1, <2>2 DEF StatsInv, StatisticsSound
<1> QED
  BY <1>1, StatsInitInv, StatsStep, PTL DEF SparseSpec

-----------------------------------------------------------------------------
(****************************************************************************)
(* GraphBuild: the rows of the graph and the vectors of its entities.       *)
(****************************************************************************)

Mentions == Entities \X GraphChunks
Claims == [ends : SUBSET Entities, chunk : GraphChunks]
VectorRows == {NoColl} \cup (SUBSET Entities) \cup (SUBSET (SUBSET Entities))
BuildStates ==
  [step : Steps \cup {"none", "cleanup", "done"}, read : SUBSET GraphChunks,
   built : SUBSET Mentions, told : SUBSET Claims,
   todo : SUBSET (GraphChunks \cup Kinds),
   existing : SUBSET Kinds]

GraphType ==
  /\ chunks \subseteq GraphChunks /\ stale \subseteq GraphChunks
  /\ mentions \subseteq Mentions /\ members \subseteq Entities
  /\ claimed \subseteq Claims
  /\ vectors \in [Kinds -> VectorRows]
  /\ build \in BuildStates
  /\ erase \in {"idle", "done"} \cup Kinds

\* A build extracts from chunks that it has read, and which are in the corpus
\* or were deleted since.
SourceInv ==
  /\ Building => build.read \subseteq chunks \cup stale
  /\ At2("list") => build.built = {}
  /\ At2("extract") => build.todo \subseteq build.read
  /\ Building => \A m \in build.built : m[2] \in build.read
  /\ \A m \in mentions : m[2] \in chunks \cup stale
  /\ members \subseteq EntitiesIn(mentions)

\* Claims are about entities of the same graph, in the build and in the rows.
AboutKnown(C, M) == \A c \in C : c.ends \subseteq EntitiesIn(M)
ToldInv == AboutKnown(build.told, build.built) /\ AboutKnown(claimed, mentions)

\* How far the vectors, then the rows, of an undisturbed build have got.
WholeInv ==
  ~ meddled =>
    /\ At2("upsert") => \A k \in Kinds \ build.todo :
                          vectors[k] \in {NoColl, RowsFor(k, build.built)}
    /\ At2("count") => \A k \in Kinds : vectors[k] \in {NoColl, RowsFor(k, build.built)}
    /\ build.step \in {"rows", "finish"} =>
         \A k \in Kinds : vectors[k] = RowsFor(k, build.built)
    /\ At2("finish") => mentions = build.built
                        /\ members = CommunityOf(EntitiesIn(build.built))
    /\ GraphWhole

\* A deletion that shares its time with no build finds nothing written behind it.
EraseInv ==
  unshared /\ erase # "idle" =>
    /\ ~ Building /\ ~ At2("cleanup")
    /\ mentions = {} /\ members = {} /\ claimed = {}
    /\ erase # "entities" => vectors["entities"] = NoColl
    /\ erase = "done" => vectors["communities"] = NoColl

GraphInv == GraphType /\ SourceInv /\ ToldInv /\ WholeInv /\ EraseInv

LEMMA GraphInitInv == GraphInit => GraphInv
<1> USE GraphAssumption DEF GraphInit, Standing, At2, Building, Steps
<1>1. GraphInit => GraphType
  BY DEF GraphType, BuildStates, VectorRows, Kinds
<1>2. GraphInit => SourceInv /\ EraseInv /\ ToldInv
  BY DEF SourceInv, EraseInv, ToldInv, AboutKnown
<1>3. GraphInit => WholeInv
  BY DEF WholeInv, GraphWhole
<1> QED
  BY <1>1, <1>2, <1>3 DEF GraphInv

LEMMA DoneMoves ==
  ASSUME build \in BuildStates, NEW k, NEW next \in Steps \cup {"none"}, Done(k, next)
  PROVE  /\ build' \in BuildStates
         /\ build'.read = build.read /\ build'.built = build.built
         /\ build'.told = build.told
         /\ \/ build'.step = next /\ build'.todo = Kinds /\ build.todo = {k}
            \/ build'.step = build.step /\ build'.todo = build.todo \ {k}
<1>1. Kinds \in SUBSET (GraphChunks \cup Kinds)
  OBVIOUS
<1>2. CASE build.todo = {k}
  BY <1>1, <1>2 DEF Done, BuildStates
<1>3. CASE build.todo # {k}
  BY <1>3 DEF Done, BuildStates
<1> QED
  BY <1>2, <1>3

LEMMA BreaksMoves ==
  ASSUME build \in BuildStates, Breaks
  PROVE  build' \in BuildStates /\ build'.step = "cleanup"
BY DEF Breaks, BuildStates

LEMMA RowsForType ==
  ASSUME NEW k \in Kinds, NEW M \in SUBSET Mentions
  PROVE  RowsFor(k, M) \in VectorRows
<1>1. EntitiesIn(M) \subseteq Entities
  BY DEF EntitiesIn, Mentions
<1>2. {c \in {CommunityOf(EntitiesIn(M))} : c # {}} \subseteq SUBSET Entities
  BY <1>1 DEF CommunityOf
<1> QED
  BY <1>1, <1>2 DEF RowsFor, VectorRows

LEMMA GraphTypeStep ==
  ASSUME GraphType, [GraphNext]_graph_vars
  PROVE  GraphType'
<1> USE GraphAssumption DEF GraphType, BuildStates, VectorRows, Kinds, rows, Standing, At2, Building, Steps
<1>1. CASE SubmitBuild
  BY <1>1 DEF SubmitBuild
<1>2. CASE RequestGraphCancel
  BY <1>2 DEF RequestGraphCancel, PipelineOnly, Quiet, Breaks
<1>3. CASE CancelGate
  BY <1>3 DEF CancelGate, PipelineOnly, Quiet, Breaks
<1>4. CASE ListChunks
  <2>1. CASE chunks = {}
    BY <1>4, <2>1, BreaksMoves DEF ListChunks, PipelineOnly, Quiet
  <2>2. CASE chunks # {}
    <3>1. build' = [build EXCEPT !.step = "extract", !.read = chunks, !.todo = chunks]
      BY <1>4, <2>2 DEF ListChunks
    <3>2. build' \in BuildStates
      BY <3>1
    <3> QED
      BY <1>4, <3>2 DEF ListChunks, PipelineOnly, Quiet
  <2> QED
    BY <2>1, <2>2
<1>5. ASSUME NEW x \in GraphChunks, ExtractBatch(x) PROVE GraphType'
  <2>1. PICK found \in {{}, MentionedIn[x]} :
          build' = [build EXCEPT
            !.built = @ \cup (found \X {x}), !.todo = @ \ {x},
            !.told = @ \cup About([ends : ClaimedIn[x], chunk : {x}], found),
            !.step = IF build.todo = {x} THEN "detect" ELSE @]
    BY <1>5 DEF ExtractBatch
  <2>2. build.built \cup (found \X {x}) \in SUBSET Mentions
        /\ About([ends : ClaimedIn[x], chunk : {x}], found) \in SUBSET Claims
    BY DEF Mentions, Claims, About
  <2>3. build' \in BuildStates
    BY <2>1, <2>2
  <2> QED
    BY <1>5, <2>3 DEF ExtractBatch, PipelineOnly, Quiet
<1>6. CASE DetectCommunities
  BY <1>6 DEF DetectCommunities, Then, PipelineOnly, Quiet, Breaks
<1>7. CASE EmbedGraph
  BY <1>7 DEF EmbedGraph, Then, PipelineOnly, Quiet, Breaks
<1>8. CASE ListGraphCollections
  BY <1>8 DEF ListGraphCollections, PipelineOnly, Quiet, Breaks
<1>9. ASSUME NEW k \in Kinds, DropOld(k) PROVE GraphType'
  <2>1. vectors' \in [Kinds -> VectorRows]
    BY <1>9 DEF DropOld
  <2>2. build' \in BuildStates
    BY <1>9, DoneMoves, BreaksMoves DEF DropOld
  <2> QED
    BY <1>9, <2>1, <2>2 DEF DropOld, PipelineOnly
<1>10. ASSUME NEW k \in Kinds, CreateGraphCollection(k) PROVE GraphType'
  BY <1>10 DEF CreateGraphCollection, Done, PipelineOnly, Quiet, Breaks
<1>11. ASSUME NEW k \in Kinds, UpsertGraph(k) PROVE GraphType'
  <2>1. RowsFor(k, build.built) \in VectorRows
    BY RowsForType
  <2>2. vectors' \in [Kinds -> VectorRows]
    BY <1>11, <2>1 DEF UpsertGraph
  <2>3. build' \in BuildStates
    BY <1>11, DoneMoves, BreaksMoves DEF UpsertGraph
  <2> QED
    BY <1>11, <2>2, <2>3 DEF UpsertGraph, PipelineOnly
<1>12. CASE CountGraph
  <2>1. build' \in BuildStates
    BY <1>12, BreaksMoves DEF CountGraph, Then
  <2> QED
    BY <1>12, <2>1 DEF CountGraph, PipelineOnly, Quiet
<1>13. CASE ReplaceGraph
  <2>1. CommunityOf(EntitiesIn(build.built)) \subseteq Entities
    BY DEF CommunityOf, EntitiesIn, Mentions
  <2> QED
    BY <1>13, <2>1 DEF ReplaceGraph, Then, PipelineOnly
<1>14. CASE FinishBuild
  BY <1>14 DEF FinishBuild, PipelineOnly, Quiet, Breaks
<1>15. CASE BreakBuild
  BY <1>15 DEF BreakBuild, PipelineOnly, Quiet, Breaks
<1>16. ASSUME NEW k \in Kinds, CleanUp(k) PROVE GraphType'
  BY <1>16 DEF CleanUp, Done, PipelineOnly, Quiet, Breaks
<1>17. CASE NextBuild
  BY <1>17 DEF NextBuild, PipelineOnly, Quiet, Breaks
<1>18. CASE GraphCrash
  BY <1>18 DEF GraphCrash
<1>19. ASSUME NEW x \in GraphChunks, StoreChunk(x) PROVE GraphType'
  BY <1>19 DEF StoreChunk
<1>20. ASSUME NEW x \in GraphChunks, PruneChunk(x) PROVE GraphType'
  BY <1>20 DEF PruneChunk, About
<1>21. CASE DropCorpus
  BY <1>21 DEF DropCorpus
<1>22. CASE EraseRows
  BY <1>22 DEF EraseRows
<1>23. ASSUME NEW k \in Kinds, EraseVectors(k) PROVE GraphType'
  BY <1>23 DEF EraseVectors
<1>24. CASE EraseEnds
  BY <1>24 DEF EraseEnds
<1>25. CASE UNCHANGED graph_vars
  BY <1>25 DEF graph_vars
<1> QED
  BY <1>1, <1>2, <1>3, <1>4, <1>5, <1>6, <1>7, <1>8, <1>9, <1>10, <1>11, <1>12,
     <1>13, <1>14, <1>15, <1>16, <1>17, <1>18, <1>19, <1>20, <1>21, <1>22, <1>23, <1>24,
     <1>25
  DEF GraphNext, Pipeline

LEMMA SourceStep ==
  ASSUME GraphType, SourceInv, [GraphNext]_graph_vars
  PROVE  SourceInv'
<1> USE GraphAssumption DEF GraphType, BuildStates, SourceInv, rows, Standing, At2, Building, Steps
<1>1. CASE SubmitBuild
  BY <1>1 DEF SubmitBuild
<1>2. CASE RequestGraphCancel
  BY <1>2 DEF RequestGraphCancel, PipelineOnly, Quiet, Breaks
<1>3. CASE CancelGate
  BY <1>3 DEF CancelGate, PipelineOnly, Quiet, Breaks
<1>4. CASE ListChunks
  <2>1. CASE chunks = {}
    BY <1>4, <2>1 DEF ListChunks, Breaks, PipelineOnly, Quiet
  <2>2. CASE chunks # {}
    <3>1. build' = [build EXCEPT !.step = "extract", !.read = chunks, !.todo = chunks]
      BY <1>4, <2>2 DEF ListChunks
    <3>2. /\ build'.step = "extract" /\ build'.read = chunks
          /\ build'.todo = chunks /\ build'.built = build.built
      BY <3>1
    <3> QED
      BY <1>4, <3>2 DEF ListChunks, PipelineOnly, Quiet
  <2> QED
    BY <2>1, <2>2
<1>5. ASSUME NEW x \in GraphChunks, ExtractBatch(x) PROVE SourceInv'
  BY <1>5 DEF ExtractBatch, PipelineOnly, Quiet, Breaks
<1>6. CASE DetectCommunities
  BY <1>6 DEF DetectCommunities, Then, PipelineOnly, Quiet, Breaks
<1>7. CASE EmbedGraph
  BY <1>7 DEF EmbedGraph, Then, PipelineOnly, Quiet, Breaks
<1>8. CASE ListGraphCollections
  BY <1>8 DEF ListGraphCollections, PipelineOnly, Quiet, Breaks
<1>9. ASSUME NEW k \in Kinds, DropOld(k) PROVE SourceInv'
  BY <1>9 DEF DropOld, Done, PipelineOnly, Quiet, Breaks
<1>10. ASSUME NEW k \in Kinds, CreateGraphCollection(k) PROVE SourceInv'
  BY <1>10 DEF CreateGraphCollection, Done, PipelineOnly, Quiet, Breaks
<1>11. ASSUME NEW k \in Kinds, UpsertGraph(k) PROVE SourceInv'
  <2>1. CASE Breaks
    BY <1>11, <2>1 DEF UpsertGraph, PipelineOnly, Breaks
  <2>2. CASE Done(k, "count")
    <3>1. /\ build'.read = build.read /\ build'.built = build.built
          /\ build'.step \in {"count", "upsert"}
      BY <1>11, <2>2, DoneMoves DEF UpsertGraph
    <3> QED
      BY <1>11, <3>1 DEF UpsertGraph, PipelineOnly
  <2> QED
    BY <1>11, <2>1, <2>2 DEF UpsertGraph
<1>12. CASE CountGraph
  BY <1>12 DEF CountGraph, Then, PipelineOnly, Quiet, Breaks
<1>13. CASE ReplaceGraph
  <2>1. /\ build'.step = "finish" /\ build'.read = build.read /\ build'.built = build.built
        /\ build.step = "rows" /\ mentions' = build.built
        /\ chunks' = chunks /\ stale' = stale
        /\ members' = CommunityOf(EntitiesIn(mentions'))
    BY <1>13 DEF ReplaceGraph, Then, PipelineOnly
  <2>2. members' \subseteq EntitiesIn(mentions')
    BY <2>1 DEF CommunityOf
  <2> QED
    BY <2>1, <2>2
<1>14. CASE FinishBuild
  BY <1>14 DEF FinishBuild, PipelineOnly, Quiet, Breaks
<1>15. CASE BreakBuild
  BY <1>15 DEF BreakBuild, PipelineOnly, Quiet, Breaks
<1>16. ASSUME NEW k \in Kinds, CleanUp(k) PROVE SourceInv'
  BY <1>16 DEF CleanUp, Done, PipelineOnly, Quiet, Breaks
<1>17. CASE NextBuild
  BY <1>17 DEF NextBuild, PipelineOnly, Quiet, Breaks
<1>18. CASE GraphCrash
  BY <1>18 DEF GraphCrash
<1>19. ASSUME NEW x \in GraphChunks, StoreChunk(x) PROVE SourceInv'
  BY <1>19 DEF StoreChunk
<1>20. ASSUME NEW x \in GraphChunks, PruneChunk(x) PROVE SourceInv'
  BY <1>20 DEF PruneChunk
<1>21. CASE DropCorpus
  BY <1>21 DEF DropCorpus
<1>22. CASE EraseRows
  BY <1>22 DEF EraseRows
<1>23. ASSUME NEW k \in Kinds, EraseVectors(k) PROVE SourceInv'
  BY <1>23 DEF EraseVectors
<1>24. CASE EraseEnds
  BY <1>24 DEF EraseEnds
<1>25. CASE UNCHANGED graph_vars
  BY <1>25 DEF graph_vars
<1> QED
  BY <1>1, <1>2, <1>3, <1>4, <1>5, <1>6, <1>7, <1>8, <1>9, <1>10, <1>11, <1>12,
     <1>13, <1>14, <1>15, <1>16, <1>17, <1>18, <1>19, <1>20, <1>21, <1>22, <1>23, <1>24,
     <1>25
  DEF GraphNext, Pipeline

LEMMA ToldStep ==
  ASSUME GraphType, ToldInv, [GraphNext]_graph_vars
  PROVE  ToldInv'
<1> USE DEF GraphType, BuildStates, ToldInv, rows, Standing
<1>0. \A M : AboutKnown({}, M)
  BY DEF AboutKnown
<1>1. CASE SubmitBuild
  BY <1>0, <1>1 DEF SubmitBuild
<1>2. CASE RequestGraphCancel
  BY <1>2 DEF RequestGraphCancel
<1>3. CASE CancelGate
  BY <1>3 DEF CancelGate, Breaks
<1>4. CASE ListChunks
  <2>1. /\ build'.told = build.told /\ build'.built = build.built
        /\ UNCHANGED rows
    BY <1>4 DEF ListChunks, Breaks, Quiet
  <2> QED
    BY <2>1
<1>5. ASSUME NEW x \in GraphChunks, ExtractBatch(x) PROVE ToldInv'
  <2> DEFINE more == [ends : ClaimedIn[x], chunk : {x}]
  <2> HIDE DEF more
  <2>1. PICK found \in {{}, MentionedIn[x]} :
          build' = [build EXCEPT
            !.built = @ \cup (found \X {x}), !.todo = @ \ {x},
            !.told = @ \cup About(more, found),
            !.step = IF build.todo = {x} THEN "detect" ELSE @]
    BY <1>5 DEF ExtractBatch, more
  <2>2. /\ build'.built = build.built \cup (found \X {x})
        /\ build'.told = build.told \cup About(more, found)
    BY <2>1
  <2>3. UNCHANGED rows
    BY <1>5 DEF ExtractBatch, Quiet
  <2>4. EntitiesIn(build.built) \subseteq EntitiesIn(build'.built)
    BY <2>2 DEF EntitiesIn
  <2>5. found \subseteq EntitiesIn(build'.built)
    <3>1. \A e \in found : <<e, x>> \in build'.built /\ <<e, x>>[1] = e
      BY <2>2
    <3> QED
      BY <3>1, Zenon DEF EntitiesIn
  <2>6. AboutKnown(build'.told, build'.built)
    BY <2>2, <2>4, <2>5 DEF AboutKnown, About
  <2> QED
    BY <2>3, <2>6
<1>6. CASE DetectCommunities
  BY <1>6 DEF DetectCommunities, Then, Quiet
<1>7. CASE EmbedGraph
  BY <1>7 DEF EmbedGraph, Then, Quiet
<1>8. CASE ListGraphCollections
  BY <1>8 DEF ListGraphCollections, Quiet
<1>9. ASSUME NEW k \in Kinds, DropOld(k) PROVE ToldInv'
  <2>1. build'.told = build.told /\ build'.built = build.built
    BY <1>9, DoneMoves DEF DropOld, Breaks, Steps
  <2> QED
    BY <1>9, <2>1 DEF DropOld
<1>10. ASSUME NEW k \in Kinds, CreateGraphCollection(k) PROVE ToldInv'
  <2>1. build'.told = build.told /\ build'.built = build.built
    BY <1>10, DoneMoves DEF CreateGraphCollection, Steps
  <2> QED
    BY <1>10, <2>1 DEF CreateGraphCollection
<1>11. ASSUME NEW k \in Kinds, UpsertGraph(k) PROVE ToldInv'
  <2>1. build'.told = build.told /\ build'.built = build.built
    BY <1>11, DoneMoves DEF UpsertGraph, Breaks, Steps
  <2> QED
    BY <1>11, <2>1 DEF UpsertGraph
<1>12. CASE CountGraph
  <2>1. build'.told = build.told /\ build'.built = build.built
    BY <1>12 DEF CountGraph, Then, Breaks
  <2> QED
    BY <1>12, <2>1 DEF CountGraph, Quiet
<1>13. CASE ReplaceGraph
  <2>1. build'.told = build.told /\ build'.built = build.built
    BY <1>13 DEF ReplaceGraph, Then
  <2> QED
    BY <1>13, <2>1 DEF ReplaceGraph
<1>14. CASE FinishBuild
  BY <1>0, <1>14 DEF FinishBuild, Quiet
<1>15. CASE BreakBuild
  BY <1>15 DEF BreakBuild, Quiet, Breaks
<1>16. ASSUME NEW k \in Kinds, CleanUp(k) PROVE ToldInv'
  <2>1. build'.told = build.told /\ build'.built = build.built
    BY <1>16, DoneMoves DEF CleanUp
  <2> QED
    BY <1>16, <2>1 DEF CleanUp
<1>17. CASE NextBuild
  BY <1>0, <1>17 DEF NextBuild
<1>18. CASE GraphCrash
  BY <1>0, <1>18 DEF GraphCrash
<1>19. ASSUME NEW x \in GraphChunks, StoreChunk(x) PROVE ToldInv'
  BY <1>19 DEF StoreChunk
<1>20. ASSUME NEW x \in GraphChunks, PruneChunk(x) PROVE ToldInv'
  <2>1. claimed' = About(claimed, EntitiesIn(mentions')) /\ UNCHANGED build
    BY <1>20 DEF PruneChunk
  <2> QED
    BY <2>1 DEF About, AboutKnown
<1>21. CASE DropCorpus
  BY <1>0, <1>21 DEF DropCorpus
<1>22. CASE EraseRows
  BY <1>0, <1>22 DEF EraseRows
<1>23. ASSUME NEW k \in Kinds, EraseVectors(k) PROVE ToldInv'
  BY <1>23 DEF EraseVectors
<1>24. CASE EraseEnds
  BY <1>24 DEF EraseEnds
<1>25. CASE UNCHANGED graph_vars
  BY <1>25 DEF graph_vars
<1> QED
  BY <1>1, <1>2, <1>3, <1>4, <1>5, <1>6, <1>7, <1>8, <1>9, <1>10, <1>11, <1>12,
     <1>13, <1>14, <1>15, <1>16, <1>17, <1>18, <1>19, <1>20, <1>21, <1>22, <1>23, <1>24,
     <1>25
  DEF GraphNext, Pipeline

LEMMA WholeStep ==
  ASSUME GraphType, WholeInv, [GraphNext]_graph_vars
  PROVE  WholeInv'
<1> USE GraphAssumption DEF GraphType, BuildStates, WholeInv, GraphWhole, Kinds, rows, Standing, At2, Building, Steps
<1>1. CASE SubmitBuild
  BY <1>1 DEF SubmitBuild
<1>2. CASE RequestGraphCancel
  BY <1>2 DEF RequestGraphCancel, PipelineOnly, Quiet, Breaks
<1>3. CASE CancelGate
  BY <1>3 DEF CancelGate, PipelineOnly, Quiet, Breaks
<1>4. CASE ListChunks
  <2>1. build'.step \in {"cleanup", "extract"}
    BY <1>4 DEF ListChunks, Breaks
  <2> QED
    BY <1>4, <2>1 DEF ListChunks, Quiet
<1>5. ASSUME NEW x \in GraphChunks, ExtractBatch(x) PROVE WholeInv'
  BY <1>5 DEF ExtractBatch, PipelineOnly, Quiet, Breaks
<1>6. CASE DetectCommunities
  BY <1>6 DEF DetectCommunities, Then, PipelineOnly, Quiet, Breaks
<1>7. CASE EmbedGraph
  BY <1>7 DEF EmbedGraph, Then, PipelineOnly, Quiet, Breaks
<1>8. CASE ListGraphCollections
  BY <1>8 DEF ListGraphCollections, PipelineOnly, Quiet, Breaks
<1>9. ASSUME NEW k \in Kinds, DropOld(k) PROVE WholeInv'
  <2>1. build'.step \in {"cleanup", "create", "drop"}
    BY <1>9, DoneMoves, BreaksMoves DEF DropOld
  <2> QED
    BY <1>9, <2>1 DEF DropOld
<1>10. ASSUME NEW k \in Kinds, CreateGraphCollection(k) PROVE WholeInv'
  BY <1>10 DEF CreateGraphCollection, Done, PipelineOnly, Quiet, Breaks
<1>11. ASSUME NEW k \in Kinds, UpsertGraph(k) PROVE WholeInv'
  <2>1. meddled' = meddled /\ At2("upsert")
    BY <1>11 DEF UpsertGraph
  <2>2. CASE Breaks
    BY <2>1, <2>2, BreaksMoves
  <2>3. CASE ~ Breaks
    <3>1. /\ Done(k, "count")
          /\ vectors' = [vectors EXCEPT
               ![k] = IF @ = NoColl THEN @ ELSE RowsFor(k, build.built)]
      BY <1>11, <2>3 DEF UpsertGraph
    <3>2. /\ build'.built = build.built
          /\ \/ build'.step = "count" /\ build.todo = {k}
             \/ build'.step = "upsert" /\ build'.todo = build.todo \ {k}
      BY <2>1, <3>1, DoneMoves
    <3>3. vectors'[k] \in {NoColl, RowsFor(k, build.built)}
          /\ \A j \in Kinds \ {k} : vectors'[j] = vectors[j]
      BY <3>1
    <3> HIDE DEF Kinds
    <3> QED
      BY <2>1, <3>2, <3>3
  <2> QED
    BY <2>2, <2>3
<1>12. CASE CountGraph
  BY <1>12 DEF CountGraph, Then, PipelineOnly, Quiet, Breaks
<1>13. CASE ReplaceGraph
  BY <1>13 DEF ReplaceGraph, Then, PipelineOnly, Quiet, Breaks
<1>14. CASE FinishBuild
  <2>1. /\ At2("finish") /\ build'.step = "done" /\ meddled' = meddled
        /\ UNCHANGED <<vectors, mentions, members>>
    BY <1>14 DEF FinishBuild, Quiet
  <2>2. ASSUME ~ meddled PROVE GraphWhole'
    <3>1. /\ vectors["entities"] = EntitiesIn(mentions)
          /\ members = CommunityOf(EntitiesIn(mentions))
          /\ vectors["communities"] = {c \in {CommunityOf(EntitiesIn(mentions))} : c # {}}
      BY <2>1, <2>2 DEF RowsFor
    <3> QED
      BY <2>1, <3>1
  <2> QED
    BY <2>1, <2>2
<1>15. CASE BreakBuild
  BY <1>15 DEF BreakBuild, PipelineOnly, Quiet, Breaks
<1>16. ASSUME NEW k \in Kinds, CleanUp(k) PROVE WholeInv'
  BY <1>16 DEF CleanUp, Done, PipelineOnly, Quiet, Breaks
<1>17. CASE NextBuild
  BY <1>17 DEF NextBuild, PipelineOnly, Quiet, Breaks
<1>18. CASE GraphCrash
  BY <1>18 DEF GraphCrash
<1>19. ASSUME NEW x \in GraphChunks, StoreChunk(x) PROVE WholeInv'
  BY <1>19 DEF StoreChunk
<1>20. ASSUME NEW x \in GraphChunks, PruneChunk(x) PROVE WholeInv'
  BY <1>20 DEF PruneChunk
<1>21. CASE DropCorpus
  BY <1>21 DEF DropCorpus
<1>22. CASE EraseRows
  BY <1>22 DEF EraseRows
<1>23. ASSUME NEW k \in Kinds, EraseVectors(k) PROVE WholeInv'
  BY <1>23 DEF EraseVectors
<1>24. CASE EraseEnds
  BY <1>24 DEF EraseEnds
<1>25. CASE UNCHANGED graph_vars
  BY <1>25 DEF graph_vars
<1> QED
  BY <1>1, <1>2, <1>3, <1>4, <1>5, <1>6, <1>7, <1>8, <1>9, <1>10, <1>11, <1>12,
     <1>13, <1>14, <1>15, <1>16, <1>17, <1>18, <1>19, <1>20, <1>21, <1>22, <1>23, <1>24,
     <1>25
  DEF GraphNext, Pipeline

LEMMA EraseStep ==
  ASSUME GraphType, EraseInv, [GraphNext]_graph_vars
  PROVE  EraseInv'
<1> USE GraphAssumption DEF GraphType, BuildStates, EraseInv, Kinds, rows, Standing, At2, Building, Steps
<1>1. CASE SubmitBuild
  BY <1>1 DEF SubmitBuild
<1>2. CASE RequestGraphCancel
  BY <1>2 DEF RequestGraphCancel, PipelineOnly, Quiet, Breaks
<1>3. CASE CancelGate
  BY <1>3 DEF CancelGate, PipelineOnly, Quiet, Breaks
<1>4. CASE ListChunks
  BY <1>4 DEF ListChunks, PipelineOnly, Quiet, Breaks
<1>5. ASSUME NEW x \in GraphChunks, ExtractBatch(x) PROVE EraseInv'
  BY <1>5 DEF ExtractBatch, PipelineOnly, Quiet, Breaks
<1>6. CASE DetectCommunities
  BY <1>6 DEF DetectCommunities, Then, PipelineOnly, Quiet, Breaks
<1>7. CASE EmbedGraph
  BY <1>7 DEF EmbedGraph, Then, PipelineOnly, Quiet, Breaks
<1>8. CASE ListGraphCollections
  BY <1>8 DEF ListGraphCollections, PipelineOnly, Quiet, Breaks
<1>9. ASSUME NEW k \in Kinds, DropOld(k) PROVE EraseInv'
  BY <1>9 DEF DropOld, Done, PipelineOnly, Quiet, Breaks
<1>10. ASSUME NEW k \in Kinds, CreateGraphCollection(k) PROVE EraseInv'
  BY <1>10 DEF CreateGraphCollection, Done, PipelineOnly, Quiet, Breaks
<1>11. ASSUME NEW k \in Kinds, UpsertGraph(k) PROVE EraseInv'
  BY <1>11 DEF UpsertGraph, Done, PipelineOnly, Quiet, Breaks
<1>12. CASE CountGraph
  BY <1>12 DEF CountGraph, Then, PipelineOnly, Quiet, Breaks
<1>13. CASE ReplaceGraph
  BY <1>13 DEF ReplaceGraph, Then, PipelineOnly, Quiet, Breaks
<1>14. CASE FinishBuild
  BY <1>14 DEF FinishBuild, PipelineOnly, Quiet, Breaks
<1>15. CASE BreakBuild
  BY <1>15 DEF BreakBuild, PipelineOnly, Quiet, Breaks
<1>16. ASSUME NEW k \in Kinds, CleanUp(k) PROVE EraseInv'
  BY <1>16 DEF CleanUp, Done, PipelineOnly, Quiet, Breaks
<1>17. CASE NextBuild
  BY <1>17 DEF NextBuild, PipelineOnly, Quiet, Breaks
<1>18. CASE GraphCrash
  BY <1>18 DEF GraphCrash
<1>19. ASSUME NEW x \in GraphChunks, StoreChunk(x) PROVE EraseInv'
  BY <1>19 DEF StoreChunk
<1>20. ASSUME NEW x \in GraphChunks, PruneChunk(x) PROVE EraseInv'
  BY <1>20 DEF PruneChunk, About
<1>21. CASE DropCorpus
  BY <1>21 DEF DropCorpus
<1>22. CASE EraseRows
  BY <1>22 DEF EraseRows
<1>23. ASSUME NEW k \in Kinds, EraseVectors(k) PROVE EraseInv'
  BY <1>23 DEF EraseVectors
<1>24. CASE EraseEnds
  BY <1>24 DEF EraseEnds
<1>25. CASE UNCHANGED graph_vars
  BY <1>25 DEF graph_vars
<1> QED
  BY <1>1, <1>2, <1>3, <1>4, <1>5, <1>6, <1>7, <1>8, <1>9, <1>10, <1>11, <1>12,
     <1>13, <1>14, <1>15, <1>16, <1>17, <1>18, <1>19, <1>20, <1>21, <1>22, <1>23, <1>24,
     <1>25
  DEF GraphNext, Pipeline

LEMMA GraphInvariant == GraphSpec => []GraphInv
<1>1. GraphInv /\ [GraphNext]_graph_vars => GraphInv'
  BY GraphTypeStep, SourceStep, ToldStep, WholeStep, EraseStep DEF GraphInv
<1> QED
  BY <1>1, GraphInitInv, PTL DEF GraphSpec

\* For any chunks, entities, numbers of builds, and interleavings with the
\* delete route, deletions of chunks and crashes: a build that ends undisturbed
\* has replaced rows and vectors alike, no mention is of a chunk that is gone but
\* those of a build under way, members and claims are of entities that some chunk
\* mentions, and a deletion that met no build leaves nothing.  The chunk of a
\* claim may be gone.
THEOREM GraphStaysSound == GraphSpec => []GraphSound
<1>1. GraphInv => GraphSound
  <2>1. GraphInv => GraphWhole
    BY DEF GraphInv, WholeInv, GraphWhole
  <2>2. GraphInv => DeletedGraphIsGone
    BY DEF GraphInv, EraseInv, DeletedGraphIsGone, Kinds
  <2>3. GraphInv => ProvenanceInCorpus
    BY DEF GraphInv, SourceInv, ToldInv, AboutKnown, ProvenanceInCorpus
  <2> QED
    BY <2>1, <2>2, <2>3 DEF GraphSound
<1> QED
  BY <1>1, GraphInvariant, PTL

-----------------------------------------------------------------------------
(****************************************************************************)
(* Evaluation: tags, runs and the verdict of a gate check.                  *)
(****************************************************************************)

Results == [of : Questions, hit : BOOLEAN]
AllResults == Seq(Results)
Jobs == {"absent", "submitted", "queued", "evaluating", "done", "failed",
         "cancelled", "lost"}
Checks == {"absent", "running", "passed", "failed", "cancelled"}
EvalRows ==
  [kind : {"eval_run", "gate_check"}, tag : Tags \cup {Live}, row : BOOLEAN,
   results : AllResults, job : Jobs, attempts : Nat, cancel : BOOLEAN,
   check : Checks]
WorkerSteps == {"idle", "load", "open", "mark", "ask", "withdraw", "keep",
                "verdict", "finish"}
WorkerStates == [run : EvalRuns \cup {NoRun}, step : WorkerSteps,
                 list : Seq(Questions), got : AllResults]
FreezerStates == [step : {"idle", "asked", "read"}, tag : Tags \cup {NoTag},
                  list : Seq(Questions)]

EvalType ==
  /\ evalset \in [there : BOOLEAN, questions : Seq(Questions)]
  /\ frozen \in [Tags -> Seq(Questions)]
  /\ freezers \in [Freezers -> FreezerStates]
  /\ rgate \in Tags \cup {NoTag}
  /\ evruns \in [EvalRuns -> EvalRows]
  /\ evworker \in WorkerStates
  /\ evfaults \in Nat

FreezerInv ==
  \A c \in Freezers :
    /\ freezers[c].step # "idle" => freezers[c].tag \in Tags
    /\ freezers[c].step = "read" => freezers[c].list # <<>>

\* Everything on record has its parents, and its kind.
RowOwned(r) ==
  /\ evruns[r].results # <<>> => evruns[r].row
  /\ evruns[r].row => evalset.there
  /\ evruns[r].row /\ evruns[r].tag # Live => frozen[evruns[r].tag] # <<>>
  /\ evruns[r].kind = "gate_check" => evruns[r].tag \in Tags
  /\ evruns[r].check # "absent" => rgate = evruns[r].tag /\ evruns[r].kind = "gate_check"

OwnedInv ==
  /\ \A r \in EvalRuns : RowOwned(r)
  /\ rgate # NoTag => frozen[rgate] # <<>>
  /\ \A t \in Tags : frozen[t] # <<>> => evalset.there

\* What the worker holds: the questions it loaded are, as long as there is a set,
\* those its run is about, and what it has asked is an initial part of them.
JobOf(step) ==
  CASE step \in {"load", "open", "mark"} -> "queued"
    [] step = "withdraw" -> "cancelled"
    [] OTHER -> "evaluating"

WorkerInv ==
  ~ Executes("idle") =>
    /\ evworker.run \in EvalRuns
    /\ EvalRow.job = JobOf(evworker.step)
    /\ evworker.step \in {"open", "withdraw", "verdict"} => EvalRow.kind = "gate_check"
    /\ evworker.step \in {"load", "open", "mark"} => evworker.got = <<>>
    /\ ~ Executes("load") =>
         /\ evworker.list # <<>> /\ IsPrefix(Asked(evworker.got), evworker.list)
         /\ evalset.there =>
              /\ IsPrefix(evworker.list, QuestionsOf(EvalRow))
              /\ EvalRow.tag # Live => evworker.list = frozen[EvalRow.tag]
              /\ ~ Executes("open") => EvalRow.row
    /\ Executes("ask") => Len(evworker.got) < Len(evworker.list)
    /\ evworker.step \in {"verdict", "finish"} =>
         /\ Asked(evworker.got) = evworker.list
         /\ EvalRow.row => EvalRow.results = evworker.got

\* A verdict is the last thing a check gets, and what a row holds is what the
\* properties say of it.
RowPasses(r) ==
  evruns[r].check = "passed" =>
    /\ evruns[r].job \notin {"absent", "submitted", "queued"}
    /\ evworker.run = r => evworker.step \in {"idle", "finish"}
    /\ Asked(evruns[r].results) = frozen[evruns[r].tag] /\ ClearsFloor(evruns[r].results)

RowFollows(r) ==
  evruns[r].row =>
    /\ IsPrefix(Asked(evruns[r].results), QuestionsOf(evruns[r]))
    /\ evruns[r].job = "done" /\ evruns[r].tag # Live =>
         Asked(evruns[r].results) = frozen[evruns[r].tag]

PassInv == \A r \in EvalRuns : RowPasses(r)
FollowsInv == \A r \in EvalRuns : RowFollows(r)

EvalInv == EvalType /\ FreezerInv /\ OwnedInv /\ WorkerInv /\ PassInv /\ FollowsInv

-----------------------------------------------------------------------------
(* Prefixes.                                                                *)

LEMMA PrefixDef ==
  ASSUME NEW s \in Seq(Questions), NEW t \in Seq(Questions)
  PROVE  IsPrefix(s, t) <=> Len(s) <= Len(t) /\ \A i \in 1..Len(s) : s[i] = t[i]
<1>1. ASSUME Len(s) <= Len(t)
      PROVE  /\ SubSeq(t, 1, Len(s)) \in Seq(Questions)
             /\ Len(SubSeq(t, 1, Len(s))) = Len(s)
             /\ \A i \in 1..Len(s) : SubSeq(t, 1, Len(s))[i] = t[i]
  BY <1>1
<1>2. SubSeq(s, 1, Len(s)) = s
  OBVIOUS
<1>3. ASSUME Len(s) <= Len(t), \A i \in 1..Len(s) : s[i] = t[i]
      PROVE  SubSeq(t, 1, Len(s)) = s
  BY <1>1, <1>3
<1> QED
  BY <1>1, <1>2, <1>3 DEF IsPrefix

LEMMA PrefixAppend ==
  ASSUME NEW s \in Seq(Questions), NEW t \in Seq(Questions), IsPrefix(s, t),
         NEW q \in Questions
  PROVE  IsPrefix(s, Append(t, q))
<1> DEFINE u == Append(t, q)
<1>1. Len(s) <= Len(t) /\ \A i \in 1..Len(s) : s[i] = t[i]
  BY PrefixDef
<1>2. u \in Seq(Questions) /\ Len(u) = Len(t) + 1 /\ \A i \in 1..Len(t) : u[i] = t[i]
  OBVIOUS
<1> HIDE DEF u
<1>3. Len(s) <= Len(u) /\ \A i \in 1..Len(s) : s[i] = u[i]
  BY <1>1, <1>2
<1>4. IsPrefix(s, u)
  BY <1>2, <1>3, PrefixDef
<1> QED
  BY <1>4 DEF u

LEMMA PrefixGrows ==
  ASSUME NEW s \in Seq(Questions), NEW t \in Seq(Questions), IsPrefix(s, t),
         Len(s) < Len(t)
  PROVE  t[Len(s) + 1] \in Questions /\ IsPrefix(Append(s, t[Len(s) + 1]), t)
<1> DEFINE q == t[Len(s) + 1]
           u == Append(s, q)
<1>1. Len(s) <= Len(t) /\ \A i \in 1..Len(s) : s[i] = t[i]
  BY PrefixDef
<1>2. q \in Questions
  OBVIOUS
<1>3. /\ u \in Seq(Questions) /\ Len(u) = Len(s) + 1 /\ u[Len(s) + 1] = q
      /\ \A i \in 1..Len(s) : u[i] = s[i]
  BY <1>2
<1>4. q = t[Len(s) + 1]
  OBVIOUS
<1> HIDE DEF u, q
<1>5. Len(u) <= Len(t) /\ \A i \in 1..Len(u) : u[i] = t[i]
  BY <1>1, <1>3, <1>4
<1>6. IsPrefix(u, t)
  BY <1>3, <1>5, PrefixDef
<1> QED
  BY <1>2, <1>6 DEF u, q

LEMMA PrefixFacts ==
  ASSUME NEW s \in Seq(Questions), NEW t \in Seq(Questions), IsPrefix(s, t)
  PROVE  /\ IsPrefix(t, t) /\ Len(s) <= Len(t)
         /\ \A u \in Seq(Questions) : IsPrefix(t, u) => IsPrefix(s, u)
         /\ Len(s) >= Len(t) => s = t
         /\ t = <<>> => s = <<>>
<1>1. \A u \in Seq(Questions), v \in Seq(Questions) :
        IsPrefix(u, v) <=> Len(u) <= Len(v) /\ \A i \in 1..Len(u) : u[i] = v[i]
  BY PrefixDef
<1>2. \A u \in Seq(Questions) : IsPrefix(t, u) => IsPrefix(s, u)
  BY <1>1
<1>3. Len(s) >= Len(t) => s = t
  BY <1>1
<1>4. IsPrefix(t, t) /\ Len(s) <= Len(t)
  BY <1>1
<1>5. t = <<>> => s = <<>>
  BY <1>4
<1> QED
  BY <1>2, <1>3, <1>4, <1>5

LEMMA PrefixSelf ==
  ASSUME NEW t \in Seq(Questions) PROVE IsPrefix(t, t)
<1>1. Len(t) <= Len(t)
  OBVIOUS
<1> QED
  BY <1>1, PrefixDef

LEMMA EmptyPrefix ==
  ASSUME NEW t \in Seq(Questions) PROVE IsPrefix(<<>>, t)
<1>1. <<>> \in Seq(Questions) /\ Len(<<>>) = 0 /\ 1..0 = {} /\ Len(t) >= 0
  OBVIOUS
<1> QED
  BY <1>1, PrefixDef

LEMMA AskedType ==
  ASSUME NEW g \in AllResults
  PROVE  Asked(g) \in Seq(Questions) /\ Len(Asked(g)) = Len(g)
         /\ \A i \in 1..Len(g) : Asked(g)[i] = g[i].of
<1>1. DOMAIN g = 1..Len(g) /\ Len(g) \in Nat
  BY DEF AllResults
<1>2. Asked(g) = [i \in 1..Len(g) |-> g[i].of]
  BY <1>1 DEF Asked
<1>3. \A i \in 1..Len(g) : g[i] \in Results
  BY DEF AllResults
<1>4. \A i \in 1..Len(g) : g[i].of \in Questions
  BY <1>3 DEF Results
<1> QED
  BY <1>1, <1>2, <1>4

LEMMA AskedEmpty == Asked(<<>>) = <<>>
BY DEF Asked

LEMMA AskedAppend ==
  ASSUME NEW g \in AllResults, NEW q \in Questions, NEW h \in BOOLEAN
  PROVE  /\ Append(g, [of |-> q, hit |-> h]) \in AllResults
         /\ Asked(Append(g, [of |-> q, hit |-> h])) = Append(Asked(g), q)
<1> DEFINE n == Append(g, [of |-> q, hit |-> h])
<1>0. [of |-> q, hit |-> h] \in Results
  BY DEF Results
<1>1. /\ n \in AllResults /\ Len(n) = Len(g) + 1
      /\ \A i \in 1..Len(g) : n[i] = g[i]
      /\ n[Len(g) + 1] = [of |-> q, hit |-> h]
  BY <1>0 DEF AllResults
<1>2. Len(g) \in Nat
  BY DEF AllResults
<1>3. /\ Append(Asked(g), q) \in Seq(Questions)
      /\ Len(Append(Asked(g), q)) = Len(g) + 1
      /\ \A i \in 1..Len(g) : Append(Asked(g), q)[i] = g[i].of
      /\ Append(Asked(g), q)[Len(g) + 1] = q
  BY <1>2, AskedType
<1>4. /\ Asked(n) \in Seq(Questions) /\ Len(Asked(n)) = Len(g) + 1
      /\ \A i \in 1..(Len(g) + 1) : Asked(n)[i] = n[i].of
  BY <1>1, AskedType
<1>5. \A i \in 1..(Len(g) + 1) : Asked(n)[i] = Append(Asked(g), q)[i]
  BY <1>1, <1>2, <1>3, <1>4
<1> QED
  BY <1>1, <1>2, <1>3, <1>4, <1>5

LEMMA EvalInitInv == EvalInit => EvalInv
<1> SUFFICES ASSUME EvalInit PROVE EvalInv
  OBVIOUS
<1> USE EvaluationAssumption
    DEF EvalInit, NoEvalRun, IdleWorker, IdleFreezer
<1>1. EvalType
  BY DEF EvalType, EvalRows, AllResults, Jobs, Checks, WorkerStates, WorkerSteps, FreezerStates
<1>2. OwnedInv /\ FreezerInv
  BY DEF OwnedInv, RowOwned, FreezerInv, NoTag
<1>3. WorkerInv /\ PassInv
  BY DEF WorkerInv, PassInv, RowPasses, Executes
<1>4. FollowsInv
  BY DEF FollowsInv, RowFollows
<1> QED
  BY <1>1, <1>2, <1>3, <1>4 DEF EvalInv

-----------------------------------------------------------------------------
(* What each action leaves in the fields of the rows and of the worker.      *)

RowIs(n, kind, tag, row, results, job, attempts, cancel, check) ==
  /\ n \in EvalRows
  /\ n.kind = kind /\ n.tag = tag /\ n.row = row /\ n.results = results
  /\ n.job = job /\ n.attempts = attempts /\ n.cancel = cancel /\ n.check = check

OneRow(r) ==
  /\ evruns' \in [EvalRuns -> EvalRows]
  /\ \A x \in EvalRuns : x # r => evruns'[x] = evruns[x]

WorkerIs(w, run, step, list, got) ==
  /\ w \in WorkerStates
  /\ w.run = run /\ w.step = step /\ w.list = list /\ w.got = got

LEMMA RowFields ==
  ASSUME NEW e \in EvalRows
  PROVE  /\ e.kind \in {"eval_run", "gate_check"} /\ e.tag \in Tags \cup {Live}
         /\ e.row \in BOOLEAN /\ e.results \in AllResults /\ e.job \in Jobs
         /\ e.attempts \in Nat /\ e.cancel \in BOOLEAN /\ e.check \in Checks
BY DEF EvalRows

LEMMA WorkerFields ==
  ASSUME NEW w \in WorkerStates
  PROVE  /\ w.run \in EvalRuns \cup {NoRun} /\ w.step \in WorkerSteps
         /\ w.list \in Seq(Questions) /\ w.got \in AllResults
BY DEF WorkerStates

LEMMA JobMoves ==
  ASSUME NEW e \in EvalRows, NEW j \in Jobs
  PROVE  RowIs([e EXCEPT !.job = j], e.kind, e.tag, e.row, e.results, j, e.attempts, e.cancel,
               e.check)
<1> DEFINE n == [e EXCEPT !.job = j]
<1>1. n = [kind |-> e.kind, tag |-> e.tag, row |-> e.row,
           results |-> e.results, job |-> j, attempts |-> e.attempts,
           cancel |-> e.cancel, check |-> e.check]
  BY DEF EvalRows
<1>2. n \in EvalRows
  BY <1>1, RowFields DEF EvalRows
<1> QED
  BY <1>1, <1>2 DEF RowIs

LEMMA CheckMoves ==
  ASSUME NEW e \in EvalRows, NEW k \in Checks
  PROVE  RowIs([e EXCEPT !.check = k], e.kind, e.tag, e.row, e.results, e.job, e.attempts,
               e.cancel, k)
<1> DEFINE n == [e EXCEPT !.check = k]
<1>1. n = [kind |-> e.kind, tag |-> e.tag, row |-> e.row,
           results |-> e.results, job |-> e.job, attempts |-> e.attempts,
           cancel |-> e.cancel, check |-> k]
  BY DEF EvalRows
<1>2. n \in EvalRows
  BY <1>1, RowFields DEF EvalRows
<1> QED
  BY <1>1, <1>2 DEF RowIs

LEMMA CancelMoves ==
  ASSUME NEW e \in EvalRows, NEW b \in BOOLEAN
  PROVE  RowIs([e EXCEPT !.cancel = b], e.kind, e.tag, e.row, e.results, e.job, e.attempts, b,
               e.check)
<1> DEFINE n == [e EXCEPT !.cancel = b]
<1>1. n = [kind |-> e.kind, tag |-> e.tag, row |-> e.row,
           results |-> e.results, job |-> e.job, attempts |-> e.attempts,
           cancel |-> b, check |-> e.check]
  BY DEF EvalRows
<1>2. n \in EvalRows
  BY <1>1, RowFields DEF EvalRows
<1> QED
  BY <1>1, <1>2 DEF RowIs

LEMMA RowMoves ==
  ASSUME NEW e \in EvalRows, NEW b \in BOOLEAN
  PROVE  RowIs([e EXCEPT !.row = b], e.kind, e.tag, b, e.results, e.job, e.attempts, e.cancel,
               e.check)
<1> DEFINE n == [e EXCEPT !.row = b]
<1>1. n = [kind |-> e.kind, tag |-> e.tag, row |-> b,
           results |-> e.results, job |-> e.job, attempts |-> e.attempts,
           cancel |-> e.cancel, check |-> e.check]
  BY DEF EvalRows
<1>2. n \in EvalRows
  BY <1>1, RowFields DEF EvalRows
<1> QED
  BY <1>1, <1>2 DEF RowIs

LEMMA ResultsMove ==
  ASSUME NEW e \in EvalRows, NEW g \in AllResults
  PROVE  RowIs([e EXCEPT !.results = g], e.kind, e.tag, e.row, g, e.job, e.attempts, e.cancel,
               e.check)
<1> DEFINE n == [e EXCEPT !.results = g]
<1>1. n = [kind |-> e.kind, tag |-> e.tag, row |-> e.row,
           results |-> g, job |-> e.job, attempts |-> e.attempts,
           cancel |-> e.cancel, check |-> e.check]
  BY DEF EvalRows
<1>2. n \in EvalRows
  BY <1>1, RowFields DEF EvalRows
<1> QED
  BY <1>1, <1>2 DEF RowIs

LEMMA KindMoves ==
  ASSUME NEW e \in EvalRows, NEW k \in {"eval_run", "gate_check"}
  PROVE  RowIs([e EXCEPT !.kind = k], k, e.tag, e.row, e.results, e.job, e.attempts, e.cancel,
               e.check)
<1> DEFINE n == [e EXCEPT !.kind = k]
<1>1. n = [kind |-> k, tag |-> e.tag, row |-> e.row,
           results |-> e.results, job |-> e.job, attempts |-> e.attempts,
           cancel |-> e.cancel, check |-> e.check]
  BY DEF EvalRows
<1>2. n \in EvalRows
  BY <1>1, RowFields DEF EvalRows
<1> QED
  BY <1>1, <1>2 DEF RowIs

LEMMA TagMoves ==
  ASSUME NEW e \in EvalRows, NEW t \in Tags \cup {Live}
  PROVE  RowIs([e EXCEPT !.tag = t], e.kind, t, e.row, e.results, e.job, e.attempts, e.cancel,
               e.check)
<1> DEFINE n == [e EXCEPT !.tag = t]
<1>1. n = [kind |-> e.kind, tag |-> t, row |-> e.row,
           results |-> e.results, job |-> e.job, attempts |-> e.attempts,
           cancel |-> e.cancel, check |-> e.check]
  BY DEF EvalRows
<1>2. n \in EvalRows
  BY <1>1, RowFields DEF EvalRows
<1> QED
  BY <1>1, <1>2 DEF RowIs

LEMMA AttemptsMove ==
  ASSUME NEW e \in EvalRows, NEW a \in Nat
  PROVE  RowIs([e EXCEPT !.attempts = a], e.kind, e.tag, e.row, e.results, e.job, a, e.cancel,
               e.check)
<1> DEFINE n == [e EXCEPT !.attempts = a]
<1>1. n = [kind |-> e.kind, tag |-> e.tag, row |-> e.row,
           results |-> e.results, job |-> e.job, attempts |-> a,
           cancel |-> e.cancel, check |-> e.check]
  BY DEF EvalRows
<1>2. n \in EvalRows
  BY <1>1, RowFields DEF EvalRows
<1> QED
  BY <1>1, <1>2 DEF RowIs

LEMMA NoResults == <<>> \in AllResults
BY DEF AllResults

LEMMA RowGoes ==
  ASSUME NEW e \in EvalRows
  PROVE  RowIs([e EXCEPT !.row = FALSE, !.results = <<>>], e.kind, e.tag, FALSE, <<>>, e.job,
               e.attempts, e.cancel, e.check)
<1> DEFINE n1 == [e EXCEPT !.row = FALSE]
           n2 == [n1 EXCEPT !.results = <<>>]
<1>0. [e EXCEPT !.row = FALSE, !.results = <<>>] = n2
  OBVIOUS
<1>1. RowIs(n1, e.kind, e.tag, FALSE, e.results, e.job, e.attempts, e.cancel, e.check)
  BY RowMoves, NoResults DEF RowIs, Jobs, Checks
<1>2. RowIs(n2, e.kind, e.tag, FALSE, <<>>, e.job, e.attempts, e.cancel, e.check)
  BY ResultsMove, <1>1, NoResults DEF RowIs, Jobs, Checks
<1> QED
  BY <1>0, <1>2

LEMMA RunMoves ==
  ASSUME NEW e \in EvalRows, NEW t \in Tags \cup {Live}
  PROVE  RowIs([e EXCEPT !.tag = t, !.row = TRUE, !.job = "submitted"], e.kind, t, TRUE,
               e.results, "submitted", e.attempts, e.cancel, e.check)
<1> DEFINE n1 == [e EXCEPT !.tag = t]
           n2 == [n1 EXCEPT !.row = TRUE]
           n3 == [n2 EXCEPT !.job = "submitted"]
<1>0. [e EXCEPT !.tag = t, !.row = TRUE, !.job = "submitted"] = n3
  OBVIOUS
<1>1. RowIs(n1, e.kind, t, e.row, e.results, e.job, e.attempts, e.cancel, e.check)
  BY TagMoves, NoResults DEF RowIs, Jobs, Checks
<1>2. RowIs(n2, e.kind, t, TRUE, e.results, e.job, e.attempts, e.cancel, e.check)
  BY RowMoves, <1>1, NoResults DEF RowIs, Jobs, Checks
<1>3. RowIs(n3, e.kind, t, TRUE, e.results, "submitted", e.attempts, e.cancel, e.check)
  BY JobMoves, <1>2, NoResults DEF RowIs, Jobs, Checks
<1> QED
  BY <1>0, <1>3

LEMMA CheckOpens ==
  ASSUME NEW e \in EvalRows, NEW t \in Tags
  PROVE  RowIs([e EXCEPT !.kind = "gate_check", !.tag = t, !.check = "running",
                !.job = "submitted"], "gate_check", t, e.row, e.results, "submitted", e.attempts, e.cancel, "running")
<1> DEFINE n1 == [e EXCEPT !.kind = "gate_check"]
           n2 == [n1 EXCEPT !.tag = t]
           n3 == [n2 EXCEPT !.check = "running"]
           n4 == [n3 EXCEPT !.job = "submitted"]
<1>0. [e EXCEPT !.kind = "gate_check", !.tag = t, !.check = "running", !.job = "submitted"] = n4
  OBVIOUS
<1>1. RowIs(n1, "gate_check", e.tag, e.row, e.results, e.job, e.attempts, e.cancel, e.check)
  BY KindMoves, NoResults DEF RowIs, Jobs, Checks
<1>2. RowIs(n2, "gate_check", t, e.row, e.results, e.job, e.attempts, e.cancel, e.check)
  BY TagMoves, <1>1, NoResults DEF RowIs, Jobs, Checks
<1>3. RowIs(n3, "gate_check", t, e.row, e.results, e.job, e.attempts, e.cancel, "running")
  BY CheckMoves, <1>2, NoResults DEF RowIs, Jobs, Checks
<1>4. RowIs(n4, "gate_check", t, e.row, e.results, "submitted", e.attempts, e.cancel, "running")
  BY JobMoves, <1>3, NoResults DEF RowIs, Jobs, Checks
<1> QED
  BY <1>0, <1>4

LEMMA RetryMoves ==
  ASSUME NEW e \in EvalRows, NEW a \in Nat
  PROVE  RowIs([e EXCEPT !.job = "queued", !.attempts = a, !.cancel = FALSE], e.kind, e.tag,
               e.row, e.results, "queued", a, FALSE, e.check)
<1> DEFINE n1 == [e EXCEPT !.job = "queued"]
           n2 == [n1 EXCEPT !.attempts = a]
           n3 == [n2 EXCEPT !.cancel = FALSE]
<1>0. [e EXCEPT !.job = "queued", !.attempts = a, !.cancel = FALSE] = n3
  OBVIOUS
<1>1. RowIs(n1, e.kind, e.tag, e.row, e.results, "queued", e.attempts, e.cancel, e.check)
  BY JobMoves, NoResults DEF RowIs, Jobs, Checks
<1>2. RowIs(n2, e.kind, e.tag, e.row, e.results, "queued", a, e.cancel, e.check)
  BY AttemptsMove, <1>1, NoResults DEF RowIs, Jobs, Checks
<1>3. RowIs(n3, e.kind, e.tag, e.row, e.results, "queued", a, FALSE, e.check)
  BY CancelMoves, <1>2, NoResults DEF RowIs, Jobs, Checks
<1> QED
  BY <1>0, <1>3

LEMMA GiveUpMoves ==
  ASSUME NEW e \in EvalRows, NEW a \in Nat
  PROVE  RowIs([e EXCEPT !.job = "failed", !.attempts = a], e.kind, e.tag, e.row, e.results,
               "failed", a, e.cancel, e.check)
<1> DEFINE n1 == [e EXCEPT !.job = "failed"]
           n2 == [n1 EXCEPT !.attempts = a]
<1>0. [e EXCEPT !.job = "failed", !.attempts = a] = n2
  OBVIOUS
<1>1. RowIs(n1, e.kind, e.tag, e.row, e.results, "failed", e.attempts, e.cancel, e.check)
  BY JobMoves, NoResults DEF RowIs, Jobs, Checks
<1>2. RowIs(n2, e.kind, e.tag, e.row, e.results, "failed", a, e.cancel, e.check)
  BY AttemptsMove, <1>1, NoResults DEF RowIs, Jobs, Checks
<1> QED
  BY <1>0, <1>2

LEMMA ConcludeMoves ==
  ASSUME NEW e \in EvalRows, NEW k \in Checks
  PROVE  RowIs(Conclude(e, k), e.kind, e.tag, e.row, e.results, e.job, e.attempts, e.cancel,
               IF e.check = "absent" THEN "absent" ELSE k)
<1> DEFINE m == IF e.check = "absent" THEN e.check ELSE k
<1>1. m \in Checks
  BY RowFields
<1>2. Conclude(e, k) = [e EXCEPT !.check = m]
  BY DEF Conclude, EvalRows
<1> QED
  BY <1>1, <1>2, CheckMoves

LEMMA SameRow ==
  ASSUME NEW e \in EvalRows
  PROVE  RowIs(e, e.kind, e.tag, e.row, e.results, e.job, e.attempts, e.cancel, e.check)
BY DEF RowIs

LEMMA RecoveredMoves ==
  ASSUME NEW e \in EvalRows
  PROVE  RowIs(RecoveredEval(e), e.kind, e.tag, e.row, e.results,
               CASE e.job = "evaluating" -> "failed" [] e.job = "submitted" -> "lost" [] OTHER -> e.job,
               e.attempts, e.cancel, e.check)
<1>1. CASE e.job = "evaluating"
  BY <1>1, JobMoves DEF RecoveredEval, Jobs
<1>2. CASE e.job = "submitted"
  BY <1>2, JobMoves DEF RecoveredEval, Jobs
<1>3. CASE e.job \notin {"evaluating", "submitted"}
  BY <1>3, SameRow DEF RecoveredEval
<1> QED
  BY <1>1, <1>2, <1>3

LEMMA OneRowChanges ==
  ASSUME EvalType, NEW r \in EvalRuns, NEW n \in EvalRows,
         evruns' = [evruns EXCEPT ![r] = n]
  PROVE  OneRow(r) /\ evruns'[r] = n
BY DEF EvalType, OneRow

LEMMA WorkerStepMoves ==
  ASSUME NEW w \in WorkerStates, NEW k \in WorkerSteps
  PROVE  WorkerIs([w EXCEPT !.step = k], w.run, k, w.list, w.got)
<1>1. [w EXCEPT !.step = k] = [run |-> w.run, step |-> k, list |-> w.list, got |-> w.got]
  BY DEF WorkerStates
<1>2. [w EXCEPT !.step = k] \in WorkerStates
  BY <1>1, WorkerFields DEF WorkerStates
<1> QED
  BY <1>1, <1>2 DEF WorkerIs

LEMMA WorkerIdles == WorkerIs(IdleWorker, NoRun, "idle", <<>>, <<>>)
BY DEF WorkerIs, IdleWorker, WorkerStates, WorkerSteps, AllResults

-----------------------------------------------------------------------------
(* The steps of the worker.                                                 *)

\* The worker goes on with the same questions, or is idle again.
WorkerGoes(step) ==
  IF step = "idle" THEN WorkerIs(evworker', NoRun, "idle", <<>>, <<>>)
  ELSE WorkerIs(evworker', evworker.run, step, evworker.list, evworker.got)

LEMMA Settles ==
  ASSUME EvalType, NEW r \in EvalRuns, NEW n \in EvalRows, NEW k \in WorkerSteps,
         EvalSettings(r, n, k)
  PROVE  /\ OneRow(r) /\ evruns'[r] = n /\ WorkerGoes(k)
         /\ UNCHANGED <<evalset, frozen, freezers, rgate>>
<1>1. OneRow(r) /\ evruns'[r] = n
  BY OneRowChanges DEF EvalSettings
<1>2. WorkerGoes(k)
  BY WorkerStepMoves, WorkerIdles DEF EvalSettings, WorkerGoes, EvalType
<1> QED
  BY <1>1, <1>2 DEF EvalSettings

LEMMA AtWork ==
  ASSUME EvalType, WorkerInv, ~ Executes("idle")
  PROVE  evworker.run \in EvalRuns /\ EvalRow \in EvalRows /\ evworker \in WorkerStates
BY DEF EvalType, WorkerInv, EvalRow

MarkDoes ==
  /\ Executes("mark")
  /\ OneRow(evworker.run) /\ RowIs(evruns'[evworker.run], EvalRow.kind, EvalRow.tag,
                                   EvalRow.row, EvalRow.results, "evaluating", EvalRow.attempts,
                                   EvalRow.cancel, EvalRow.check)
  /\ WorkerGoes("ask")
  /\ UNCHANGED <<evalset, frozen, freezers, rgate>> /\ UNCHANGED evfaults

LEMMA MarkEffect ==
  ASSUME EvalType, WorkerInv, MarkEvaluating
  PROVE  MarkDoes
<1> USE DEF MarkDoes
<1>1. evworker.run \in EvalRuns /\ EvalRow \in EvalRows
  BY AtWork DEF MarkEvaluating, Executes
<1>2. RowIs([EvalRow EXCEPT !.job = "evaluating"], EvalRow.kind, EvalRow.tag, EvalRow.row,
            EvalRow.results, "evaluating", EvalRow.attempts, EvalRow.cancel, EvalRow.check)
  BY <1>1, JobMoves DEF Jobs, Checks
<1>3. EvalSettings(evworker.run, [EvalRow EXCEPT !.job = "evaluating"],
                   "ask") /\ "ask" \in WorkerSteps
  BY DEF MarkEvaluating, WorkerSteps, Executes
<1> QED
  BY <1>1, <1>2, <1>3, Settles DEF MarkEvaluating, RowIs, Executes

ObserveDoes ==
  /\ Executes("ask")
  /\ OneRow(evworker.run) /\ RowIs(evruns'[evworker.run], EvalRow.kind, EvalRow.tag,
                                   EvalRow.row, EvalRow.results, "cancelled", EvalRow.attempts,
                                   EvalRow.cancel, EvalRow.check)
  /\ WorkerGoes((IF EvalRow.kind = "gate_check" THEN "withdraw" ELSE "idle"))
  /\ UNCHANGED <<evalset, frozen, freezers, rgate>> /\ UNCHANGED evfaults

LEMMA ObserveEffect ==
  ASSUME EvalType, WorkerInv, ObserveEvalCancel
  PROVE  ObserveDoes
<1> USE DEF ObserveDoes
<1>1. evworker.run \in EvalRuns /\ EvalRow \in EvalRows
  BY AtWork DEF ObserveEvalCancel, Executes
<1>2. RowIs([EvalRow EXCEPT !.job = "cancelled"], EvalRow.kind, EvalRow.tag, EvalRow.row,
            EvalRow.results, "cancelled", EvalRow.attempts, EvalRow.cancel, EvalRow.check)
  BY <1>1, JobMoves DEF Jobs, Checks
<1>3. EvalSettings(evworker.run, [EvalRow EXCEPT !.job = "cancelled"],
                   (IF EvalRow.kind = "gate_check" THEN "withdraw" ELSE "idle")) /\ (IF EvalRow.kind = "gate_check" THEN "withdraw" ELSE "idle") \in WorkerSteps
  BY DEF ObserveEvalCancel, WorkerSteps, Executes
<1> QED
  BY <1>1, <1>2, <1>3, Settles DEF ObserveEvalCancel, RowIs, Executes

WithdrawDoes ==
  /\ Executes("withdraw")
  /\ OneRow(evworker.run) /\ RowIs(evruns'[evworker.run], EvalRow.kind, EvalRow.tag,
                                   EvalRow.row, EvalRow.results, EvalRow.job, EvalRow.attempts,
                                   EvalRow.cancel,
                                   IF EvalRow.check = "absent" THEN "absent" ELSE "cancelled")
  /\ WorkerGoes("idle")
  /\ UNCHANGED <<evalset, frozen, freezers, rgate>> /\ UNCHANGED evfaults

LEMMA WithdrawEffect ==
  ASSUME EvalType, WorkerInv, WithdrawCheck
  PROVE  WithdrawDoes
<1> USE DEF WithdrawDoes
<1>1. evworker.run \in EvalRuns /\ EvalRow \in EvalRows
  BY AtWork DEF WithdrawCheck, Executes
<1>2. RowIs(Conclude(EvalRow, "cancelled"), EvalRow.kind, EvalRow.tag, EvalRow.row,
            EvalRow.results, EvalRow.job, EvalRow.attempts, EvalRow.cancel,
            IF EvalRow.check = "absent" THEN "absent" ELSE "cancelled")
  BY <1>1, ConcludeMoves DEF Jobs, Checks
<1>3. EvalSettings(evworker.run, Conclude(EvalRow, "cancelled"),
                   "idle") /\ "idle" \in WorkerSteps
  BY DEF WithdrawCheck, Withdrawn, WorkerSteps, Executes
<1> QED
  BY <1>1, <1>2, <1>3, Settles DEF WithdrawCheck, RowIs, Executes

VerdictDoes ==
  /\ Executes("verdict")
  /\ OneRow(evworker.run) /\ RowIs(evruns'[evworker.run], EvalRow.kind, EvalRow.tag,
                                   EvalRow.row, EvalRow.results, EvalRow.job, EvalRow.attempts,
                                   EvalRow.cancel,
                                   IF EvalRow.check = "absent" THEN "absent" ELSE
                                     (IF ClearsFloor(evworker.got) THEN "passed" ELSE "failed"))
  /\ WorkerGoes("finish")
  /\ UNCHANGED <<evalset, frozen, freezers, rgate>> /\ UNCHANGED evfaults

LEMMA VerdictEffect ==
  ASSUME EvalType, WorkerInv, GiveVerdict
  PROVE  VerdictDoes
<1> USE DEF VerdictDoes
<1>1. evworker.run \in EvalRuns /\ EvalRow \in EvalRows
  BY AtWork DEF GiveVerdict, Executes
<1>2. RowIs(Conclude(EvalRow, (IF ClearsFloor(evworker.got) THEN "passed" ELSE "failed")),
            EvalRow.kind, EvalRow.tag, EvalRow.row, EvalRow.results, EvalRow.job,
            EvalRow.attempts, EvalRow.cancel,
            IF EvalRow.check = "absent" THEN "absent" ELSE
              (IF ClearsFloor(evworker.got) THEN "passed" ELSE "failed"))
  BY <1>1, ConcludeMoves DEF Jobs, Checks
<1>3. EvalSettings(evworker.run, Conclude(EvalRow,
                                          (IF ClearsFloor(evworker.got) THEN "passed" ELSE "failed")), "finish") /\ "finish" \in WorkerSteps
  BY DEF GiveVerdict, WorkerSteps, Executes
<1> QED
  BY <1>1, <1>2, <1>3, Settles DEF GiveVerdict, RowIs, Executes

FinishDoes ==
  /\ Executes("finish")
  /\ OneRow(evworker.run) /\ RowIs(evruns'[evworker.run], EvalRow.kind, EvalRow.tag,
                                   EvalRow.row, EvalRow.results, "done", EvalRow.attempts,
                                   EvalRow.cancel, EvalRow.check)
  /\ WorkerGoes("idle")
  /\ UNCHANGED <<evalset, frozen, freezers, rgate>> /\ UNCHANGED evfaults

LEMMA FinishEffect ==
  ASSUME EvalType, WorkerInv, FinishEval
  PROVE  FinishDoes
<1> USE DEF FinishDoes
<1>1. evworker.run \in EvalRuns /\ EvalRow \in EvalRows
  BY AtWork DEF FinishEval, Executes
<1>2. RowIs([EvalRow EXCEPT !.job = "done"], EvalRow.kind, EvalRow.tag, EvalRow.row,
            EvalRow.results, "done", EvalRow.attempts, EvalRow.cancel, EvalRow.check)
  BY <1>1, JobMoves DEF Jobs, Checks
<1>3. EvalSettings(evworker.run, [EvalRow EXCEPT !.job = "done"],
                   "idle") /\ "idle" \in WorkerSteps
  BY DEF FinishEval, WorkerSteps, Executes
<1> QED
  BY <1>1, <1>2, <1>3, Settles DEF FinishEval, RowIs, Executes

ClaimDoes(r) ==
  /\ Executes("idle") /\ evruns[r].job = "queued"
  /\ WorkerIs(evworker', r, "load", <<>>, <<>>)
  /\ UNCHANGED <<evalset, frozen, freezers, rgate, evruns, evfaults>>

LEMMA ClaimEffect ==
  ASSUME EvalType, NEW r \in EvalRuns, ClaimEval(r)
  PROVE  ClaimDoes(r)
<1> USE DEF ClaimDoes
<1>1. evworker' = [run |-> r, step |-> "load", list |-> <<>>, got |-> <<>>]
  BY DEF ClaimEval, IdleWorker
<1>2. evworker' \in WorkerStates
  BY <1>1, NoResults DEF WorkerStates, WorkerSteps
<1> QED
  BY <1>1, <1>2 DEF ClaimEval, WorkerIs, Executes, IdleWorker

LEMMA LoadedType ==
  ASSUME EvalType, NEW e \in EvalRows
  PROVE  QuestionsOf(e) \in Seq(Questions)
BY RowFields DEF EvalType, QuestionsOf

LoadDoes ==
  /\ Executes("load") /\ UNCHANGED <<evalset, frozen, freezers, rgate, evfaults>>
  /\ \/ /\ CanLoad(EvalRow) /\ evruns' = evruns
        /\ WorkerIs(evworker', evworker.run,
                    IF EvalRow.kind = "eval_run" THEN "mark" ELSE "open",
                    QuestionsOf(EvalRow), evworker.got)
     \/ /\ OneRow(evworker.run) /\ WorkerGoes("idle")
        /\ RowIs(evruns'[evworker.run], EvalRow.kind, EvalRow.tag, EvalRow.row, EvalRow.results,
                 "failed", EvalRow.attempts + 1, EvalRow.cancel, EvalRow.check)

LEMMA LoadEffect ==
  ASSUME EvalType, WorkerInv, LoadQuestions
  PROVE  LoadDoes
<1> USE DEF LoadDoes
<1>1. evworker.run \in EvalRuns /\ EvalRow \in EvalRows /\ evworker \in WorkerStates
  BY AtWork DEF LoadQuestions, Executes
<1>2. CASE CanLoad(EvalRow)
  <2> DEFINE k == IF EvalRow.kind = "eval_run" THEN "mark" ELSE "open"
  <2>1. evworker' = [evworker EXCEPT !.list = QuestionsOf(EvalRow), !.step = k]
    BY <1>2 DEF LoadQuestions
  <2>2. evworker' = [run |-> evworker.run, step |-> k, list |-> QuestionsOf(EvalRow),
                     got |-> evworker.got]
    BY <1>1, <2>1 DEF WorkerStates
  <2>3. evworker' \in WorkerStates
    BY <1>1, <2>2, LoadedType, WorkerFields DEF WorkerStates, WorkerSteps
  <2> QED
    BY <1>2, <2>2, <2>3 DEF LoadQuestions, WorkerIs
<1>3. CASE ~ CanLoad(EvalRow)
  <2>1. EvalSettings(evworker.run, GivenUp(EvalRow), "idle") /\ "idle" \in WorkerSteps
    BY <1>3 DEF LoadQuestions, WorkerSteps
  <2>2. EvalRow.attempts + 1 \in Nat
    BY <1>1, RowFields
  <2>3. RowIs(GivenUp(EvalRow), EvalRow.kind, EvalRow.tag, EvalRow.row,
              EvalRow.results, "failed", EvalRow.attempts + 1, EvalRow.cancel, EvalRow.check)
    BY <1>1, <2>2, GiveUpMoves DEF GivenUp
  <2> QED
    BY <1>1, <2>1, <2>3, Settles DEF LoadQuestions, RowIs
<1> QED
  BY <1>2, <1>3

OpenDoes ==
  /\ Executes("open") /\ OneRow(evworker.run)
  /\ UNCHANGED <<evalset, frozen, freezers, rgate, evfaults>>
  /\ \/ /\ evalset.there /\ WorkerGoes("mark")
        /\ RowIs(evruns'[evworker.run], EvalRow.kind, EvalRow.tag, TRUE, EvalRow.results,
                 EvalRow.job, EvalRow.attempts, EvalRow.cancel, EvalRow.check)
     \/ /\ WorkerGoes("idle")
        /\ RowIs(evruns'[evworker.run], EvalRow.kind, EvalRow.tag, EvalRow.row, EvalRow.results,
                 EvalRow.job, EvalRow.attempts, EvalRow.cancel, EvalRow.check)

LEMMA OpenEffect ==
  ASSUME EvalType, WorkerInv, OpenRun
  PROVE  OpenDoes
<1> USE DEF OpenDoes
<1>1. evworker.run \in EvalRuns /\ EvalRow \in EvalRows
  BY AtWork DEF OpenRun, Executes
<1>2. CASE evalset.there
  <2>1. EvalSettings(evworker.run, [EvalRow EXCEPT !.row = TRUE],
                     "mark") /\ "mark" \in WorkerSteps
    BY <1>2 DEF OpenRun, WorkerSteps
  <2>2. RowIs([EvalRow EXCEPT !.row = TRUE], EvalRow.kind, EvalRow.tag, TRUE, EvalRow.results,
              EvalRow.job, EvalRow.attempts, EvalRow.cancel, EvalRow.check)
    BY <1>1, RowMoves
  <2> QED
    BY <1>1, <1>2, <2>1, <2>2, Settles DEF OpenRun, RowIs
<1>3. CASE ~ evalset.there
  <2>1. EvalSettings(evworker.run, EvalRow, "idle") /\ "idle" \in WorkerSteps
    BY <1>3 DEF OpenRun, WorkerSteps
  <2> QED
    BY <1>1, <2>1, SameRow, Settles DEF OpenRun, RowIs
<1> QED
  BY <1>2, <1>3

AskDoes(hit) ==
  /\ Executes("ask")
  /\ \E q \in Questions :
       /\ q = evworker.list[Len(evworker.got) + 1]
       /\ WorkerIs(evworker', evworker.run, "keep", evworker.list,
                   Append(evworker.got, [of |-> q, hit |-> hit]))
  /\ UNCHANGED <<evalset, frozen, freezers, rgate, evruns, evfaults>>

LEMMA AskEffect ==
  ASSUME EvalType, WorkerInv, NEW hit \in BOOLEAN, AskQuestion(hit)
  PROVE  AskDoes(hit)
<1> USE DEF AskDoes
<1>1. evworker \in WorkerStates /\ Len(evworker.got) < Len(evworker.list)
  BY AtWork DEF AskQuestion, Executes, WorkerInv
<1>2. evworker.list \in Seq(Questions) /\ evworker.got \in AllResults
  BY <1>1, WorkerFields
<1>3. Len(evworker.got) \in Nat
  BY <1>2 DEF AllResults
<1> DEFINE q == evworker.list[Len(evworker.got) + 1]
           g == Append(evworker.got, [of |-> q, hit |-> hit])
<1>4. q \in Questions
  BY <1>1, <1>2, <1>3
<1>5. g \in AllResults
  BY <1>2, <1>4, AskedAppend
<1>6. evworker' = [evworker EXCEPT !.step = "keep", !.got = g]
  BY DEF AskQuestion
<1> HIDE DEF g
<1>7. evworker' = [run |-> evworker.run, step |-> "keep", list |-> evworker.list, got |-> g]
  BY <1>1, <1>6 DEF WorkerStates
<1>8. evworker' \in WorkerStates
  BY <1>1, <1>5, <1>7, WorkerFields DEF WorkerStates, WorkerSteps
<1>9. WorkerIs(evworker', evworker.run, "keep", evworker.list, g)
  BY <1>7, <1>8 DEF WorkerIs
<1> QED
  BY <1>4, <1>9 DEF AskQuestion, g

FaultDoes ==
  /\ Executes("ask") /\ OneRow(evworker.run) /\ WorkerGoes("idle")
  /\ UNCHANGED <<evalset, frozen, freezers, rgate>> /\ evfaults' \in Nat
  /\ \/ RowIs(evruns'[evworker.run], EvalRow.kind, EvalRow.tag, EvalRow.row, EvalRow.results,
              "queued", EvalRow.attempts + 1, FALSE, EvalRow.check)
     \/ RowIs(evruns'[evworker.run], EvalRow.kind, EvalRow.tag, EvalRow.row, EvalRow.results,
              "failed", EvalRow.attempts + 1, EvalRow.cancel, EvalRow.check)

LEMMA FaultEffect ==
  ASSUME EvalType, WorkerInv, NEW retryable \in BOOLEAN, EvalFault(retryable)
  PROVE  FaultDoes
<1> USE DEF FaultDoes
<1>1. evworker.run \in EvalRuns /\ EvalRow \in EvalRows
  BY AtWork DEF EvalFault, Executes
<1>2. EvalRow.attempts + 1 \in Nat
  BY <1>1, RowFields
<1>3. evfaults' \in Nat
  BY DEF EvalFault, EvalType
<1> DEFINE again == [EvalRow EXCEPT !.job = "queued", !.attempts = EvalRow.attempts + 1,
                     !.cancel = FALSE]
           over  == [EvalRow EXCEPT !.job = "failed", !.attempts = EvalRow.attempts + 1]
<1>4. RowIs(again, EvalRow.kind, EvalRow.tag, EvalRow.row, EvalRow.results, "queued",
            EvalRow.attempts + 1, FALSE, EvalRow.check)
  BY <1>1, <1>2, RetryMoves
<1>5. RowIs(over, EvalRow.kind, EvalRow.tag, EvalRow.row, EvalRow.results, "failed",
            EvalRow.attempts + 1, EvalRow.cancel, EvalRow.check)
  BY <1>1, <1>2, GiveUpMoves
<1>6. \/ EvalSettings(evworker.run, again, "idle") \/ EvalSettings(evworker.run, over, "idle")
  BY DEF EvalFault, GivenUp
<1>7. "idle" \in WorkerSteps
  BY DEF WorkerSteps
<1> HIDE DEF again, over
<1>8. CASE EvalSettings(evworker.run, again, "idle")
  BY <1>1, <1>3, <1>4, <1>7, <1>8, Settles DEF EvalFault, RowIs
<1>9. CASE EvalSettings(evworker.run, over, "idle")
  BY <1>1, <1>3, <1>5, <1>7, <1>9, Settles DEF EvalFault, RowIs
<1> QED
  BY <1>6, <1>8, <1>9

RaisesDoes ==
  /\ UNCHANGED <<evalset, frozen, freezers, rgate, evruns>> /\ evfaults' \in Nat
  /\ WorkerIs(evworker', NoRun, "idle", <<>>, <<>>)

LEMMA RaisesEffect ==
  ASSUME EvalType, EvalRaises
  PROVE  RaisesDoes
<1>1. UNCHANGED <<evalset, frozen, freezers, rgate>> /\ evworker' = IdleWorker
  BY DEF EvalRaises, LeaveStuck, EvalSettings
<1>2. evruns' = [evruns EXCEPT ![evworker.run] = evruns[evworker.run]]
  BY DEF EvalRaises, LeaveStuck, EvalSettings, EvalRow
<1>3. evruns' = evruns
  BY <1>2 DEF EvalType
<1>4. evfaults' \in Nat
  BY DEF EvalRaises, EvalType
<1> QED
  BY <1>1, <1>3, <1>4, WorkerIdles DEF RaisesDoes

KeepDoes ==
  /\ Executes("keep") /\ OneRow(evworker.run)
  /\ UNCHANGED <<evalset, frozen, freezers, rgate, evfaults>>
  /\ \/ /\ EvalRow.row
        /\ RowIs(evruns'[evworker.run], EvalRow.kind, EvalRow.tag, EvalRow.row, evworker.got,
                 EvalRow.job, EvalRow.attempts, EvalRow.cancel, EvalRow.check)
        /\ IF Len(evworker.got) < Len(evworker.list) THEN WorkerGoes("ask")
           ELSE IF EvalRow.kind = "gate_check" THEN WorkerGoes("verdict")
           ELSE WorkerGoes("finish")
     \/ /\ WorkerGoes("idle")
        /\ RowIs(evruns'[evworker.run], EvalRow.kind, EvalRow.tag, EvalRow.row, EvalRow.results,
                 EvalRow.job, EvalRow.attempts, EvalRow.cancel, EvalRow.check)

LEMMA KeepEffect ==
  ASSUME EvalType, WorkerInv, KeepResults
  PROVE  KeepDoes
<1> USE DEF KeepDoes
<1>1. evworker.run \in EvalRuns /\ EvalRow \in EvalRows /\ evworker.got \in AllResults
  BY AtWork, WorkerFields DEF KeepResults, Executes
<1>2. CASE EvalRow.row
  <2> DEFINE n == [EvalRow EXCEPT !.results = evworker.got]
             k == IF Len(evworker.got) < Len(evworker.list) THEN "ask"
                  ELSE IF EvalRow.kind = "gate_check" THEN "verdict" ELSE "finish"
  <2>1. EvalSettings(evworker.run, n, k) /\ k \in WorkerSteps
    BY <1>2 DEF KeepResults, ResultsInsertable, WorkerSteps
  <2>2. RowIs(n, EvalRow.kind, EvalRow.tag, EvalRow.row, evworker.got, EvalRow.job,
              EvalRow.attempts, EvalRow.cancel, EvalRow.check)
    BY <1>1, ResultsMove
  <2> HIDE DEF n
  <2>3. n \in EvalRows
    BY <2>2 DEF RowIs
  <2> HIDE DEF k
  <2>4. OneRow(evworker.run) /\ evruns'[evworker.run] = n /\ WorkerGoes(k)
        /\ UNCHANGED <<evalset, frozen, freezers, rgate>>
    BY <1>1, <2>1, <2>3, Settles
  <2>5. IF Len(evworker.got) < Len(evworker.list) THEN WorkerGoes("ask")
        ELSE IF EvalRow.kind = "gate_check" THEN WorkerGoes("verdict")
        ELSE WorkerGoes("finish")
    BY <2>4 DEF k
  <2> QED
    BY <1>2, <2>2, <2>4, <2>5 DEF KeepResults
<1>3. CASE ~ EvalRow.row
  <2>1. EvalSettings(evworker.run, EvalRow, "idle") /\ "idle" \in WorkerSteps
    BY <1>3 DEF KeepResults, ResultsInsertable, WorkerSteps, LeaveStuck
  <2> QED
    BY <1>1, <2>1, SameRow, Settles DEF KeepResults, RowIs
<1> QED
  BY <1>2, <1>3

-----------------------------------------------------------------------------
(* The steps of the handlers, and a restart.                                *)

DeleteSetDoes ==
  /\ evalset' = [there |-> FALSE, questions |-> <<>>] /\ rgate' = NoTag
  /\ frozen' = [t \in Tags |-> <<>>]
  /\ UNCHANGED <<freezers, evworker, evfaults>>
  /\ evruns' \in [EvalRuns -> EvalRows]
  /\ \A x \in EvalRuns : RowIs(evruns'[x], evruns[x].kind, evruns[x].tag, FALSE, <<>>,
                               evruns[x].job, evruns[x].attempts, evruns[x].cancel, "absent")

LEMMA DeleteSetEffect ==
  ASSUME EvalType, DeleteSet
  PROVE  DeleteSetDoes
<1> USE DEF DeleteSetDoes
<1>1. ASSUME NEW x \in EvalRuns
      PROVE  RowIs(evruns'[x], evruns[x].kind, evruns[x].tag, FALSE, <<>>, evruns[x].job,
                   evruns[x].attempts, evruns[x].cancel, "absent")
  <2> DEFINE n == [evruns[x] EXCEPT !.row = FALSE, !.results = <<>>]
  <2>1. evruns[x] \in EvalRows /\ "absent" \in Checks
    BY DEF EvalType, Checks
  <2>2. RowIs(n, evruns[x].kind, evruns[x].tag, FALSE, <<>>, evruns[x].job, evruns[x].attempts,
              evruns[x].cancel, evruns[x].check)
    BY <2>1, RowGoes
  <2>3. evruns'[x] = [n EXCEPT !.check = "absent"]
    BY DEF DeleteSet, WithoutChecks, WithoutRuns
  <2> HIDE DEF n
  <2>4. n \in EvalRows
    BY <2>2 DEF RowIs
  <2>5. RowIs([n EXCEPT !.check = "absent"], n.kind, n.tag, n.row, n.results, n.job, n.attempts,
              n.cancel, "absent")
    BY <2>1, <2>4, CheckMoves
  <2> QED
    BY <2>2, <2>3, <2>5 DEF RowIs
<1>2. evruns' = [x \in EvalRuns |-> evruns'[x]]
  BY DEF DeleteSet, WithoutChecks
<1>3. evruns' \in [EvalRuns -> EvalRows]
  BY <1>1, <1>2 DEF RowIs
<1> QED
  BY <1>1, <1>3 DEF DeleteSet

DeleteGateDoes ==
  /\ rgate' = NoTag /\ UNCHANGED <<evalset, frozen, freezers, evworker, evfaults>>
  /\ evruns' \in [EvalRuns -> EvalRows]
  /\ \A x \in EvalRuns : RowIs(evruns'[x], evruns[x].kind, evruns[x].tag, evruns[x].row,
                               evruns[x].results, evruns[x].job, evruns[x].attempts,
                               evruns[x].cancel, "absent")

LEMMA DeleteGateEffect ==
  ASSUME EvalType, DeleteGate
  PROVE  DeleteGateDoes
<1> USE DEF DeleteGateDoes
<1>1. ASSUME NEW x \in EvalRuns
      PROVE  RowIs(evruns'[x], evruns[x].kind, evruns[x].tag, evruns[x].row, evruns[x].results,
                   evruns[x].job, evruns[x].attempts, evruns[x].cancel, "absent")
  <2>1. evruns[x] \in EvalRows /\ "absent" \in Checks
    BY DEF EvalType, Checks
  <2>2. evruns'[x] = [evruns[x] EXCEPT !.check = "absent"]
    BY DEF DeleteGate, WithoutChecks
  <2> QED
    BY <2>1, <2>2, CheckMoves
<1>2. evruns' = [x \in EvalRuns |-> evruns'[x]]
  BY DEF DeleteGate, WithoutChecks
<1>3. evruns' \in [EvalRuns -> EvalRows]
  BY <1>1, <1>2 DEF RowIs
<1> QED
  BY <1>1, <1>3 DEF DeleteGate

RestartDoes ==
  /\ WorkerIs(evworker', NoRun, "idle", <<>>, <<>>)
  /\ UNCHANGED <<evalset, frozen, rgate>> /\ evfaults' \in Nat
  /\ freezers' = [c \in Freezers |-> IdleFreezer]
  /\ evruns' \in [EvalRuns -> EvalRows]
  /\ \A x \in EvalRuns : RowIs(evruns'[x],
       evruns[x].kind, evruns[x].tag, evruns[x].row, evruns[x].results,
       CASE evruns[x].job = "evaluating" -> "failed"
         [] evruns[x].job = "submitted" -> "lost"
         [] OTHER -> evruns[x].job,
       evruns[x].attempts, evruns[x].cancel, evruns[x].check)

LEMMA RestartEffect ==
  ASSUME EvalType, EvalRestart
  PROVE  RestartDoes
<1> USE DEF RestartDoes
<1>1. ASSUME NEW x \in EvalRuns
      PROVE  RowIs(evruns'[x],
              evruns[x].kind, evruns[x].tag, evruns[x].row, evruns[x].results,
              CASE evruns[x].job = "evaluating" -> "failed"
                [] evruns[x].job = "submitted" -> "lost"
                [] OTHER -> evruns[x].job,
              evruns[x].attempts, evruns[x].cancel, evruns[x].check)
  <2>1. evruns[x] \in EvalRows
    BY DEF EvalType
  <2>2. evruns'[x] = RecoveredEval(evruns[x])
    BY DEF EvalRestart
  <2> QED
    BY <2>1, <2>2, RecoveredMoves
<1>2. evruns' = [x \in EvalRuns |-> evruns'[x]]
  BY DEF EvalRestart
<1>3. evruns' \in [EvalRuns -> EvalRows]
  BY <1>1, <1>2 DEF RowIs
<1> QED
  BY <1>1, <1>3, WorkerIdles DEF EvalRestart, EvalType

RunDoes(r, t) ==
  /\ evruns[r] = NoEvalRun /\ evalset.there
  /\ IF t = Live THEN evalset.questions # <<>> ELSE frozen[t] # <<>>
  /\ OneRow(r) /\ RowIs(evruns'[r], evruns[r].kind, t, TRUE, evruns[r].results, "submitted",
                        evruns[r].attempts, evruns[r].cancel, evruns[r].check)
  /\ UNCHANGED <<evalset, frozen, freezers, rgate, evworker, evfaults>>

LEMMA RunEffect ==
  ASSUME EvalType, NEW r \in EvalRuns, NEW t \in Tags \cup {Live}, CreateEvalRun(r, t)
  PROVE  RunDoes(r, t)
<1> USE DEF RunDoes
<1>1. evruns[r] \in EvalRows
  BY DEF EvalType
<1>2. RowIs([evruns[r] EXCEPT !.tag = t, !.row = TRUE, !.job = "submitted"], evruns[r].kind, t,
            TRUE, evruns[r].results, "submitted", evruns[r].attempts, evruns[r].cancel,
            evruns[r].check)
  BY <1>1, RunMoves DEF Jobs
<1>3. evruns' = [evruns EXCEPT ![r] = [evruns[r] EXCEPT !.tag = t, !.row = TRUE,
                                       !.job = "submitted"]]
  BY DEF CreateEvalRun
<1> QED
  BY <1>2, <1>3, OneRowChanges DEF CreateEvalRun, RowIs, EvalUnfinished

CheckDoes(r) ==
  /\ evruns[r] = NoEvalRun /\ rgate # NoTag
  /\ OneRow(r) /\ RowIs(evruns'[r], "gate_check", rgate, evruns[r].row, evruns[r].results,
                        "submitted", evruns[r].attempts, evruns[r].cancel, "running")
  /\ UNCHANGED <<evalset, frozen, freezers, rgate, evworker, evfaults>>

LEMMA CheckEffect ==
  ASSUME EvalType, NEW r \in EvalRuns, CreateGateCheck(r)
  PROVE  CheckDoes(r)
<1> USE DEF CheckDoes
<1>1. evruns[r] \in EvalRows
  BY DEF EvalType
<1>2. RowIs([evruns[r] EXCEPT !.kind = "gate_check", !.tag = rgate, !.check = "running",
             !.job = "submitted"], "gate_check", rgate, evruns[r].row, evruns[r].results, "submitted", evruns[r].attempts, evruns[r].cancel, "running")
  BY <1>1, CheckOpens DEF CreateGateCheck, EvalType
<1>3. evruns' = [evruns EXCEPT ![r] = [evruns[r] EXCEPT !.kind = "gate_check", !.tag = rgate,
                                       !.check = "running", !.job = "submitted"]]
  BY DEF CreateGateCheck
<1> QED
  BY <1>2, <1>3, OneRowChanges DEF CreateGateCheck, RowIs, EvalUnfinished

JobDoes(r) ==
  /\ evruns[r].job = "submitted"
  /\ OneRow(r) /\ RowIs(evruns'[r], evruns[r].kind, evruns[r].tag, evruns[r].row,
                        evruns[r].results, "queued", evruns[r].attempts, evruns[r].cancel,
                        evruns[r].check)
  /\ UNCHANGED <<evalset, frozen, freezers, rgate, evworker, evfaults>>

LEMMA JobEffect ==
  ASSUME EvalType, NEW r \in EvalRuns, CreateEvalJob(r)
  PROVE  JobDoes(r)
<1> USE DEF JobDoes
<1>1. evruns[r] \in EvalRows
  BY DEF EvalType
<1>2. RowIs([evruns[r] EXCEPT !.job = "queued"], evruns[r].kind, evruns[r].tag, evruns[r].row,
            evruns[r].results, "queued", evruns[r].attempts, evruns[r].cancel, evruns[r].check)
  BY <1>1, JobMoves DEF Jobs
<1>3. evruns' = [evruns EXCEPT ![r] = [evruns[r] EXCEPT !.job = "queued"]]
  BY DEF CreateEvalJob
<1> QED
  BY <1>2, <1>3, OneRowChanges DEF CreateEvalJob, RowIs, EvalUnfinished

CancelDoes(r) ==
  /\ evruns[r].job \in {"queued", "evaluating"}
  /\ OneRow(r) /\ RowIs(evruns'[r], evruns[r].kind, evruns[r].tag, evruns[r].row,
                        evruns[r].results, evruns[r].job, evruns[r].attempts, TRUE,
                        evruns[r].check)
  /\ UNCHANGED <<evalset, frozen, freezers, rgate, evworker, evfaults>>

LEMMA CancelEffect ==
  ASSUME EvalType, NEW r \in EvalRuns, RequestEvalCancel(r)
  PROVE  CancelDoes(r)
<1> USE DEF CancelDoes
<1>1. evruns[r] \in EvalRows
  BY DEF EvalType
<1>2. RowIs([evruns[r] EXCEPT !.cancel = TRUE], evruns[r].kind, evruns[r].tag, evruns[r].row,
            evruns[r].results, evruns[r].job, evruns[r].attempts, TRUE, evruns[r].check)
  BY <1>1, CancelMoves DEF Jobs
<1>3. evruns' = [evruns EXCEPT ![r] = [evruns[r] EXCEPT !.cancel = TRUE]]
  BY DEF RequestEvalCancel
<1> QED
  BY <1>2, <1>3, OneRowChanges DEF RequestEvalCancel, RowIs, EvalUnfinished

-----------------------------------------------------------------------------
(* The invariant, step by step.                                             *)

LEMMA RowStaysOwned ==
  ASSUME EvalType, OwnedInv, NEW r \in EvalRuns, OneRow(r),
         UNCHANGED <<evalset, frozen, rgate>>,
         evruns'[r].kind = evruns[r].kind, evruns'[r].tag = evruns[r].tag,
         evruns'[r].results # <<>> => evruns'[r].row,
         evruns'[r].row /\ ~ evruns[r].row =>
           evalset.there /\ (evruns[r].tag # Live => frozen[evruns[r].tag] # <<>>),
         evruns'[r].check # "absent" => evruns[r].check # "absent"
  PROVE  OwnedInv'
<1>0. RowOwned(r)
  BY DEF OwnedInv
<1>1. RowOwned(r)'
  BY <1>0 DEF RowOwned
<1>2. ASSUME NEW x \in EvalRuns, x # r PROVE RowOwned(x)'
  BY <1>2 DEF OwnedInv, RowOwned, OneRow
<1> QED
  BY <1>1, <1>2 DEF OwnedInv

LEMMA EvalTypeStep ==
  ASSUME EvalType, WorkerInv, [EvalNext]_eval_vars
  PROVE  EvalType'
<1> USE EvaluationAssumption
<1>1. ASSUME NEW q \in Questions, AddQuestion(q) PROVE EvalType'
  <2>1. Append(evalset.questions, q) \in Seq(Questions)
    BY DEF EvalType
  <2>2. evalset' = [there |-> evalset.there, questions |-> Append(evalset.questions, q)]
    BY <1>1 DEF AddQuestion, EvalType
  <2> QED
    BY <1>1, <2>1, <2>2 DEF AddQuestion, EvalType
<1>2. CASE DeleteSet
  <2>1. DeleteSetDoes
    BY <1>2, DeleteSetEffect
  <2> QED
    BY <2>1 DEF DeleteSetDoes, EvalType, OneRow, WorkerIs, WorkerGoes
<1>3. CASE DeleteGate
  <2>1. DeleteGateDoes
    BY <1>3, DeleteGateEffect
  <2> QED
    BY <2>1 DEF DeleteGateDoes, EvalType, OneRow, WorkerIs, WorkerGoes
<1>4. ASSUME NEW c \in Freezers, NEW t \in Tags, AskTag(c, t) PROVE EvalType'
  BY <1>4 DEF AskTag, EvalType, FreezerStates, IdleFreezer
<1>5. ASSUME NEW c \in Freezers, ReadQuestions(c) PROVE EvalType'
  BY <1>5 DEF ReadQuestions, EvalType, FreezerStates, IdleFreezer
<1>6. ASSUME NEW c \in Freezers, CreateVersion(c) PROVE EvalType'
  <2>1. freezers[c].list \in Seq(Questions)
    BY DEF EvalType, FreezerStates
  <2>2. frozen' \in [Tags -> Seq(Questions)]
    BY <1>6, <2>1 DEF CreateVersion, EvalType
  <2>3. freezers' \in [Freezers -> FreezerStates]
    BY <1>6 DEF CreateVersion, EvalType, FreezerStates, IdleFreezer
  <2> QED
    BY <1>6, <2>2, <2>3 DEF CreateVersion, EvalType
<1>7. ASSUME NEW t \in Tags, CreateGate(t) PROVE EvalType'
  BY <1>7 DEF CreateGate, EvalType, OneRow, WorkerIs, WorkerGoes
<1>8. ASSUME NEW r \in EvalRuns, NEW t \in Tags \cup {Live}, CreateEvalRun(r, t) PROVE EvalType'
  <2>1. RunDoes(r, t)
    BY <1>8, RunEffect
  <2> QED
    BY <2>1 DEF RunDoes, EvalType, OneRow, WorkerIs, WorkerGoes
<1>9. ASSUME NEW r \in EvalRuns, CreateGateCheck(r) PROVE EvalType'
  <2>1. CheckDoes(r)
    BY <1>9, CheckEffect
  <2> QED
    BY <2>1 DEF CheckDoes, EvalType, OneRow, WorkerIs, WorkerGoes
<1>10. ASSUME NEW r \in EvalRuns, CreateEvalJob(r) PROVE EvalType'
  <2>1. JobDoes(r)
    BY <1>10, JobEffect
  <2> QED
    BY <2>1 DEF JobDoes, EvalType, OneRow, WorkerIs, WorkerGoes
<1>11. ASSUME NEW r \in EvalRuns, RequestEvalCancel(r) PROVE EvalType'
  <2>1. CancelDoes(r)
    BY <1>11, CancelEffect
  <2> QED
    BY <2>1 DEF CancelDoes, EvalType, OneRow, WorkerIs, WorkerGoes
<1>12. ASSUME NEW r \in EvalRuns, ClaimEval(r) PROVE EvalType'
  <2>1. ClaimDoes(r)
    BY <1>12, ClaimEffect
  <2> QED
    BY <2>1 DEF ClaimDoes, EvalType, OneRow, WorkerIs, WorkerGoes
<1>13. CASE LoadQuestions
  <2>1. LoadDoes
    BY <1>13, LoadEffect
  <2>2. evworker.run \in EvalRuns /\ EvalRow \in EvalRows /\ evworker.step = "load"
    BY <2>1, AtWork DEF LoadDoes, Executes
  <2> QED
    BY <2>1, <2>2 DEF LoadDoes, EvalType, OneRow, WorkerIs, WorkerGoes
<1>14. CASE OpenRun
  <2>1. OpenDoes
    BY <1>14, OpenEffect
  <2>2. evworker.run \in EvalRuns /\ EvalRow \in EvalRows /\ evworker.step = "open"
    BY <2>1, AtWork DEF OpenDoes, Executes
  <2> QED
    BY <2>1, <2>2 DEF OpenDoes, EvalType, OneRow, WorkerIs, WorkerGoes
<1>15. CASE MarkEvaluating
  <2>1. MarkDoes
    BY <1>15, MarkEffect
  <2>2. evworker.run \in EvalRuns /\ EvalRow \in EvalRows /\ evworker.step = "mark"
    BY <2>1, AtWork DEF MarkDoes, Executes
  <2> QED
    BY <2>1, <2>2 DEF MarkDoes, EvalType, OneRow, WorkerIs, WorkerGoes
<1>16. CASE ObserveEvalCancel
  <2>1. ObserveDoes
    BY <1>16, ObserveEffect
  <2>2. evworker.run \in EvalRuns /\ EvalRow \in EvalRows /\ evworker.step = "ask"
    BY <2>1, AtWork DEF ObserveDoes, Executes
  <2> QED
    BY <2>1, <2>2 DEF ObserveDoes, EvalType, OneRow, WorkerIs, WorkerGoes
<1>17. CASE WithdrawCheck
  <2>1. WithdrawDoes
    BY <1>17, WithdrawEffect
  <2>2. evworker.run \in EvalRuns /\ EvalRow \in EvalRows /\ evworker.step = "withdraw"
    BY <2>1, AtWork DEF WithdrawDoes, Executes
  <2> QED
    BY <2>1, <2>2 DEF WithdrawDoes, EvalType, OneRow, WorkerIs, WorkerGoes
<1>18. ASSUME NEW hit \in BOOLEAN, AskQuestion(hit) PROVE EvalType'
  <2>1. AskDoes(hit)
    BY <1>18, AskEffect
  <2>2. evworker.run \in EvalRuns /\ EvalRow \in EvalRows /\ evworker.step = "ask"
    BY <2>1, AtWork DEF AskDoes, Executes
  <2> QED
    BY <2>1, <2>2 DEF AskDoes, EvalType, OneRow, WorkerIs, WorkerGoes
<1>19. ASSUME NEW retryable \in BOOLEAN, EvalFault(retryable) PROVE EvalType'
  <2>1. FaultDoes
    BY <1>19, FaultEffect
  <2>2. evworker.run \in EvalRuns /\ EvalRow \in EvalRows /\ evworker.step = "ask"
    BY <2>1, AtWork DEF FaultDoes, Executes
  <2> QED
    BY <2>1, <2>2 DEF FaultDoes, EvalType, OneRow, WorkerIs, WorkerGoes
<1>20. CASE KeepResults
  <2>1. KeepDoes
    BY <1>20, KeepEffect
  <2>2. evworker.run \in EvalRuns /\ EvalRow \in EvalRows /\ evworker.step = "keep"
    BY <2>1, AtWork DEF KeepDoes, Executes
  <2> QED
    BY <2>1, <2>2 DEF KeepDoes, EvalType, OneRow, WorkerIs, WorkerGoes
<1>21. CASE GiveVerdict
  <2>1. VerdictDoes
    BY <1>21, VerdictEffect
  <2>2. evworker.run \in EvalRuns /\ EvalRow \in EvalRows /\ evworker.step = "verdict"
    BY <2>1, AtWork DEF VerdictDoes, Executes
  <2> QED
    BY <2>1, <2>2 DEF VerdictDoes, EvalType, OneRow, WorkerIs, WorkerGoes
<1>22. CASE FinishEval
  <2>1. FinishDoes
    BY <1>22, FinishEffect
  <2>2. evworker.run \in EvalRuns /\ EvalRow \in EvalRows /\ evworker.step = "finish"
    BY <2>1, AtWork DEF FinishDoes, Executes
  <2> QED
    BY <2>1, <2>2 DEF FinishDoes, EvalType, OneRow, WorkerIs, WorkerGoes
<1>23. CASE EvalRestart
  <2>1. RestartDoes
    BY <1>23, RestartEffect
  <2>2. IdleFreezer \in FreezerStates
    BY DEF FreezerStates, IdleFreezer
  <2> QED
    BY <2>1, <2>2 DEF RestartDoes, EvalType, WorkerIs
<1>24. CASE UNCHANGED eval_vars
  BY <1>24 DEF eval_vars, EvalType, OneRow, WorkerIs, WorkerGoes
<1>25. CASE EvalRaises
  <2>1. RaisesDoes
    BY <1>25, RaisesEffect
  <2> QED
    BY <2>1 DEF RaisesDoes, EvalType, WorkerIs
<1> QED
  BY <1>1, <1>2, <1>3, <1>4, <1>5, <1>6, <1>7, <1>8, <1>9, <1>10, <1>11, <1>12,
     <1>13, <1>14, <1>15, <1>16, <1>17, <1>18, <1>19, <1>20, <1>21, <1>22, <1>23, <1>24, <1>25
  DEF EvalNext, WorkerStep

LEMMA FreezerStep ==
  ASSUME EvalType, FreezerInv, WorkerInv, [EvalNext]_eval_vars
  PROVE  FreezerInv'
<1> USE EvaluationAssumption
<1>1. ASSUME NEW q \in Questions, AddQuestion(q) PROVE FreezerInv'
  BY <1>1 DEF AddQuestion, EvalType, FreezerInv, IdleFreezer, FreezerStates
<1>2. CASE DeleteSet
  <2>1. DeleteSetDoes
    BY <1>2, DeleteSetEffect
  <2> QED
    BY <2>1 DEF DeleteSetDoes, EvalType, FreezerInv, IdleFreezer, FreezerStates
<1>3. CASE DeleteGate
  <2>1. DeleteGateDoes
    BY <1>3, DeleteGateEffect
  <2> QED
    BY <2>1 DEF DeleteGateDoes, EvalType, FreezerInv, IdleFreezer, FreezerStates
<1>4. ASSUME NEW c \in Freezers, NEW t \in Tags, AskTag(c, t) PROVE FreezerInv'
  BY <1>4 DEF AskTag, EvalType, FreezerInv, IdleFreezer, FreezerStates
<1>5. ASSUME NEW c \in Freezers, ReadQuestions(c) PROVE FreezerInv'
  BY <1>5 DEF ReadQuestions, EvalType, FreezerInv, IdleFreezer, FreezerStates
<1>6. ASSUME NEW c \in Freezers, CreateVersion(c) PROVE FreezerInv'
  BY <1>6 DEF CreateVersion, VersionInsertable, EvalType, FreezerInv, IdleFreezer, FreezerStates
<1>7. ASSUME NEW t \in Tags, CreateGate(t) PROVE FreezerInv'
  BY <1>7 DEF CreateGate, EvalType, FreezerInv, IdleFreezer, FreezerStates
<1>8. ASSUME NEW r \in EvalRuns, NEW t \in Tags \cup {Live}, CreateEvalRun(r,
        t) PROVE FreezerInv'
  <2>1. RunDoes(r, t)
    BY <1>8, RunEffect
  <2> QED
    BY <2>1 DEF RunDoes, EvalType, FreezerInv, IdleFreezer, FreezerStates
<1>9. ASSUME NEW r \in EvalRuns, CreateGateCheck(r) PROVE FreezerInv'
  <2>1. CheckDoes(r)
    BY <1>9, CheckEffect
  <2> QED
    BY <2>1 DEF CheckDoes, EvalType, FreezerInv, IdleFreezer, FreezerStates
<1>10. ASSUME NEW r \in EvalRuns, CreateEvalJob(r) PROVE FreezerInv'
  <2>1. JobDoes(r)
    BY <1>10, JobEffect
  <2> QED
    BY <2>1 DEF JobDoes, EvalType, FreezerInv, IdleFreezer, FreezerStates
<1>11. ASSUME NEW r \in EvalRuns, RequestEvalCancel(r) PROVE FreezerInv'
  <2>1. CancelDoes(r)
    BY <1>11, CancelEffect
  <2> QED
    BY <2>1 DEF CancelDoes, EvalType, FreezerInv, IdleFreezer, FreezerStates
<1>12. ASSUME NEW r \in EvalRuns, ClaimEval(r) PROVE FreezerInv'
  <2>1. ClaimDoes(r)
    BY <1>12, ClaimEffect
  <2> QED
    BY <2>1 DEF ClaimDoes, EvalType, FreezerInv, IdleFreezer, FreezerStates
<1>13. CASE LoadQuestions
  <2>1. LoadDoes
    BY <1>13, LoadEffect
  <2>2. evworker.run \in EvalRuns /\ EvalRow \in EvalRows /\ evworker.step = "load"
    BY <2>1, AtWork DEF LoadDoes, Executes
  <2> QED
    BY <2>1, <2>2 DEF LoadDoes, EvalType, FreezerInv, IdleFreezer, FreezerStates
<1>14. CASE OpenRun
  <2>1. OpenDoes
    BY <1>14, OpenEffect
  <2>2. evworker.run \in EvalRuns /\ EvalRow \in EvalRows /\ evworker.step = "open"
    BY <2>1, AtWork DEF OpenDoes, Executes
  <2> QED
    BY <2>1, <2>2 DEF OpenDoes, EvalType, FreezerInv, IdleFreezer, FreezerStates
<1>15. CASE MarkEvaluating
  <2>1. MarkDoes
    BY <1>15, MarkEffect
  <2>2. evworker.run \in EvalRuns /\ EvalRow \in EvalRows /\ evworker.step = "mark"
    BY <2>1, AtWork DEF MarkDoes, Executes
  <2> QED
    BY <2>1, <2>2 DEF MarkDoes, EvalType, FreezerInv, IdleFreezer, FreezerStates
<1>16. CASE ObserveEvalCancel
  <2>1. ObserveDoes
    BY <1>16, ObserveEffect
  <2>2. evworker.run \in EvalRuns /\ EvalRow \in EvalRows /\ evworker.step = "ask"
    BY <2>1, AtWork DEF ObserveDoes, Executes
  <2> QED
    BY <2>1, <2>2 DEF ObserveDoes, EvalType, FreezerInv, IdleFreezer, FreezerStates
<1>17. CASE WithdrawCheck
  <2>1. WithdrawDoes
    BY <1>17, WithdrawEffect
  <2>2. evworker.run \in EvalRuns /\ EvalRow \in EvalRows /\ evworker.step = "withdraw"
    BY <2>1, AtWork DEF WithdrawDoes, Executes
  <2> QED
    BY <2>1, <2>2 DEF WithdrawDoes, EvalType, FreezerInv, IdleFreezer, FreezerStates
<1>18. ASSUME NEW hit \in BOOLEAN, AskQuestion(hit) PROVE FreezerInv'
  <2>1. AskDoes(hit)
    BY <1>18, AskEffect
  <2>2. evworker.run \in EvalRuns /\ EvalRow \in EvalRows /\ evworker.step = "ask"
    BY <2>1, AtWork DEF AskDoes, Executes
  <2> QED
    BY <2>1, <2>2 DEF AskDoes, EvalType, FreezerInv, IdleFreezer, FreezerStates
<1>19. ASSUME NEW retryable \in BOOLEAN, EvalFault(retryable) PROVE FreezerInv'
  <2>1. FaultDoes
    BY <1>19, FaultEffect
  <2>2. evworker.run \in EvalRuns /\ EvalRow \in EvalRows /\ evworker.step = "ask"
    BY <2>1, AtWork DEF FaultDoes, Executes
  <2> QED
    BY <2>1, <2>2 DEF FaultDoes, EvalType, FreezerInv, IdleFreezer, FreezerStates
<1>20. CASE KeepResults
  <2>1. KeepDoes
    BY <1>20, KeepEffect
  <2>2. evworker.run \in EvalRuns /\ EvalRow \in EvalRows /\ evworker.step = "keep"
    BY <2>1, AtWork DEF KeepDoes, Executes
  <2> QED
    BY <2>1, <2>2 DEF KeepDoes, EvalType, FreezerInv, IdleFreezer, FreezerStates
<1>21. CASE GiveVerdict
  <2>1. VerdictDoes
    BY <1>21, VerdictEffect
  <2>2. evworker.run \in EvalRuns /\ EvalRow \in EvalRows /\ evworker.step = "verdict"
    BY <2>1, AtWork DEF VerdictDoes, Executes
  <2> QED
    BY <2>1, <2>2 DEF VerdictDoes, EvalType, FreezerInv, IdleFreezer, FreezerStates
<1>22. CASE FinishEval
  <2>1. FinishDoes
    BY <1>22, FinishEffect
  <2>2. evworker.run \in EvalRuns /\ EvalRow \in EvalRows /\ evworker.step = "finish"
    BY <2>1, AtWork DEF FinishDoes, Executes
  <2> QED
    BY <2>1, <2>2 DEF FinishDoes, EvalType, FreezerInv, IdleFreezer, FreezerStates
<1>23. CASE EvalRestart
  <2>1. RestartDoes
    BY <1>23, RestartEffect
  <2> QED
    BY <2>1 DEF RestartDoes, EvalType, FreezerInv, IdleFreezer, FreezerStates
<1>24. CASE UNCHANGED eval_vars
  BY <1>24 DEF eval_vars, EvalType, FreezerInv, IdleFreezer, FreezerStates
<1>25. CASE EvalRaises
  <2>1. RaisesDoes
    BY <1>25, RaisesEffect
  <2> QED
    BY <2>1 DEF RaisesDoes, FreezerInv
<1> QED
  BY <1>1, <1>2, <1>3, <1>4, <1>5, <1>6, <1>7, <1>8, <1>9, <1>10, <1>11, <1>12,
     <1>13, <1>14, <1>15, <1>16, <1>17, <1>18, <1>19, <1>20, <1>21, <1>22, <1>23, <1>24, <1>25
  DEF EvalNext, WorkerStep

LEMMA OwnedStep ==
  ASSUME EvalType, FreezerInv, OwnedInv, WorkerInv, [EvalNext]_eval_vars
  PROVE  OwnedInv'
<1> USE EvaluationAssumption
<1>1. ASSUME NEW q \in Questions, AddQuestion(q) PROVE OwnedInv'
  BY <1>1 DEF AddQuestion, EvalType, FreezerInv, OwnedInv, RowOwned, OneRow, RowIs
<1>2. CASE DeleteSet
  <2>1. DeleteSetDoes
    BY <1>2, DeleteSetEffect
  <2> QED
    BY <2>1 DEF DeleteSetDoes, EvalType, FreezerInv, OwnedInv, RowOwned, OneRow, RowIs
<1>3. CASE DeleteGate
  <2>1. DeleteGateDoes
    BY <1>3, DeleteGateEffect
  <2> QED
    BY <2>1 DEF DeleteGateDoes, EvalType, FreezerInv, OwnedInv, RowOwned, OneRow, RowIs
<1>4. ASSUME NEW c \in Freezers, NEW t \in Tags, AskTag(c, t) PROVE OwnedInv'
  BY <1>4 DEF AskTag, EvalType, FreezerInv, OwnedInv, RowOwned, OneRow, RowIs
<1>5. ASSUME NEW c \in Freezers, ReadQuestions(c) PROVE OwnedInv'
  BY <1>5 DEF ReadQuestions, EvalType, FreezerInv, OwnedInv, RowOwned, OneRow, RowIs
<1>6. ASSUME NEW c \in Freezers, CreateVersion(c) PROVE OwnedInv'
  BY <1>6 DEF CreateVersion, VersionInsertable, EvalType, FreezerInv, OwnedInv, RowOwned, OneRow, RowIs
<1>7. ASSUME NEW t \in Tags, CreateGate(t) PROVE OwnedInv'
  BY <1>7 DEF CreateGate, EvalType, FreezerInv, OwnedInv, RowOwned, OneRow, RowIs
<1>8. ASSUME NEW r \in EvalRuns, NEW t \in Tags \cup {Live}, CreateEvalRun(r, t) PROVE OwnedInv'
  <2>1. RunDoes(r, t)
    BY <1>8, RunEffect
  <2>2. evruns[r].results = <<>> /\ evruns[r].kind = "eval_run" /\ evruns[r].check = "absent"
    BY <2>1 DEF RunDoes, NoEvalRun
  <2>3. RowOwned(r)'
    BY <2>1, <2>2 DEF RunDoes, RowOwned, RowIs
  <2>4. ASSUME NEW x \in EvalRuns, x # r PROVE RowOwned(x)'
    BY <2>1, <2>4 DEF RunDoes, OwnedInv, RowOwned, OneRow
  <2> QED
    BY <2>1, <2>3, <2>4 DEF RunDoes, OwnedInv
<1>9. ASSUME NEW r \in EvalRuns, CreateGateCheck(r) PROVE OwnedInv'
  <2>1. CheckDoes(r)
    BY <1>9, CheckEffect
  <2>2. /\ evruns[r].results = <<>> /\ ~ evruns[r].row /\ rgate \in Tags
        /\ frozen' = frozen /\ rgate' = rgate /\ evalset' = evalset
    BY <2>1 DEF CheckDoes, NoEvalRun, EvalType
  <2>3. RowOwned(r)'
    BY <2>1, <2>2 DEF CheckDoes, RowOwned, RowIs
  <2>4. ASSUME NEW x \in EvalRuns, x # r PROVE RowOwned(x)'
    BY <2>1, <2>2, <2>4 DEF CheckDoes, OwnedInv, RowOwned, OneRow
  <2> QED
    BY <2>2, <2>3, <2>4 DEF OwnedInv
<1>10. ASSUME NEW r \in EvalRuns, CreateEvalJob(r) PROVE OwnedInv'
  <2>1. JobDoes(r)
    BY <1>10, JobEffect
  <2>2. RowOwned(r)
    BY DEF OwnedInv
  <2> QED
    BY <2>1, <2>2, RowStaysOwned DEF JobDoes, RowIs, RowOwned
<1>11. ASSUME NEW r \in EvalRuns, RequestEvalCancel(r) PROVE OwnedInv'
  <2>1. CancelDoes(r)
    BY <1>11, CancelEffect
  <2>2. RowOwned(r)
    BY DEF OwnedInv
  <2> QED
    BY <2>1, <2>2, RowStaysOwned DEF CancelDoes, RowIs, RowOwned
<1>12. ASSUME NEW r \in EvalRuns, ClaimEval(r) PROVE OwnedInv'
  <2>1. ClaimDoes(r)
    BY <1>12, ClaimEffect
  <2> QED
    BY <2>1 DEF ClaimDoes, EvalType, FreezerInv, OwnedInv, RowOwned, OneRow, RowIs
<1>13. CASE LoadQuestions
  <2>1. LoadDoes
    BY <1>13, LoadEffect
  <2>2. evworker.run \in EvalRuns
    BY <2>1, AtWork DEF LoadDoes, Executes
  <2>3. UNCHANGED <<evalset, frozen, rgate>>
    BY <2>1 DEF LoadDoes
  <2>4. RowOwned(evworker.run)
    BY <2>2 DEF OwnedInv
  <2>5. CASE evruns' = evruns
    BY <2>3, <2>5 DEF OwnedInv, RowOwned
  <2>6. CASE OneRow(evworker.run)
    BY <2>1, <2>2, <2>3, <2>4, <2>6, RowStaysOwned DEF LoadDoes, RowIs, RowOwned, EvalRow
  <2> QED
    BY <2>1, <2>5, <2>6 DEF LoadDoes
<1>14. CASE OpenRun
  <2>1. OpenDoes
    BY <1>14, OpenEffect
  <2>2. evworker.run \in EvalRuns
    BY <2>1, AtWork DEF OpenDoes, Executes
  <2>3. UNCHANGED <<evalset, frozen, rgate>>
    BY <2>1 DEF OpenDoes
  <2>4. RowOwned(evworker.run)
    BY <2>2 DEF OwnedInv
  <2> QED
    BY <2>1, <2>2, <2>3, <2>4, RowStaysOwned DEF OpenDoes, RowIs, RowOwned, EvalRow, WorkerInv, Executes
<1>15. CASE MarkEvaluating
  <2>1. MarkDoes
    BY <1>15, MarkEffect
  <2>2. evworker.run \in EvalRuns
    BY <2>1, AtWork DEF MarkDoes, Executes
  <2>3. UNCHANGED <<evalset, frozen, rgate>>
    BY <2>1 DEF MarkDoes
  <2>4. RowOwned(evworker.run)
    BY <2>2 DEF OwnedInv
  <2> QED
    BY <2>1, <2>2, <2>3, <2>4, RowStaysOwned DEF MarkDoes, RowIs, RowOwned, EvalRow, Executes
<1>16. CASE ObserveEvalCancel
  <2>1. ObserveDoes
    BY <1>16, ObserveEffect
  <2>2. evworker.run \in EvalRuns
    BY <2>1, AtWork DEF ObserveDoes, Executes
  <2>3. UNCHANGED <<evalset, frozen, rgate>>
    BY <2>1 DEF ObserveDoes
  <2>4. RowOwned(evworker.run)
    BY <2>2 DEF OwnedInv
  <2> QED
    BY <2>1, <2>2, <2>3, <2>4, RowStaysOwned DEF ObserveDoes, RowIs, RowOwned, EvalRow, Executes
<1>17. CASE WithdrawCheck
  <2>1. WithdrawDoes
    BY <1>17, WithdrawEffect
  <2>2. evworker.run \in EvalRuns
    BY <2>1, AtWork DEF WithdrawDoes, Executes
  <2>3. UNCHANGED <<evalset, frozen, rgate>>
    BY <2>1 DEF WithdrawDoes
  <2>4. RowOwned(evworker.run)
    BY <2>2 DEF OwnedInv
  <2> QED
    BY <2>1, <2>2, <2>3, <2>4, RowStaysOwned DEF WithdrawDoes, RowIs, RowOwned, EvalRow, Executes
<1>18. ASSUME NEW hit \in BOOLEAN, AskQuestion(hit) PROVE OwnedInv'
  <2>1. AskDoes(hit)
    BY <1>18, AskEffect
  <2>2. evworker.run \in EvalRuns /\ EvalRow \in EvalRows /\ evworker.step = "ask"
    BY <2>1, AtWork DEF AskDoes, Executes
  <2> QED
    BY <2>1, <2>2 DEF AskDoes, EvalType, FreezerInv, OwnedInv, RowOwned, OneRow, RowIs
<1>19. ASSUME NEW retryable \in BOOLEAN, EvalFault(retryable) PROVE OwnedInv'
  <2>1. FaultDoes
    BY <1>19, FaultEffect
  <2>2. evworker.run \in EvalRuns
    BY <2>1, AtWork DEF FaultDoes, Executes
  <2>3. UNCHANGED <<evalset, frozen, rgate>>
    BY <2>1 DEF FaultDoes
  <2>4. RowOwned(evworker.run)
    BY <2>2 DEF OwnedInv
  <2> QED
    BY <2>1, <2>2, <2>3, <2>4, RowStaysOwned DEF FaultDoes, RowIs, RowOwned, EvalRow, Executes
<1>20. CASE KeepResults
  <2>1. KeepDoes
    BY <1>20, KeepEffect
  <2>2. evworker.run \in EvalRuns
    BY <2>1, AtWork DEF KeepDoes, Executes
  <2>3. UNCHANGED <<evalset, frozen, rgate>>
    BY <2>1 DEF KeepDoes
  <2>4. RowOwned(evworker.run)
    BY <2>2 DEF OwnedInv
  <2> QED
    BY <2>1, <2>2, <2>3, <2>4, RowStaysOwned DEF KeepDoes, RowIs, RowOwned, EvalRow, Executes
<1>21. CASE GiveVerdict
  <2>1. VerdictDoes
    BY <1>21, VerdictEffect
  <2>2. evworker.run \in EvalRuns
    BY <2>1, AtWork DEF VerdictDoes, Executes
  <2>3. UNCHANGED <<evalset, frozen, rgate>>
    BY <2>1 DEF VerdictDoes
  <2>4. RowOwned(evworker.run)
    BY <2>2 DEF OwnedInv
  <2> QED
    BY <2>1, <2>2, <2>3, <2>4, RowStaysOwned DEF VerdictDoes, RowIs, RowOwned, EvalRow, Executes
<1>22. CASE FinishEval
  <2>1. FinishDoes
    BY <1>22, FinishEffect
  <2>2. evworker.run \in EvalRuns
    BY <2>1, AtWork DEF FinishDoes, Executes
  <2>3. UNCHANGED <<evalset, frozen, rgate>>
    BY <2>1 DEF FinishDoes
  <2>4. RowOwned(evworker.run)
    BY <2>2 DEF OwnedInv
  <2> QED
    BY <2>1, <2>2, <2>3, <2>4, RowStaysOwned DEF FinishDoes, RowIs, RowOwned, EvalRow, Executes
<1>23. CASE EvalRestart
  <2>1. RestartDoes
    BY <1>23, RestartEffect
  <2> QED
    BY <2>1 DEF RestartDoes, EvalType, FreezerInv, OwnedInv, RowOwned, OneRow, RowIs
<1>24. CASE UNCHANGED eval_vars
  BY <1>24 DEF eval_vars, EvalType, FreezerInv, OwnedInv, RowOwned, OneRow, RowIs
<1>25. CASE EvalRaises
  <2>1. RaisesDoes
    BY <1>25, RaisesEffect
  <2> QED
    BY <2>1 DEF RaisesDoes, OwnedInv, RowOwned
<1> QED
  BY <1>1, <1>2, <1>3, <1>4, <1>5, <1>6, <1>7, <1>8, <1>9, <1>10, <1>11, <1>12,
     <1>13, <1>14, <1>15, <1>16, <1>17, <1>18, <1>19, <1>20, <1>21, <1>22, <1>23, <1>24, <1>25
  DEF EvalNext, WorkerStep

LEMMA IdleHolds == ASSUME evworker'.step = "idle" PROVE WorkerInv'
BY DEF WorkerInv, Executes

\* The worker goes on to the step k with the questions it has loaded.
LEMMA GoesOnHolding ==
  ASSUME EvalType, WorkerInv, ~ Executes("idle"), ~ Executes("load"),
         NEW k \in WorkerSteps \ {"idle", "load"}, WorkerGoes(k),
         UNCHANGED <<evalset, frozen>>,
         evruns'[evworker.run].kind = EvalRow.kind, evruns'[evworker.run].tag = EvalRow.tag,
         evruns'[evworker.run].job = JobOf(k),
         k \in {"open", "withdraw", "verdict"} => EvalRow.kind = "gate_check",
         k \in {"open", "mark"} => evworker.got = <<>>,
         evalset.there /\ k # "open" => evruns'[evworker.run].row,
         k = "ask" => Len(evworker.got) < Len(evworker.list),
         k \in {"verdict", "finish"} =>
           /\ Asked(evworker.got) = evworker.list
           /\ evruns'[evworker.run].row => evruns'[evworker.run].results = evworker.got
  PROVE  WorkerInv'
<1>1. /\ evworker'.run = evworker.run /\ evworker'.step = k
      /\ evworker'.list = evworker.list /\ evworker'.got = evworker.got
  BY DEF WorkerGoes, WorkerIs
<1>2. EvalRow' = evruns'[evworker.run]
  BY <1>1 DEF EvalRow
<1>3. (QuestionsOf(EvalRow))' = QuestionsOf(EvalRow)
  BY <1>2 DEF QuestionsOf
<1> QED
  BY <1>1, <1>2, <1>3 DEF WorkerInv, Executes

\* The worker holds what it held.
LEMMA StaysHolding ==
  ASSUME EvalType, WorkerInv, evworker' = evworker, evalset'.there => evalset.there,
         ~ Executes("idle") =>
           /\ EvalRow'.kind = EvalRow.kind /\ EvalRow'.tag = EvalRow.tag
           /\ EvalRow'.job = EvalRow.job
           /\ EvalRow'.row => EvalRow'.results = EvalRow.results /\ EvalRow.row
           /\ evalset'.there =>
                /\ EvalRow'.row = EvalRow.row
                /\ EvalRow.tag # Live /\ frozen[EvalRow.tag] # <<>> =>
                     frozen'[EvalRow.tag] = frozen[EvalRow.tag]
                /\ EvalRow.tag = Live /\ IsPrefix(evworker.list, evalset.questions) =>
                     IsPrefix(evworker.list, evalset'.questions)
  PROVE  WorkerInv'
<1>1. CASE Executes("idle")
  BY <1>1, IdleHolds DEF Executes
<1>2. CASE ~ Executes("idle")
  <2>1. \A st : Executes(st)' <=> Executes(st)
    BY DEF Executes
  <2>2. /\ evworker.run \in EvalRuns
        /\ EvalRow'.job = JobOf(evworker'.step)
        /\ evworker'.step \in {"open", "withdraw", "verdict"} => EvalRow'.kind = "gate_check"
        /\ evworker'.step \in {"load", "open", "mark"} => evworker'.got = <<>>
        /\ Executes("ask")' => Len(evworker'.got) < Len(evworker'.list)
    BY <1>2, <2>1 DEF WorkerInv
  <2>3. ASSUME ~ Executes("load"), evalset'.there
        PROVE  /\ (IsPrefix(evworker.list, QuestionsOf(EvalRow)))'
               /\ EvalRow'.tag # Live => evworker'.list = frozen'[EvalRow'.tag]
               /\ ~ Executes("open")' => EvalRow'.row
    <3>1. /\ evworker.list # <<>> /\ IsPrefix(evworker.list, QuestionsOf(EvalRow))
          /\ EvalRow.tag # Live => evworker.list = frozen[EvalRow.tag]
          /\ ~ Executes("open") => EvalRow.row
      BY <1>2, <2>3 DEF WorkerInv
    <3>2. CASE EvalRow.tag # Live
      <4>1. frozen'[EvalRow.tag] = frozen[EvalRow.tag]
        BY <1>2, <2>3, <3>1, <3>2
      <4> QED
        BY <1>2, <2>1, <2>3, <3>1, <3>2, <4>1 DEF QuestionsOf
    <3>3. CASE EvalRow.tag = Live
      <4>1. IsPrefix(evworker.list, evalset'.questions)
        BY <1>2, <2>3, <3>1, <3>3 DEF QuestionsOf
      <4> QED
        BY <1>2, <2>1, <2>3, <3>1, <3>3, <4>1 DEF QuestionsOf
    <3> QED
      BY <3>2, <3>3
  <2>4. ~ Executes("load") => evworker.list # <<>> /\ IsPrefix(Asked(evworker.got),
                                                               evworker.list)
    BY <1>2 DEF WorkerInv
  <2>5. evworker.step \in {"verdict", "finish"} =>
          /\ Asked(evworker.got) = evworker.list
          /\ EvalRow'.row => EvalRow'.results = evworker.got
    BY <1>2 DEF WorkerInv
  <2> QED
    BY <2>1, <2>2, <2>3, <2>4, <2>5 DEF WorkerInv
<1> QED
  BY <1>1, <1>2

LEMMA WorkerRowOwned == ASSUME OwnedInv, WorkerInv, ~ Executes("idle") PROVE RowOwned(evworker.run)
BY DEF OwnedInv, WorkerInv

LEMMA WorkerStepHolds ==
  ASSUME EvalType, OwnedInv, WorkerInv, [EvalNext]_eval_vars
  PROVE  WorkerInv'
<1> USE EvaluationAssumption
<1>1. ASSUME NEW q \in Questions, AddQuestion(q) PROVE WorkerInv'
  <2>1. /\ evalset.questions \in Seq(Questions) /\ evworker.list \in Seq(Questions)
        /\ evalset'.questions = Append(evalset.questions, q) /\ evalset'.there = evalset.there
        /\ UNCHANGED <<frozen, evruns, evworker>>
    BY <1>1, WorkerFields DEF AddQuestion, EvalType
  <2>2. IsPrefix(evworker.list, evalset.questions) => IsPrefix(evworker.list,
                                                               evalset'.questions)
    BY <2>1, PrefixAppend
  <2>3. EvalRow' = EvalRow
    BY <2>1 DEF EvalRow
  <2> QED
    BY <2>1, <2>2, <2>3, StaysHolding
<1>2. CASE DeleteSet
  <2>1. DeleteSetDoes
    BY <1>2, DeleteSetEffect
  <2>2. ~ Executes("idle") =>
          /\ EvalRow'.kind = EvalRow.kind /\ EvalRow'.tag = EvalRow.tag
          /\ EvalRow'.job = EvalRow.job /\ ~ EvalRow'.row
    BY <2>1, AtWork DEF DeleteSetDoes, RowIs, EvalRow
  <2>3. ~ evalset'.there /\ evworker' = evworker
    BY <2>1 DEF DeleteSetDoes
  <2> QED
    BY <2>2, <2>3, StaysHolding
<1>3. CASE DeleteGate
  <2>1. DeleteGateDoes
    BY <1>3, DeleteGateEffect
  <2>2. ~ Executes("idle") =>
          /\ EvalRow'.kind = EvalRow.kind /\ EvalRow'.tag = EvalRow.tag
          /\ EvalRow'.job = EvalRow.job /\ EvalRow'.row = EvalRow.row
          /\ EvalRow'.results = EvalRow.results
    BY <2>1, AtWork DEF DeleteGateDoes, RowIs, EvalRow
  <2>3. UNCHANGED <<evalset, frozen, evworker>>
    BY <2>1 DEF DeleteGateDoes
  <2> QED
    BY <2>2, <2>3, WorkerRowOwned, StaysHolding
<1>4. ASSUME NEW c \in Freezers, NEW t \in Tags, AskTag(c, t) PROVE WorkerInv'
  <2>1. UNCHANGED <<evalset, frozen, evruns, evworker>>
    BY <1>4 DEF AskTag
  <2>2. EvalRow' = EvalRow
    BY <2>1 DEF EvalRow
  <2> QED
    BY <2>1, <2>2, StaysHolding
<1>5. ASSUME NEW c \in Freezers, ReadQuestions(c) PROVE WorkerInv'
  <2>1. UNCHANGED <<evalset, frozen, evruns, evworker>>
    BY <1>5 DEF ReadQuestions
  <2>2. EvalRow' = EvalRow
    BY <2>1 DEF EvalRow
  <2> QED
    BY <2>1, <2>2, StaysHolding
<1>6. ASSUME NEW c \in Freezers, CreateVersion(c) PROVE WorkerInv'
  <2>1. UNCHANGED <<evalset, evruns, evworker>>
    BY <1>6 DEF CreateVersion
  <2>2. EvalRow' = EvalRow
    BY <2>1 DEF EvalRow
  <2>3. \A t \in Tags : frozen[t] # <<>> => frozen'[t] = frozen[t]
    BY <1>6 DEF CreateVersion, VersionInsertable, EvalType
  <2>4. ~ Executes("idle") => EvalRow.tag \in Tags \cup {Live}
    BY AtWork, RowFields
  <2> QED
    BY <2>1, <2>2, <2>3, <2>4, StaysHolding
<1>7. ASSUME NEW t \in Tags, CreateGate(t) PROVE WorkerInv'
  <2>1. UNCHANGED <<evalset, frozen, evruns, evworker>>
    BY <1>7 DEF CreateGate
  <2>2. EvalRow' = EvalRow
    BY <2>1 DEF EvalRow
  <2> QED
    BY <2>1, <2>2, StaysHolding
<1>8. ASSUME NEW r \in EvalRuns, NEW t \in Tags \cup {Live}, CreateEvalRun(r,
        t) PROVE WorkerInv'
  <2>1. RunDoes(r, t)
    BY <1>8, RunEffect
  <2>2. ~ Executes("idle") =>
          /\ EvalRow'.kind = EvalRow.kind /\ EvalRow'.tag = EvalRow.tag
          /\ EvalRow'.job = EvalRow.job /\ EvalRow'.row = EvalRow.row
          /\ EvalRow'.results = EvalRow.results
    <3>1. ~ Executes("idle") => evworker.run \in EvalRuns /\ evworker.run # r
      BY <2>1 DEF RunDoes, WorkerInv, JobOf, EvalRow, NoEvalRun
    <3> QED
      BY <2>1, <3>1 DEF RunDoes, OneRow, EvalRow
  <2>3. UNCHANGED <<evalset, frozen, evworker>>
    BY <2>1 DEF RunDoes
  <2> QED
    BY <2>2, <2>3, WorkerRowOwned, StaysHolding
<1>9. ASSUME NEW r \in EvalRuns, CreateGateCheck(r) PROVE WorkerInv'
  <2>1. CheckDoes(r)
    BY <1>9, CheckEffect
  <2>2. ~ Executes("idle") =>
          /\ EvalRow'.kind = EvalRow.kind /\ EvalRow'.tag = EvalRow.tag
          /\ EvalRow'.job = EvalRow.job /\ EvalRow'.row = EvalRow.row
          /\ EvalRow'.results = EvalRow.results
    <3>1. ~ Executes("idle") => evworker.run \in EvalRuns /\ evworker.run # r
      BY <2>1 DEF CheckDoes, WorkerInv, JobOf, EvalRow, NoEvalRun
    <3> QED
      BY <2>1, <3>1 DEF CheckDoes, OneRow, EvalRow
  <2>3. UNCHANGED <<evalset, frozen, evworker>>
    BY <2>1 DEF CheckDoes
  <2> QED
    BY <2>2, <2>3, WorkerRowOwned, StaysHolding
<1>10. ASSUME NEW r \in EvalRuns, CreateEvalJob(r) PROVE WorkerInv'
  <2>1. JobDoes(r)
    BY <1>10, JobEffect
  <2>2. ~ Executes("idle") =>
          /\ EvalRow'.kind = EvalRow.kind /\ EvalRow'.tag = EvalRow.tag
          /\ EvalRow'.job = EvalRow.job /\ EvalRow'.row = EvalRow.row
          /\ EvalRow'.results = EvalRow.results
    <3>1. ~ Executes("idle") => evworker.run \in EvalRuns /\ evworker.run # r
      BY <2>1 DEF JobDoes, WorkerInv, JobOf, EvalRow
    <3> QED
      BY <2>1, <3>1 DEF JobDoes, OneRow, EvalRow
  <2>3. UNCHANGED <<evalset, frozen, evworker>>
    BY <2>1 DEF JobDoes
  <2> QED
    BY <2>2, <2>3, WorkerRowOwned, StaysHolding
<1>11. ASSUME NEW r \in EvalRuns, RequestEvalCancel(r) PROVE WorkerInv'
  <2>1. CancelDoes(r)
    BY <1>11, CancelEffect
  <2>2. ~ Executes("idle") =>
          /\ EvalRow'.kind = EvalRow.kind /\ EvalRow'.tag = EvalRow.tag
          /\ EvalRow'.job = EvalRow.job /\ EvalRow'.row = EvalRow.row
          /\ EvalRow'.results = EvalRow.results
    <3>1. ~ Executes("idle") => evworker.run \in EvalRuns
      BY AtWork
    <3> QED
      BY <2>1, <3>1 DEF CancelDoes, OneRow, RowIs, EvalRow
  <2>3. UNCHANGED <<evalset, frozen, evworker>>
    BY <2>1 DEF CancelDoes
  <2> QED
    BY <2>2, <2>3, WorkerRowOwned, StaysHolding
<1>12. ASSUME NEW r \in EvalRuns, ClaimEval(r) PROVE WorkerInv'
  <2>1. ClaimDoes(r)
    BY <1>12, ClaimEffect
  <2>2. /\ evworker'.run = r /\ evworker'.step = "load" /\ evworker'.got = <<>>
        /\ EvalRow'.job = "queued"
    BY <2>1 DEF ClaimDoes, WorkerIs, EvalRow
  <2> QED
    BY <2>2 DEF WorkerInv, Executes, JobOf
<1>13. CASE LoadQuestions
  <2>1. LoadDoes
    BY <1>13, LoadEffect
  <2>2. /\ evworker.run \in EvalRuns /\ EvalRow \in EvalRows /\ evworker \in WorkerStates
        /\ ~ Executes("idle")
    BY <2>1, AtWork DEF LoadDoes, Executes
  <2>3. CASE WorkerGoes("idle")
    BY <2>3, IdleHolds DEF WorkerGoes, WorkerIs
  <2>4. CASE /\ CanLoad(EvalRow) /\ evruns' = evruns
             /\ WorkerIs(evworker', evworker.run,
                         IF EvalRow.kind = "eval_run" THEN "mark" ELSE "open",
                         QuestionsOf(EvalRow), evworker.got)
    <3>1. /\ evworker'.run = evworker.run /\ evworker'.list = QuestionsOf(EvalRow)
          /\ evworker'.got = evworker.got
          /\ evworker'.step = IF EvalRow.kind = "eval_run" THEN "mark" ELSE "open"
      BY <2>4 DEF WorkerIs
    <3>2. /\ evworker.got = <<>> /\ EvalRow.job = "queued"
      BY <2>1 DEF LoadDoes, WorkerInv, Executes, JobOf
    <3>3. EvalRow' = EvalRow /\ (QuestionsOf(EvalRow))' = QuestionsOf(EvalRow)
      BY <2>1, <2>4, <3>1 DEF EvalRow, QuestionsOf, LoadDoes
    <3>4. QuestionsOf(EvalRow) \in Seq(Questions) /\ QuestionsOf(EvalRow) # <<>>
      BY <2>2, <2>4, LoadedType DEF CanLoad
    <3>5. IsPrefix(<<>>, QuestionsOf(EvalRow)) /\ IsPrefix(QuestionsOf(EvalRow),
                                                           QuestionsOf(EvalRow))
      BY <3>4, EmptyPrefix, PrefixSelf
    <3>6. EvalRow.kind \in {"eval_run",
                            "gate_check"} /\ (EvalRow.kind = "eval_run" => EvalRow.row)
      BY <2>2, <2>4, RowFields DEF CanLoad
    <3>7. /\ EvalRow'.tag # Live => evworker'.list = frozen'[EvalRow'.tag]
      BY <2>1, <3>1, <3>3 DEF QuestionsOf, LoadDoes
    <3>8. IsPrefix(Asked(evworker'.got), evworker'.list)
      BY <3>1, <3>2, <3>5, AskedEmpty
    <3>9. (IsPrefix(evworker.list, QuestionsOf(EvalRow)))'
      BY <3>1, <3>3, <3>5
    <3>10. CASE EvalRow.kind = "eval_run"
      BY <2>2, <3>1, <3>2, <3>3, <3>4, <3>6, <3>7, <3>8, <3>9, <3>10 DEF WorkerInv, Executes, JobOf
    <3>11. CASE EvalRow.kind = "gate_check"
      BY <2>2, <3>1, <3>2, <3>3, <3>4, <3>6, <3>7, <3>8, <3>9, <3>11 DEF WorkerInv, Executes, JobOf
    <3> QED
      BY <3>6, <3>10, <3>11
  <2> QED
    BY <2>1, <2>3, <2>4 DEF LoadDoes
<1>14. CASE OpenRun
  <2>1. OpenDoes
    BY <1>14, OpenEffect
  <2>2. /\ evworker.run \in EvalRuns /\ EvalRow \in EvalRows /\ evworker \in WorkerStates
        /\ ~ Executes("idle")
    BY <2>1, AtWork DEF OpenDoes, Executes
  <2>3. CASE WorkerGoes("idle")
    BY <2>3, IdleHolds DEF WorkerGoes, WorkerIs
  <2>4. CASE ~ WorkerGoes("idle")
    BY <2>1, <2>2, <2>4, GoesOnHolding DEF OpenDoes, RowIs, WorkerInv, Executes, JobOf, WorkerSteps
  <2> QED
    BY <2>3, <2>4
<1>15. CASE MarkEvaluating
  <2>1. MarkDoes
    BY <1>15, MarkEffect
  <2>2. /\ evworker.run \in EvalRuns /\ EvalRow \in EvalRows /\ evworker \in WorkerStates
        /\ ~ Executes("idle")
    BY <2>1, AtWork DEF MarkDoes, Executes
  <2>3. /\ evworker.list # <<>> /\ evworker.got = <<>> /\ (evalset.there => EvalRow.row)
    BY <2>1, <2>2 DEF MarkDoes, WorkerInv, Executes
  <2>4. Len(evworker.got) < Len(evworker.list)
    BY <2>2, <2>3, WorkerFields
  <2> QED
    BY <2>1, <2>2, <2>3, <2>4, GoesOnHolding DEF MarkDoes, RowIs, Executes, JobOf, WorkerSteps
<1>16. CASE ObserveEvalCancel
  <2>1. ObserveDoes
    BY <1>16, ObserveEffect
  <2>2. /\ evworker.run \in EvalRuns /\ EvalRow \in EvalRows /\ evworker \in WorkerStates
        /\ ~ Executes("idle")
    BY <2>1, AtWork DEF ObserveDoes, Executes
  <2>3. evalset.there => EvalRow.row
    BY <2>1, <2>2 DEF ObserveDoes, WorkerInv, Executes
  <2>4. CASE WorkerGoes("idle")
    BY <2>4, IdleHolds DEF WorkerGoes, WorkerIs
  <2>5. CASE EvalRow.kind = "gate_check" /\ WorkerGoes("withdraw")
    BY <2>1, <2>2, <2>3, <2>5, GoesOnHolding DEF ObserveDoes, RowIs, Executes, JobOf, WorkerSteps
  <2> QED
    BY <2>1, <2>4, <2>5 DEF ObserveDoes
<1>17. CASE WithdrawCheck
  <2>1. WithdrawDoes
    BY <1>17, WithdrawEffect
  <2> QED
    BY <2>1, IdleHolds DEF WithdrawDoes, WorkerGoes, WorkerIs
<1>18. ASSUME NEW hit \in BOOLEAN, AskQuestion(hit) PROVE WorkerInv'
  <2>1. AskDoes(hit)
    BY <1>18, AskEffect
  <2>2. /\ evworker.run \in EvalRuns /\ EvalRow \in EvalRows /\ evworker \in WorkerStates
        /\ ~ Executes("idle")
    BY <2>1, AtWork DEF AskDoes, Executes
  <2>3. PICK q \in Questions :
          /\ q = evworker.list[Len(evworker.got) + 1]
          /\ WorkerIs(evworker', evworker.run, "keep", evworker.list,
                      Append(evworker.got, [of |-> q, hit |-> hit]))
    BY <2>1 DEF AskDoes
  <2>4. /\ evworker'.run = evworker.run /\ evworker'.step = "keep" /\ evworker'.list = evworker.list
        /\ evworker'.got = Append(evworker.got, [of |-> q, hit |-> hit])
    BY <2>3 DEF WorkerIs
  <2>5. /\ evworker.list # <<>> /\ IsPrefix(Asked(evworker.got), evworker.list)
        /\ Len(evworker.got) < Len(evworker.list) /\ EvalRow.job = "evaluating"
        /\ evalset.there =>
              /\ IsPrefix(evworker.list, QuestionsOf(EvalRow))
              /\ EvalRow.tag # Live => evworker.list = frozen[EvalRow.tag]
              /\ EvalRow.row
    BY <2>1, <2>2 DEF AskDoes, WorkerInv, Executes, JobOf
  <2>6. EvalRow' = EvalRow /\ (QuestionsOf(EvalRow))' = QuestionsOf(EvalRow)
    BY <2>1, <2>4 DEF EvalRow, QuestionsOf, AskDoes
  <2>7. evworker.got \in AllResults /\ evworker.list \in Seq(Questions)
    BY <2>2, WorkerFields
  <2>8. Asked(evworker.got) \in Seq(Questions) /\ Len(Asked(evworker.got)) = Len(evworker.got)
    BY <2>7, AskedType
  <2>9. IsPrefix(Append(Asked(evworker.got), q), evworker.list)
    BY <2>3, <2>5, <2>7, <2>8, PrefixGrows
  <2>10. IsPrefix(Asked(evworker'.got), evworker'.list)
    <3>1. Asked(Append(evworker.got, [of |-> q, hit |-> hit])) = Append(Asked(evworker.got), q)
      BY <2>7, AskedAppend
    <3>2. Asked(evworker'.got) = Append(Asked(evworker.got), q)
      BY <2>4, <3>1
    <3> QED
      BY <2>4, <2>9, <3>2
  <2>11. UNCHANGED <<evalset, frozen>>
    BY <2>1 DEF AskDoes
  <2> QED
    BY <2>2, <2>4, <2>5, <2>6, <2>10, <2>11 DEF WorkerInv, Executes, JobOf
<1>19. ASSUME NEW retryable \in BOOLEAN, EvalFault(retryable) PROVE WorkerInv'
  <2>1. FaultDoes
    BY <1>19, FaultEffect
  <2> QED
    BY <2>1, IdleHolds DEF FaultDoes, WorkerGoes, WorkerIs
<1>20. CASE KeepResults
  <2>1. KeepDoes
    BY <1>20, KeepEffect
  <2>2. /\ evworker.run \in EvalRuns /\ EvalRow \in EvalRows /\ evworker \in WorkerStates
        /\ ~ Executes("idle")
    BY <2>1, AtWork DEF KeepDoes, Executes
  <2>3. /\ IsPrefix(Asked(evworker.got), evworker.list) /\ EvalRow.job = "evaluating"
    BY <2>1, <2>2 DEF KeepDoes, WorkerInv, Executes, JobOf
  <2>4. /\ evworker.list \in Seq(Questions) /\ Asked(evworker.got) \in Seq(Questions)
        /\ Len(Asked(evworker.got)) = Len(evworker.got)
    BY <2>2, WorkerFields, AskedType
  <2>5. ~ (Len(evworker.got) < Len(evworker.list)) => Asked(evworker.got) = evworker.list
    BY <2>3, <2>4, PrefixFacts
  <2>6. CASE WorkerGoes("idle")
    BY <2>6, IdleHolds DEF WorkerGoes, WorkerIs
  <2>7. CASE ~ WorkerGoes("idle")
    <3>1. /\ EvalRow.row /\ UNCHANGED <<evalset, frozen>> /\ ~ Executes("load")
          /\ evruns'[evworker.run].kind = EvalRow.kind /\ evruns'[evworker.run].tag = EvalRow.tag
          /\ evruns'[evworker.run].job = "evaluating" /\ evruns'[evworker.run].row
          /\ evruns'[evworker.run].results = evworker.got
      BY <2>1, <2>3, <2>7 DEF KeepDoes, RowIs, Executes
    <3>2. CASE Len(evworker.got) < Len(evworker.list) /\ WorkerGoes("ask")
      BY <2>2, <3>1, <3>2, GoesOnHolding DEF JobOf, WorkerSteps
    <3>3. CASE /\ ~ (Len(evworker.got) < Len(evworker.list)) /\ EvalRow.kind = "gate_check"
               /\ WorkerGoes("verdict")
      BY <2>2, <2>5, <3>1, <3>3, GoesOnHolding DEF JobOf, WorkerSteps
    <3>4. CASE ~ (Len(evworker.got) < Len(evworker.list)) /\ WorkerGoes("finish")
      BY <2>2, <2>5, <3>1, <3>4, GoesOnHolding DEF JobOf, WorkerSteps
    <3> QED
      BY <2>1, <2>7, <3>2, <3>3, <3>4 DEF KeepDoes
  <2> QED
    BY <2>6, <2>7
<1>21. CASE GiveVerdict
  <2>1. VerdictDoes
    BY <1>21, VerdictEffect
  <2>2. /\ evworker.run \in EvalRuns /\ EvalRow \in EvalRows /\ evworker \in WorkerStates
        /\ ~ Executes("idle")
    BY <2>1, AtWork DEF VerdictDoes, Executes
  <2>3. /\ Asked(evworker.got) = evworker.list /\ EvalRow.job = "evaluating"
        /\ EvalRow.row => EvalRow.results = evworker.got
        /\ evalset.there => EvalRow.row
    BY <2>1, <2>2 DEF VerdictDoes, WorkerInv, Executes, JobOf
  <2> QED
    BY <2>1, <2>2, <2>3, GoesOnHolding DEF VerdictDoes, RowIs, Executes, JobOf, WorkerSteps
<1>22. CASE FinishEval
  <2>1. FinishDoes
    BY <1>22, FinishEffect
  <2> QED
    BY <2>1, IdleHolds DEF FinishDoes, WorkerGoes, WorkerIs
<1>23. CASE EvalRestart
  <2>1. RestartDoes
    BY <1>23, RestartEffect
  <2> QED
    BY <2>1, IdleHolds DEF RestartDoes, WorkerGoes, WorkerIs
<1>24. CASE UNCHANGED eval_vars
  <2>1. UNCHANGED <<evalset, frozen, evruns, evworker>>
    BY <1>24 DEF eval_vars
  <2>2. EvalRow' = EvalRow
    BY <2>1 DEF EvalRow
  <2> QED
    BY <2>1, <2>2, StaysHolding
<1>25. CASE EvalRaises
  <2>1. RaisesDoes
    BY <1>25, RaisesEffect
  <2> QED
    BY <2>1, IdleHolds DEF RaisesDoes, WorkerIs
<1> QED
  BY <1>1, <1>2, <1>3, <1>4, <1>5, <1>6, <1>7, <1>8, <1>9, <1>10, <1>11, <1>12,
     <1>13, <1>14, <1>15, <1>16, <1>17, <1>18, <1>19, <1>20, <1>21, <1>22, <1>23, <1>24, <1>25
  DEF EvalNext, WorkerStep

LEMMA OthersPass ==
  ASSUME EvalType, WorkerInv, PassInv, NEW r \in EvalRuns, OneRow(r), frozen' = frozen,
         \/ evworker'.step = "idle" \/ evworker'.run = r \/ evworker' = evworker,
         RowPasses(r)'
  PROVE  PassInv'
<1>1. ASSUME NEW x \in EvalRuns, x # r PROVE RowPasses(x)'
  BY <1>1 DEF PassInv, RowPasses, OneRow
<1> QED
  BY <1>1 DEF PassInv

LEMMA OthersFollow ==
  ASSUME EvalType, FollowsInv, NEW r \in EvalRuns, OneRow(r), UNCHANGED <<evalset, frozen>>,
         RowFollows(r)'
  PROVE  FollowsInv'
<1>1. ASSUME NEW x \in EvalRuns, x # r PROVE RowFollows(x)'
  BY <1>1 DEF FollowsInv, RowFollows, OneRow, QuestionsOf
<1> QED
  BY <1>1 DEF FollowsInv

LEMMA PassStep ==
  ASSUME EvalType, OwnedInv, WorkerInv, PassInv, [EvalNext]_eval_vars
  PROVE  PassInv'
<1> USE EvaluationAssumption
<1>1. ASSUME NEW q \in Questions, AddQuestion(q) PROVE PassInv'
  <2>1. UNCHANGED <<frozen, evruns, evworker>>
    BY <1>1 DEF AddQuestion
  <2> QED
    BY <2>1 DEF PassInv, RowPasses
<1>2. CASE DeleteSet
  <2>1. DeleteSetDoes
    BY <1>2, DeleteSetEffect
  <2> QED
    BY <2>1 DEF DeleteSetDoes, RowIs, PassInv, RowPasses
<1>3. CASE DeleteGate
  <2>1. DeleteGateDoes
    BY <1>3, DeleteGateEffect
  <2> QED
    BY <2>1 DEF DeleteGateDoes, RowIs, PassInv, RowPasses
<1>4. ASSUME NEW c \in Freezers, NEW t \in Tags, AskTag(c, t) PROVE PassInv'
  <2>1. UNCHANGED <<frozen, evruns, evworker>>
    BY <1>4 DEF AskTag
  <2> QED
    BY <2>1 DEF PassInv, RowPasses
<1>5. ASSUME NEW c \in Freezers, ReadQuestions(c) PROVE PassInv'
  <2>1. UNCHANGED <<frozen, evruns, evworker>>
    BY <1>5 DEF ReadQuestions
  <2> QED
    BY <2>1 DEF PassInv, RowPasses
<1>6. ASSUME NEW c \in Freezers, CreateVersion(c) PROVE PassInv'
  <2>1. UNCHANGED <<evruns, evworker>>
    BY <1>6 DEF CreateVersion
  <2>2. \A t \in Tags : frozen[t] # <<>> => frozen'[t] = frozen[t]
    BY <1>6 DEF CreateVersion, VersionInsertable, EvalType
  <2>3. ASSUME NEW x \in EvalRuns, evruns[x].check = "passed"
        PROVE  evruns[x].tag \in Tags /\ frozen[evruns[x].tag] # <<>>
    BY <2>3 DEF OwnedInv, RowOwned, EvaluationAssumption, EvalType
  <2> QED
    BY <2>1, <2>2, <2>3 DEF PassInv, RowPasses
<1>7. ASSUME NEW t \in Tags, CreateGate(t) PROVE PassInv'
  <2>1. UNCHANGED <<frozen, evruns, evworker>>
    BY <1>7 DEF CreateGate
  <2> QED
    BY <2>1 DEF PassInv, RowPasses
<1>8. ASSUME NEW r \in EvalRuns, NEW t \in Tags \cup {Live}, CreateEvalRun(r, t) PROVE PassInv'
  <2>1. RunDoes(r, t)
    BY <1>8, RunEffect
  <2>2. RowPasses(r)'
    BY <2>1 DEF RunDoes, RowIs, PassInv, RowPasses, NoEvalRun
  <2> QED
    BY <2>1, <2>2, OthersPass DEF RunDoes
<1>9. ASSUME NEW r \in EvalRuns, CreateGateCheck(r) PROVE PassInv'
  <2>1. CheckDoes(r)
    BY <1>9, CheckEffect
  <2>2. RowPasses(r)'
    BY <2>1 DEF CheckDoes, RowIs, PassInv, RowPasses
  <2> QED
    BY <2>1, <2>2, OthersPass DEF CheckDoes
<1>10. ASSUME NEW r \in EvalRuns, CreateEvalJob(r) PROVE PassInv'
  <2>1. JobDoes(r)
    BY <1>10, JobEffect
  <2>2. RowPasses(r)'
    BY <2>1 DEF JobDoes, RowIs, PassInv, RowPasses
  <2> QED
    BY <2>1, <2>2, OthersPass DEF JobDoes
<1>11. ASSUME NEW r \in EvalRuns, RequestEvalCancel(r) PROVE PassInv'
  <2>1. CancelDoes(r)
    BY <1>11, CancelEffect
  <2>2. RowPasses(r)'
    BY <2>1 DEF CancelDoes, RowIs, PassInv, RowPasses
  <2> QED
    BY <2>1, <2>2, OthersPass DEF CancelDoes
<1>12. ASSUME NEW r \in EvalRuns, ClaimEval(r) PROVE PassInv'
  <2>1. ClaimDoes(r)
    BY <1>12, ClaimEffect
  <2>2. evruns[r].check # "passed"
    BY <2>1 DEF ClaimDoes, PassInv, RowPasses
  <2> QED
    BY <2>1, <2>2 DEF ClaimDoes, PassInv, RowPasses, WorkerIs
<1>13. CASE LoadQuestions
  <2>1. LoadDoes
    BY <1>13, LoadEffect
  <2>2. evworker.run \in EvalRuns /\ EvalRow.check # "passed"
    BY <2>1, AtWork DEF LoadDoes, Executes, PassInv, RowPasses, EvalRow
  <2>r. PICK r \in EvalRuns : r = evworker.run
    BY <2>2
  <2>3. frozen' = frozen
    BY <2>1 DEF LoadDoes
  <2>4. CASE evruns' = evruns /\ evworker'.run = evworker.run
    BY <2>2, <2>3, <2>4 DEF PassInv, RowPasses, EvalRow
  <2>5. CASE OneRow(evworker.run) /\ WorkerGoes("idle") /\ evruns'[evworker.run].check = EvalRow.check
    <3>1. RowPasses(r)'
      BY <2>r, <2>2, <2>5 DEF RowPasses
    <3>2. evworker'.run = NoRun /\ evworker'.step = "idle"
      BY <2>5 DEF WorkerGoes, WorkerIs
    <3> QED
      BY <2>r, <2>2, <2>3, <2>5, <3>1, <3>2, OthersPass
  <2> QED
    BY <2>1, <2>4, <2>5 DEF LoadDoes, WorkerIs, RowIs
<1>14. CASE OpenRun
  <2>1. OpenDoes
    BY <1>14, OpenEffect
  <2>2. evworker.run \in EvalRuns /\ EvalRow.check # "passed"
    BY <2>1, AtWork DEF OpenDoes, Executes, PassInv, RowPasses, EvalRow
  <2>r. PICK r \in EvalRuns : r = evworker.run
    BY <2>2
  <2>3. evworker'.step = "idle" \/ evworker'.run = evworker.run
    BY <2>1 DEF OpenDoes, WorkerGoes, WorkerIs
  <2>4. OneRow(evworker.run) /\ evruns'[evworker.run].check # "passed" /\ frozen' = frozen
    BY <2>1, <2>2 DEF OpenDoes, RowIs
  <2>5. RowPasses(r)'
    BY <2>r, <2>4 DEF RowPasses
  <2> QED
    BY <2>r, <2>2, <2>3, <2>4, <2>5, OthersPass
<1>15. CASE MarkEvaluating
  <2>1. MarkDoes
    BY <1>15, MarkEffect
  <2>2. evworker.run \in EvalRuns /\ EvalRow.check # "passed"
    BY <2>1, AtWork DEF MarkDoes, Executes, PassInv, RowPasses, EvalRow
  <2>r. PICK r \in EvalRuns : r = evworker.run
    BY <2>2
  <2>3. evworker'.step = "idle" \/ evworker'.run = evworker.run
    BY <2>1 DEF MarkDoes, WorkerGoes, WorkerIs
  <2>4. OneRow(evworker.run) /\ evruns'[evworker.run].check # "passed" /\ frozen' = frozen
    BY <2>1, <2>2 DEF MarkDoes, RowIs
  <2>5. RowPasses(r)'
    BY <2>r, <2>4 DEF RowPasses
  <2> QED
    BY <2>r, <2>2, <2>3, <2>4, <2>5, OthersPass
<1>16. CASE ObserveEvalCancel
  <2>1. ObserveDoes
    BY <1>16, ObserveEffect
  <2>2. evworker.run \in EvalRuns /\ EvalRow.check # "passed"
    BY <2>1, AtWork DEF ObserveDoes, Executes, PassInv, RowPasses, EvalRow
  <2>r. PICK r \in EvalRuns : r = evworker.run
    BY <2>2
  <2>3. evworker'.step = "idle" \/ evworker'.run = evworker.run
    BY <2>1 DEF ObserveDoes, WorkerGoes, WorkerIs
  <2>4. OneRow(evworker.run) /\ evruns'[evworker.run].check # "passed" /\ frozen' = frozen
    BY <2>1, <2>2 DEF ObserveDoes, RowIs
  <2>5. RowPasses(r)'
    BY <2>r, <2>4 DEF RowPasses
  <2> QED
    BY <2>r, <2>2, <2>3, <2>4, <2>5, OthersPass
<1>17. CASE WithdrawCheck
  <2>1. WithdrawDoes
    BY <1>17, WithdrawEffect
  <2>2. evworker.run \in EvalRuns /\ EvalRow.check # "passed"
    BY <2>1, AtWork DEF WithdrawDoes, Executes, PassInv, RowPasses, EvalRow
  <2>r. PICK r \in EvalRuns : r = evworker.run
    BY <2>2
  <2>3. evworker'.step = "idle" \/ evworker'.run = evworker.run
    BY <2>1 DEF WithdrawDoes, WorkerGoes, WorkerIs
  <2>4. OneRow(evworker.run) /\ evruns'[evworker.run].check # "passed" /\ frozen' = frozen
    BY <2>1, <2>2 DEF WithdrawDoes, RowIs
  <2>5. RowPasses(r)'
    BY <2>r, <2>4 DEF RowPasses
  <2> QED
    BY <2>r, <2>2, <2>3, <2>4, <2>5, OthersPass
<1>18. ASSUME NEW hit \in BOOLEAN, AskQuestion(hit) PROVE PassInv'
  <2>1. AskDoes(hit)
    BY <1>18, AskEffect
  <2>2. evworker.run \in EvalRuns /\ EvalRow.check # "passed"
    BY <2>1, AtWork DEF AskDoes, Executes, PassInv, RowPasses, EvalRow
  <2>3. evruns' = evruns /\ frozen' = frozen /\ evworker'.run = evworker.run
    BY <2>1 DEF AskDoes, WorkerIs
  <2> QED
    BY <2>2, <2>3 DEF PassInv, RowPasses, EvalRow
<1>19. ASSUME NEW retryable \in BOOLEAN, EvalFault(retryable) PROVE PassInv'
  <2>1. FaultDoes
    BY <1>19, FaultEffect
  <2>2. evworker.run \in EvalRuns /\ EvalRow.check # "passed"
    BY <2>1, AtWork DEF FaultDoes, Executes, PassInv, RowPasses, EvalRow
  <2>r. PICK r \in EvalRuns : r = evworker.run
    BY <2>2
  <2>3. evworker'.step = "idle" \/ evworker'.run = evworker.run
    BY <2>1 DEF FaultDoes, WorkerGoes, WorkerIs
  <2>4. OneRow(evworker.run) /\ evruns'[evworker.run].check # "passed" /\ frozen' = frozen
    BY <2>1, <2>2 DEF FaultDoes, RowIs
  <2>5. RowPasses(r)'
    BY <2>r, <2>4 DEF RowPasses
  <2> QED
    BY <2>r, <2>2, <2>3, <2>4, <2>5, OthersPass
<1>20. CASE KeepResults
  <2>1. KeepDoes
    BY <1>20, KeepEffect
  <2>2. evworker.run \in EvalRuns /\ EvalRow.check # "passed"
    BY <2>1, AtWork DEF KeepDoes, Executes, PassInv, RowPasses, EvalRow
  <2>r. PICK r \in EvalRuns : r = evworker.run
    BY <2>2
  <2>3. evworker'.step = "idle" \/ evworker'.run = evworker.run
    BY <2>1 DEF KeepDoes, WorkerGoes, WorkerIs
  <2>4. OneRow(evworker.run) /\ evruns'[evworker.run].check # "passed" /\ frozen' = frozen
    BY <2>1, <2>2 DEF KeepDoes, RowIs
  <2>5. RowPasses(r)'
    BY <2>r, <2>4 DEF RowPasses
  <2> QED
    BY <2>r, <2>2, <2>3, <2>4, <2>5, OthersPass
<1>21. CASE GiveVerdict
  <2>1. VerdictDoes
    BY <1>21, VerdictEffect
  <2>2. evworker.run \in EvalRuns /\ evworker'.run = evworker.run /\ evworker'.step = "finish"
    BY <2>1, AtWork DEF VerdictDoes, Executes, WorkerGoes, WorkerIs
  <2>r. PICK r \in EvalRuns : r = evworker.run
    BY <2>2
  <2>3. /\ Asked(evworker.got) = evworker.list /\ EvalRow.job = "evaluating"
        /\ EvalRow.row => EvalRow.results = evworker.got
        /\ evalset.there => EvalRow.row /\ (EvalRow.tag # Live => evworker.list = frozen[EvalRow.tag])
    BY <2>1, <2>2 DEF VerdictDoes, WorkerInv, Executes, JobOf
  <2>4. EvalRow.check # "absent" => evalset.there /\ EvalRow.tag # Live
    <3>1. RowOwned(evworker.run)
      BY <2>2 DEF OwnedInv
    <3> QED
      BY <3>1, EvaluationAssumption DEF OwnedInv, RowOwned, EvalRow, EvalType
  <2>5. ASSUME evruns'[evworker.run].check = "passed"
        PROVE  /\ evruns'[evworker.run].job = "evaluating"
               /\ Asked(evruns'[evworker.run].results) = frozen'[evruns'[evworker.run].tag]
               /\ ClearsFloor(evruns'[evworker.run].results)
    <3>1. /\ EvalRow.check # "absent" /\ ClearsFloor(evworker.got)
          /\ evruns'[evworker.run].results = EvalRow.results /\ evruns'[evworker.run].tag = EvalRow.tag
          /\ evruns'[evworker.run].job = EvalRow.job /\ frozen' = frozen
      BY <2>1, <2>5 DEF VerdictDoes, RowIs
    <3> QED
      BY <2>3, <2>4, <3>1
  <2>6. RowPasses(r)'
    BY <2>r, <2>2, <2>5 DEF RowPasses
  <2> QED
    BY <2>r, <2>1, <2>2, <2>6, OthersPass DEF VerdictDoes
<1>22. CASE FinishEval
  <2>1. FinishDoes
    BY <1>22, FinishEffect
  <2>2. evworker.run \in EvalRuns /\ evworker'.step = "idle" /\ evworker'.run = NoRun
    BY <2>1, AtWork DEF FinishDoes, Executes, WorkerGoes, WorkerIs
  <2>r. PICK r \in EvalRuns : r = evworker.run
    BY <2>2
  <2>3. RowPasses(evworker.run)
    BY <2>2 DEF PassInv
  <2>4. RowPasses(r)'
    BY <2>r, <2>1, <2>2, <2>3 DEF FinishDoes, RowIs, RowPasses, EvalRow
  <2> QED
    BY <2>r, <2>1, <2>2, <2>4, OthersPass DEF FinishDoes
<1>23. CASE EvalRestart
  <2>1. RestartDoes
    BY <1>23, RestartEffect
  <2>2. ASSUME NEW x \in EvalRuns PROVE RowPasses(x)'
    <3>1. RowPasses(x)
      BY DEF PassInv
    <3> QED
      BY <2>1, <3>1 DEF RestartDoes, RowIs, RowPasses, WorkerIs
  <2> QED
    BY <2>2 DEF PassInv
<1>24. CASE UNCHANGED eval_vars
  <2>1. UNCHANGED <<frozen, evruns, evworker>>
    BY <1>24 DEF eval_vars
  <2> QED
    BY <2>1 DEF PassInv, RowPasses
<1>25. CASE EvalRaises
  <2>1. RaisesDoes
    BY <1>25, RaisesEffect
  <2> QED
    BY <2>1 DEF RaisesDoes, PassInv, RowPasses, WorkerIs
<1> QED
  BY <1>1, <1>2, <1>3, <1>4, <1>5, <1>6, <1>7, <1>8, <1>9, <1>10, <1>11, <1>12,
     <1>13, <1>14, <1>15, <1>16, <1>17, <1>18, <1>19, <1>20, <1>21, <1>22, <1>23, <1>24, <1>25
  DEF EvalNext, WorkerStep

LEMMA FollowsStep ==
  ASSUME EvalType, OwnedInv, WorkerInv, FollowsInv, [EvalNext]_eval_vars
  PROVE  FollowsInv'
<1> USE EvaluationAssumption
<1>1. ASSUME NEW q \in Questions, AddQuestion(q) PROVE FollowsInv'
  <2>1. /\ evalset'.questions = Append(evalset.questions,
                                       q) /\ evalset.questions \in Seq(Questions)
        /\ evruns' = evruns /\ frozen' = frozen
    BY <1>1 DEF AddQuestion, EvalType
  <2>2. ASSUME NEW x \in EvalRuns PROVE RowFollows(x)'
    <3>1. RowFollows(x) /\ evruns[x] \in EvalRows
      BY DEF FollowsInv, EvalType
    <3>2. Asked(evruns[x].results) \in Seq(Questions)
      BY <3>1, RowFields, AskedType
    <3>3. IsPrefix(Asked(evruns[x].results), evalset.questions)
            => IsPrefix(Asked(evruns[x].results), evalset'.questions)
      BY <2>1, <3>2, PrefixAppend
    <3> QED
      BY <2>1, <3>1, <3>3 DEF RowFollows, QuestionsOf
  <2> QED
    BY <2>2 DEF FollowsInv
<1>2. CASE DeleteSet
  <2>1. DeleteSetDoes
    BY <1>2, DeleteSetEffect
  <2> QED
    BY <2>1 DEF DeleteSetDoes, RowIs, FollowsInv, RowFollows
<1>3. CASE DeleteGate
  <2>1. DeleteGateDoes
    BY <1>3, DeleteGateEffect
  <2> QED
    BY <2>1 DEF DeleteGateDoes, RowIs, FollowsInv, RowFollows, QuestionsOf
<1>4. ASSUME NEW c \in Freezers, NEW t \in Tags, AskTag(c, t) PROVE FollowsInv'
  <2>1. UNCHANGED <<evalset, frozen, evruns>>
    BY <1>4 DEF AskTag
  <2> QED
    BY <2>1 DEF FollowsInv, RowFollows, QuestionsOf
<1>5. ASSUME NEW c \in Freezers, ReadQuestions(c) PROVE FollowsInv'
  <2>1. UNCHANGED <<evalset, frozen, evruns>>
    BY <1>5 DEF ReadQuestions
  <2> QED
    BY <2>1 DEF FollowsInv, RowFollows, QuestionsOf
<1>6. ASSUME NEW c \in Freezers, CreateVersion(c) PROVE FollowsInv'
  <2>1. UNCHANGED <<evalset, evruns>>
    BY <1>6 DEF CreateVersion
  <2>2. \A t \in Tags : frozen[t] # <<>> => frozen'[t] = frozen[t]
    BY <1>6 DEF CreateVersion, VersionInsertable, EvalType
  <2>3. ASSUME NEW x \in EvalRuns, evruns[x].row PROVE RowFollows(x)'
    <3>1. RowFollows(x) /\ RowOwned(x) /\ evruns[x].tag \in Tags \cup {Live}
      BY RowFields DEF FollowsInv, OwnedInv, EvalType
    <3>2. evruns[x].tag # Live => frozen'[evruns[x].tag] = frozen[evruns[x].tag]
      BY <2>2, <2>3, <3>1 DEF RowOwned
    <3> QED
      BY <2>1, <2>3, <3>1, <3>2 DEF RowFollows, QuestionsOf
  <2> QED
    BY <2>1, <2>3 DEF FollowsInv, RowFollows
<1>7. ASSUME NEW t \in Tags, CreateGate(t) PROVE FollowsInv'
  <2>1. UNCHANGED <<evalset, frozen, evruns>>
    BY <1>7 DEF CreateGate
  <2> QED
    BY <2>1 DEF FollowsInv, RowFollows, QuestionsOf
<1>8. ASSUME NEW r \in EvalRuns, NEW t \in Tags \cup {Live}, CreateEvalRun(r,
        t) PROVE FollowsInv'
  <2>1. RunDoes(r, t)
    BY <1>8, RunEffect
  <2>2. evruns'[r].results = <<>> /\ evruns'[r] \in EvalRows /\ evruns'[r].job = "submitted"
    BY <2>1 DEF RunDoes, RowIs, NoEvalRun
  <2>3. QuestionsOf(evruns'[r]) \in Seq(Questions) /\ (QuestionsOf(evruns[r]))' = QuestionsOf(evruns'[r])
    BY <2>1, <2>2, LoadedType DEF RunDoes, QuestionsOf
  <2>4. RowFollows(r)'
    BY <2>2, <2>3, AskedEmpty, EmptyPrefix DEF RowFollows
  <2> QED
    BY <2>1, <2>4, OthersFollow DEF RunDoes
<1>9. ASSUME NEW r \in EvalRuns, CreateGateCheck(r) PROVE FollowsInv'
  <2>1. CheckDoes(r)
    BY <1>9, CheckEffect
  <2>0. ~ evruns[r].row /\ evruns'[r].row = evruns[r].row
    BY <2>1 DEF CheckDoes, RowIs, NoEvalRun
  <2>2. RowFollows(r)'
    BY <2>0 DEF RowFollows
  <2> QED
    BY <2>1, <2>2, OthersFollow DEF CheckDoes
<1>10. ASSUME NEW r \in EvalRuns, CreateEvalJob(r) PROVE FollowsInv'
  <2>1. JobDoes(r)
    BY <1>10, JobEffect
  <2>2. RowFollows(r)
    BY DEF FollowsInv
  <2>3. RowFollows(r)'
    BY <2>1, <2>2 DEF JobDoes, RowIs, RowFollows, QuestionsOf
  <2> QED
    BY <2>1, <2>3, OthersFollow DEF JobDoes
<1>11. ASSUME NEW r \in EvalRuns, RequestEvalCancel(r) PROVE FollowsInv'
  <2>1. CancelDoes(r)
    BY <1>11, CancelEffect
  <2>2. RowFollows(r)
    BY DEF FollowsInv
  <2>3. RowFollows(r)'
    BY <2>1, <2>2 DEF CancelDoes, RowIs, RowFollows, QuestionsOf
  <2> QED
    BY <2>1, <2>3, OthersFollow DEF CancelDoes
<1>12. ASSUME NEW r \in EvalRuns, ClaimEval(r) PROVE FollowsInv'
  <2>1. UNCHANGED <<evalset, frozen, evruns>>
    BY <1>12 DEF ClaimEval
  <2> QED
    BY <2>1 DEF FollowsInv, RowFollows, QuestionsOf
<1>13. CASE LoadQuestions
  <2>1. LoadDoes
    BY <1>13, LoadEffect
  <2>2. evworker.run \in EvalRuns /\ UNCHANGED <<evalset, frozen>>
    BY <2>1, AtWork DEF LoadDoes, Executes
  <2>r. PICK r \in EvalRuns : r = evworker.run
    BY <2>2
  <2>3. RowFollows(evworker.run)
    BY <2>2 DEF FollowsInv
  <2>4. CASE evruns' = evruns
    BY <2>2, <2>4 DEF FollowsInv, RowFollows, QuestionsOf
  <2>5. CASE OneRow(evworker.run)
    <3>1. CASE evruns' = evruns
      BY <2>4, <3>1
    <3>2. CASE evruns' # evruns
      <4>1. RowFollows(r)'
        BY <2>r, <2>1, <2>2, <2>3, <3>2 DEF LoadDoes, RowIs, RowFollows, QuestionsOf, EvalRow
      <4> QED
        BY <2>r, <2>2, <2>5, <4>1, OthersFollow
    <3> QED
      BY <3>1, <3>2
  <2> QED
    BY <2>1, <2>4, <2>5 DEF LoadDoes
<1>14. CASE OpenRun
  <2>1. OpenDoes
    BY <1>14, OpenEffect
  <2>2. evworker.run \in EvalRuns /\ UNCHANGED <<evalset, frozen>> /\ EvalRow \in EvalRows
    BY <2>1, AtWork DEF OpenDoes, Executes
  <2>r. PICK r \in EvalRuns : r = evworker.run
    BY <2>2
  <2>3. RowFollows(evworker.run) /\ RowOwned(evworker.run) /\ EvalRow.job = "queued"
    BY <2>1, <2>2 DEF FollowsInv, OwnedInv, OpenDoes, WorkerInv, Executes, JobOf
  <2>4. /\ evruns'[evworker.run].results = EvalRow.results /\ evruns'[evworker.run].job = "queued"
        /\ evruns'[evworker.run].tag = EvalRow.tag
    BY <2>1, <2>3 DEF OpenDoes, RowIs
  <2>5. IsPrefix(Asked(EvalRow.results), QuestionsOf(EvalRow))
    <3>1. CASE EvalRow.row
      BY <2>3, <3>1 DEF RowFollows, EvalRow
    <3>2. CASE ~ EvalRow.row
      BY <2>2, <2>3, <3>2, AskedEmpty, LoadedType, EmptyPrefix DEF RowOwned, EvalRow
    <3> QED
      BY <3>1, <3>2
  <2>7. RowFollows(r)'
    BY <2>r, <2>2, <2>4, <2>5 DEF RowFollows, QuestionsOf
  <2> QED
    BY <2>r, <2>1, <2>2, <2>7, OthersFollow DEF OpenDoes
<1>15. CASE MarkEvaluating
  <2>1. MarkDoes
    BY <1>15, MarkEffect
  <2>2. evworker.run \in EvalRuns
    BY <2>1, AtWork DEF MarkDoes, Executes
  <2>r. PICK r \in EvalRuns : r = evworker.run
    BY <2>2
  <2>3. RowFollows(evworker.run)
    BY <2>2 DEF FollowsInv
  <2>4. UNCHANGED <<evalset, frozen>>
    BY <2>1 DEF MarkDoes
  <2>5. RowFollows(r)'
    BY <2>r, <2>1, <2>3, <2>4 DEF MarkDoes, RowIs, RowFollows, QuestionsOf, EvalRow
  <2> QED
    BY <2>r, <2>1, <2>2, <2>4, <2>5, OthersFollow DEF MarkDoes
<1>16. CASE ObserveEvalCancel
  <2>1. ObserveDoes
    BY <1>16, ObserveEffect
  <2>2. evworker.run \in EvalRuns
    BY <2>1, AtWork DEF ObserveDoes, Executes
  <2>r. PICK r \in EvalRuns : r = evworker.run
    BY <2>2
  <2>3. RowFollows(evworker.run)
    BY <2>2 DEF FollowsInv
  <2>4. UNCHANGED <<evalset, frozen>>
    BY <2>1 DEF ObserveDoes
  <2>5. RowFollows(r)'
    BY <2>r, <2>1, <2>3, <2>4 DEF ObserveDoes, RowIs, RowFollows, QuestionsOf, EvalRow
  <2> QED
    BY <2>r, <2>1, <2>2, <2>4, <2>5, OthersFollow DEF ObserveDoes
<1>17. CASE WithdrawCheck
  <2>1. WithdrawDoes
    BY <1>17, WithdrawEffect
  <2>2. evworker.run \in EvalRuns
    BY <2>1, AtWork DEF WithdrawDoes, Executes
  <2>r. PICK r \in EvalRuns : r = evworker.run
    BY <2>2
  <2>3. RowFollows(evworker.run)
    BY <2>2 DEF FollowsInv
  <2>4. UNCHANGED <<evalset, frozen>>
    BY <2>1 DEF WithdrawDoes
  <2>5. RowFollows(r)'
    BY <2>r, <2>1, <2>3, <2>4 DEF WithdrawDoes, RowIs, RowFollows, QuestionsOf, EvalRow
  <2> QED
    BY <2>r, <2>1, <2>2, <2>4, <2>5, OthersFollow DEF WithdrawDoes
<1>18. ASSUME NEW hit \in BOOLEAN, AskQuestion(hit) PROVE FollowsInv'
  <2>1. UNCHANGED <<evalset, frozen, evruns>>
    BY <1>18 DEF AskQuestion, EvalSettings, Executes, EvalRow
  <2> QED
    BY <2>1 DEF FollowsInv, RowFollows, QuestionsOf
<1>19. ASSUME NEW retryable \in BOOLEAN, EvalFault(retryable) PROVE FollowsInv'
  <2>1. FaultDoes
    BY <1>19, FaultEffect
  <2>2. evworker.run \in EvalRuns
    BY <2>1, AtWork DEF FaultDoes, Executes
  <2>r. PICK r \in EvalRuns : r = evworker.run
    BY <2>2
  <2>3. RowFollows(evworker.run)
    BY <2>2 DEF FollowsInv
  <2>4. UNCHANGED <<evalset, frozen>>
    BY <2>1 DEF FaultDoes
  <2>5. RowFollows(r)'
    BY <2>r, <2>1, <2>3, <2>4 DEF FaultDoes, RowIs, RowFollows, QuestionsOf, EvalRow
  <2> QED
    BY <2>r, <2>1, <2>2, <2>4, <2>5, OthersFollow DEF FaultDoes
<1>20. CASE KeepResults
  <2>1. KeepDoes
    BY <1>20, KeepEffect
  <2>2. /\ evworker.run \in EvalRuns /\ UNCHANGED <<evalset, frozen>> /\ EvalRow \in EvalRows
        /\ evworker \in WorkerStates
    BY <2>1, AtWork DEF KeepDoes, Executes
  <2>r. PICK r \in EvalRuns : r = evworker.run
    BY <2>2
  <2>3. RowFollows(evworker.run) /\ RowOwned(evworker.run)
    BY <2>2 DEF FollowsInv, OwnedInv
  <2>4. CASE EvalRow.row /\ RowIs(evruns'[evworker.run], EvalRow.kind, EvalRow.tag, EvalRow.row,
                                  evworker.got, EvalRow.job, EvalRow.attempts, EvalRow.cancel,
                                  EvalRow.check)
    <3>1. evalset.there
      BY <2>3, <2>4 DEF RowOwned, EvalRow
    <3>2. /\ IsPrefix(Asked(evworker.got), evworker.list) /\ EvalRow.job = "evaluating"
          /\ IsPrefix(evworker.list, QuestionsOf(EvalRow))
      BY <2>1, <3>1 DEF KeepDoes, WorkerInv, Executes, JobOf
    <3>3. /\ QuestionsOf(EvalRow) \in Seq(Questions) /\ evworker.list \in Seq(Questions)
          /\ Asked(evworker.got) \in Seq(Questions)
      BY <2>2, LoadedType, WorkerFields, AskedType
    <3>4. IsPrefix(Asked(evworker.got), QuestionsOf(EvalRow))
      BY <3>2, <3>3, PrefixFacts
    <3>5. /\ evruns'[evworker.run].results = evworker.got /\ evruns'[evworker.run].tag = EvalRow.tag
          /\ evruns'[evworker.run].job = "evaluating"
      BY <2>4, <3>2 DEF RowIs
    <3>6. RowFollows(r)'
      BY <2>r, <2>2, <3>4, <3>5 DEF RowFollows, QuestionsOf
    <3> QED
      BY <2>r, <2>1, <2>2, <3>6, OthersFollow DEF KeepDoes
  <2>5. CASE RowIs(evruns'[evworker.run], EvalRow.kind, EvalRow.tag, EvalRow.row,
                   EvalRow.results, EvalRow.job, EvalRow.attempts, EvalRow.cancel,
                   EvalRow.check)
    <3>1. RowFollows(r)'
      BY <2>r, <2>2, <2>3, <2>5 DEF RowIs, RowFollows, QuestionsOf, EvalRow
    <3> QED
      BY <2>r, <2>1, <2>2, <3>1, OthersFollow DEF KeepDoes
  <2> QED
    BY <2>1, <2>4, <2>5 DEF KeepDoes
<1>21. CASE GiveVerdict
  <2>1. VerdictDoes
    BY <1>21, VerdictEffect
  <2>2. evworker.run \in EvalRuns
    BY <2>1, AtWork DEF VerdictDoes, Executes
  <2>r. PICK r \in EvalRuns : r = evworker.run
    BY <2>2
  <2>3. RowFollows(evworker.run)
    BY <2>2 DEF FollowsInv
  <2>4. UNCHANGED <<evalset, frozen>>
    BY <2>1 DEF VerdictDoes
  <2>5. RowFollows(r)'
    BY <2>r, <2>1, <2>3, <2>4 DEF VerdictDoes, RowIs, RowFollows, QuestionsOf, EvalRow
  <2> QED
    BY <2>r, <2>1, <2>2, <2>4, <2>5, OthersFollow DEF VerdictDoes
<1>22. CASE FinishEval
  <2>1. FinishDoes
    BY <1>22, FinishEffect
  <2>2. evworker.run \in EvalRuns /\ UNCHANGED <<evalset, frozen>>
    BY <2>1, AtWork DEF FinishDoes, Executes
  <2>r. PICK r \in EvalRuns : r = evworker.run
    BY <2>2
  <2>3. RowFollows(evworker.run) /\ RowOwned(evworker.run)
    BY <2>2 DEF FollowsInv, OwnedInv
  <2>4. /\ Asked(evworker.got) = evworker.list
        /\ EvalRow.row => EvalRow.results = evworker.got
        /\ evalset.there => (EvalRow.tag # Live => evworker.list = frozen[EvalRow.tag])
    BY <2>1 DEF FinishDoes, WorkerInv, Executes
  <2>5. /\ evruns'[evworker.run].results = EvalRow.results /\ evruns'[evworker.run].tag = EvalRow.tag
        /\ evruns'[evworker.run].row = EvalRow.row
    BY <2>1 DEF FinishDoes, RowIs
  <2>6. RowFollows(r)'
    BY <2>r, <2>2, <2>3, <2>4, <2>5 DEF RowFollows, RowOwned, QuestionsOf, EvalRow
  <2> QED
    BY <2>r, <2>1, <2>2, <2>6, OthersFollow DEF FinishDoes
<1>23. CASE EvalRestart
  <2>1. RestartDoes
    BY <1>23, RestartEffect
  <2>2. ASSUME NEW x \in EvalRuns PROVE RowFollows(x)'
    <3>1. RowFollows(x)
      BY DEF FollowsInv
    <3> QED
      BY <2>1, <3>1 DEF RestartDoes, RowIs, RowFollows, QuestionsOf
  <2> QED
    BY <2>2 DEF FollowsInv
<1>24. CASE UNCHANGED eval_vars
  <2>1. UNCHANGED <<evalset, frozen, evruns>>
    BY <1>24 DEF eval_vars
  <2> QED
    BY <2>1 DEF FollowsInv, RowFollows, QuestionsOf
<1>25. CASE EvalRaises
  <2>1. RaisesDoes
    BY <1>25, RaisesEffect
  <2> QED
    BY <2>1 DEF RaisesDoes, FollowsInv, RowFollows, QuestionsOf
<1> QED
  BY <1>1, <1>2, <1>3, <1>4, <1>5, <1>6, <1>7, <1>8, <1>9, <1>10, <1>11, <1>12,
     <1>13, <1>14, <1>15, <1>16, <1>17, <1>18, <1>19, <1>20, <1>21, <1>22, <1>23, <1>24, <1>25
  DEF EvalNext, WorkerStep

LEMMA EvalInvariant == EvalInit /\ [][EvalNext]_eval_vars => []EvalInv
<1>1. EvalInv /\ [EvalNext]_eval_vars => EvalInv'
  BY EvalTypeStep, FreezerStep, OwnedStep, WorkerStepHolds, PassStep, FollowsStep DEF EvalInv
<1> QED
  BY <1>1, EvalInitInv, PTL

\* A passed check and a run on record rest on all of the questions they name, in
\* the order of the version, and nothing outlives the set, the gate or the version it
\* belongs to: however the handlers' transactions interleave, and across
\* cancels, retrieval faults and restarts (EvaluationSound).
THEOREM EvaluationStaysSound == EvalSpec => []EvaluationSound
<1>1. EvalInv => EvaluationSound
  <2> SUFFICES ASSUME EvalInv PROVE EvaluationSound
    OBVIOUS
  <2>1. RunFollowsVersion
    BY DEF EvalInv, FollowsInv, RowFollows, RunFollowsVersion
  <2>2. PassIsEarned
    BY DEF EvalInv, PassInv, RowPasses, PassIsEarned
  <2>3. EvalRowsOwned
    BY DEF EvalInv, OwnedInv, RowOwned, EvalRowsOwned
  <2> QED
    BY <2>1, <2>2, <2>3 DEF EvaluationSound
<1> QED
  BY <1>1, EvalInvariant, PTL DEF EvalSpec

-----------------------------------------------------------------------------
(* Induction over numbers: the set of those a statement holds of has no     *)
(* least non-member.                                                        *)

NatLess == {p \in Nat \X Nat : p[1] < p[2]}

LEMMA NatLessIsWellFounded == IsWellFoundedOn(NatLess, Nat)
BY NatLessThanWellFounded DEF OpToRel, NatLess

LEMMA LeastOf ==
  ASSUME NEW T \in SUBSET Nat, T # {}
  PROVE  \E x \in T : \A y \in T : x <= y
<1>1. PICK x \in T : \A y \in T : <<y, x>> \notin NatLess
  BY NatLessIsWellFounded, WFMin
<1>2. \A y \in T : ~ (y < x)
  BY <1>1 DEF NatLess
<1> QED
  BY <1>2

LEMMA NatInd ==
  ASSUME NEW T, 0 \in T, \A n \in Nat : n \in T => n + 1 \in T
  PROVE  Nat \subseteq T
<1>1. SUFFICES ASSUME Nat \ T # {} PROVE FALSE
  OBVIOUS
<1>2. PICK x \in Nat \ T : \A y \in Nat \ T : x <= y
  BY <1>1, LeastOf
<1>3. x # 0 /\ x - 1 \in Nat
  BY <1>2
<1>4. x - 1 \in T
  BY <1>2, <1>3
<1> QED
  BY <1>2, <1>3, <1>4

\* A recursive function over the places of a sequence has its values, when
\* each step is a function on the set they are in.
StepsOn(G, n, S) == \A i \in 1 .. n : G[i] \in [S -> S]
Iterated(G, n, S, z) ==
  \E f \in [0 .. n -> S] : f[0] = z /\ \A i \in 1 .. n : f[i] = G[i][f[i - 1]]

LEMMA Iterates ==
  ASSUME NEW S, NEW z \in S, NEW n \in Nat, NEW G, StepsOn(G, n, S)
  PROVE  Iterated(G, n, S, z)
<1> USE DEF StepsOn, Iterated
<1> DEFINE Stepped(f, m) == f[0] = z /\ \A i \in 1 .. m : f[i] = G[i][f[i - 1]]
           Good == {m \in Nat : m <= n => \E f \in [0 .. m -> S] : Stepped(f, m)}
<1>1. 0 \in Good
  <2> DEFINE f == [i \in 0 .. 0 |-> z]
  <2>1. f \in [0 .. 0 -> S] /\ f[0] = z /\ \A i : i \notin 1 .. 0
    OBVIOUS
  <2> QED
    BY <2>1
<1>2. ASSUME NEW m \in Nat, m \in Good PROVE m + 1 \in Good
  <2> SUFFICES ASSUME m + 1 <= n PROVE \E f \in [0 .. m + 1 -> S] : Stepped(f, m + 1)
    OBVIOUS
  <2>1. PICK f \in [0 .. m -> S] : Stepped(f, m)
    BY <1>2
  <2> DEFINE new == G[m + 1][f[m]]
             g == [i \in 0 .. m + 1 |-> IF i = m + 1 THEN new ELSE f[i]]
  <2>2. new \in S
    <3>1. m \in 0 .. m /\ m + 1 \in 1 .. n
      OBVIOUS
    <3> QED
      BY <2>1, <3>1
  <2> HIDE DEF new
  <2>3. \A i \in 0 .. m + 1 : i = m + 1 \/ i \in 0 .. m
    OBVIOUS
  <2>4. g \in [0 .. m + 1 -> S]
    BY <2>1, <2>2, <2>3
  <2>5. g[m + 1] = new /\ \A i \in 0 .. m : g[i] = f[i]
    OBVIOUS
  <2> HIDE DEF g
  <2>6. g[0] = z
    BY <2>1, <2>5
  <2>7. ASSUME NEW i \in 1 .. m + 1 PROVE g[i] = G[i][g[i - 1]]
    <3>1. CASE i = m + 1
      <4>1. i - 1 = m /\ m \in 0 .. m
        BY <3>1
      <4> QED
        BY <3>1, <4>1, <2>5 DEF new
    <3>2. CASE i # m + 1
      <4>1. i \in 1 .. m /\ i \in 0 .. m /\ i - 1 \in 0 .. m
        BY <3>2
      <4> QED
        BY <4>1, <2>1, <2>5
    <3> QED
      BY <3>1, <3>2
  <2> QED
    BY <2>4, <2>6, <2>7
<1> HIDE DEF Good
<1>3. Nat \subseteq Good
  BY <1>1, <1>2, NatInd
<1> QED
  BY <1>3 DEF Good

-----------------------------------------------------------------------------
(* GraphMerge: merging.                                                     *)

\* Two chunks are merged one after the other.
LEMMA MergedForm ==
  ASSUME NEW extracted, NEW a, NEW b
  PROVE  Merged(<<a, b>>, extracted)
           = AddChunk(AddChunk(NoGraph, a, extracted[a]), b, extracted[b])
<1> DEFINE g == AddChunk(NoGraph, a, extracted[a])
           h == AddChunk(g, b, extracted[b])
           order == <<a, b>>
           Fcn(f) == f = [i \in 0 .. 2 |-> IF i = 0 THEN NoGraph
                            ELSE AddChunk(f[i - 1], order[i], extracted[order[i]])]
           p == CHOOSE f : Fcn(f)
           q == [i \in 0 .. 2 |-> IF i = 0 THEN NoGraph ELSE IF i = 1 THEN g ELSE h]
<1>1. order[1] = a /\ order[2] = b /\ Len(order) = 2
  OBVIOUS
<1>2. Merged(order, extracted) = p[2]
  BY <1>1, Zenon DEF Merged
<1>3. q[0] = NoGraph /\ q[1] = g /\ q[2] = h
  OBVIOUS
<1>4. \A i \in 0 .. 2 : q[i] = IF i = 0 THEN NoGraph
                               ELSE AddChunk(q[i - 1], order[i], extracted[order[i]])
  <2> HIDE DEF q, order, g, h
  <2> TAKE i \in 0 .. 2
  <2>1. i = 0 \/ (i = 1 /\ i - 1 = 0) \/ (i = 2 /\ i - 1 = 1)
    OBVIOUS
  <2>2. CASE i = 0
    BY <2>2, <1>3
  <2>3. CASE i = 1 /\ i - 1 = 0
    BY <2>3, <1>1, <1>3 DEF g
  <2>4. CASE i = 2 /\ i - 1 = 1
    BY <2>4, <1>1, <1>3 DEF h
  <2> QED
    BY <2>1, <2>2, <2>3, <2>4
<1>5. Fcn(q)
  <2>1. q = [i \in 0 .. 2 |-> q[i]]
    OBVIOUS
  <2> HIDE DEF q, order
  <2> QED
    BY <2>1, <1>4
<1>6. Fcn(p)
  BY <1>5, Zenon
<1> HIDE DEF p, q, order
<1>7. \A i \in 0 .. 2 : p[i] = IF i = 0 THEN NoGraph
                               ELSE AddChunk(p[i - 1], order[i], extracted[order[i]])
  BY <1>6
<1> HIDE DEF Fcn
<1>8. 0 \in 0 .. 2 /\ 1 \in 0 .. 2 /\ 2 \in 0 .. 2 /\ 1 - 1 = 0 /\ 2 - 1 = 1
  OBVIOUS
<1>9. p[0] = NoGraph
  BY <1>7, <1>8
<1>10. p[1] = g
  BY <1>1, <1>7, <1>8, <1>9 DEF g
<1>11. p[2] = h
  BY <1>1, <1>7, <1>8, <1>10 DEF h
<1> QED
  BY <1>2, <1>11 DEF order

\* An extraction, and what is true of a graph that was put together from some
\* chunks: every reference is to an entity it has, and no claim is kept twice.
Extracted(x) ==
  /\ x.times \in [Edges -> Nat]
  /\ IsFiniteSet(x.claims)

Whole(g, cs) ==
  /\ {m[1] : m \in g.named} = g.ents
  /\ g.linked \subseteq Edges \X cs
  /\ \A e \in Edges :
       /\ g.weight[e] \in Nat
       /\ g.weight[e] > 0 => EdgeEnds(e) \subseteq g.ents
  /\ IsFiniteSet(g.claims)
  /\ \A c \in g.claims : {c.of.subject, c.of.object} \subseteq g.ents \cup {NoObject}
  /\ \A c, d \in g.claims : c.of = d.of => c = d

LEMMA EmptyIsWhole == Whole(NoGraph, {})
<1>1. \A e \in Edges : NoGraph.weight[e] = 0
  BY DEF NoGraph
<1> QED
  BY <1>1, FS_EmptySet DEF Whole, NoGraph

LEMMA ClaimsTake ==
  ASSUME NEW S, NEW chunk, IsFiniteSet(S)
  PROVE  IsFiniteSet({[of |-> c, chunk |-> chunk] : c \in S})
<1> DEFINE T == {[of |-> c, chunk |-> chunk] : c \in S}
           f == [c \in S |-> [of |-> c, chunk |-> chunk]]
<1>1. f \in Surjection(S, T)
  BY DEF Surjection
<1> HIDE DEF T, f
<1> QED
  BY <1>1, FS_Surjection DEF T

LEMMA ObjectsTake ==
  ASSUME NEW S, NEW ents, IsFiniteSet(S)
  PROVE  IsFiniteSet({[subject |-> c.subject, object |-> ObjectOf(ents, c)] : c \in S})
<1> DEFINE T == {[subject |-> c.subject, object |-> ObjectOf(ents, c)] : c \in S}
           f == [c \in S |-> [subject |-> c.subject, object |-> ObjectOf(ents, c)]]
<1>1. f \in Surjection(S, T)
  BY DEF Surjection
<1> HIDE DEF T, f
<1> QED
  BY <1>1, FS_Surjection DEF T

\* How often chunk i, with the extraction x, is counted in the weight of e.
Counted(g, e, i, x) == IF <<e, i>> \in g.linked THEN x.times[e] ELSE 0

Weighs(h, g, cs, chunk, x, e) ==
  /\ h.weight[e] \in Nat
  /\ h.weight[e] = g.weight[e] + Counted(h, e, chunk, x)
  /\ h.weight[e] > 0 => EdgeEnds(e) \subseteq h.ents
  /\ \A c \in cs : <<e, c>> \in h.linked <=> <<e, c>> \in g.linked

LEMMA WeightsAdd ==
  ASSUME NEW g, NEW cs, Whole(g, cs), NEW chunk, chunk \notin cs,
         NEW x, Extracted(x), NEW e \in Edges
  PROVE  Weighs(AddChunk(g, chunk, x), g, cs, chunk, x, e)
<1> DEFINE h == AddChunk(g, chunk, x)
           ents == g.ents \cup x.ents
           seen == [d \in Edges |-> IF Keeps(ents, d) THEN x.times[d] ELSE 0]
           more == {<<d, chunk>> : d \in {d \in Edges : seen[d] > 0}}
<1>1. /\ h.linked = g.linked \cup more /\ h.ents = ents
      /\ h.weight[e] = g.weight[e] + seen[e]
  BY DEF AddChunk
<1>2. /\ g.weight[e] \in Nat
      /\ g.weight[e] > 0 => EdgeEnds(e) \subseteq g.ents
      /\ g.linked \subseteq Edges \X cs
  BY DEF Whole
<1>3. /\ x.times[e] \in Nat /\ seen[e] \in Nat
      /\ seen[e] > 0 => seen[e] = x.times[e] /\ Keeps(ents, e)
  BY DEF Extracted
<1>4. Keeps(ents, e) => EdgeEnds(e) \subseteq ents
  BY DEF Keeps, EdgeEnds
<1> HIDE DEF h, ents, seen
<1>5. \A c : <<e, c>> \in more <=> c = chunk /\ seen[e] > 0
  OBVIOUS
<1> HIDE DEF more
<1>6. <<e, chunk>> \in h.linked <=> seen[e] > 0
  BY <1>1, <1>2, <1>5
<1>7. \A c \in cs : <<e, c>> \in h.linked <=> <<e, c>> \in g.linked
  BY <1>1, <1>5
<1>8. Counted(h, e, chunk, x) = seen[e]
  BY <1>3, <1>6 DEF Counted
<1>9. h.weight[e] \in Nat /\ h.weight[e] = g.weight[e] + Counted(h, e, chunk, x)
  BY <1>1, <1>2, <1>3, <1>8
<1>10. g.ents \subseteq h.ents
  BY <1>1 DEF ents
<1>11. h.weight[e] > 0 => EdgeEnds(e) \subseteq h.ents
  <2>1. h.weight[e] > 0 => g.weight[e] > 0 \/ seen[e] > 0
    BY <1>1, <1>2, <1>3
  <2> QED
    BY <2>1, <1>1, <1>2, <1>3, <1>4, <1>10
<1> QED
  BY <1>7, <1>9, <1>11 DEF h, Weighs

LEMMA AddKeepsWhole ==
  ASSUME NEW g, NEW cs, Whole(g, cs), NEW chunk, chunk \notin cs,
         NEW x, Extracted(x)
  PROVE  Whole(AddChunk(g, chunk, x), cs \cup {chunk})
<1> DEFINE h == AddChunk(g, chunk, x)
           ents == g.ents \cup x.ents
           seen == [e \in Edges |-> IF Keeps(ents, e) THEN x.times[e] ELSE 0]
           more == {<<e, chunk>> : e \in {d \in Edges : seen[d] > 0}}
           spoken == {d \in x.claims : d.subject \in ents}
           claims == {[subject |-> c.subject, object |-> ObjectOf(ents, c)] : c \in spoken}
           known == {c.of : c \in g.claims}
           new == {[of |-> c, chunk |-> chunk] : c \in claims \ known}
<1>1. /\ h.ents = ents /\ h.named = g.named \cup (x.ents \X {chunk})
      /\ h.linked = g.linked \cup more /\ h.claims = g.claims \cup new
  BY DEF AddChunk
<1>2. {m[1] : m \in h.named} = h.ents
  <2>1. {m[1] : m \in g.named} = g.ents
    BY DEF Whole
  <2>2. {m[1] : m \in x.ents \X {chunk}} = x.ents
    <3>1. \A y \in x.ents : <<y, chunk>> \in x.ents \X {chunk} /\ <<y, chunk>>[1] = y
      OBVIOUS
    <3>2. \A m \in x.ents \X {chunk} : m[1] \in x.ents
      OBVIOUS
    <3> QED
      BY <3>1, <3>2
  <2> QED
    BY <2>1, <2>2, <1>1
<1>3. h.linked \subseteq Edges \X (cs \cup {chunk})
  <2>1. g.linked \subseteq Edges \X cs
    BY DEF Whole
  <2>2. more \subseteq Edges \X {chunk}
    <3> HIDE DEF seen
    <3> QED
      OBVIOUS
  <2> HIDE DEF more, h
  <2> QED
    BY <2>1, <2>2, <1>1
<1>4. \A e \in Edges :
        /\ h.weight[e] \in Nat
        /\ h.weight[e] > 0 => EdgeEnds(e) \subseteq h.ents
  BY WeightsAdd DEF Weighs
<1>5. \A c \in claims : {c.subject, c.object} \subseteq ents \cup {NoObject}
  BY DEF ObjectOf
<1>6. IsFiniteSet(h.claims)
  <2>1. IsFiniteSet(spoken)
    BY FS_Subset DEF Extracted
  <2>2. IsFiniteSet(claims)
    <3> HIDE DEF spoken
    <3> QED
      BY <2>1, ObjectsTake
  <2>3. IsFiniteSet(claims \ known)
    BY <2>2, FS_Subset
  <2>4. IsFiniteSet(new)
    <3> DEFINE S == claims \ known
    <3> HIDE DEF S, claims, known
    <3>1. IsFiniteSet(S)
      BY <2>3 DEF S
    <3>2. new = {[of |-> c, chunk |-> chunk] : c \in S}
      BY DEF S
    <3> QED
      BY <3>1, <3>2, ClaimsTake
  <2>5. IsFiniteSet(g.claims)
    BY DEF Whole
  <2> HIDE DEF new
  <2>6. IsFiniteSet(g.claims \cup new)
    BY <2>4, <2>5, FS_Union
  <2>7. h.claims = g.claims \cup new
    BY <1>1
  <2> HIDE DEF h
  <2> QED
    BY <2>6, <2>7
<1> HIDE DEF claims, h, ents
<1>7. \A c \in new : c.of \in claims /\ c.of \notin known /\ c.chunk = chunk
                     /\ c = [of |-> c.of, chunk |-> c.chunk]
  OBVIOUS
<1>8. /\ \A c \in g.claims : c.of \in known
      /\ \A c \in g.claims : {c.of.subject, c.of.object} \subseteq g.ents \cup {NoObject}
      /\ \A c, d \in g.claims : c.of = d.of => c = d
  BY DEF Whole
<1> HIDE DEF new, known
<1>9. \A c \in h.claims : {c.of.subject, c.of.object} \subseteq h.ents \cup {NoObject}
  <2> TAKE c \in h.claims
  <2>1. CASE c \in g.claims
    BY <2>1, <1>1, <1>8 DEF ents
  <2>2. CASE c \in new
    BY <2>2, <1>1, <1>5, <1>7
  <2> QED
    BY <2>1, <2>2, <1>1
<1>10. \A c, d \in h.claims : c.of = d.of => c = d
  <2> TAKE c, d \in h.claims
  <2> HAVE c.of = d.of
  <2>1. CASE c \in new /\ d \in new
    BY <2>1, <1>7
  <2>2. CASE c \in g.claims /\ d \in g.claims
    BY <2>2, <1>8
  <2>3. ~ (c \in g.claims /\ d \in new) /\ ~ (c \in new /\ d \in g.claims)
    BY <1>7, <1>8
  <2> QED
    BY <2>1, <2>2, <2>3, <1>1
<1> QED
  BY <1>2, <1>3, <1>4, <1>6, <1>9, <1>10 DEF Whole, h

\* What a graph says, but for the chunk a claim was first read in.
Claimed(g) == {c.of : c \in g.claims}
Speaks(x) ==
  {[subject |-> c.subject, object |-> IF c.object = c.subject THEN NoObject ELSE c.object] :
     c \in x.claims}
Tie(x, e) == IF e[1] # e[2] THEN x.times[e] ELSE 0
Tied(x, chunk) == {<<e, chunk>> : e \in {d \in Edges : Tie(x, d) > 0}}

\* An extraction that names what it relates adds the same to every graph.
Adds(h, g, chunk, x) ==
  /\ h.ents = g.ents \cup x.ents
  /\ h.weight = [e \in Edges |-> g.weight[e] + Tie(x, e)]
  /\ Claimed(h) = Claimed(g) \cup Speaks(x)
  /\ h.named = g.named \cup (x.ents \X {chunk})
  /\ h.linked = g.linked \cup Tied(x, chunk)

LEMMA OwnAdds ==
  ASSUME NEW g, NEW chunk, NEW x, Own_(x), Extracted(x)
  PROVE  Adds(AddChunk(g, chunk, x), g, chunk, x)
<1> DEFINE h == AddChunk(g, chunk, x)
           ents == g.ents \cup x.ents
           seen == [e \in Edges |-> IF Keeps(ents, e) THEN x.times[e] ELSE 0]
           spoken == {d \in x.claims : d.subject \in ents}
           claims == {[subject |-> c.subject, object |-> ObjectOf(ents, c)] : c \in spoken}
           new == {[of |-> c, chunk |-> chunk] : c \in claims \ Claimed(g)}
<1>1. /\ h.ents = ents /\ h.named = g.named \cup (x.ents \X {chunk})
      /\ h.linked = g.linked \cup {<<e, chunk>> : e \in {d \in Edges : seen[d] > 0}} /\ h.claims = g.claims \cup new
      /\ h.weight = [e \in Edges |-> g.weight[e] + seen[e]]
  BY DEF AddChunk, Claimed
<1>2. \A e \in Edges : seen[e] = Tie(x, e)
  <2> TAKE e \in Edges
  <2>1. x.times[e] \in Nat /\ (x.times[e] > 0 => e[1] \in ents /\ e[2] \in ents)
    BY DEF Own_, EdgeEnds, Extracted
  <2>2. seen[e] = IF Keeps(ents, e) THEN x.times[e] ELSE 0
    OBVIOUS
  <2> HIDE DEF seen, ents
  <2> QED
    BY <2>1, <2>2 DEF Tie, Keeps
<1>3. claims = Speaks(x)
  <2>1. spoken = x.claims
    BY DEF Own_
  <2>2. \A c \in x.claims : c.object \in ents
    BY DEF Own_
  <2>3. \A c \in x.claims :
          ObjectOf(ents, c) = IF c.object = c.subject THEN NoObject ELSE c.object
    BY <2>2 DEF ObjectOf
  <2> HIDE DEF spoken
  <2> QED
    BY <2>1, <2>3 DEF Speaks
<1>4. Claimed(h) = Claimed(g) \cup claims
  <2> HIDE DEF h, claims
  <2>1. \A c \in new : c.of \in claims
    OBVIOUS
  <2>2. ASSUME NEW k \in claims, k \notin Claimed(g) PROVE \E c \in new : c.of = k
    <3>1. [of |-> k, chunk |-> chunk] \in new
      BY <2>2
    <3> QED
      BY <3>1
  <2> HIDE DEF new
  <2>3. Claimed(h) \subseteq Claimed(g) \cup claims
    BY <1>1, <2>1 DEF Claimed
  <2>4. Claimed(g) \subseteq Claimed(h)
    BY <1>1 DEF Claimed
  <2>5. claims \subseteq Claimed(h)
    <3> SUFFICES ASSUME NEW k \in claims, k \notin Claimed(g) PROVE k \in Claimed(h)
      BY <2>4
    <3>1. PICK c \in new : c.of = k
      BY <2>2
    <3> QED
      BY <3>1, <1>1 DEF Claimed
  <2> QED
    BY <2>3, <2>4, <2>5
<1> HIDE DEF seen, claims, h
<1>5. {d \in Edges : seen[d] > 0} = {d \in Edges : Tie(x, d) > 0}
  BY <1>2
<1>6. h.linked = g.linked \cup Tied(x, chunk)
  BY <1>1, <1>5 DEF Tied
<1>7. h.weight = [e \in Edges |-> g.weight[e] + Tie(x, e)]
  BY <1>1, <1>2
<1> QED
  BY <1>1, <1>3, <1>4, <1>6, <1>7 DEF ents, h, Adds

LEMMA OwnCommute ==
  ASSUME NEW a, NEW b, NEW x, NEW y, Own_(x), Own_(y), Extracted(x), Extracted(y)
  PROVE  LET g == AddChunk(AddChunk(NoGraph, a, x), b, y)
             h == AddChunk(AddChunk(NoGraph, b, y), a, x)
         IN /\ g.ents = h.ents /\ g.weight = h.weight /\ Claimed(g) = Claimed(h)
            /\ g.named = h.named /\ g.linked = h.linked
<1> DEFINE ga == AddChunk(NoGraph, a, x)
           hb == AddChunk(NoGraph, b, y)
           g == AddChunk(ga, b, y)
           h == AddChunk(hb, a, x)
<1>0. /\ \A e \in Edges : NoGraph.weight[e] = 0
      /\ NoGraph.ents = {} /\ Claimed(NoGraph) = {}
      /\ NoGraph.named = {} /\ NoGraph.linked = {}
  BY DEF NoGraph, Claimed
<1>a. Adds(ga, NoGraph, a, x) /\ Adds(hb, NoGraph, b, y) /\ Adds(g, ga, b, y) /\ Adds(h, hb, a, x)
  BY OwnAdds
<1> HIDE DEF ga, hb, g, h
<1>1. /\ ga.ents = x.ents /\ Claimed(ga) = Speaks(x)
      /\ ga.named = x.ents \X {a} /\ ga.linked = Tied(x, a)
      /\ \A e \in Edges : ga.weight[e] = Tie(x, e)
  <2>1. /\ ga.ents = NoGraph.ents \cup x.ents
        /\ ga.weight = [e \in Edges |->
                          NoGraph.weight[e] + Tie(x, e)]
        /\ Claimed(ga) = Claimed(NoGraph) \cup Speaks(x)
        /\ ga.named = NoGraph.named \cup (x.ents \X {a})
        /\ ga.linked = NoGraph.linked \cup Tied(x, a)
    BY <1>a DEF Adds
  <2>2. \A e \in Edges : ga.weight[e] = 0 + Tie(x, e)
    BY <2>1, <1>0
  <2>3. \A e \in Edges : ga.weight[e] = Tie(x, e)
    BY <2>2 DEF Tie, Extracted
  <2> QED
    BY <2>1, <2>3, <1>0
<1>2. /\ hb.ents = y.ents /\ Claimed(hb) = Speaks(y)
      /\ hb.named = y.ents \X {b} /\ hb.linked = Tied(y, b)
      /\ \A e \in Edges : hb.weight[e] = Tie(y, e)
  <2>1. /\ hb.ents = NoGraph.ents \cup y.ents
        /\ hb.weight = [e \in Edges |->
                          NoGraph.weight[e] + Tie(y, e)]
        /\ Claimed(hb) = Claimed(NoGraph) \cup Speaks(y)
        /\ hb.named = NoGraph.named \cup (y.ents \X {b})
        /\ hb.linked = NoGraph.linked \cup Tied(y, b)
    BY <1>a DEF Adds
  <2>2. \A e \in Edges : hb.weight[e] = 0 + Tie(y, e)
    BY <2>1, <1>0
  <2>3. \A e \in Edges : hb.weight[e] = Tie(y, e)
    BY <2>2 DEF Tie, Extracted
  <2> QED
    BY <2>1, <2>3, <1>0
<1>3. /\ g.ents = ga.ents \cup y.ents
      /\ g.weight = [e \in Edges |->
                       ga.weight[e] + Tie(y, e)]
      /\ Claimed(g) = Claimed(ga) \cup Speaks(y)
      /\ g.named = ga.named \cup (y.ents \X {b})
      /\ g.linked = ga.linked \cup Tied(y, b)
  BY <1>a DEF Adds
<1>4. /\ h.ents = hb.ents \cup x.ents
      /\ h.weight = [e \in Edges |->
                       hb.weight[e] + Tie(x, e)]
      /\ Claimed(h) = Claimed(hb) \cup Speaks(x)
      /\ h.named = hb.named \cup (x.ents \X {a})
      /\ h.linked = hb.linked \cup Tied(x, a)
  BY <1>a DEF Adds
<1>5. \A e \in Edges :
        ga.weight[e] + Tie(y, e)
          = hb.weight[e] + Tie(x, e)
  <2> TAKE e \in Edges
  <2>1. Tie(x, e) \in Nat /\ Tie(y, e) \in Nat
    BY DEF Tie, Extracted
  <2>2. ga.weight[e] = Tie(x, e) /\ hb.weight[e] = Tie(y, e)
    BY <1>1, <1>2
  <2> QED
    BY <2>1, <2>2
<1>6. g.weight = h.weight
  BY <1>3, <1>4, <1>5
<1> QED
  BY <1>1, <1>2, <1>3, <1>4, <1>6 DEF g, h, ga, hb

LEMMA ExtractionType == ASSUME NEW x \in Extractions PROVE Extracted(x)
<1>1. x.times \in Times /\ x.claims \in ClaimSets
  BY DEF Extractions
<1>2. PICK d \in MergeNames \X MergeNames, n \in 0 .. MaxTimes :
        x.times = [e \in Edges |-> IF e = d THEN n ELSE 0]
  BY <1>1 DEF Times
<1>3. x.times \in [Edges -> Nat]
  BY <1>2, GraphMergeAssumption
<1>4. x.claims = {} \/ \E c : x.claims = {c}
  BY <1>1 DEF ClaimSets
<1>5. IsFiniteSet(x.claims)
  BY <1>4, FS_EmptySet, FS_Singleton
<1> QED
  BY <1>3, <1>5 DEF Extracted

LEMMA WholeIsSound ==
  ASSUME NEW g, NEW cs, Whole(g, cs)
  PROVE  /\ {m[1] : m \in g.named} = g.ents
         /\ \A e \in Edges : g.weight[e] > 0 => EdgeEnds(e) \subseteq g.ents
         /\ \A c \in Claimed(g) : {c.subject, c.object} \subseteq g.ents \cup {NoObject}
         /\ Cardinality(Claimed(g)) = Cardinality(g.claims)
<1>1. \A c \in Claimed(g) : {c.subject, c.object} \subseteq g.ents \cup {NoObject}
  BY DEF Whole, Claimed
<1>2. Cardinality(Claimed(g)) = Cardinality(g.claims)
  <2> DEFINE S == g.claims
             T == Claimed(g)
             f == [c \in S |-> c.of]
  <2>1. T = {c.of : c \in S}
    BY DEF Claimed
  <2>2. IsFiniteSet(S) /\ \A c, d \in S : c.of = d.of => c = d
    BY DEF Whole
  <2> HIDE DEF S, T
  <2>3. f \in [S -> T] /\ \A c \in S : f[c] = c.of
    BY <2>1
  <2>4. \A t \in T : \E c \in S : f[c] = t
    BY <2>1
  <2> HIDE DEF f
  <2>5. f \in Bijection(S, T)
    BY <2>2, <2>3, <2>4 DEF Bijection, Injection, Surjection, IsInjective
  <2> QED
    BY <2>2, <2>5, FS_Bijection DEF ExistsBijection, S, T
<1> QED
  BY <1>1, <1>2 DEF Whole

LEMMA MergesSound ==
  ASSUME merging.kind = "merge", merging.extracted \in [1 .. 2 -> Extractions]
  PROVE  MergeSound
<1> DEFINE x == merging.extracted
           g1 == AddChunk(NoGraph, 1, x[1])
           h1 == AddChunk(NoGraph, 2, x[2])
           g == Merged(<<1, 2>>, x)
           h == Merged(<<2, 1>>, x)
<1>1. Extracted(x[1]) /\ Extracted(x[2])
  BY ExtractionType
<1>2. g = AddChunk(g1, 2, x[2]) /\ h = AddChunk(h1, 1, x[1])
  BY MergedForm
<1>3. Whole(g, {1, 2})
  <2>1. Whole(g1, {} \cup {1})
    BY <1>1, EmptyIsWhole, AddKeepsWhole
  <2>2. 2 \notin {} \cup {1} /\ ({} \cup {1}) \cup {2} = {1, 2}
    OBVIOUS
  <2> HIDE DEF g1, g
  <2>3. Whole(AddChunk(g1, 2, x[2]), ({} \cup {1}) \cup {2})
    BY <2>1, <2>2, <1>1, AddKeepsWhole
  <2> QED
    BY <2>2, <2>3, <1>2
<1>c. \A e \in Edges : g.weight[e] = Counted(g, e, 1, x[1]) + Counted(g, e, 2, x[2])
  <2> TAKE e \in Edges
  <2>1. Whole(g1, {} \cup {1})
    BY <1>1, EmptyIsWhole, AddKeepsWhole
  <2>2. g1.weight[e] = NoGraph.weight[e] + Counted(g1, e, 1, x[1])
    <3>1. 1 \notin {} /\ Extracted(x[1])
      BY <1>1
    <3>2. Weighs(g1, NoGraph, {}, 1, x[1], e)
      BY <3>1, EmptyIsWhole, WeightsAdd
    <3> HIDE DEF g1
    <3> QED
      BY <3>2 DEF Weighs
  <2>3. NoGraph.weight[e] = 0
    BY DEF NoGraph
  <2> HIDE DEF g1, g
  <2>4. /\ g.weight[e] = g1.weight[e] + Counted(g, e, 2, x[2])
        /\ <<e, 1>> \in g.linked <=> <<e, 1>> \in g1.linked
    <3>1. 2 \notin {} \cup {1} /\ 1 \in {} \cup {1} /\ Extracted(x[2])
      BY <1>1
    <3>2. Weighs(AddChunk(g1, 2, x[2]), g1, {} \cup {1}, 2, x[2], e)
      BY <3>1, <2>1, WeightsAdd
    <3>3. Weighs(g, g1, {} \cup {1}, 2, x[2], e)
      BY <3>2, <1>2
    <3> QED
      BY <3>1, <3>3 DEF Weighs
  <2>5. Counted(g, e, 1, x[1]) = Counted(g1, e, 1, x[1])
    BY <2>4 DEF Counted
  <2>6. Counted(g1, e, 1, x[1]) \in Nat /\ Counted(g, e, 2, x[2]) \in Nat
    BY <1>1 DEF Counted, Extracted
  <2> QED
    BY <2>2, <2>3, <2>4, <2>5, <2>6
<1>4. ASSUME \A i \in 1 .. 2 : Own_(x[i])
      PROVE  /\ g.ents = h.ents /\ g.weight = h.weight /\ Claimed(g) = Claimed(h)
             /\ g.named = h.named /\ g.linked = h.linked
  <2>1. Own_(x[1]) /\ Own_(x[2])
    BY <1>4
  <2>2. /\ AddChunk(g1, 2, x[2]).ents = AddChunk(h1, 1, x[1]).ents
        /\ AddChunk(g1, 2, x[2]).weight = AddChunk(h1, 1, x[1]).weight
        /\ Claimed(AddChunk(g1, 2, x[2])) = Claimed(AddChunk(h1, 1, x[1]))
        /\ AddChunk(g1, 2, x[2]).named = AddChunk(h1, 1, x[1]).named
        /\ AddChunk(g1, 2, x[2]).linked = AddChunk(h1, 1, x[1]).linked
    BY <2>1, <1>1, OwnCommute
  <2> HIDE DEF g, h, g1, h1
  <2> QED
    BY <2>2, <1>2
<1> HIDE DEF g1, h1
<1>5. /\ {m[1] : m \in g.named} = g.ents
      /\ \A e \in Edges : g.weight[e] > 0 => EdgeEnds(e) \subseteq g.ents
      /\ \A c \in Claimed(g) : {c.subject, c.object} \subseteq g.ents \cup {NoObject}
      /\ Cardinality(Claimed(g)) = Cardinality(g.claims)
  <2> HIDE DEF g
  <2> QED
    BY <1>3, WholeIsSound
<1> QED
  BY <1>4, <1>5, <1>c DEF MergeSound, Claimed, Counted

-----------------------------------------------------------------------------
(* GraphMerge: the subgraph.                                                *)

\* Nodes without repetition; r is q with those of S behind it.
Paths == {q \in Seq(Nat) : IsInjective(q)}
Leads(q, r) == Len(q) <= Len(r) /\ \A i \in 1 .. Len(q) : q[i] = r[i]
Grown(q, r, S) == r \in Paths /\ Leads(q, r) /\ ToSet(r) = ToSet(q) \cup S

LEMMA PathType ==
  ASSUME NEW q \in Paths
  PROVE  q \in Seq(Nat) /\ Len(q) \in Nat /\ DOMAIN q = 1 .. Len(q) /\ IsInjective(q)
BY DEF Paths

LEMMA SeeLaw ==
  ASSUME NEW q \in Paths, NEW n \in Nat
  PROVE  Grown(q, See(q, n), {n})
<1> DEFINE k == Len(q)
           r == Append(q, n)
<1>1. q \in Seq(Nat) /\ k \in Nat /\ DOMAIN q = 1 .. k /\ IsInjective(q)
  BY PathType
<1>2. CASE n \in ToSet(q)
  <2>1. See(q, n) = q
    BY <1>2 DEF See
  <2>2. Leads(q, q)
    BY <1>1 DEF Leads
  <2> QED
    BY <2>1, <2>2, <1>2 DEF Grown
<1>3. CASE n \notin ToSet(q)
  <2>1. See(q, n) = r
    BY <1>3 DEF See
  <2>2. /\ r \in Seq(Nat) /\ Len(r) = k + 1 /\ DOMAIN r = 1 .. k + 1 /\ r[k + 1] = n
        /\ \A i \in 1 .. k : r[i] = q[i]
    BY <1>1
  <2>3. \A i \in 1 .. k : q[i] # n
    BY <1>1, <1>3 DEF ToSet
  <2> HIDE DEF r, k
  <2>4. \A i \in 1 .. k + 1 : i = k + 1 \/ i \in 1 .. k
    BY <1>1
  <2>5. IsInjective(r)
    <3> SUFFICES ASSUME NEW i \in 1 .. k + 1, NEW j \in 1 .. k + 1, r[i] = r[j] PROVE i = j
      BY <2>2 DEF IsInjective
    <3>1. CASE i \in 1 .. k /\ j \in 1 .. k
      BY <3>1, <1>1, <2>2 DEF IsInjective
    <3>2. ~ (i \in 1 .. k /\ j = k + 1) /\ ~ (i = k + 1 /\ j \in 1 .. k)
      BY <2>2, <2>3
    <3> QED
      BY <3>1, <3>2, <2>4
  <2>6. ToSet(r) = ToSet(q) \cup {n}
    <3>1. \A i \in 1 .. k : i \in 1 .. k + 1
      BY <1>1
    <3>2. k + 1 \in 1 .. k + 1
      BY <1>1
    <3> QED
      BY <3>1, <3>2, <1>1, <2>2, <2>4 DEF ToSet
  <2>7. Leads(q, r)
    BY <1>1, <2>2 DEF Leads, k
  <2> QED
    BY <2>1, <2>2, <2>5, <2>6, <2>7 DEF Grown, Paths
<1> QED
  BY <1>2, <1>3

LEMMA GrownTwice ==
  ASSUME NEW q \in Paths, NEW r, NEW t, NEW S, NEW T, Grown(q, r, S), Grown(r, t, T)
  PROVE  Grown(q, t, S \cup T)
<1>1. r \in Paths /\ t \in Paths /\ Leads(q, r) /\ Leads(r, t)
  BY DEF Grown
<1>2. Len(q) \in Nat /\ Len(r) \in Nat /\ Len(t) \in Nat
  BY <1>1, PathType
<1>3. Leads(q, t)
  <2>1. \A i \in 1 .. Len(q) : i \in 1 .. Len(r)
    BY <1>1, <1>2 DEF Leads
  <2> QED
    BY <2>1, <1>1, <1>2 DEF Leads
<1> QED
  BY <1>1, <1>3 DEF Grown

LEMMA GrownStill == ASSUME NEW q \in Paths PROVE Grown(q, q, {})
BY PathType DEF Grown, Leads

\* A row of edges, and what those of its first i that touch F join.
EndsUpto(table, F, i) ==
  UNION {EdgeEnds(table[j]) : j \in {k \in 1 .. i : Touches(table[k], F)}}
SeeRow(q, row, F) == IF Touches(row, F) THEN See(See(q, row[1]), row[2]) ELSE q

LEMMA SeeRowLaw ==
  ASSUME NEW q \in Paths, NEW row \in Nat \X Nat, NEW F
  PROVE  Grown(q, SeeRow(q, row, F), IF Touches(row, F) THEN EdgeEnds(row) ELSE {})
<1>1. CASE Touches(row, F)
  <2> DEFINE r == See(q, row[1])
  <2>1. Grown(q, r, {row[1]})
    BY SeeLaw
  <2>2. r \in Paths
    BY <2>1 DEF Grown
  <2> HIDE DEF r
  <2>3. Grown(r, See(r, row[2]), {row[2]})
    BY <2>2, SeeLaw
  <2>4. Grown(q, See(r, row[2]), {row[1]} \cup {row[2]})
    BY <2>1, <2>3, GrownTwice
  <2>5. {row[1]} \cup {row[2]} = EdgeEnds(row)
    BY DEF EdgeEnds
  <2>6. Grown(q, See(r, row[2]), EdgeEnds(row))
    BY <2>4, <2>5
  <2> QED
    BY <2>6, <1>1 DEF SeeRow, r
<1>2. CASE ~ Touches(row, F)
  BY <1>2, GrownStill DEF SeeRow
<1> QED
  BY <1>1, <1>2

\* What the edges that touch F join.
Joined(table, F) == UNION {EdgeEnds(row) : row \in {r \in ToSet(table) : Touches(r, F)}}

SeenOf(q, table, F) ==
  LET seen[i \in 0 .. Len(table)] ==
        IF i = 0 THEN q
        ELSE IF Touches(table[i], F)
        THEN See(See(seen[i - 1], table[i][1]), table[i][2]) ELSE seen[i - 1]
  IN seen[Len(table)]

LEMMA UptoNext ==
  ASSUME NEW table, NEW F, NEW i \in Nat
  PROVE  EndsUpto(table, F, i + 1)
           = EndsUpto(table, F, i) \cup (IF Touches(table[i + 1], F) THEN EdgeEnds(table[i + 1]) ELSE {})
<1>1. \A j : j \in 1 .. i + 1 <=> j \in 1 .. i \/ j = i + 1
  OBVIOUS
<1>2. CASE Touches(table[i + 1], F)
  <2>1. {k \in 1 .. i + 1 : Touches(table[k], F)} = {k \in 1 .. i : Touches(table[k], F)} \cup {i + 1}
    BY <1>1, <1>2
  <2> QED
    BY <2>1, <1>2 DEF EndsUpto
<1>3. CASE ~ Touches(table[i + 1], F)
  <2>1. {k \in 1 .. i + 1 : Touches(table[k], F)} = {k \in 1 .. i : Touches(table[k], F)}
    BY <1>1, <1>3
  <2> QED
    BY <2>1, <1>3 DEF EndsUpto
<1> QED
  BY <1>2, <1>3

LEMMA SeenLaw ==
  ASSUME NEW q \in Paths, NEW table \in Seq(Nat \X Nat), NEW F
  PROVE  Grown(q, SeenOf(q, table, F), Joined(table, F))
<1> DEFINE n == Len(table)
           S == Paths
           G == [i \in 1 .. n |-> [r \in S |-> SeeRow(r, table[i], F)]]
           Fcn(f) == f = [i \in 0 .. n |->
                            IF i = 0 THEN q
                            ELSE IF Touches(table[i], F)
                            THEN See(See(f[i - 1], table[i][1]), table[i][2]) ELSE f[i - 1]]
           p == CHOOSE f : Fcn(f)
<1>1. n \in Nat /\ DOMAIN table = 1 .. n /\ \A i \in 1 .. n : table[i] \in Nat \X Nat
  OBVIOUS
<1>2. \A i \in 1 .. n : G[i] \in [S -> S]
  <2>1. \A i \in 1 .. n : \A r \in S : SeeRow(r, table[i], F) \in S
    BY <1>1, SeeRowLaw DEF Grown
  <2> QED
    BY <2>1
<1>3. \A i \in 1 .. n : \A r \in S : G[i][r] = SeeRow(r, table[i], F)
  OBVIOUS
<1>4. SeenOf(q, table, F) = p[n]
  BY Zenon DEF SeenOf
<1>a. Joined(table, F) = EndsUpto(table, F, n)
  <2>1. ToSet(table) = {table[j] : j \in 1 .. n}
    BY <1>1 DEF ToSet
  <2> QED
    BY <2>1 DEF Joined, EndsUpto
<1> HIDE DEF G, n, S
<1>5. PICK f \in [0 .. n -> S] : f[0] = q /\ \A i \in 1 .. n : f[i] = G[i][f[i - 1]]
  <2>1. StepsOn(G, n, S)
    BY <1>2 DEF StepsOn
  <2>2. q \in S
    BY DEF S
  <2>3. Iterated(G, n, S, q)
    BY <2>1, <2>2, <1>1, Iterates
  <2> QED
    BY <2>3 DEF Iterated
<1>6. \A i \in 1 .. n : f[i] = SeeRow(f[i - 1], table[i], F)
  <2> TAKE i \in 1 .. n
  <2>1. i - 1 \in 0 .. n
    BY <1>1
  <2>2. f[i - 1] \in S
    BY <2>1, <1>5
  <2> QED
    BY <2>2, <1>3, <1>5
<1>7. Fcn(f)
  <2>1. f = [i \in 0 .. n |-> f[i]]
    OBVIOUS
  <2>2. \A i \in 0 .. n : i # 0 => i \in 1 .. n
    BY <1>1
  <2>3. \A i \in 0 .. n : f[i] = IF i = 0 THEN q ELSE IF Touches(table[i], F)
                                 THEN See(See(f[i - 1], table[i][1]), table[i][2]) ELSE f[i - 1]
    BY <2>2, <1>5, <1>6 DEF SeeRow
  <2> QED
    BY <2>1, <2>3
<1>8. Fcn(p)
  BY <1>7, Zenon
<1> HIDE DEF p
<1>9. \A i \in 0 .. n : p[i] = IF i = 0 THEN q ELSE SeeRow(p[i - 1], table[i], F)
  BY <1>8 DEF SeeRow
<1> HIDE DEF Fcn
<1>10. \A i \in 0 .. n : Grown(q, p[i], EndsUpto(table, F, i))
  <2> DEFINE T == {i \in Nat : i <= n => Grown(q, p[i], EndsUpto(table, F, i))}
  <2>1. 0 \in T
    <3>1. EndsUpto(table, F, 0) = {}
      BY DEF EndsUpto
    <3>2. p[0] = q
      BY <1>1, <1>9
    <3> QED
      BY <3>1, <3>2, GrownStill
  <2>2. ASSUME NEW i \in Nat, i \in T PROVE i + 1 \in T
    <3> SUFFICES ASSUME i + 1 <= n PROVE Grown(q, p[i + 1], EndsUpto(table, F, i + 1))
      OBVIOUS
    <3>1. i + 1 \in 1 .. n /\ i + 1 \in 0 .. n /\ i + 1 # 0 /\ (i + 1) - 1 = i /\ i <= n
      BY <1>1
    <3>2. p[i + 1] = SeeRow(p[i], table[i + 1], F)
      BY <3>1, <1>9
    <3>3. Grown(q, p[i], EndsUpto(table, F, i))
      BY <3>1, <2>2
    <3>4. p[i] \in Paths
      BY <3>3 DEF Grown
    <3> DEFINE E == IF Touches(table[i + 1], F) THEN EdgeEnds(table[i + 1]) ELSE {}
    <3>5. Grown(p[i], SeeRow(p[i], table[i + 1], F), E)
      BY <3>1, <3>4, <1>1, SeeRowLaw
    <3>6. EndsUpto(table, F, i + 1) = EndsUpto(table, F, i) \cup E
      BY UptoNext
    <3> HIDE DEF E
    <3> QED
      BY <3>2, <3>3, <3>5, <3>6, GrownTwice
  <2> HIDE DEF T
  <2>3. Nat \subseteq T
    BY <2>1, <2>2, NatInd
  <2> QED
    BY <2>3, <1>1 DEF T
<1>11. n \in 0 .. n
  BY <1>1
<1> QED
  BY <1>4, <1>10, <1>11, <1>a

\* A level of the search.
Levels == [nodes : Paths, edges : SUBSET (Nat \X Nat), frontier : SUBSET Nat]

LEMMA ExpandForm ==
  ASSUME NEW s, NEW table
  PROVE  LET nodes == SeenOf(s.nodes, table, s.frontier)
         IN Expand(s, table)
              = [nodes |-> nodes,
                 edges |-> s.edges \cup {row \in ToSet(table) : Touches(row, s.frontier)},
                 frontier |-> ToSet(nodes) \ ToSet(s.nodes)]
BY DEF Expand, SeenOf

\* Balls around the seeds.
IsBall(b, seeds, R, m) ==
  /\ b[0] = seeds
  /\ \A d \in 1 .. m : b[d] = b[d - 1] \cup Joined(R, b[d - 1])
BallOf(R, seeds, m) ==
  CHOOSE b : b = [d \in 0 .. m |-> IF d = 0 THEN seeds ELSE b[d - 1] \cup Joined(R, b[d - 1])]

LEMMA JoinedType ==
  ASSUME NEW R \in Seq(Nat \X Nat), NEW F
  PROVE  Joined(R, F) \subseteq Nat
<1>1. \A row \in ToSet(R) : EdgeEnds(row) \subseteq Nat
  BY DEF ToSet, EdgeEnds
<1> QED
  BY <1>1 DEF Joined

LEMMA BallLaw ==
  ASSUME NEW R \in Seq(Nat \X Nat), NEW seeds \in SUBSET Nat, NEW m \in Nat
  PROVE  IsBall(BallOf(R, seeds, m), seeds, R, m)
<1> DEFINE S == SUBSET Nat
           G == [i \in 1 .. m |-> [b \in S |-> b \cup Joined(R, b)]]
           Fcn(b) == b = [d \in 0 .. m |-> IF d = 0 THEN seeds
                                           ELSE b[d - 1] \cup Joined(R, b[d - 1])]
           p == CHOOSE b : Fcn(b)
<1>1. \A i \in 1 .. m : G[i] \in [S -> S]
  <2>1. \A b \in S : b \cup Joined(R, b) \in S
    BY JoinedType
  <2> QED
    BY <2>1
<1>2. \A i \in 1 .. m : \A b \in S : G[i][b] = b \cup Joined(R, b)
  OBVIOUS
<1>3. BallOf(R, seeds, m) = p
  BY Zenon DEF BallOf
<1>4. seeds \in S
  OBVIOUS
<1> HIDE DEF G, S
<1>5. PICK f \in [0 .. m -> S] : f[0] = seeds /\ \A i \in 1 .. m : f[i] = G[i][f[i - 1]]
  <2>1. StepsOn(G, m, S)
    BY <1>1 DEF StepsOn
  <2>2. Iterated(G, m, S, seeds)
    BY <2>1, <1>4, Iterates
  <2> QED
    BY <2>2 DEF Iterated
<1>6. \A i \in 1 .. m : f[i] = f[i - 1] \cup Joined(R, f[i - 1])
  <2> TAKE i \in 1 .. m
  <2>1. i - 1 \in 0 .. m
    OBVIOUS
  <2>2. f[i - 1] \in S
    BY <2>1, <1>5
  <2> QED
    BY <2>2, <1>2, <1>5
<1>7. Fcn(f)
  <2>1. f = [i \in 0 .. m |-> f[i]]
    OBVIOUS
  <2>2. \A i \in 0 .. m : i # 0 => i \in 1 .. m
    OBVIOUS
  <2>3. \A i \in 0 .. m : f[i] = IF i = 0 THEN seeds ELSE f[i - 1] \cup Joined(R, f[i - 1])
    BY <2>2, <1>5, <1>6
  <2> QED
    BY <2>1, <2>3
<1>8. Fcn(p)
  BY <1>7, Zenon
<1> HIDE DEF p
<1>9. \A i \in 0 .. m : p[i] = IF i = 0 THEN seeds ELSE p[i - 1] \cup Joined(R, p[i - 1])
  BY <1>8
<1>10. 0 \in 0 .. m /\ \A i \in 1 .. m : i \in 0 .. m /\ i # 0
  OBVIOUS
<1>11. IsBall(p, seeds, R, m)
  BY <1>9, <1>10 DEF IsBall
<1> QED
  BY <1>3, <1>11

LEMMA ExpandType ==
  ASSUME NEW s \in Levels, NEW R \in Seq(Nat \X Nat)
  PROVE  LET t == Expand(s, R)
         IN /\ t \in Levels /\ Grown(s.nodes, t.nodes, Joined(R, s.frontier))
            /\ t.edges = s.edges \cup {row \in ToSet(R) : Touches(row, s.frontier)}
            /\ t.frontier = ToSet(t.nodes) \ ToSet(s.nodes)
<1> DEFINE t == Expand(s, R)
           q == SeenOf(s.nodes, R, s.frontier)
           E == s.edges \cup {row \in ToSet(R) : Touches(row, s.frontier)}
           F == ToSet(q) \ ToSet(s.nodes)
<1>1. t = [nodes |-> q, edges |-> E, frontier |-> F]
  BY ExpandForm
<1>2. s.nodes \in Paths
  BY DEF Levels
<1>3. Grown(s.nodes, q, Joined(R, s.frontier))
  BY <1>2, SeenLaw
<1>4. q \in Paths
  BY <1>3 DEF Grown
<1>5. E \in SUBSET (Nat \X Nat)
  BY DEF Levels, ToSet
<1> HIDE DEF q, E, t
<1>6. F \in SUBSET Nat
  BY <1>4, PathType DEF ToSet
<1> HIDE DEF F
<1>7. t \in Levels
  BY <1>1, <1>4, <1>5, <1>6 DEF Levels
<1> QED
  BY <1>1, <1>3, <1>7 DEF t, E, F

LEMMA LevelSteps ==
  ASSUME NEW seeds \in Paths, NEW R \in Seq(Nat \X Nat), NEW m \in Nat
  PROVE  \E f \in [0 .. m -> Levels] :
           /\ f[0] = [nodes |-> seeds, edges |-> {}, frontier |-> ToSet(seeds)]
           /\ \A d \in 1 .. m : f[d] = NextLevel(f[d - 1], R)
           /\ Subgraph(seeds, R, m) = f[m]
<1> DEFINE S == Levels
           z == [nodes |-> seeds, edges |-> {}, frontier |-> ToSet(seeds)]
           G == [i \in 1 .. m |-> [s \in S |-> NextLevel(s, R)]]
           Fcn(f) == f = [d \in 0 .. m |->
                            IF d = 0
                            THEN [nodes |-> seeds, edges |-> {}, frontier |-> ToSet(seeds)]
                            ELSE NextLevel(f[d - 1], R)]
           p == CHOOSE f : Fcn(f)
<1>1. \A i \in 1 .. m : G[i] \in [S -> S]
  <2>1. \A s \in S : NextLevel(s, R) \in S
    BY ExpandType DEF NextLevel
  <2> QED
    BY <2>1
<1>2. \A i \in 1 .. m : \A s \in S : G[i][s] = NextLevel(s, R)
  OBVIOUS
<1>3. Subgraph(seeds, R, m) = p[m]
  BY Zenon DEF Subgraph
<1>4. z \in S
  <2>1. ToSet(seeds) \in SUBSET Nat
    BY PathType DEF ToSet
  <2> QED
    BY <2>1 DEF Levels
<1> HIDE DEF G, S
<1>5. PICK f \in [0 .. m -> S] : f[0] = z /\ \A i \in 1 .. m : f[i] = G[i][f[i - 1]]
  <2>1. StepsOn(G, m, S)
    BY <1>1 DEF StepsOn
  <2> HIDE DEF z
  <2>2. Iterated(G, m, S, z)
    BY <2>1, <1>4, Iterates
  <2> QED
    BY <2>2 DEF Iterated
<1>6. \A i \in 1 .. m : f[i] = NextLevel(f[i - 1], R)
  <2> TAKE i \in 1 .. m
  <2>1. i - 1 \in 0 .. m
    OBVIOUS
  <2>2. f[i - 1] \in S
    BY <2>1, <1>5
  <2> QED
    BY <2>2, <1>2, <1>5
<1>7. Fcn(f)
  <2>1. f = [i \in 0 .. m |-> f[i]]
    OBVIOUS
  <2>2. \A i \in 0 .. m : i # 0 => i \in 1 .. m
    OBVIOUS
  <2>3. \A i \in 0 .. m : f[i] = IF i = 0 THEN z ELSE NextLevel(f[i - 1], R)
    BY <2>2, <1>5, <1>6
  <2> QED
    BY <2>1, <2>3
<1>8. Fcn(p)
  BY <1>7, Zenon
<1> HIDE DEF p
<1>9. \A i \in 0 .. m : p[i] = IF i = 0 THEN z ELSE NextLevel(p[i - 1], R)
  BY <1>8
<1> HIDE DEF Fcn, z
<1>10. \A i \in 0 .. m : p[i] = f[i]
  <2> DEFINE T == {i \in Nat : i <= m => p[i] = f[i]}
  <2>1. 0 \in T
    <3>1. 0 \in 0 .. m /\ 0 \in Nat
      OBVIOUS
    <3>2. p[0] = z /\ f[0] = z
      BY <3>1, <1>5, <1>9
    <3> QED
      BY <3>1, <3>2
  <2>2. ASSUME NEW i \in Nat, i \in T PROVE i + 1 \in T
    <3> SUFFICES ASSUME i + 1 <= m PROVE p[i + 1] = f[i + 1]
      OBVIOUS
    <3>1. i + 1 \in 1 .. m /\ i + 1 \in 0 .. m /\ i + 1 # 0 /\ (i + 1) - 1 = i /\ i <= m
      OBVIOUS
    <3> QED
      BY <3>1, <2>2, <1>6, <1>9
  <2> HIDE DEF T
  <2>3. Nat \subseteq T
    BY <2>1, <2>2, NatInd
  <2> QED
    BY <2>3 DEF T
<1>11. m \in 0 .. m
  OBVIOUS
<1>12. Subgraph(seeds, R, m) = f[m]
  BY <1>3, <1>10, <1>11
<1> QED
  BY <1>5, <1>6, <1>12 DEF S, z

LEMMA PathLen ==
  ASSUME NEW q \in Paths
  PROVE  IsFiniteSet(ToSet(q)) /\ Cardinality(ToSet(q)) = Len(q)
<1> DEFINE n == Len(q)
           T == ToSet(q)
<1>1. n \in Nat /\ DOMAIN q = 1 .. n /\ IsInjective(q) /\ q \in Seq(Nat)
  BY PathType
<1>2. q \in [1 .. n -> T] /\ \A t \in T : \E i \in 1 .. n : q[i] = t
  BY <1>1 DEF ToSet
<1> HIDE DEF n, T
<1>3. q \in Bijection(1 .. n, T)
  BY <1>1, <1>2 DEF Bijection, Injection, Surjection, IsInjective
<1>4. IsFiniteSet(1 .. n) /\ Cardinality(1 .. n) = n
  BY <1>1, FS_Interval
<1> QED
  BY <1>3, <1>4, FS_Bijection DEF ExistsBijection, n, T

\* The search after d rounds has the ball of that radius, or, if the cap was
\* reached, of the radius it was reached at; what the edges of nodes that
\* are no longer in the frontier join is among the nodes.
ReachedAt(s, b, d, e) ==
  /\ ToSet(s.nodes) = b[e]
  /\ \A k \in 0 .. (e - 1) : ~ (Cardinality(b[k]) >= NodeCap)
  /\ e = d \/ Cardinality(b[e]) >= NodeCap
Searched(s, b, d, R, seeds) ==
  /\ s \in Levels /\ Leads(seeds, s.nodes) /\ s.frontier \subseteq ToSet(s.nodes)
  /\ \A row \in s.edges : EdgeEnds(row) \subseteq ToSet(s.nodes)
  /\ Joined(R, ToSet(s.nodes) \ s.frontier) \subseteq ToSet(s.nodes)
  /\ \E e \in 0 .. d : ReachedAt(s, b, d, e)

LEMMA JoinedUnion ==
  ASSUME NEW R, NEW F, NEW H
  PROVE  Joined(R, F \cup H) = Joined(R, F) \cup Joined(R, H)
<1>1. \A row : Touches(row, F \cup H) <=> Touches(row, F) \/ Touches(row, H)
  BY DEF Touches
<1> QED
  BY <1>1 DEF Joined

LEMMA JoinedWithin ==
  ASSUME NEW R, NEW F, NEW row \in ToSet(R), Touches(row, F)
  PROVE  EdgeEnds(row) \subseteq Joined(R, F)
BY DEF Joined

\* A round that looks for more.
LEMMA ExpandSearches ==
  ASSUME NEW R \in Seq(Nat \X Nat), NEW seeds \in Paths, NEW m \in Nat,
         NEW b, IsBall(b, ToSet(seeds), R, m),
         NEW d \in Nat, d + 1 <= m, NEW s, Searched(s, b, d, R, seeds),
         Len(s.nodes) < NodeCap
  PROVE  Searched(Expand(s, R), b, d + 1, R, seeds)
<1> DEFINE t == Expand(s, R)
           old == ToSet(s.nodes)
           new == ToSet(t.nodes)
           F == s.frontier
<1>1. /\ s \in Levels /\ Leads(seeds, s.nodes) /\ F \subseteq old
      /\ \A row \in s.edges : EdgeEnds(row) \subseteq old
      /\ Joined(R, old \ F) \subseteq old
  BY DEF Searched
<1>2. /\ t \in Levels /\ Grown(s.nodes, t.nodes, Joined(R, F))
      /\ t.edges = s.edges \cup {row \in ToSet(R) : Touches(row, F)}
      /\ t.frontier = new \ old
  BY <1>1, ExpandType
<1>3. s.nodes \in Paths /\ t.nodes \in Paths /\ Leads(s.nodes, t.nodes)
      /\ new = old \cup Joined(R, F)
  BY <1>1, <1>2 DEF Grown, Levels
<1>4. Cardinality(old) = Len(s.nodes) /\ Len(s.nodes) \in Nat /\ NodeCap \in Nat
  BY <1>3, PathLen, PathType, GraphMergeAssumption
<1>5. PICK e \in 0 .. d : ReachedAt(s, b, d, e)
  BY DEF Searched
<1> HIDE DEF t, old, new, F
<1>6. e = d /\ b[d] = old /\ \A k \in 0 .. (d - 1) : ~ (Cardinality(b[k]) >= NodeCap)
  BY <1>4, <1>5 DEF ReachedAt, old
<1>7. b[d + 1] = new
  <2>1. d + 1 \in 1 .. m /\ (d + 1) - 1 = d
    OBVIOUS
  <2>2. b[d + 1] = old \cup Joined(R, old)
    BY <2>1, <1>6 DEF IsBall
  <2>3. Joined(R, (old \ F) \cup F) = Joined(R, old \ F) \cup Joined(R, F)
    BY JoinedUnion
  <2>4. (old \ F) \cup F = old
    BY <1>1
  <2>5. Joined(R, old) = Joined(R, old \ F) \cup Joined(R, F)
    BY <2>3, <2>4
  <2> QED
    BY <2>2, <2>5, <1>1, <1>3
<1>8. ReachedAt(t, b, d + 1, d + 1)
  <2>1. \A k \in 0 .. ((d + 1) - 1) : k = d \/ k \in 0 .. (d - 1)
    OBVIOUS
  <2>2. \A k \in 0 .. ((d + 1) - 1) : ~ (Cardinality(b[k]) >= NodeCap)
    BY <2>1, <1>4, <1>6
  <2> QED
    BY <2>2, <1>7 DEF ReachedAt, new
<1>9. Leads(seeds, t.nodes)
  <2>1. Len(seeds) \in Nat /\ Len(s.nodes) \in Nat /\ Len(t.nodes) \in Nat
    BY <1>3, PathType
  <2>2. \A i \in 1 .. Len(seeds) : i \in 1 .. Len(s.nodes)
    BY <1>1, <2>1 DEF Leads
  <2> QED
    BY <2>1, <2>2, <1>1, <1>3 DEF Leads
<1>10. \A row \in t.edges : EdgeEnds(row) \subseteq new
  <2> TAKE row \in t.edges
  <2>1. CASE row \in s.edges
    BY <2>1, <1>1, <1>3
  <2>2. CASE row \in ToSet(R) /\ Touches(row, F)
    BY <2>2, <1>3, JoinedWithin
  <2> QED
    BY <2>1, <2>2, <1>2
<1>11. Joined(R, new \ t.frontier) \subseteq new
  <2>1. new \ t.frontier = old
    BY <1>2, <1>3
  <2>2. (old \ F) \cup F = old
    BY <1>1
  <2>3. Joined(R, (old \ F) \cup F) = Joined(R, old \ F) \cup Joined(R, F)
    BY JoinedUnion
  <2>4. Joined(R, old) = Joined(R, old \ F) \cup Joined(R, F)
    BY <2>2, <2>3
  <2> QED
    BY <2>1, <2>4, <1>1, <1>3
<1>12. t.frontier \subseteq new
  BY <1>2
<1>13. d + 1 \in 0 .. d + 1
  OBVIOUS
<1>14. \E k \in 0 .. d + 1 : ReachedAt(t, b, d + 1, k)
  BY <1>8, <1>13
<1> QED
  BY <1>2, <1>9, <1>10, <1>11, <1>12, <1>14 DEF Searched, t, new

\* A round that stops.
LEMMA StopSearches ==
  ASSUME NEW R \in Seq(Nat \X Nat), NEW seeds \in Paths, NEW m \in Nat,
         NEW b, IsBall(b, ToSet(seeds), R, m),
         NEW d \in Nat, d + 1 <= m, NEW s, Searched(s, b, d, R, seeds),
         s.frontier = {} \/ Len(s.nodes) >= NodeCap
  PROVE  Searched(s, b, d + 1, R, seeds)
<1> DEFINE old == ToSet(s.nodes)
<1>1. s \in Levels /\ Joined(R, old \ s.frontier) \subseteq old
  BY DEF Searched
<1>2. s.nodes \in Paths
  BY <1>1 DEF Levels
<1>3. Cardinality(old) = Len(s.nodes) /\ Len(s.nodes) \in Nat /\ NodeCap \in Nat
  BY <1>2, PathLen, PathType, GraphMergeAssumption
<1>4. PICK e \in 0 .. d : ReachedAt(s, b, d, e)
  BY DEF Searched
<1> HIDE DEF old
<1>5. /\ b[e] = old /\ \A k \in 0 .. (e - 1) : ~ (Cardinality(b[k]) >= NodeCap)
      /\ e = d \/ Cardinality(b[e]) >= NodeCap
  BY <1>4 DEF ReachedAt, old
<1>6. CASE Len(s.nodes) >= NodeCap
  <2>1. ReachedAt(s, b, d + 1, e) /\ e \in 0 .. d + 1
    BY <1>3, <1>5, <1>6 DEF ReachedAt, old
  <2>2. \E k \in 0 .. d + 1 : ReachedAt(s, b, d + 1, k)
    BY <2>1
  <2> QED
    BY <2>2 DEF Searched
<1>7. CASE ~ (Len(s.nodes) >= NodeCap)
  <2>1. e = d /\ ~ (Cardinality(old) >= NodeCap)
    BY <1>3, <1>5, <1>7
  <2>2. s.frontier = {}
    BY <1>7
  <2>3. old \ s.frontier = old
    BY <2>2
  <2>4. d + 1 \in 1 .. m /\ (d + 1) - 1 = d
    OBVIOUS
  <2>5. b[d + 1] = old
    BY <2>1, <2>3, <2>4, <1>1, <1>5 DEF IsBall
  <2>6. \A k \in 0 .. ((d + 1) - 1) : k = d \/ k \in 0 .. (d - 1)
    OBVIOUS
  <2>7. \A k \in 0 .. ((d + 1) - 1) : ~ (Cardinality(b[k]) >= NodeCap)
    BY <2>1, <2>6, <1>5
  <2>8. ReachedAt(s, b, d + 1, d + 1) /\ d + 1 \in 0 .. d + 1
    BY <2>5, <2>7 DEF ReachedAt, old
  <2>9. \E k \in 0 .. d + 1 : ReachedAt(s, b, d + 1, k)
    BY <2>8
  <2> QED
    BY <2>9 DEF Searched
<1> QED
  BY <1>6, <1>7

LEMMA SearchLaw ==
  ASSUME NEW R \in Seq(Nat \X Nat), NEW seeds \in Paths, NEW m \in Nat,
         NEW b, IsBall(b, ToSet(seeds), R, m)
  PROVE  Searched(Subgraph(seeds, R, m), b, m, R, seeds)
<1>1. PICK f \in [0 .. m -> Levels] :
        /\ f[0] = [nodes |-> seeds, edges |-> {}, frontier |-> ToSet(seeds)]
        /\ \A d \in 1 .. m : f[d] = NextLevel(f[d - 1], R)
        /\ Subgraph(seeds, R, m) = f[m]
  BY LevelSteps
<1> DEFINE T == {d \in Nat : d <= m => Searched(f[d], b, d, R, seeds)}
<1>2. 0 \in T
  <2> DEFINE s == f[0]
  <2>0. 0 \in 0 .. m
    OBVIOUS
  <2>1. s.nodes = seeds /\ s.edges = {} /\ s.frontier = ToSet(seeds) /\ s \in Levels
    <3>1. s = [nodes |-> seeds, edges |-> {}, frontier |-> ToSet(seeds)]
      BY <1>1
    <3>2. s \in Levels
      BY <2>0, <1>1
    <3> HIDE DEF s
    <3> QED
      BY <3>1, <3>2
  <2> HIDE DEF s
  <2>2. ToSet(s.nodes) \ s.frontier = {}
    BY <2>1
  <2>3. Joined(R, {}) = {}
    BY DEF Joined, Touches
  <2>4. Leads(seeds, seeds)
    BY PathType DEF Leads
  <2>5. ReachedAt(s, b, 0, 0)
    BY <2>1 DEF ReachedAt, IsBall
  <2>6. \E e \in 0 .. 0 : ReachedAt(s, b, 0, e)
    BY <2>5
  <2>7. Searched(s, b, 0, R, seeds)
    BY <2>1, <2>2, <2>3, <2>4, <2>6 DEF Searched
  <2> QED
    BY <2>7 DEF s
<1>3. ASSUME NEW d \in Nat, d \in T PROVE d + 1 \in T
  <2> SUFFICES ASSUME d + 1 <= m PROVE Searched(f[d + 1], b, d + 1, R, seeds)
    OBVIOUS
  <2> DEFINE s == f[d]
  <2>1. d + 1 \in 1 .. m /\ (d + 1) - 1 = d /\ d <= m
    OBVIOUS
  <2>2. f[d + 1] = NextLevel(s, R)
    BY <2>1, <1>1
  <2>3. Searched(s, b, d, R, seeds)
    BY <2>1, <1>3
  <2> HIDE DEF s
  <2>4. CASE s.frontier = {} \/ Len(s.nodes) >= NodeCap
    <3>1. NextLevel(s, R) = s
      BY <2>4 DEF NextLevel
    <3> QED
      BY <3>1, <2>2, <2>3, <2>4, StopSearches
  <2>5. CASE ~ (s.frontier = {} \/ Len(s.nodes) >= NodeCap)
    <3>1. NextLevel(s, R) = Expand(s, R)
      BY <2>5 DEF NextLevel
    <3>2. s.nodes \in Paths
      BY <2>3 DEF Searched, Levels
    <3>3. Len(s.nodes) < NodeCap
      BY <3>2, <2>5, PathType, GraphMergeAssumption
    <3> QED
      BY <3>1, <3>3, <2>2, <2>3, ExpandSearches
  <2> QED
    BY <2>4, <2>5
<1> HIDE DEF T
<1>4. Nat \subseteq T
  BY <1>2, <1>3, NatInd
<1> QED
  BY <1>1, <1>4 DEF T

\* The cases of the subgraph query, of any rows and depth.
SubgraphCase ==
  /\ merging.kind = "subgraph" /\ merging.depth \in Nat
  /\ merging.rows \in Seq(Nat \X Nat) /\ merging.seeds \in Paths
  /\ merging.found = Subgraph(merging.seeds, merging.rows, merging.depth)

LEMMA PrefixLaw ==
  ASSUME NEW q \in Paths, NEW r \in Paths, Leads(q, r)
  PROVE  IsPrefix(q, r)
<1>1. Len(q) <= Len(r) /\ q \in Seq(Nat) /\ r \in Seq(Nat)
  BY PathType DEF Leads
<1>2. Len(q) \in Nat /\ Len(r) \in Nat /\ DOMAIN q = 1 .. Len(q)
  BY PathType
<1>3. \A i \in 1 .. Len(q) : q[i] = r[i] /\ i \in 1 .. Len(r)
  BY <1>1, <1>2 DEF Leads
<1> DEFINE n == Len(q)
<1>4. SubSeq(q, 1, n) = [i \in 1 .. n |-> q[i]]
  BY <1>1, <1>2, <1>3
<1>5. SubSeq(r, 1, n) = [i \in 1 .. n |-> r[i]]
  BY <1>1, <1>2, <1>3
<1>6. SubSeq(q, 1, n) = SubSeq(r, 1, n)
  BY <1>3, <1>4, <1>5
<1> QED
  BY <1>1, <1>6 DEF IsPrefix

LEMMA SubgraphsReach == ASSUME SubgraphCase PROVE SubgraphReach
<1> DEFINE R == merging.rows
           seeds == merging.seeds
           m == merging.depth
           s == merging.found
           b == BallOf(R, ToSet(seeds), m)
           full(d) == d = m \/ Cardinality(b[d]) >= NodeCap
<1>1. /\ R \in Seq(Nat \X Nat) /\ seeds \in Paths /\ m \in Nat
      /\ s = Subgraph(seeds, R, m)
  BY DEF SubgraphCase
<1>2. ToSet(seeds) \in SUBSET Nat
  BY <1>1, PathType DEF ToSet
<1>3. IsBall(b, ToSet(seeds), R, m)
  BY <1>1, <1>2, BallLaw
<1>4. Searched(s, b, m, R, seeds)
  BY <1>1, <1>3, SearchLaw
<1>5. s.nodes \in Paths /\ Leads(seeds, s.nodes)
      /\ \A row \in s.edges : EdgeEnds(row) \subseteq ToSet(s.nodes)
  BY <1>4 DEF Searched, Levels
<1>6. IsPrefix(seeds, s.nodes) /\ IsInjective(s.nodes)
  BY <1>1, <1>5, PrefixLaw, PathType
<1>7. PICK e \in 0 .. m : ReachedAt(s, b, m, e)
  BY <1>4 DEF Searched
<1>8. \E d \in 0 .. m : /\ full(d) /\ \A k \in 0 .. (d - 1) : ~ full(k)
                        /\ ToSet(s.nodes) = b[d]
  <2> HIDE DEF b, m, s
  <2>1. full(e) /\ ToSet(s.nodes) = b[e]
    BY <1>7 DEF ReachedAt
  <2>2. ASSUME NEW k \in 0 .. (e - 1) PROVE ~ full(k)
    <3>1. k # m
      BY <1>1
    <3> QED
      BY <3>1, <1>7 DEF ReachedAt
  <2> QED
    BY <2>1, <2>2
<1> DEFINE ball == CHOOSE f : f = [d \in 0 .. m |->
                      IF d = 0 THEN ToSet(seeds)
                      ELSE f[d - 1] \cup UNION {EdgeEnds(row) : row \in
                             {r \in ToSet(R) : Touches(r, f[d - 1])}}]
<1>9. b = ball
  BY DEF BallOf, Joined
<1> HIDE DEF b
<1>10. \E d \in 0 .. m : /\ d = m \/ Cardinality(ball[d]) >= NodeCap
                         /\ \A k \in 0 .. (d - 1) : ~ (k = m \/ Cardinality(ball[k]) >= NodeCap)
                         /\ ToSet(s.nodes) = ball[d]
  BY <1>8, <1>9
<1> QED
  BY <1>5, <1>6, <1>10, Zenon DEF SubgraphReach

-----------------------------------------------------------------------------
(* GraphMerge: communities.                                                 *)

Labellings == [Names -> Names]
Share(tie, labels, n, l, m) == IF labels[m] = l THEN tie[{m, n}] ELSE 0

LEMMA TieType ==
  ASSUME NEW tie \in Ties, NEW m \in Names, NEW n \in Names
  PROVE  tie[{m, n}] \in 0 .. 2
<1>1. {m, n} \in Pairs_
  BY DEF Pairs_
<1> QED
  BY <1>1 DEF Ties

LEMMA VotesSteps ==
  ASSUME NEW tie \in Ties, NEW labels \in Labellings, NEW n \in Names, NEW l
  PROVE  \E f \in [0 .. NumNames -> Nat] :
           /\ f[0] = 0
           /\ \A m \in 1 .. NumNames : f[m] = f[m - 1] + Share(tie, labels, n, l, m)
           /\ Votes(tie, labels, n, l) = f[NumNames]
<1> DEFINE N == NumNames
           G == [m \in 1 .. N |-> [x \in Nat |-> x + Share(tie, labels, n, l, m)]]
           Fcn(f) == f = [m \in 0 .. N |->
                            IF m = 0 THEN 0
                            ELSE f[m - 1] + (IF labels[m] = l THEN tie[{m, n}] ELSE 0)]
           p == CHOOSE f : Fcn(f)
<1>1. N \in Nat
  BY GraphMergeAssumption
<1>2. \A m \in 1 .. N : Share(tie, labels, n, l, m) \in Nat
  BY TieType DEF Share, Names
<1>3. \A m \in 1 .. N : G[m] \in [Nat -> Nat]
  BY <1>2
<1>4. \A m \in 1 .. N : \A x \in Nat : G[m][x] = x + Share(tie, labels, n, l, m)
  OBVIOUS
<1>5. Votes(tie, labels, n, l) = p[N]
  BY Zenon DEF Votes
<1> HIDE DEF G, N
<1>6. PICK f \in [0 .. N -> Nat] : f[0] = 0 /\ \A m \in 1 .. N : f[m] = G[m][f[m - 1]]
  <2>1. StepsOn(G, N, Nat)
    BY <1>3 DEF StepsOn
  <2>2. Iterated(G, N, Nat, 0)
    BY <2>1, <1>1, Iterates
  <2> QED
    BY <2>2 DEF Iterated
<1>7. \A m \in 1 .. N : f[m] = f[m - 1] + Share(tie, labels, n, l, m)
  <2> TAKE m \in 1 .. N
  <2>1. m - 1 \in 0 .. N
    BY <1>1
  <2>2. f[m - 1] \in Nat
    BY <2>1, <1>6
  <2> QED
    BY <2>2, <1>4, <1>6
<1>8. Fcn(f)
  <2>1. f = [m \in 0 .. N |-> f[m]]
    OBVIOUS
  <2>2. \A m \in 0 .. N : m # 0 => m \in 1 .. N
    BY <1>1
  <2>3. \A m \in 0 .. N : f[m] = IF m = 0 THEN 0
          ELSE f[m - 1] + (IF labels[m] = l THEN tie[{m, n}] ELSE 0)
    BY <2>2, <1>6, <1>7 DEF Share
  <2> QED
    BY <2>1, <2>3
<1>9. Fcn(p)
  BY <1>8, Zenon
<1> HIDE DEF p
<1>10. \A m \in 0 .. N : p[m] = IF m = 0 THEN 0 ELSE p[m - 1] + Share(tie, labels, n, l, m)
  BY <1>9 DEF Share
<1> HIDE DEF Fcn
<1>11. \A m \in 0 .. N : p[m] = f[m]
  <2> DEFINE T == {m \in Nat : m <= N => p[m] = f[m]}
  <2>1. 0 \in T
    BY <1>1, <1>6, <1>10
  <2>2. ASSUME NEW m \in Nat, m \in T PROVE m + 1 \in T
    <3> SUFFICES ASSUME m + 1 <= N PROVE p[m + 1] = f[m + 1]
      OBVIOUS
    <3>1. m + 1 \in 1 .. N /\ m + 1 \in 0 .. N /\ m + 1 # 0 /\ (m + 1) - 1 = m /\ m <= N
      BY <1>1
    <3> QED
      BY <3>1, <2>2, <1>7, <1>10
  <2> HIDE DEF T
  <2>3. Nat \subseteq T
    BY <2>1, <2>2, NatInd
  <2> QED
    BY <2>3, <1>1 DEF T
<1>12. N \in 0 .. N
  BY <1>1
<1>13. Votes(tie, labels, n, l) = f[N]
  BY <1>5, <1>11, <1>12
<1> QED
  BY <1>6, <1>7, <1>13 DEF N

\* Votes are no more than the weights allow, none without a voter, and each
\* voter's are among them.
LEMMA VotesLaw ==
  ASSUME NEW tie \in Ties, NEW labels \in Labellings, NEW n \in Names, NEW l
  PROVE  /\ Votes(tie, labels, n, l) \in 0 .. 2 * NumNames
         /\ (\A m \in Names : Share(tie, labels, n, l, m) = 0) => Votes(tie, labels, n, l) = 0
         /\ \A m \in Names : Votes(tie, labels, n, l) >= Share(tie, labels, n, l, m)
<1> DEFINE N == NumNames
           x(m) == Share(tie, labels, n, l, m)
<1>1. PICK f \in [0 .. N -> Nat] :
        /\ f[0] = 0 /\ \A m \in 1 .. N : f[m] = f[m - 1] + x(m)
        /\ Votes(tie, labels, n, l) = f[N]
  BY VotesSteps
<1>2. N \in Nat /\ Names = 1 .. N
  BY GraphMergeAssumption DEF Names
<1>3. \A m \in 1 .. N : x(m) \in 0 .. 2
  <2> TAKE m \in 1 .. N
  <2>1. tie[{m, n}] \in 0 .. 2
    BY <1>2, TieType
  <2> QED
    BY <2>1 DEF Share
<1> HIDE DEF N, x
<1> DEFINE T == {m \in Nat : m <= N => /\ f[m] \in 0 .. 2 * m
                                       /\ (\A k \in 1 .. m : x(k) = 0) => f[m] = 0
                                       /\ \A k \in 1 .. m : f[m] >= x(k)}
<1>4. 0 \in T
  BY <1>1
<1>5. ASSUME NEW m \in Nat, m \in T PROVE m + 1 \in T
  <2> SUFFICES ASSUME m + 1 <= N
               PROVE  /\ f[m + 1] \in 0 .. 2 * (m + 1)
                      /\ (\A k \in 1 .. m + 1 : x(k) = 0) => f[m + 1] = 0
                      /\ \A k \in 1 .. m + 1 : f[m + 1] >= x(k)
    OBVIOUS
  <2>1. m + 1 \in 1 .. N /\ (m + 1) - 1 = m /\ m <= N /\ m \in 0 .. N
    BY <1>2
  <2>2. /\ f[m] \in 0 .. 2 * m
        /\ (\A k \in 1 .. m : x(k) = 0) => f[m] = 0
        /\ \A k \in 1 .. m : f[m] >= x(k)
    BY <2>1, <1>5
  <2> HIDE DEF T
  <2> DEFINE y == f[m]
             z == x(m + 1)
  <2>3. f[m + 1] = y + z /\ y \in 0 .. 2 * m /\ z \in 0 .. 2
    BY <2>1, <2>2, <1>1, <1>3
  <2>4. \A k \in 1 .. m + 1 : k = m + 1 \/ k \in 1 .. m
    OBVIOUS
  <2>5. \A k \in 1 .. m : y >= x(k) /\ x(k) \in 0 .. 2
    <3>1. \A k \in 1 .. m : k \in 1 .. N
      BY <2>1, <1>2
    <3> QED
      BY <3>1, <2>2, <1>3
  <2>6. (\A k \in 1 .. m + 1 : x(k) = 0) => f[m + 1] = 0
    <3> SUFFICES ASSUME \A k \in 1 .. m + 1 : x(k) = 0 PROVE f[m + 1] = 0
      OBVIOUS
    <3>1. m + 1 \in 1 .. m + 1 /\ \A k \in 1 .. m : k \in 1 .. m + 1
      OBVIOUS
    <3>2. y = 0 /\ z = 0
      BY <3>1, <2>2
    <3> QED
      BY <3>2, <2>3
  <2> HIDE DEF y
  <2>7. \A k \in 1 .. m : y + z >= x(k)
    BY <2>3, <2>5
  <2>8. y + z >= z
    BY <2>3
  <2> HIDE DEF z
  <2>9. y + z \in 0 .. 2 * (m + 1)
    BY <2>3
  <2>10. \A k \in 1 .. m + 1 : f[m + 1] >= x(k)
    BY <2>3, <2>4, <2>7, <2>8 DEF z
  <2> QED
    BY <2>3, <2>6, <2>9, <2>10
<1> HIDE DEF T
<1>6. Nat \subseteq T
  BY <1>4, <1>5, NatInd
<1>7. /\ f[N] \in 0 .. 2 * N
      /\ (\A k \in 1 .. N : x(k) = 0) => f[N] = 0
      /\ \A k \in 1 .. N : f[N] >= x(k)
  BY <1>2, <1>6 DEF T
<1> QED
  BY <1>1, <1>2, <1>7 DEF N, x

Heard(tie, labels, n) == {labels[m] : m \in {k \in Names : tie[{k, n}] > 0}}
Preferred(tie, labels, n, l) ==
  /\ l \in Heard(tie, labels, n)
  /\ \A k \in Heard(tie, labels, n) : Votes(tie, labels, n, l) >= Votes(tie, labels, n, k)

LEMMA BestLaw ==
  ASSUME NEW tie \in Ties, NEW labels \in Labellings, NEW n \in Names
  PROVE  IF Heard(tie, labels, n) = {} THEN BestLabel(tie, labels, n) = labels[n]
         ELSE Preferred(tie, labels, n, BestLabel(tie, labels, n))
<1> DEFINE heard == Heard(tie, labels, n)
           v == [l \in Names |-> Votes(tie, labels, n, l)]
           B == 2 * NumNames
           best == CHOOSE l \in heard : \A k \in heard :
                     \/ Votes(tie, labels, n, l) > Votes(tie, labels, n, k)
                     \/ Votes(tie, labels, n, l) = Votes(tie, labels, n, k) /\ l <= k
<1>1. BestLabel(tie, labels, n) = IF heard = {} THEN labels[n] ELSE best
  BY DEF BestLabel, Heard
<1>2. heard \subseteq Names /\ B \in Nat /\ Names \subseteq Nat
  <2>1. \A m \in Names : labels[m] \in Names
    BY DEF Labellings
  <2>2. heard \subseteq Names
    BY <2>1 DEF Heard
  <2>3. B \in Nat /\ Names \subseteq Nat
    BY GraphMergeAssumption DEF Names
  <2> QED
    BY <2>2, <2>3
<1>3. \A l \in Names : v[l] = Votes(tie, labels, n, l) /\ v[l] \in 0 .. B
  BY VotesLaw
<1> HIDE DEF heard, v, B
<1>4. ASSUME heard # {}
      PROVE  \E l \in heard : \A k \in heard : v[l] > v[k] \/ (v[l] = v[k] /\ l <= k)
  <2> DEFINE T == {B - v[l] : l \in heard}
  <2>1. T \in SUBSET Nat /\ T # {}
    <3>1. \A l \in heard : v[l] \in 0 .. B
      BY <1>2, <1>3
    <3>2. \A l \in heard : B - v[l] \in Nat
      BY <3>1, <1>2
    <3> QED
      BY <3>2, <1>4
  <2>2. PICK t \in T : \A u \in T : t <= u
    BY <2>1, LeastOf
  <2>3. PICK a \in heard : t = B - v[a]
    OBVIOUS
  <2>4. \A k \in heard : B - v[a] <= B - v[k]
    BY <2>2, <2>3
  <2> DEFINE U == {l \in heard : v[l] = v[a]}
  <2>5. U \in SUBSET Nat /\ U # {}
    BY <1>2
  <2>6. PICK l \in U : \A k \in U : l <= k
    BY <2>5, LeastOf
  <2>7. ASSUME NEW k \in heard PROVE v[l] > v[k] \/ (v[l] = v[k] /\ l <= k)
    <3>1. v[l] = v[a] /\ v[a] \in 0 .. B /\ v[k] \in 0 .. B
      BY <1>2, <1>3, <2>6
    <3>2. v[a] >= v[k]
      BY <3>1, <2>4, <1>2
    <3>3. v[k] = v[a] => l <= k
      BY <2>6
    <3> QED
      BY <3>1, <3>2, <3>3
  <2> QED
    BY <2>6, <2>7
<1>5. ASSUME heard # {} PROVE Preferred(tie, labels, n, best)
  <2>1. \E l \in heard : \A k \in heard :
          \/ Votes(tie, labels, n, l) > Votes(tie, labels, n, k)
          \/ Votes(tie, labels, n, l) = Votes(tie, labels, n, k) /\ l <= k
    BY <1>2, <1>3, <1>4, <1>5
  <2>2. best \in heard /\ \A k \in heard :
          \/ Votes(tie, labels, n, best) > Votes(tie, labels, n, k)
          \/ Votes(tie, labels, n, best) = Votes(tie, labels, n, k) /\ best <= k
    BY <2>1, Zenon
  <2> HIDE DEF best
  <2>3. \A k \in heard : Votes(tie, labels, n, k) \in Nat
    BY <1>2, VotesLaw
  <2> QED
    BY <2>2, <2>3 DEF Preferred, heard
<1> HIDE DEF best
<1> QED
  BY <1>1, <1>5 DEF heard

LEMMA BestType ==
  ASSUME NEW tie \in Ties, NEW labels \in Labellings, NEW n \in Names
  PROVE  BestLabel(tie, labels, n) \in Names
<1>1. Heard(tie, labels, n) \subseteq Names /\ labels[n] \in Names
  BY DEF Heard, Labellings
<1> QED
  BY <1>1, BestLaw DEF Preferred

Told(tie, labels, n) == [labels EXCEPT ![n] = BestLabel(tie, labels, n)]

LEMMA ToldType ==
  ASSUME NEW tie \in Ties, NEW labels \in Labellings, NEW n \in Names
  PROVE  Told(tie, labels, n) \in Labellings
BY BestType DEF Told, Labellings

LEMMA RoundSteps ==
  ASSUME NEW tie \in Ties, NEW labels \in Labellings
  PROVE  \E f \in [0 .. NumNames -> Labellings] :
           /\ f[0] = labels
           /\ \A n \in 1 .. NumNames : f[n] = Told(tie, f[n - 1], n)
           /\ Round(tie, labels) = f[NumNames]
<1> DEFINE N == NumNames
           S == Labellings
           G == [n \in 1 .. N |-> [ls \in S |-> Told(tie, ls, n)]]
           Fcn(f) == f = [n \in 0 .. N |->
                            IF n = 0 THEN labels
                            ELSE [f[n - 1] EXCEPT ![n] = BestLabel(tie, f[n - 1], n)]]
           p == CHOOSE f : Fcn(f)
<1>1. N \in Nat
  BY GraphMergeAssumption
<1>2. \A n \in 1 .. N : G[n] \in [S -> S]
  <2>1. \A n \in 1 .. N : \A ls \in S : Told(tie, ls, n) \in S
    BY ToldType DEF Names
  <2> QED
    BY <2>1
<1>3. \A n \in 1 .. N : \A ls \in S : G[n][ls] = Told(tie, ls, n)
  OBVIOUS
<1>4. Round(tie, labels) = p[N]
  BY Zenon DEF Round
<1> HIDE DEF G, N, S
<1>5. PICK f \in [0 .. N -> S] : f[0] = labels /\ \A n \in 1 .. N : f[n] = G[n][f[n - 1]]
  <2>1. StepsOn(G, N, S)
    BY <1>2 DEF StepsOn
  <2>2. labels \in S
    BY DEF S
  <2>3. Iterated(G, N, S, labels)
    BY <2>1, <2>2, <1>1, Iterates
  <2> QED
    BY <2>3 DEF Iterated
<1>6. \A n \in 1 .. N : f[n] = Told(tie, f[n - 1], n)
  <2> TAKE n \in 1 .. N
  <2>1. n - 1 \in 0 .. N
    BY <1>1
  <2>2. f[n - 1] \in S
    BY <2>1, <1>5
  <2> QED
    BY <2>2, <1>3, <1>5
<1>7. Fcn(f)
  <2>1. f = [n \in 0 .. N |-> f[n]]
    OBVIOUS
  <2>2. \A n \in 0 .. N : n # 0 => n \in 1 .. N
    BY <1>1
  <2>3. \A n \in 0 .. N : f[n] = IF n = 0 THEN labels
          ELSE [f[n - 1] EXCEPT ![n] = BestLabel(tie, f[n - 1], n)]
    BY <2>2, <1>5, <1>6 DEF Told
  <2> QED
    BY <2>1, <2>3
<1>8. Fcn(p)
  BY <1>7, Zenon
<1> HIDE DEF p
<1>9. \A n \in 0 .. N : p[n] = IF n = 0 THEN labels ELSE Told(tie, p[n - 1], n)
  BY <1>8 DEF Told
<1> HIDE DEF Fcn
<1>10. \A n \in 0 .. N : p[n] = f[n]
  <2> DEFINE T == {n \in Nat : n <= N => p[n] = f[n]}
  <2>1. 0 \in T
    <3>1. 0 \in 0 .. N
      BY <1>1
    <3>2. p[0] = labels /\ f[0] = labels
      BY <3>1, <1>5, <1>9
    <3> QED
      BY <3>2
  <2>2. ASSUME NEW n \in Nat, n \in T PROVE n + 1 \in T
    <3> SUFFICES ASSUME n + 1 <= N PROVE p[n + 1] = f[n + 1]
      OBVIOUS
    <3>1. n + 1 \in 1 .. N /\ n + 1 \in 0 .. N /\ n + 1 # 0 /\ (n + 1) - 1 = n /\ n <= N
      BY <1>1
    <3> QED
      BY <3>1, <2>2, <1>6, <1>9
  <2> HIDE DEF T
  <2>3. Nat \subseteq T
    BY <2>1, <2>2, NatInd
  <2> QED
    BY <2>3, <1>1 DEF T
<1>11. N \in 0 .. N
  BY <1>1
<1>12. Round(tie, labels) = f[N]
  BY <1>4, <1>10, <1>11
<1> QED
  BY <1>5, <1>6, <1>12 DEF N, S

LEMMA RoundType ==
  ASSUME NEW tie \in Ties, NEW labels \in Labellings
  PROVE  Round(tie, labels) \in Labellings
<1>1. PICK f \in [0 .. NumNames -> Labellings] : Round(tie, labels) = f[NumNames]
  BY RoundSteps
<1>2. NumNames \in 0 .. NumNames
  BY GraphMergeAssumption
<1> QED
  BY <1>1, <1>2

\* A round that changes no label changed none on the way, since each is
\* looked at once: each is the best where it is.
LEMMA RoundSettled ==
  ASSUME NEW tie \in Ties, NEW labels \in Labellings, Round(tie, labels) = labels,
         NEW n \in Names
  PROVE  labels[n] = BestLabel(tie, labels, n)
<1> DEFINE N == NumNames
<1>1. PICK f \in [0 .. N -> Labellings] :
        /\ f[0] = labels /\ \A k \in 1 .. N : f[k] = Told(tie, f[k - 1], k)
        /\ Round(tie, labels) = f[N]
  BY RoundSteps
<1>2. N \in Nat /\ Names = 1 .. N
  BY GraphMergeAssumption DEF Names
<1> HIDE DEF N
<1>3. \A k \in 1 .. N : /\ f[k - 1] \in Labellings
                        /\ f[k][k] = BestLabel(tie, f[k - 1], k)
                        /\ \A m \in Names : m # k => f[k][m] = f[k - 1][m]
  <2> TAKE k \in 1 .. N
  <2>1. k - 1 \in 0 .. N /\ k \in Names
    BY <1>2
  <2>2. f[k - 1] \in Labellings
    BY <2>1, <1>1
  <2>3. f[k] = Told(tie, f[k - 1], k)
    BY <1>1
  <2> QED
    BY <2>1, <2>2, <2>3 DEF Told, Labellings
<1>4. \A k \in 1 .. N : f[N][k] = f[k][k]
  <2> TAKE k \in 1 .. N
  <2> DEFINE T == {i \in Nat : k + i <= N => f[k + i][k] = f[k][k]}
  <2>1. 0 \in T
    BY <1>2
  <2>2. ASSUME NEW i \in Nat, i \in T PROVE i + 1 \in T
    <3> SUFFICES ASSUME k + (i + 1) <= N PROVE f[k + (i + 1)][k] = f[k][k]
      OBVIOUS
    <3> DEFINE j == k + (i + 1)
    <3>1. j \in 1 .. N /\ j - 1 = k + i /\ k + i <= N /\ k # j /\ k \in Names
      BY <1>2
    <3>2. f[k + i][k] = f[k][k]
      BY <3>1, <2>2
    <3> HIDE DEF j
    <3>3. f[j][k] = f[j - 1][k]
      BY <3>1, <1>3
    <3> QED
      BY <3>1, <3>2, <3>3 DEF j
  <2> HIDE DEF T
  <2>3. N - k \in T
    <3>1. Nat \subseteq T
      BY <2>1, <2>2, NatInd
    <3> QED
      BY <3>1, <1>2
  <2>4. k + (N - k) = N /\ k + (N - k) <= N
    BY <1>2
  <2> QED
    BY <2>3, <2>4 DEF T
<1>5. \A k \in Nat : k <= N => f[k] = labels
  <2> DEFINE T == {k \in Nat : k <= N => f[k] = labels}
  <2>1. 0 \in T
    BY <1>1
  <2>2. ASSUME NEW i \in Nat, i \in T PROVE i + 1 \in T
    <3> SUFFICES ASSUME i + 1 <= N PROVE f[i + 1] = labels
      OBVIOUS
    <3>1. i + 1 \in 1 .. N /\ (i + 1) - 1 = i /\ i <= N /\ i + 1 \in 0 .. N
      BY <1>2
    <3>2. f[i] = labels
      BY <3>1, <2>2
    <3> DEFINE k == i + 1
    <3>3. /\ k \in 1 .. N /\ f[k] \in Labellings
          /\ \A m \in Names : m # k => f[k][m] = labels[m]
      BY <3>1, <3>2, <1>1, <1>3
    <3> HIDE DEF k
    <3>4. f[k][k] = labels[k]
      BY <3>3, <1>1, <1>4
    <3>5. \A m \in Names : f[k][m] = labels[m]
      BY <3>3, <3>4
    <3>6. f[k] = labels
      BY <3>3, <3>5 DEF Labellings
    <3> QED
      BY <3>6 DEF k
  <2> HIDE DEF T
  <2>3. Nat \subseteq T
    BY <2>1, <2>2, NatInd
  <2> QED
    BY <2>3 DEF T
<1>6. n \in 1 .. N /\ n \in Nat /\ n - 1 \in Nat /\ n - 1 <= N /\ n <= N
  BY <1>2
<1>7. f[n] = labels /\ f[n - 1] = labels
  BY <1>5, <1>6
<1> QED
  BY <1>3, <1>6, <1>7

CommunitiesCase ==
  /\ merging.kind = "communities"
  /\ merging.tie \in Ties
  /\ \A n \in Names : merging.tie[{n}] = 0
  /\ merging.labels = LabelsAfter(merging.tie)

LEMMA AfterType ==
  ASSUME NEW tie \in Ties
  PROVE  LabelsAfter(tie) \in Labellings
<1> DEFINE N == MaxRounds
           S == Labellings
           own == [n \in Names |-> n]
           G == [r \in 1 .. N |-> [ls \in S |-> Round(tie, ls)]]
           Fcn(f) == f = [r \in 0 .. N |-> IF r = 0 THEN own ELSE Round(tie, f[r - 1])]
           p == CHOOSE f : Fcn(f)
<1>1. N \in Nat
  BY GraphMergeAssumption
<1>2. \A r \in 1 .. N : G[r] \in [S -> S]
  BY RoundType
<1>3. \A r \in 1 .. N : \A ls \in S : G[r][ls] = Round(tie, ls)
  OBVIOUS
<1>4. own \in S
  BY DEF Labellings
<1>5. LabelsAfter(tie) = p[N]
  BY Zenon DEF LabelsAfter
<1> HIDE DEF G, N, S, own
<1>6. PICK f \in [0 .. N -> S] : f[0] = own /\ \A r \in 1 .. N : f[r] = G[r][f[r - 1]]
  <2>1. StepsOn(G, N, S)
    BY <1>2 DEF StepsOn
  <2>2. Iterated(G, N, S, own)
    BY <2>1, <1>1, <1>4, Iterates
  <2> QED
    BY <2>2 DEF Iterated
<1>7. \A r \in 1 .. N : f[r] = Round(tie, f[r - 1])
  <2> TAKE r \in 1 .. N
  <2>1. r - 1 \in 0 .. N
    BY <1>1
  <2>2. f[r - 1] \in S
    BY <2>1, <1>6
  <2> QED
    BY <2>2, <1>3, <1>6
<1>8. Fcn(f)
  <2>1. f = [r \in 0 .. N |-> f[r]]
    OBVIOUS
  <2>2. \A r \in 0 .. N : r # 0 => r \in 1 .. N
    BY <1>1
  <2>3. \A r \in 0 .. N : f[r] = IF r = 0 THEN own ELSE Round(tie, f[r - 1])
    BY <2>2, <1>6, <1>7
  <2> QED
    BY <2>1, <2>3
<1>9. Fcn(p)
  BY <1>8, Zenon
<1> HIDE DEF p
<1>10. \A r \in 0 .. N : p[r] = IF r = 0 THEN own ELSE Round(tie, p[r - 1])
  BY <1>9
<1> HIDE DEF Fcn
<1>11. \A r \in Nat : r <= N => p[r] \in S
  <2> DEFINE T == {r \in Nat : r <= N => p[r] \in S}
  <2>1. 0 \in T
    BY <1>1, <1>4, <1>10
  <2>2. ASSUME NEW r \in Nat, r \in T PROVE r + 1 \in T
    <3> SUFFICES ASSUME r + 1 <= N PROVE p[r + 1] \in S
      OBVIOUS
    <3>1. r + 1 \in 0 .. N /\ r + 1 # 0 /\ (r + 1) - 1 = r /\ r <= N
      BY <1>1
    <3>2. p[r] \in S
      BY <3>1, <2>2
    <3>3. Round(tie, p[r]) \in S
      BY <3>2, RoundType DEF S
    <3> QED
      BY <3>1, <3>3, <1>10
  <2> HIDE DEF T
  <2>3. Nat \subseteq T
    BY <2>1, <2>2, NatInd
  <2> QED
    BY <2>3 DEF T
<1>12. p[N] \in S
  BY <1>1, <1>11
<1> QED
  BY <1>5, <1>12 DEF S

LEMMA SilentVotes ==
  ASSUME NEW tie \in Ties, NEW labels \in Labellings, NEW n \in Names, NEW l,
         l \notin Heard(tie, labels, n)
  PROVE  Votes(tie, labels, n, l) = 0
<1>1. ASSUME NEW m \in Names PROVE Share(tie, labels, n, l, m) = 0
  <2>1. tie[{m, n}] \in 0 .. 2
    BY TieType
  <2>2. tie[{m, n}] > 0 => labels[m] # l
    BY DEF Heard
  <2> QED
    BY <2>1, <2>2 DEF Share
<1> QED
  BY <1>1, VotesLaw

\* Where a round changes nothing nobody prefers another community.
LEMMA SettledCommunities ==
  ASSUME CommunitiesCase, Round(merging.tie, merging.labels) = merging.labels
  PROVE  CommunitiesSettle
<1> DEFINE labels == merging.labels
           tie == merging.tie
           pull(n, l) == Votes(tie, labels, n, l)
<1>1. tie \in Ties /\ labels \in Labellings /\ Round(tie, labels) = labels
  BY AfterType DEF CommunitiesCase
<1> SUFFICES ASSUME NEW n \in Names
             PROVE  /\ \A l \in Names : pull(n, labels[n]) >= pull(n, l)
                    /\ pull(n, labels[n]) = 0 => \A m \in Names : tie[{m, n}] = 0
  BY DEF CommunitiesSettle
<1> HIDE DEF labels, tie
<1> DEFINE heard == Heard(tie, labels, n)
<1>2. labels[n] = BestLabel(tie, labels, n)
  BY <1>1, RoundSettled
<1>3. \A l : pull(n, l) \in Nat
  <2>1. \A l : pull(n, l) \in 0 .. 2 * NumNames
    BY <1>1, VotesLaw
  <2> QED
    BY <2>1, GraphMergeAssumption
<1>4. \A l : l \notin heard => pull(n, l) = 0
  BY <1>1, SilentVotes
<1>5. heard # {} => \A k \in heard : pull(n, labels[n]) >= pull(n, k)
  BY <1>1, <1>2, BestLaw DEF Preferred
<1>6. \A m \in Names : tie[{m, n}] \in 0 .. 2
  BY <1>1, TieType
<1>7. \A m \in Names : tie[{m, n}] > 0 => labels[m] \in heard
  BY DEF Heard
<1>8. \A m \in Names : pull(n, labels[m]) >= tie[{m, n}]
  BY <1>1, VotesLaw DEF Share
<1> HIDE DEF heard, pull
<1>9. \A l \in Names : pull(n, labels[n]) >= pull(n, l)
  <2> TAKE l \in Names
  <2>1. CASE l \in heard
    BY <2>1, <1>5
  <2>2. CASE l \notin heard
    BY <2>2, <1>3, <1>4
  <2> QED
    BY <2>1, <2>2
<1>10. pull(n, labels[n]) = 0 => \A m \in Names : tie[{m, n}] = 0
  <2> SUFFICES ASSUME pull(n, labels[n]) = 0, NEW m \in Names, tie[{m, n}] # 0
               PROVE  FALSE
    OBVIOUS
  <2> DEFINE t == tie[{m, n}]
             v == pull(n, labels[m])
  <2>1. t \in 0 .. 2 /\ t # 0
    BY <1>6
  <2>2. labels[m] \in heard
    BY <2>1, <1>7
  <2>3. 0 >= v /\ v >= t
    BY <2>2, <1>5, <1>8
  <2>4. v \in Nat
    BY <1>3
  <2> HIDE DEF t, v
  <2> QED
    BY <2>1, <2>3, <2>4
<1> QED
  BY <1>9, <1>10

MergeCase ==
  /\ merging.kind = "merge"
  /\ merging.extracted \in [1 .. 2 -> Extractions]

AlgorithmCase ==
  merging.kind = "none" \/ MergeCase \/ CommunitiesCase \/ SubgraphCase

LEMMA MergeTried == ASSUME TryMerge PROVE MergeCase'
<1>1. PICK extracted \in [1 .. 2 -> Extractions] :
        merging' = [kind |-> "merge", extracted |-> extracted]
  BY DEF TryMerge
<1> QED
  BY <1>1 DEF MergeCase

LEMMA CommunitiesTried == ASSUME TryCommunities PROVE CommunitiesCase'
<1>1. PICK tie \in {t \in Ties : \A n \in Names : t[{n}] = 0} :
        merging' = [kind |-> "communities", tie |-> tie, labels |-> LabelsAfter(tie)]
  BY DEF TryCommunities
<1> QED
  BY <1>1 DEF CommunitiesCase

LEMMA RowsFinite ==
  ASSUME NEW S \in SUBSET (Names \X Names), NEW table \in SetToSeqs(S)
  PROVE  table \in Seq(Nat \X Nat)
<1>1. NumNames \in Nat
  BY GraphMergeAssumption
<1>2. IsFiniteSet(Names)
  BY <1>1, FS_Interval DEF Names
<1>3. IsFiniteSet(Names \X Names)
  BY <1>2, FS_Product
<1>4. IsFiniteSet(S)
  BY <1>3, FS_Subset
<1> DEFINE c == Cardinality(S)
<1>5. c \in Nat
  BY <1>4, FS_CardinalityType
<1>6. table \in [1 .. c -> S]
  BY DEF SetToSeqs
<1>7. S \subseteq Nat \X Nat
  BY <1>1 DEF Names
<1> HIDE DEF c
<1>8. table \in [1 .. c -> Nat \X Nat]
  BY <1>6, <1>7
<1> QED
  BY <1>5, <1>8

LEMMA SeedsArePaths == <<1>> \in Paths /\ <<2, 1>> \in Paths
<1>1. <<1>> \in Seq(Nat) /\ <<2, 1>> \in Seq(Nat)
  OBVIOUS
<1>2. IsInjective(<<1>>)
  BY DEF IsInjective
<1>3. IsInjective(<<2, 1>>)
  BY DEF IsInjective
<1> QED
  BY <1>1, <1>2, <1>3 DEF Paths

LEMMA SubgraphTried == ASSUME TrySubgraph PROVE SubgraphCase'
<1>1. PICK S \in {T \in SUBSET {e \in Names \X Names : e[1] < e[2]} :
                    Cardinality(T) <= 4},
           depth \in 1 .. 2 :
        \E table \in SetToSeqs(S), seeds \in {<<1>>, <<2, 1>>} :
          merging' = [kind |-> "subgraph", seeds |-> seeds, rows |-> table,
                      depth |-> depth, found |-> Subgraph(seeds, table, depth)]
  BY DEF TrySubgraph
<1>2. PICK table \in SetToSeqs(S), seeds \in {<<1>>, <<2, 1>>} :
        merging' = [kind |-> "subgraph", seeds |-> seeds, rows |-> table,
                    depth |-> depth, found |-> Subgraph(seeds, table, depth)]
  BY <1>1
<1>3. S \in SUBSET (Names \X Names)
  OBVIOUS
<1>4. table \in Seq(Nat \X Nat)
  BY <1>3, RowsFinite
<1>5. seeds \in Paths
  BY SeedsArePaths
<1>6. depth \in Nat
  OBVIOUS
<1> QED
  BY <1>2, <1>4, <1>5, <1>6 DEF SubgraphCase

LEMMA AlgorithmCases == MergeInit /\ [][MergeNext]_merging => []AlgorithmCase
<1>1. MergeInit => AlgorithmCase
  BY DEF MergeInit, NothingMerged, AlgorithmCase
<1>2. AlgorithmCase /\ [MergeNext]_merging => AlgorithmCase'
  <2> SUFFICES ASSUME AlgorithmCase, [MergeNext]_merging PROVE AlgorithmCase'
    OBVIOUS
  <2>1. CASE UNCHANGED merging
    BY <2>1 DEF AlgorithmCase, MergeCase, CommunitiesCase, SubgraphCase
  <2>2. CASE TryMerge
    BY <2>2, MergeTried DEF AlgorithmCase
  <2>3. CASE TryCommunities
    BY <2>3, CommunitiesTried DEF AlgorithmCase
  <2>4. CASE TrySubgraph
    BY <2>4, SubgraphTried DEF AlgorithmCase
  <2> QED
    BY <2>1, <2>2, <2>3, <2>4 DEF MergeNext
<1> QED
  BY <1>1, <1>2, PTL

\* The rounds of detect_communities were enough for this graph: one more would
\* change no label.  Nothing is asked of the other two algorithms.
RoundsSufficed ==
  merging.kind = "communities" => Round(merging.tie, merging.labels) = merging.labels

\* However many entities there are, whatever is said of them, whatever the
\* weights and the order of the rows: what GraphBuilder (graph/merge.py) writes refers to entities it
\* writes, counts an edge each time one of its chunks names it, and depends on the order
\* of the chunks in nothing but the chunk of a claim; get_entity_subgraph
\* returns exactly what is within the depth, or within the one its cap was
\* reached at; and once the rounds of detect_communities (graph/communities.py)
\* sufficed, no entity prefers another community.
THEOREM GraphAlgorithmsStaySound ==
  MergeInit /\ [][MergeNext]_merging => [](RoundsSufficed => GraphAlgorithmsSound)
<1>1. ASSUME AlgorithmCase, RoundsSufficed PROVE GraphAlgorithmsSound
  <2>1. CASE merging.kind = "none"
    BY <2>1 DEF GraphAlgorithmsSound, MergeSound, CommunitiesSettle, SubgraphReach
  <2>2. CASE MergeCase
    <3>1. MergeSound
      BY <2>2, MergesSound DEF MergeCase
    <3> QED
      BY <2>2, <3>1 DEF MergeCase, GraphAlgorithmsSound, CommunitiesSettle, SubgraphReach
  <2>3. CASE CommunitiesCase
    <3>1. Round(merging.tie, merging.labels) = merging.labels
      BY <1>1, <2>3 DEF CommunitiesCase, RoundsSufficed
    <3>2. CommunitiesSettle
      BY <2>3, <3>1, SettledCommunities
    <3> QED
      BY <2>3, <3>2 DEF CommunitiesCase, GraphAlgorithmsSound, MergeSound, SubgraphReach
  <2>4. CASE SubgraphCase
    <3>1. SubgraphReach
      BY <2>4, SubgraphsReach
    <3> QED
      BY <2>4, <3>1 DEF SubgraphCase, GraphAlgorithmsSound, MergeSound, CommunitiesSettle
  <2> QED
    BY <1>1, <2>1, <2>2, <2>3, <2>4 DEF AlgorithmCase
<1> QED
  BY <1>1, AlgorithmCases, PTL

=============================================================================
