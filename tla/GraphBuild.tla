----------------------------- MODULE GraphBuild ------------------------------
(***************************************************************************)
(* The knowledge graph of one collection: rows in the corpus, and two      *)
(* vector collections, of entities and of communities.  A graph_build job  *)
(* replaces all of it (api/graph.py), a route deletes it, and the deletion *)
(* of chunks prunes the rows (corpus/repository.py).                       *)
(*                                                                         *)
(* A step is the code between two awaits.  An entity is what chunks        *)
(* mention; edges go with their last mention or an end, and are left out.  *)
(* A claim has the entities it is about, which are foreign keys, and the   *)
(* chunk it was made in, which is not.  The entities of a build make one   *)
(* community when there are two or more.                                   *)
(***************************************************************************)
EXTENDS Naturals, FiniteSets

CONSTANTS GraphChunks, Entities,
          MentionedIn,       \* MentionedIn[x]: the entities extracted from x
          ClaimedIn,         \* ClaimedIn[x]: the ends of each claim made in x
          NoColl, MaxBuilds

ASSUME GraphAssumption ==
  /\ MentionedIn \in [GraphChunks -> SUBSET Entities]
  /\ ClaimedIn \in [GraphChunks -> SUBSET (SUBSET Entities)]
  /\ MaxBuilds \in Nat /\ NoColl \notin {{}, Entities}

Kinds == {"entities", "communities"}

VARIABLES
  chunks,             \* leaves in the corpus
  mentions, members,  \* rows: entity mentions, members of the community,
  claimed,            \* and claims, each with its ends and its chunk
  vectors,            \* vectors[k]: the rows of a vector collection
  build,              \* the job: its step and the locals of the pipeline
  builds,
  cancelled,          \* cancel_requested
  erase,              \* the delete route
  meddled, stale,     \* what the properties except, see there
  unshared            \* no build has overlapped the delete route

rows == <<mentions, members, claimed>>
graph_vars == <<chunks, rows, vectors, build, builds, cancelled, erase,
                meddled, stale, unshared>>

EntitiesIn(M) == {m[1] : m \in M}
CommunityOf(E) == IF Cardinality(E) >= 2 THEN E ELSE {}
Standing == [step |-> "none", read |-> {}, built |-> {}, told |-> {},
             todo |-> {}, existing |-> {}]

\* Foreign keys: a claim goes with an entity it is about.
About(C, E) == {c \in C : c.ends \subseteq E}

GraphInit ==
  /\ chunks = {} /\ mentions = {} /\ members = {} /\ claimed = {}
  /\ vectors = [k \in Kinds |-> NoColl]
  /\ build = Standing /\ builds = 0 /\ cancelled = FALSE
  /\ erase = "idle" /\ meddled = FALSE /\ stale = {}
  /\ unshared = TRUE

Steps == {"list", "extract", "detect", "embed", "ensure", "drop", "create",
          "upsert", "count", "rows", "finish"}
Building == build.step \in Steps

\* The vector collections are worked through in this order.
InTurn(k) == k \in build.todo /\ ("entities" \in build.todo => k = "entities")
Done(k, next) ==
  build' = IF build.todo = {k} THEN [build EXCEPT !.step = next, !.todo = Kinds]
                               ELSE [build EXCEPT !.todo = @ \ {k}]

At2(step) == build.step = step
Then(step) == build' = [build EXCEPT !.step = step]
Breaks == build' = [build EXCEPT !.step = "cleanup", !.todo = Kinds]

-----------------------------------------------------------------------------
(* The corpus.                                                             *)

StoreChunk(x) ==
  /\ x \notin chunks \cup stale /\ chunks' = chunks \cup {x}
  /\ UNCHANGED <<rows, vectors, build, builds, cancelled, erase, meddled, stale,
                 unshared>>

\* Mutant: only the members of the community follow.
PruneMembersOnly(x) ==
  /\ x \in chunks /\ chunks' = chunks \ {x}
  /\ members' = members \cap EntitiesIn({m \in mentions : m[2] # x})
  /\ meddled' = TRUE
  /\ stale' = IF Building /\ x \in build.read THEN stale \cup {x} ELSE stale
  /\ UNCHANGED <<mentions, claimed, vectors, build, builds, cancelled, erase, unshared>>

\* _prune_graph_for_chunks: an entity goes with its last mention, with it the
\* claims about it, and a community with its last member.  The claims of the
\* chunk about entities that stay are left.
PruneChunk(x) ==
  /\ x \in chunks /\ chunks' = chunks \ {x}
  /\ mentions' = {m \in mentions : m[2] # x}
  /\ members' = members \cap EntitiesIn(mentions')
  /\ claimed' = About(claimed, EntitiesIn(mentions'))
  /\ meddled' = TRUE
  /\ stale' = IF Building /\ x \in build.read THEN stale \cup {x} ELSE stale
  /\ UNCHANGED <<vectors, build, builds, cancelled, erase, unshared>>

\* Dropping the collection deletes its graph rows, not the vectors.
DropCorpus ==
  /\ chunks # {}
  /\ chunks' = {} /\ meddled' = TRUE
  /\ mentions' = {} /\ members' = {} /\ claimed' = {}
  /\ stale' = IF Building THEN stale \cup (chunks \cap build.read) ELSE stale
  /\ UNCHANGED <<vectors, build, builds, cancelled, erase, unshared>>

-----------------------------------------------------------------------------
(* The job.                                                                *)

PipelineOnly == UNCHANGED <<chunks, erase, stale, unshared>>

SubmitBuild ==
  /\ At2("none") /\ builds < MaxBuilds /\ chunks # {}
  /\ builds' = builds + 1 /\ cancelled' = FALSE
  /\ build' = [Standing EXCEPT !.step = "list"]
  /\ meddled' = (erase # "idle") /\ unshared' = FALSE
  /\ UNCHANGED <<chunks, rows, vectors, erase, stale>>

RequestGraphCancel ==
  /\ Building /\ ~ cancelled /\ cancelled' = TRUE
  /\ UNCHANGED <<rows, vectors, build, builds, meddled>> /\ PipelineOnly

\* _check_cancel begins the listing, each batch, the detection and the
\* replacement; what it finds ends in _cleanup.
CancelGate ==
  /\ build.step \in {"list", "extract", "detect", "ensure"} /\ cancelled
  /\ Breaks
  /\ UNCHANGED <<rows, vectors, builds, cancelled, meddled>> /\ PipelineOnly

Quiet == UNCHANGED <<rows, vectors, builds, cancelled, meddled>> /\ PipelineOnly

ListChunks ==
  /\ At2("list") /\ ~ cancelled
  /\ IF chunks = {} THEN Breaks          \* 400 graph_empty
     ELSE build' = [build EXCEPT !.step = "extract", !.read = chunks,
                                 !.todo = chunks]
  /\ Quiet

\* One batch of leaves; a failed extraction leaves its chunk without mentions
\* and claims.
ExtractBatch(x) ==
  /\ At2("extract") /\ ~ cancelled /\ x \in build.todo
  /\ \E found \in {{}, MentionedIn[x]} :
       build' = [build EXCEPT
         !.built = @ \cup (found \X {x}), !.todo = @ \ {x},
         !.told = @ \cup About([ends : ClaimedIn[x], chunk : {x}], found),
         !.step = IF build.todo = {x} THEN "detect" ELSE @]
  /\ Quiet

\* The communities are detected and summarized, then all is embedded.
DetectCommunities == At2("detect") /\ ~ cancelled /\ Then("embed") /\ Quiet
EmbedGraph == At2("embed") /\ Then("ensure") /\ Quiet

\* list_collections is asked once.
ListGraphCollections ==
  /\ At2("ensure") /\ ~ cancelled
  /\ build' = [build EXCEPT
       !.existing = {k \in Kinds : vectors[k] # NoColl},
       !.todo = Kinds, !.step = "drop"]
  /\ Quiet

DropOld(k) ==
  /\ At2("drop") /\ InTurn(k)
  /\ \/ k \notin build.existing /\ Done(k, "create") /\ UNCHANGED vectors
     \/ /\ k \in build.existing /\ vectors[k] # NoColl
        /\ vectors' = [vectors EXCEPT ![k] = NoColl] /\ Done(k, "create")
     \/ /\ k \in build.existing /\ vectors[k] = NoColl
        /\ Breaks /\ UNCHANGED vectors
  /\ UNCHANGED <<rows, builds, cancelled, meddled>> /\ PipelineOnly

CreateGraphCollection(k) ==
  /\ At2("create") /\ InTurn(k) /\ vectors[k] = NoColl
  /\ vectors' = [vectors EXCEPT ![k] = {}] /\ Done(k, "upsert")
  /\ UNCHANGED <<rows, builds, cancelled, meddled>> /\ PipelineOnly

RowsFor(k, M) == IF k = "entities" THEN EntitiesIn(M)
                 ELSE {c \in {CommunityOf(EntitiesIn(M))} : c # {}}

UpsertGraph(k) ==
  /\ At2("upsert") /\ InTurn(k)
  /\ IF vectors[k] = NoColl /\ (k = "entities" \/ RowsFor(k, build.built) # {})
     THEN Breaks /\ UNCHANGED vectors
     ELSE /\ vectors' = [vectors EXCEPT
               ![k] = IF @ = NoColl THEN @ ELSE RowsFor(k, build.built)]
          /\ Done(k, "count")
  /\ UNCHANGED <<rows, builds, cancelled, meddled>> /\ PipelineOnly

CountGraph ==
  /\ At2("count")
  /\ IF \A k \in Kinds : /\ vectors[k] # NoColl
                         /\ Cardinality(vectors[k])
                              = Cardinality(RowsFor(k, build.built))
     THEN Then("rows") ELSE Breaks
  /\ Quiet

\* replace_graph: one transaction.
ReplaceGraph ==
  /\ At2("rows") /\ Then("finish")
  /\ mentions' = build.built
  /\ members' = CommunityOf(EntitiesIn(build.built)) /\ claimed' = build.told
  /\ UNCHANGED <<vectors, builds, cancelled, meddled>> /\ PipelineOnly

FinishBuild ==
  /\ At2("finish")
  /\ build' = [Standing EXCEPT !.step = "done"]
  /\ Quiet

\* Any other call of the pipeline raises.
BreakBuild == Building /\ Breaks /\ Quiet

\* _cleanup, best effort: also of the vectors of the graph before.
CleanUp(k) ==
  /\ At2("cleanup") /\ InTurn(k)
  /\ \/ vectors' = [vectors EXCEPT ![k] = NoColl]
     \/ vectors[k] # NoColl /\ UNCHANGED vectors
  /\ Done(k, "none") /\ meddled' = TRUE
  /\ UNCHANGED <<rows, builds, cancelled>> /\ PipelineOnly

\* A finished build makes room for the next; a crash leaves all as it is.
NextBuild ==
  /\ At2("done") /\ build' = Standing /\ meddled' = TRUE
  /\ UNCHANGED <<rows, vectors, builds, cancelled>> /\ PipelineOnly

GraphCrash ==
  /\ Building \/ erase # "idle"
  /\ build' = Standing /\ erase' = "idle" /\ meddled' = TRUE
  /\ UNCHANGED <<chunks, rows, vectors, builds, cancelled, stale, unshared>>

-----------------------------------------------------------------------------
(* DELETE .../graph: the rows, then each collection.                       *)

EraseRows ==
  /\ erase = "idle" /\ erase' = "entities" /\ meddled' = TRUE
  /\ mentions' = {} /\ members' = {} /\ claimed' = {}
  /\ unshared' = ~ (Building \/ build.step = "cleanup")
  /\ UNCHANGED <<chunks, vectors, build, builds, cancelled, stale>>

\* A missing collection is ignored; any other failure ends the call.
EraseVectors(k) ==
  /\ erase = k
  /\ \/ /\ vectors' = [vectors EXCEPT ![k] = NoColl]
        /\ erase' = IF k = "entities" THEN "communities" ELSE "done"
     \/ vectors[k] # NoColl /\ erase' = "idle" /\ UNCHANGED vectors
  /\ meddled' = TRUE
  /\ UNCHANGED <<chunks, rows, build, builds, cancelled, stale, unshared>>

EraseEnds ==
  /\ erase = "done" /\ erase' = "idle"
  /\ UNCHANGED <<chunks, rows, vectors, build, builds, cancelled, meddled, stale,
                 unshared>>

-----------------------------------------------------------------------------
Pipeline ==
  \/ CancelGate \/ ListChunks \/ DetectCommunities \/ EmbedGraph
  \/ ListGraphCollections \/ CountGraph \/ ReplaceGraph \/ FinishBuild
  \/ \E x \in GraphChunks : ExtractBatch(x)
  \/ \E k \in Kinds : DropOld(k) \/ CreateGraphCollection(k) \/ UpsertGraph(k)
                      \/ CleanUp(k)

GraphNext ==
  \/ SubmitBuild \/ RequestGraphCancel \/ Pipeline \/ BreakBuild \/ NextBuild
  \/ GraphCrash
  \/ \E x \in GraphChunks : StoreChunk(x) \/ PruneChunk(x)
  \/ DropCorpus
  \/ EraseRows \/ EraseEnds \/ \E k \in Kinds : EraseVectors(k)

GraphSpec == GraphInit /\ [][GraphNext]_graph_vars

-----------------------------------------------------------------------------
(* Properties.                                                             *)

\* A build that is done, with no deletion since it began, has rows and vectors
\* of the same entities and communities, whatever earlier builds that failed,
\* were cancelled or died had left.
GraphWhole ==
  At2("done") /\ ~ meddled =>
    /\ vectors["entities"] = EntitiesIn(mentions)
    /\ vectors["communities"] = {c \in {members} : c # {}}
    /\ members = CommunityOf(EntitiesIn(mentions))

\* Mentions are of chunks in the corpus, except for chunks deleted while a build
\* that had read them went on, and members and claims are of entities that are
\* mentioned.  The chunk of a claim may be gone: pruning deletes
\* no claim by its chunk.
ProvenanceInCorpus ==
  /\ \A m \in mentions : m[2] \in chunks \cup stale
  /\ members \subseteq EntitiesIn(mentions)
  /\ \A c \in claimed : c.ends \subseteq EntitiesIn(mentions)

\* The deletion of the graph is complete when it reports success, unless a
\* build overlapped it.
DeletedGraphIsGone ==
  erase = "done" /\ unshared =>
    /\ mentions = {} /\ members = {} /\ claimed = {}
    /\ \A k \in Kinds : vectors[k] = NoColl

\* The graph, its vectors and the corpus agree whatever builds, deletions and
\* crashes came before.
GraphSound == GraphWhole /\ ProvenanceInCorpus /\ DeletedGraphIsGone

=============================================================================
