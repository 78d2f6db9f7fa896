------------------------------ MODULE Deletions ------------------------------
(***************************************************************************)
(* What removes data from a collection of the corpus: the routes that      *)
(* delete rows, drop the collection and drop its database, and the sweep   *)
(* of the maintenance worker.  They share the corpus, the physical         *)
(* collections and the content-addressed originals with the ingest of      *)
(* documents, here reduced to its effects.                                 *)
(*                                                                         *)
(* A step is the code between two awaits.  One collection is followed in   *)
(* full: its logical name, and the name a rebuild gives it.  Documents     *)
(* Elsewhere belong to another database and only share originals.          *)
(***************************************************************************)
EXTENDS Naturals, FiniteSets

CONSTANTS Papers,         \* documents
          Elsewhere,      \* those of another database
          Leaves,         \* chunks, PaperOf[x] the document of x
          Hashes,         \* contents, HashOf[d] that of d
          PaperOf, HashOf,
          Name, Rebuilt,  \* the two physical collections
          NoPlace,
          MaxRestarts

ASSUME DeletionsAssumption ==
  /\ Elsewhere \subseteq Papers
  /\ PaperOf \in [Leaves -> Papers] /\ HashOf \in [Papers -> Hashes]
  /\ Name # Rebuilt /\ NoPlace \notin {Name, Rebuilt}
  /\ MaxRestarts \in Nat

VARIABLES
  papers, leaves,    \* rows of documents and chunks
  active, canary,    \* the binding; active = NoPlace while there is none
  places, points,    \* physical collections, and the rows of each
  fitted,            \* the physical names with BM25 statistics
  blobs,             \* originals
  course,            \* course[d]: how far the ingest of d has got
  route,             \* the deletion under way: its step and its locals
  sweep,             \* the maintenance cycle: its step and its locals
  restarts,
  raced, mixed,      \* documents the properties except, see there
  strays             \* names whose statistics a restart left to nobody

corpus == <<papers, leaves>>
binding == <<active, canary>>
milvus == <<places, points>>
marks == <<raced, mixed, strays>>
del_vars == <<corpus, binding, milvus, fitted, blobs, course, route, sweep,
              restarts, marks>>

Places == {Name, Rebuilt}
Here == Papers \ Elsewhere
LeavesOf(D) == {x \in Leaves : PaperOf[x] \in D}
Referenced(g, D) == \E d \in D : HashOf[d] = g
Orphans(old, new) == {g \in {HashOf[d] : d \in old} : ~ Referenced(g, new)}

Idle == [step |-> "idle", kind |-> "none", found |-> FALSE, refs |-> {},
         first |-> NoPlace, names |-> {}, want |-> {}, due |-> {},
         ids |-> [p \in Places |-> {}], orphans |-> {}, alone |-> TRUE]
Resting == [step |-> "idle", disk |-> {}, orphans |-> {}]

DelInit ==
  /\ papers = {} /\ leaves = {}
  /\ active = NoPlace /\ canary = NoPlace
  /\ places = {Name} /\ points = [p \in Places |-> {}]
  /\ fitted = {} /\ blobs = {}
  /\ course = [d \in Papers |-> "new"]
  /\ route = Idle /\ sweep = Resting
  /\ restarts = 0 /\ raced = {} /\ mixed = {} /\ strays = {}

Underway == {d \in Here : course[d] \in {"stored", "indexed"}}

\* Somebody else acts while a deletion is under way.
Busy == route.step # "idle"
Interfere == route' = IF Busy THEN [route EXCEPT !.alone = FALSE] ELSE route

-----------------------------------------------------------------------------
(* Ingest and rebuild, by their effects (IngestJobs, IndexRebuild).        *)

\* After a promotion the logical name is no longer what the binding names.
Left == active \notin {NoPlace, Name}

Advance(d, from, to) ==
  /\ course[d] = from /\ course' = [course EXCEPT ![d] = to]
  /\ mixed' = IF Busy \/ (to = "indexed" /\ Left) THEN mixed \cup {d} ELSE mixed
  /\ Interfere

\* store_document: the content first, in one transaction.
StoreDocument(d) ==
  /\ Advance(d, "new", "stored")
  /\ papers' = papers \cup {d} /\ leaves' = leaves \cup LeavesOf({d})
  /\ raced' = IF HashOf[d] \in route.orphans \cup sweep.orphans
              THEN raced \cup {d} ELSE raced
  /\ UNCHANGED <<binding, milvus, fitted, blobs, sweep, restarts, strays>>

\* The vectors go to the logical name, which is created where it is missing.
IndexDocument(d) ==
  /\ Advance(d, "stored", "indexed")
  /\ IF d \in Elsewhere THEN UNCHANGED <<milvus, fitted>>
     ELSE /\ places' = places \cup {Name}
          /\ points' = [points EXCEPT ![Name] = @ \cup LeavesOf({d})]
          /\ fitted' = fitted \cup {Name}
  /\ UNCHANGED <<corpus, binding, blobs, sweep, restarts, raced, strays>>

\* promote, once the document is found: an original with the same content
\* makes it discard the upload.
Promote(d) ==
  /\ Advance(d, "indexed", "ended")
  /\ blobs' = IF d \in papers THEN blobs \cup {HashOf[d]} ELSE blobs
  /\ UNCHANGED <<corpus, binding, milvus, fitted, sweep, restarts, raced, strays>>

\* The ingest fails and is undone.  delete_document reports the orphaned
\* content, which its callers leave to the sweep.
DeleteDocument(d) ==
  /\ course[d] \in {"stored", "indexed"}
  /\ Advance(d, course[d], "failed")
  /\ papers' = papers \ {d} /\ leaves' = leaves \ LeavesOf({d})
  /\ points' = [points EXCEPT ![Name] = @ \ LeavesOf({d})]
  /\ fitted' = fitted \ {Name}
  /\ UNCHANGED <<binding, places, blobs, sweep, restarts, raced, strays>>

\* A rebuild fills another physical collection and parks it as canary.
ParkRebuilt ==
  /\ active = NoPlace /\ Rebuilt \notin places /\ papers \cap Here # {}
  /\ active' = Name /\ canary' = Rebuilt
  /\ places' = places \cup {Rebuilt}
  /\ points' = [points EXCEPT ![Rebuilt] = leaves \cap LeavesOf(Here)]
  /\ fitted' = fitted \cup {Rebuilt}
  /\ mixed' = mixed \cup (IF Busy THEN Here ELSE Underway)
  /\ Interfere
  /\ UNCHANGED <<corpus, blobs, course, sweep, restarts, raced, strays>>

PromoteRebuilt ==
  /\ canary # NoPlace
  /\ active' = canary /\ canary' = NoPlace
  /\ places' = places \ {active}
  /\ points' = [points EXCEPT ![active] = {}]
  /\ fitted' = fitted \ {active}
  /\ Interfere
  /\ UNCHANGED <<corpus, blobs, course, sweep, restarts, marks>>

-----------------------------------------------------------------------------
(* The routes.                                                             *)

At(step) == route.step = step
Kind(kind) == route.kind = kind
Goto(step) == route' = [route EXCEPT !.step = step]
Ends == route' = Idle

\* is_corpus_collection, or corpus_collections: are there documents?
BeginRoute ==
  /\ At("idle")
  /\ \E kind \in {"rows", "collection", "database"} :
       route' = [Idle EXCEPT !.step = "binding", !.kind = kind,
                             !.found = papers \cap Here # {}]
  /\ mixed' = mixed \cup Underway
  /\ UNCHANGED <<corpus, binding, milvus, fitted, blobs, course, sweep,
                 restarts, raced, strays>>

\* What comes after the binding.  A request names rows by id or by a filter: a
\* filter on a collection with documents is resolved in each physical collection
\* first, all else is deleted as it was named.
LookUp(refs, first, names) ==
  LET looked == [route EXCEPT !.refs = refs, !.first = first, !.names = names]
  IN CASE Kind("collection") -> route' = [looked EXCEPT !.step = "drop"]
       [] Kind("database")   -> route' = [looked EXCEPT !.step = "dropAll"]
       [] OTHER ->
            \E want \in SUBSET LeavesOf(Here) \ {{}} :
              \/ route' = [looked EXCEPT !.want = want, !.step = "rows",
                                         !.ids = [p \in Places |-> want]]
              \/ /\ route.found
                 /\ route' = [looked EXCEPT !.want = want, !.step = "resolve",
                                            !.due = refs]

\* Mutant: the canary is forgotten.
LookUpActive ==
  /\ At("binding")
  /\ LET bound == active # NoPlace /\ (route.found \/ Kind("database"))
         first == IF bound THEN active ELSE Name
     IN LookUp({first}, first, {first})
  /\ UNCHANGED <<corpus, binding, milvus, fitted, blobs, course, sweep,
                 restarts, marks>>

\* get_binding (only for a collection with documents), or list_bindings, whose
\* names come on top of the logical ones.
LookUpRefs ==
  /\ At("binding")
  /\ LET bound == active # NoPlace /\ (route.found \/ Kind("database"))
         refs == IF bound THEN {active, canary} \ {NoPlace} ELSE {Name}
         names == (IF bound \/ ~ Kind("database") THEN refs ELSE {})
                    \cup (IF Kind("database") /\ route.found THEN {Name} ELSE {})
     IN LookUp(refs, IF bound THEN active ELSE Name, names)
  /\ UNCHANGED <<corpus, binding, milvus, fitted, blobs, course, sweep,
                 restarts, marks>>

After(step) == IF route.found THEN step ELSE "idle"
\* The first name, then the canary.
Turn(p, refs) == p \in refs /\ (route.first \in refs => p = route.first)

\* The rows the filter matches in one physical collection, or a failure.
Resolve(p) ==
  /\ At("resolve") /\ Turn(p, route.due)
  /\ \/ /\ p \in places
        /\ route' = [route EXCEPT
             !.ids[p] = route.want \cap points[p], !.due = @ \ {p},
             !.step   = IF route.due = {p} THEN "rows" ELSE "resolve"]
     \/ Ends
  /\ UNCHANGED <<corpus, binding, milvus, fitted, blobs, course, sweep,
                 restarts, marks>>

\* The rows leave one physical collection after the other, from each those found
\* in it; an empty list is refused ...
DeleteRows(p) ==
  /\ At("rows") /\ Turn(p, route.refs)
  /\ \/ /\ p \in places /\ route.ids[p] # {}
        /\ points' = [points EXCEPT ![p] = @ \ route.ids[p]]
        /\ route' = IF route.refs = {p}
                    THEN [route EXCEPT !.refs = {}, !.step = After("corpus")]
                    ELSE [route EXCEPT !.refs = @ \ {p}]
     \/ Ends /\ UNCHANGED points      \* 404, no row to delete, or a failure
  /\ UNCHANGED <<corpus, binding, places, fitted, blobs, course, sweep,
                 restarts, marks>>

\* ... or the physical collections go.  Only a missing canary is passed over.
DropRef(p) ==
  /\ At("drop") /\ Turn(p, route.refs)
  /\ \/ /\ p \in places \/ p # route.first
        /\ places' = places \ {p}
        /\ points' = [points EXCEPT ![p] = {}]
        /\ route' = IF route.refs = {p}
                    THEN [route EXCEPT !.refs = {}, !.step = After("corpus")]
                    ELSE [route EXCEPT !.refs = @ \ {p}]
     \/ Ends /\ UNCHANGED milvus
  /\ UNCHANGED <<corpus, binding, fitted, blobs, course, sweep, restarts,
                 marks>>

DropStoreDatabase ==
  /\ At("dropAll")
  /\ \/ /\ places' = {} /\ points' = [p \in Places |-> {}]
        /\ Goto("corpus")
     \/ Ends /\ UNCHANGED milvus
  /\ UNCHANGED <<corpus, binding, fitted, blobs, course, sweep, restarts,
                 marks>>

Chosen == UNION {route.ids[p] : p \in Places}

\* Mutant: the content of a deleted document counts as orphaned.
DeleteChunksAll ==
  /\ At("corpus") /\ Kind("rows")
  /\ LET gone == leaves \cap Chosen
         hit == {PaperOf[x] : x \in gone} \cap papers
         empty == {d \in hit : LeavesOf({d}) \cap (leaves \ gone) = {}}
     IN /\ leaves' = leaves \ gone /\ papers' = papers \ empty
        /\ route' = [route EXCEPT !.step = "blobs", !.want = {},
                                  !.ids = [p \in Places |-> {}],
                                  !.orphans = {HashOf[d] : d \in hit}]
  /\ UNCHANGED <<binding, milvus, fitted, blobs, course, sweep, restarts, marks>>

\* delete_chunks, of what was named in any of them: chunks, then the documents
\* left without one.
DeleteChunks ==
  /\ At("corpus") /\ Kind("rows")
  /\ LET gone == leaves \cap Chosen
         hit == {PaperOf[x] : x \in gone} \cap papers
         empty == {d \in hit : LeavesOf({d}) \cap (leaves \ gone) = {}}
     IN /\ leaves' = leaves \ gone /\ papers' = papers \ empty
        /\ route' = [route EXCEPT !.step = "blobs", !.want = {},
                                  !.ids = [p \in Places |-> {}],
                                  !.orphans = Orphans(hit, papers \ empty)]
  /\ UNCHANGED <<binding, milvus, fitted, blobs, course, sweep, restarts, marks>>

\* Mutant: the binding survives the collection.
DeleteForCollectionUnbound ==
  /\ At("corpus") /\ ~ Kind("rows")
  /\ papers' = papers \ Here /\ leaves' = leaves \ LeavesOf(Here)
  /\ route' = [route EXCEPT !.step = "blobs",
                            !.orphans = Orphans(papers \cap Here, papers \ Here)]
  /\ UNCHANGED <<binding, milvus, fitted, blobs, course, sweep, restarts, marks>>

\* delete_for_collection and delete_for_database, for the one collection.
DeleteForCollection ==
  /\ At("corpus") /\ ~ Kind("rows")
  /\ papers' = papers \ Here /\ leaves' = leaves \ LeavesOf(Here)
  /\ active' = NoPlace /\ canary' = NoPlace
  /\ route' = [route EXCEPT !.step = "blobs",
                            !.orphans = Orphans(papers \cap Here, papers \ Here)]
  /\ UNCHANGED <<milvus, fitted, blobs, course, sweep, restarts, marks>>

\* Each orphaned original is removed on a thread of its own call.
DeleteBlob ==
  /\ At("blobs")
  /\ IF route.orphans = {} THEN Goto("discard") /\ UNCHANGED blobs
     ELSE \E g \in route.orphans :
            /\ blobs' = blobs \ {g}
            /\ route' = [route EXCEPT !.orphans = @ \ {g}]
  /\ UNCHANGED <<corpus, binding, milvus, fitted, course, sweep, restarts, marks>>

\* The statistics under each physical name, then 200.
DiscardStatistics ==
  /\ At("discard")
  /\ \/ \E p \in route.names :
          /\ fitted' = fitted \ {p}
          /\ route' = [route EXCEPT !.names = @ \ {p}]
     \/ route.names = {} /\ Goto("answered") /\ UNCHANGED fitted
  /\ UNCHANGED <<corpus, binding, milvus, blobs, course, sweep, restarts, marks>>

Answer ==
  /\ At("answered") /\ Ends
  /\ UNCHANGED <<corpus, binding, milvus, fitted, blobs, course, sweep,
                 restarts, marks>>

RouteNext ==
  \/ BeginRoute \/ LookUpRefs
  \/ \E p \in Places : Resolve(p) \/ DeleteRows(p) \/ DropRef(p)
  \/ DropStoreDatabase \/ DeleteChunks \/ DeleteForCollection
  \/ DeleteBlob \/ DiscardStatistics \/ Answer

-----------------------------------------------------------------------------
(* The sweep: list the originals, then ask the corpus, then delete.        *)

SweepRests == UNCHANGED <<corpus, binding, milvus, fitted, course, route,
                          restarts, marks>>

\* The backup and the vacuum that come before leave this state alone.
SweepList ==
  /\ sweep.step = "idle"
  /\ sweep' = [sweep EXCEPT !.step = "hashes", !.disk = blobs]
  /\ UNCHANGED blobs /\ SweepRests

\* Mutant: what an ingest has finished with counts as referenced for good.
SweepHashesEver ==
  /\ sweep.step = "hashes"
  /\ sweep' = [step |-> "delete", disk |-> {},
               orphans |-> {g \in sweep.disk :
                              ~ Referenced(g, {d \in Papers : course[d] = "ended"})}]
  /\ UNCHANGED blobs /\ SweepRests

SweepHashes ==
  /\ sweep.step = "hashes"
  /\ sweep' = [step |-> "delete", disk |-> {},
               orphans |-> {g \in sweep.disk : ~ Referenced(g, papers)}]
  /\ UNCHANGED blobs /\ SweepRests

SweepDelete ==
  /\ sweep.step = "delete"
  /\ IF sweep.orphans = {} THEN sweep' = Resting /\ UNCHANGED blobs
     ELSE \E g \in sweep.orphans :
            /\ blobs' = blobs \ {g}
            /\ sweep' = [sweep EXCEPT !.orphans = @ \ {g}]
  /\ SweepRests

SweepNext == SweepList \/ SweepHashes \/ SweepDelete

-----------------------------------------------------------------------------
\* The process dies.  Recovery undoes the unfinished ingests; one that was
\* done and not promoted has lost its original.  A deletion is not taken up
\* again: statistics it had still to discard have lost their binding.
Restart ==
  /\ restarts < MaxRestarts /\ restarts' = restarts + 1
  /\ route' = Idle /\ sweep' = Resting
  /\ LET undone == {d \in Papers : course[d] = "stored"}
         lost == {d \in Papers : course[d] = "indexed"}
     IN /\ papers' = papers \ undone /\ leaves' = leaves \ LeavesOf(undone)
        /\ points' = [points EXCEPT ![Name] = @ \ LeavesOf(undone)]
        /\ course' = [d \in Papers |-> CASE d \in undone -> "failed"
                                         [] d \in lost -> "ended"
                                         [] OTHER -> course[d]]
        /\ raced' = raced \cup lost
  /\ strays' = strays \cup (IF route.step \in {"blobs", "discard"} THEN fitted ELSE {})
  /\ UNCHANGED <<binding, places, fitted, blobs, mixed>>

DelNext ==
  \/ \E d \in Papers : StoreDocument(d) \/ IndexDocument(d) \/ Promote(d)
                       \/ DeleteDocument(d)
  \/ ParkRebuilt \/ PromoteRebuilt
  \/ RouteNext \/ SweepNext \/ Restart

DelSpec == DelInit /\ [][DelNext]_del_vars

\* The worker begins a cycle again and again, and ends each.
DelFairness == WF_del_vars(SweepNext)

-----------------------------------------------------------------------------
(* Properties.                                                             *)

\* The original of an ingested document is there, whoever deletes documents
\* with the same content, unless the document was stored while a deletion had
\* already decided on that content (or the process died before the promotion).
OriginalThere ==
  \A d \in papers \ raced : course[d] = "ended" => HashOf[d] \in blobs

\* "the vector rows are always a derivation of something the corpus already
\* holds": also after a deletion that failed half-way, except for a document
\* that was being ingested while it was deleted or copied, or that was
\* ingested under the name a promotion had left.
RowsHaveContent ==
  \A p \in {Name, Rebuilt} \cap {active, canary, Name} :
    \A x \in points[p] : PaperOf[x] \in mixed \/ x \in leaves

\* A drop that found documents and reports success has left nothing behind,
\* unless something was ingested or rebuilt meanwhile (or as above).
DropLeavesNothing ==
  At("answered") /\ ~ Kind("rows") /\ route.found /\ route.alone
  /\ mixed \cap Here = {} =>
    /\ papers \cap Here = {} /\ leaves \cap LeavesOf(Here) = {}
    /\ active = NoPlace /\ canary = NoPlace
    /\ places = {} /\ fitted \subseteq strays

\* Originals nobody refers to are reclaimed in the end: those a crash, an
\* undone ingest or a failed deletion has left.
OrphansReclaimed ==
  \A g \in Hashes :
    g \in blobs /\ ~ Referenced(g, papers)
      ~> g \notin blobs \/ Referenced(g, papers)
=============================================================================
