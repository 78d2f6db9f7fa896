--------------------------- MODULE Deletions_proofs ---------------------------
(***************************************************************************)
(* What deletions and the sweep leave, for any documents, contents and       *)
(* interleavings of the routes, the ingests, rebuilds and restarts.          *)
(***************************************************************************)
EXTENDS Deletions, TLAPS

Kinds == {"none", "rows", "collection", "database"}
RouteSteps == {"idle", "binding", "resolve", "rows", "drop", "dropAll", "corpus",
               "blobs", "discard", "answered"}
SweepSteps == {"idle", "hashes", "delete"}
Courses == {"new", "stored", "indexed", "ended", "failed"}

Routes == [step : RouteSteps, kind : Kinds, found : BOOLEAN, refs : SUBSET Places,
           first : Places \cup {NoPlace}, names : SUBSET Places,
           want : SUBSET Leaves, due : SUBSET Places,
           ids : [Places -> SUBSET Leaves], orphans : SUBSET Hashes, alone : BOOLEAN]
Sweeps == [step : SweepSteps, disk : SUBSET Hashes, orphans : SUBSET Hashes]

DelType ==
  /\ papers \subseteq Papers /\ leaves \subseteq Leaves
  /\ active \in Places \cup {NoPlace} /\ canary \in Places \cup {NoPlace}
  /\ places \subseteq Places /\ points \in [Places -> SUBSET Leaves]
  /\ fitted \subseteq Places /\ strays \subseteq Places /\ blobs \subseteq Hashes
  /\ course \in [Papers -> Courses]
  /\ route \in Routes /\ sweep \in Sweeps
  /\ raced \subseteq Papers /\ mixed \subseteq Papers

\* What a deletion or a sweep has decided to remove, no document refers to that
\* was not stored afterwards.
OriginInv ==
  /\ \A d \in papers \ raced : HashOf[d] \notin route.orphans \cup sweep.orphans
  /\ OriginalThere

Bound == IF active = NoPlace THEN {Name} ELSE {active, canary}
Unmixed == mixed \cap Here = {}
Dropping == route.kind \in {"collection", "database"}

StepKinds ==
  /\ route.step \in {"resolve", "rows"} => Kind("rows")
  /\ At("drop") => Kind("collection")
  /\ At("dropAll") => Kind("database")
  /\ At("corpus") /\ Dropping => route.found \/ Kind("database")
  /\ ~ At("idle") => Dropping \/ Kind("rows")
  /\ canary # NoPlace => active = Name /\ canary = Rebuilt

\* As long as no document of the collection is mixed: what there is is bound,
\* and what a drop has looked up covers what it has still to remove.
DropInv ==
  Unmixed =>
    /\ places \subseteq Bound
    /\ fitted \subseteq Bound \cup strays
         \cup (IF route.step \in {"blobs", "discard"} THEN route.names ELSE {})
    /\ At("drop") /\ route.found => places \subseteq route.refs
    /\ Dropping /\ route.step \in {"drop", "dropAll", "corpus", "blobs", "discard"} =>
         /\ route.found => fitted \subseteq route.names \cup strays
         /\ Kind("database") => fitted \subseteq route.names \cup strays \cup {Name}
    /\ Dropping /\ route.step \in {"corpus", "blobs", "discard", "answered"} =>
         places = {}
    /\ Dropping /\ route.step \in {"blobs", "discard", "answered"} =>
         /\ papers \cap Here = {} /\ leaves \cap LeavesOf(Here) = {}
         /\ active = NoPlace /\ canary = NoPlace
    /\ Dropping /\ At("answered") /\ route.found => fitted \subseteq strays

InUse == {active, canary, Name} \cap Places
MixedRows(p) == \A x \in points[p] : PaperOf[x] \in mixed

\* An unmixed document has all its leaves until a deletion begins, and a rebuild
\* has copied no such document before its ingest ended.
RowsInv ==
  /\ RowsHaveContent
  /\ Left => MixedRows(Name)
  /\ \A x \in leaves : course[PaperOf[x]] # "new"
  /\ \A x \in points[Rebuilt] :
       PaperOf[x] \in mixed \/ course[PaperOf[x]] \in {"ended", "failed"}
  /\ \A d \in Underway \ mixed : ~ Busy /\ LeavesOf({d}) \subseteq leaves
  /\ route.found /\ At("drop") /\ Name \notin route.refs => MixedRows(Name)
  /\ At("corpus") /\ Dropping => MixedRows(Name)

\* What a deletion removes from the corpus was asked for, and of what was asked
\* for each collection in use keeps nothing: what a filter matches there has been
\* found, and what was found is gone from those that had their turn.
Cleared(p) == \A x \in points[p] \cap route.want : PaperOf[x] \in mixed
Found(p) == \A x \in (points[p] \cap route.want) \ route.ids[p] : PaperOf[x] \in mixed
RequestInv ==
  /\ At("binding") => \A p \in Places : route.ids[p] = {}
  /\ route.step \in {"resolve", "rows", "drop", "dropAll", "corpus"} =>
       \A p \in Places : route.ids[p] \subseteq route.want
  /\ route.found /\ At("resolve") => /\ \A p \in InUse \ route.due : Found(p)
                                     /\ \A p \in InUse \ route.refs : Cleared(p)
  /\ route.found /\ At("rows") => /\ \A p \in InUse : Found(p)
                                  /\ \A p \in InUse \ route.refs : Cleared(p)
  /\ At("corpus") /\ Kind("rows") => \A p \in InUse : Cleared(p)

DelInv == DelType /\ StepKinds /\ OriginInv /\ DropInv /\ RowsInv /\ RequestInv

LEMMA InterfereKeeps ==
  ASSUME route \in Routes, Interfere
  PROVE  /\ route' \in Routes
         /\ route'.step = route.step /\ route'.kind = route.kind
         /\ route'.found = route.found /\ route'.refs = route.refs
         /\ route'.first = route.first /\ route'.names = route.names
         /\ route'.want = route.want /\ route'.due = route.due
         /\ route'.ids = route.ids /\ route'.orphans = route.orphans
BY DEF Routes, Interfere

LEMMA DelInitInv == DelInit => DelInv
<1> SUFFICES ASSUME DelInit PROVE DelInv
  OBVIOUS
<1> USE DeletionsAssumption DEF DelInit, Idle, Resting, At, Kind
<1>1. DelType
  BY DEF DelType, Places, Routes, Sweeps, Kinds, RouteSteps, SweepSteps, Courses
<1>2. StepKinds
  BY DEF StepKinds, Dropping
<1>3. OriginInv
  BY DEF OriginInv, OriginalThere
<1>4. DropInv
  BY DEF DropInv, Bound, Dropping
<1>5. RowsInv
  BY DEF RowsInv, RowsHaveContent, InUse, MixedRows, Left, Underway, Busy, Here,
         Dropping, Places
<1>6. RequestInv
  BY DEF RequestInv
<1> QED
  BY <1>1, <1>2, <1>3, <1>4, <1>5, <1>6 DEF DelInv

\* A deletion goes on: the locals it may set, and their types.
LEMMA RouteMoves ==
  ASSUME route \in Routes, NEW st \in RouteSteps
  PROVE  /\ [route EXCEPT !.step = st] \in Routes
         /\ \A R \in SUBSET Places :
              /\ [route EXCEPT !.refs = R] \in Routes
              /\ [route EXCEPT !.names = R] \in Routes
              /\ [route EXCEPT !.refs = R, !.step = st] \in Routes
         /\ \A O \in SUBSET Hashes :
              /\ [route EXCEPT !.orphans = O] \in Routes
              /\ [route EXCEPT !.step = st, !.orphans = O] \in Routes
              /\ [route EXCEPT !.step = st, !.want = {},
                               !.ids = [p \in Places |-> {}], !.orphans = O] \in Routes
BY DEF Routes

LEMMA IdleRoute == Idle \in Routes
BY DEF Idle, Routes, RouteSteps, Kinds

\* The route has looked up what it will work on.
LEMMA LookUpMoves ==
  ASSUME route \in Routes, NEW R \in SUBSET Places, NEW f \in Places \cup {NoPlace},
         NEW N \in SUBSET Places, LookUp(R, f, N)
  PROVE  /\ route' \in Routes
         /\ route'.kind = route.kind /\ route'.found = route.found
         /\ route'.refs = R /\ route'.first = f /\ route'.names = N
         /\ route'.orphans = route.orphans
         /\ Kind("collection") => route'.step = "drop" /\ route'.ids = route.ids
         /\ Kind("database") => route'.step = "dropAll" /\ route'.ids = route.ids
         /\ ~ Kind("collection") /\ ~ Kind("database") =>
              \/ route'.step = "rows" /\ \A p \in Places : route'.ids[p] = route'.want
              \/ /\ route.found /\ route'.step = "resolve" /\ route'.due = R
                 /\ route'.ids = route.ids
<1> DEFINE looked == [route EXCEPT !.refs = R, !.first = f, !.names = N]
<1>1. /\ looked \in Routes /\ looked.kind = route.kind /\ looked.found = route.found
      /\ looked.refs = R /\ looked.first = f /\ looked.names = N
      /\ looked.orphans = route.orphans /\ looked.ids = route.ids
  BY DEF Routes
<1> HIDE DEF looked
<1>2. CASE Kind("collection")
  <2>1. route' = [looked EXCEPT !.step = "drop"]
    BY <1>2 DEF LookUp, looked, Kind
  <2> QED
    BY <1>1, <1>2, <2>1 DEF Routes, RouteSteps, Kind
<1>3. CASE Kind("database")
  <2>1. route' = [looked EXCEPT !.step = "dropAll"]
    BY <1>3 DEF LookUp, looked, Kind
  <2> QED
    BY <1>1, <1>3, <2>1 DEF Routes, RouteSteps, Kind
<1>4. CASE ~ Kind("collection") /\ ~ Kind("database")
  <2>1. PICK want \in SUBSET Leaves :
          \/ route' = [looked EXCEPT !.want = want, !.step = "rows",
                                     !.ids = [p \in Places |-> want]]
          \/ /\ route.found
             /\ route' = [looked EXCEPT !.want = want, !.step = "resolve",
                                        !.due = R]
    BY <1>4 DEF LookUp, looked, LeavesOf
  <2>2. CASE route' = [looked EXCEPT !.want = want, !.step = "rows",
                                     !.ids = [p \in Places |-> want]]
    BY <1>1, <1>4, <2>2 DEF Routes, RouteSteps
  <2>3. CASE /\ route.found
             /\ route' = [looked EXCEPT !.want = want, !.step = "resolve",
                                        !.due = R]
    BY <1>1, <1>4, <2>3 DEF Routes, RouteSteps
  <2> QED
    BY <2>1, <2>2, <2>3
<1> QED
  BY <1>2, <1>3, <1>4

LEMMA BindingMoves ==
  ASSUME DelType, LookUpRefs
  PROVE  \E R \in SUBSET Places, f \in Places \cup {NoPlace}, N \in SUBSET Places :
           /\ LookUp(R, f, N)
           /\ IF active # NoPlace /\ (route.found \/ Kind("database"))
              THEN /\ R = {active, canary} \ {NoPlace}
                   /\ R \subseteq N
              ELSE R = {Name} /\ (~ Kind("database") => R \subseteq N)
           /\ Kind("database") /\ route.found => Name \in N
BY DEF LookUpRefs, DelType, Places

LEMMA ResolveMoves ==
  ASSUME route \in Routes, points \in [Places -> SUBSET Leaves],
         NEW p \in Places, Resolve(p)
  PROVE  /\ route' \in Routes
         /\ \/ route' = Idle
            \/ /\ route'.kind = route.kind /\ route'.found = route.found
               /\ route'.refs = route.refs /\ route'.first = route.first
               /\ route'.names = route.names /\ route'.orphans = route.orphans
               /\ route'.want = route.want /\ route'.due = route.due \ {p}
               /\ route'.ids = [route.ids EXCEPT ![p] = route.want \cap points[p]]
               /\ route'.step = IF route.due = {p} THEN "rows" ELSE "resolve"
<1>1. CASE Ends
  BY <1>1, IdleRoute DEF Ends
<1>2. CASE ~ Ends
  <2> DEFINE st == IF route.due = {p} THEN "rows" ELSE "resolve"
             new == route.want \cap points[p]
             rest == route.due \ {p}
  <2>1. route' = [route EXCEPT !.ids[p] = new, !.due = rest, !.step = st]
    BY <1>2 DEF Resolve
  <2>2. st \in RouteSteps /\ new \in SUBSET Leaves /\ rest \in SUBSET Places
    BY DEF RouteSteps, Routes
  <2> HIDE DEF st, new, rest
  <2>3. /\ route' \in Routes
        /\ route'.kind = route.kind /\ route'.found = route.found
        /\ route'.refs = route.refs /\ route'.first = route.first
        /\ route'.names = route.names /\ route'.orphans = route.orphans
        /\ route'.want = route.want /\ route'.due = rest
        /\ route'.ids = [route.ids EXCEPT ![p] = new] /\ route'.step = st
    BY <2>1, <2>2 DEF Routes
  <2> QED
    BY <2>3 DEF st, new, rest
<1> QED
  BY <1>1, <1>2

LEMMA OrphansType ==
  ASSUME NEW D \in SUBSET Papers, NEW E PROVE Orphans(D, E) \subseteq Hashes
BY DeletionsAssumption DEF Orphans

LEMMA TypeStep ==
  ASSUME DelType, [DelNext]_del_vars
  PROVE  DelType'
<1> USE DeletionsAssumption
    DEF DelType, Places, corpus, binding, milvus, marks, LeavesOf
<1>1. ASSUME NEW d \in Papers, StoreDocument(d) PROVE DelType'
  BY <1>1, InterfereKeeps DEF StoreDocument, Advance, Courses
<1>2. ASSUME NEW d \in Papers, IndexDocument(d) PROVE DelType'
  BY <1>2, InterfereKeeps DEF IndexDocument, Advance, Courses
<1>3. ASSUME NEW d \in Papers, Promote(d) PROVE DelType'
  BY <1>3, InterfereKeeps DEF Promote, Advance, Courses
<1>4. ASSUME NEW d \in Papers, DeleteDocument(d) PROVE DelType'
  BY <1>4, InterfereKeeps DEF DeleteDocument, Advance, Courses
<1>5. CASE ParkRebuilt
  <2>1. /\ active' = Name /\ canary' = Rebuilt /\ places' = places \cup {Rebuilt}
        /\ points' = [points EXCEPT ![Rebuilt] = leaves \cap LeavesOf(Here)]
        /\ fitted' = fitted \cup {Rebuilt} /\ mixed' \subseteq Papers
        /\ UNCHANGED <<papers, leaves, blobs, course, sweep, raced, strays>>
    BY <1>5 DEF ParkRebuilt, Underway, Here
  <2>2. route' \in Routes
    BY <1>5, InterfereKeeps DEF ParkRebuilt
  <2> QED
    BY <2>1, <2>2
<1>6. CASE PromoteRebuilt
  BY <1>6, InterfereKeeps DEF PromoteRebuilt
<1>7. CASE BeginRoute
  <2>1. PICK kind \in {"rows", "collection", "database"} :
          route' = [Idle EXCEPT !.step = "binding", !.kind = kind,
                                !.found = papers \cap Here # {}]
    BY <1>7 DEF BeginRoute
  <2>2. route' \in Routes
    BY <2>1 DEF Idle, Routes, RouteSteps, Kinds
  <2> QED
    BY <1>7, <2>2 DEF BeginRoute, Underway, Here
<1>8. CASE LookUpRefs
  <2>1. route' \in Routes
    BY <1>8, BindingMoves, LookUpMoves
  <2> QED
    BY <1>8, <2>1 DEF LookUpRefs
<1>9. ASSUME NEW p \in Places, Resolve(p) PROVE DelType'
  <2>1. route' \in Routes
    BY <1>9, ResolveMoves
  <2> QED
    BY <1>9, <2>1 DEF Resolve
<1>11. ASSUME NEW p \in Places, DeleteRows(p) PROVE DelType'
  <2>1. route' \in Routes
    <3>1. \/ route' = Idle
          \/ route' = [route EXCEPT !.refs = {}, !.step = After("corpus")]
          \/ route' = [route EXCEPT !.refs = @ \ {p}]
      BY <1>11 DEF DeleteRows, Ends
    <3>2. After("corpus") \in RouteSteps /\ route.refs \ {p} \in SUBSET Places
      BY DEF After, RouteSteps, Routes
    <3>3. /\ [route EXCEPT !.refs = {}, !.step = After("corpus")] \in Routes
          /\ [route EXCEPT !.refs = route.refs \ {p}] \in Routes
      BY <3>2, RouteMoves
    <3> QED
      BY <3>1, <3>3, IdleRoute
  <2>2. points' \in [Places -> SUBSET Leaves]
    BY <1>11 DEF DeleteRows
  <2> QED
    BY <1>11, <2>1, <2>2 DEF DeleteRows
<1>12. ASSUME NEW p \in Places, DropRef(p) PROVE DelType'
  <2>1. route' \in Routes
    <3>1. \/ route' = Idle
          \/ route' = [route EXCEPT !.refs = {}, !.step = After("corpus")]
          \/ route' = [route EXCEPT !.refs = @ \ {p}]
      BY <1>12 DEF DropRef, Ends
    <3>2. After("corpus") \in RouteSteps /\ route.refs \ {p} \in SUBSET Places
      BY DEF After, RouteSteps, Routes
    <3>3. /\ [route EXCEPT !.refs = {}, !.step = After("corpus")] \in Routes
          /\ [route EXCEPT !.refs = route.refs \ {p}] \in Routes
      BY <3>2, RouteMoves
    <3> QED
      BY <3>1, <3>3, IdleRoute
  <2>2. points' \in [Places -> SUBSET Leaves]
    BY <1>12 DEF DropRef
  <2>3. places' \subseteq Places
    BY <1>12 DEF DropRef
  <2> QED
    BY <1>12, <2>1, <2>2, <2>3 DEF DropRef
<1>13. CASE DropStoreDatabase
  <2>1. route' \in Routes
    BY <1>13, IdleRoute, RouteMoves DEF DropStoreDatabase, Goto, Ends, RouteSteps
  <2>2. points' \in [Places -> SUBSET Leaves] /\ places' \subseteq Places
    BY <1>13 DEF DropStoreDatabase
  <2> QED
    BY <1>13, <2>1, <2>2 DEF DropStoreDatabase
<1>14. CASE DeleteChunks
  <2>1. PICK hit, rest :
          /\ hit \subseteq papers
          /\ route' = [route EXCEPT !.step = "blobs", !.want = {},
                                    !.ids = [p \in Places |-> {}],
                                    !.orphans = Orphans(hit, rest)]
    BY <1>14 DEF DeleteChunks, Places
  <2>2. route' \in Routes
    BY <2>1, OrphansType, RouteMoves DEF RouteSteps
  <2>3. leaves' \subseteq Leaves /\ papers' \subseteq Papers
    BY <1>14 DEF DeleteChunks
  <2> QED
    BY <1>14, <2>2, <2>3 DEF DeleteChunks
<1>15. CASE DeleteForCollection
  <2>1. Orphans(papers \cap Here, papers \ Here) \subseteq Hashes
    BY OrphansType
  <2>2. route' \in Routes
    BY <1>15, <2>1, RouteMoves DEF DeleteForCollection, RouteSteps
  <2> QED
    BY <1>15, <2>2 DEF DeleteForCollection
<1>16. CASE DeleteBlob
  <2>1. route' \in Routes
    <3>1. "discard" \in RouteSteps /\ route.orphans \in SUBSET Hashes
      BY DEF RouteSteps, Routes
    <3> QED
      BY <1>16, <3>1, RouteMoves DEF DeleteBlob, Goto
  <2> QED
    BY <1>16, <2>1 DEF DeleteBlob
<1>17. CASE DiscardStatistics
  <2>1. route' \in Routes
    <3>1. "answered" \in RouteSteps /\ route.names \in SUBSET Places
      BY DEF RouteSteps, Routes
    <3> QED
      BY <1>17, <3>1, RouteMoves DEF DiscardStatistics, Goto
  <2> QED
    BY <1>17, <2>1 DEF DiscardStatistics
<1>18. CASE Answer
  BY <1>18, IdleRoute DEF Answer, Ends
<1>19. CASE SweepNext
  <2>1. sweep' \in Sweeps /\ blobs' \subseteq Hashes
    <3>1. CASE SweepList
      BY <3>1 DEF SweepList, Sweeps, SweepSteps
    <3>2. CASE SweepHashes
      BY <3>2 DEF SweepHashes, Sweeps, SweepSteps
    <3>3. CASE SweepDelete
      BY <3>3 DEF SweepDelete, Resting, Sweeps, SweepSteps
    <3> QED
      BY <1>19, <3>1, <3>2, <3>3 DEF SweepNext
  <2> QED
    BY <1>19, <2>1 DEF SweepNext, SweepList, SweepHashes, SweepDelete, SweepRests
<1>20. CASE Restart
  <2>1. course' \in [Papers -> Courses]
    BY <1>20 DEF Restart, Courses
  <2>2. sweep' \in Sweeps
    BY <1>20 DEF Restart, Resting, Sweeps, SweepSteps
  <2> QED
    BY <1>20, <2>1, <2>2, IdleRoute DEF Restart
<1>21. CASE UNCHANGED del_vars
  BY <1>21 DEF del_vars
<1> QED
  BY <1>1, <1>2, <1>3, <1>4, <1>5, <1>6, <1>7, <1>8, <1>9, <1>11, <1>12,
     <1>13, <1>14, <1>15, <1>16, <1>17, <1>18, <1>19, <1>20, <1>21
  DEF DelNext, RouteNext

LEMMA KindStep ==
  ASSUME DelType, StepKinds, [DelNext]_del_vars
  PROVE  StepKinds'
<1> USE DeletionsAssumption
    DEF DelType, StepKinds, Dropping, Places, Routes, Kinds, RouteSteps,
        corpus, binding, milvus, marks, At, Kind, Goto, Ends, Idle, After
<1>1. ASSUME NEW d \in Papers, StoreDocument(d) PROVE StepKinds'
  BY <1>1, InterfereKeeps DEF StoreDocument, Advance
<1>2. ASSUME NEW d \in Papers, IndexDocument(d) PROVE StepKinds'
  BY <1>2, InterfereKeeps DEF IndexDocument, Advance
<1>3. ASSUME NEW d \in Papers, Promote(d) PROVE StepKinds'
  BY <1>3, InterfereKeeps DEF Promote, Advance
<1>4. ASSUME NEW d \in Papers, DeleteDocument(d) PROVE StepKinds'
  BY <1>4, InterfereKeeps DEF DeleteDocument, Advance
<1>5. CASE ParkRebuilt
  BY <1>5, InterfereKeeps DEF ParkRebuilt
<1>6. CASE PromoteRebuilt
  BY <1>6, InterfereKeeps DEF PromoteRebuilt
<1>7. CASE BeginRoute
  BY <1>7 DEF BeginRoute
<1>8. CASE LookUpRefs
  <2>1. PICK R \in SUBSET Places, f \in Places \cup {NoPlace}, N \in SUBSET Places :
          /\ LookUp(R, f, N)
          /\ IF active # NoPlace /\ (route.found \/ Kind("database"))
             THEN R = {active, canary} \ {NoPlace} /\ R \subseteq N
             ELSE R = {Name} /\ (~ Kind("database") => R \subseteq N)
          /\ Kind("database") /\ route.found => Name \in N
    BY <1>8, BindingMoves
  <2>2. At("binding") /\ UNCHANGED <<active, canary>>
    BY <1>8 DEF LookUpRefs
  <2>3. /\ route'.kind = route.kind /\ route'.found = route.found
        /\ route'.refs = R /\ route'.names = N /\ route'.orphans = route.orphans
        /\ Kind("collection") => route'.step = "drop"
        /\ Kind("database") => route'.step = "dropAll"
        /\ ~ Kind("collection") /\ ~ Kind("database") =>
             route'.step \in {"rows", "resolve"}
    BY <2>1, LookUpMoves
  <2> QED
    BY <2>1, <2>2, <2>3
<1>9. ASSUME NEW p \in Places, Resolve(p) PROVE StepKinds'
  <2>1. At("resolve") /\ UNCHANGED <<active, canary>>
    BY <1>9 DEF Resolve
  <2>2. \/ route' = Idle
        \/ /\ route'.kind = route.kind /\ route'.found = route.found
           /\ route'.refs = route.refs /\ route'.names = route.names
           /\ route'.orphans = route.orphans
           /\ route'.step \in {"rows", "resolve"}
    BY <1>9, ResolveMoves
  <2> QED
    BY <2>1, <2>2
<1>11. ASSUME NEW p \in Places, DeleteRows(p) PROVE StepKinds'
  <2>1. CASE Ends
    BY <1>11, <2>1 DEF DeleteRows
  <2>2. CASE \E R : \/ route' = [route EXCEPT !.refs = R, !.step = After("corpus")]
                    \/ route' = [route EXCEPT !.refs = R]
    BY <1>11, <2>2 DEF DeleteRows
  <2> QED
    BY <1>11, <2>1, <2>2 DEF DeleteRows
<1>12. ASSUME NEW p \in Places, DropRef(p) PROVE StepKinds'
  <2>1. CASE Ends
    BY <1>12, <2>1 DEF DropRef
  <2>2. CASE \E R : \/ route' = [route EXCEPT !.refs = R, !.step = After("corpus")]
                    \/ route' = [route EXCEPT !.refs = R]
    BY <1>12, <2>2 DEF DropRef
  <2> QED
    BY <1>12, <2>1, <2>2 DEF DropRef
<1>13. CASE DropStoreDatabase
  BY <1>13 DEF DropStoreDatabase
<1>14. CASE DeleteChunks
  BY <1>14 DEF DeleteChunks
<1>15. CASE DeleteForCollection
  BY <1>15 DEF DeleteForCollection
<1>16. CASE DeleteBlob
  BY <1>16 DEF DeleteBlob
<1>17. CASE DiscardStatistics
  BY <1>17 DEF DiscardStatistics
<1>18. CASE Answer
  BY <1>18 DEF Answer
<1>19. CASE SweepNext
  BY <1>19 DEF SweepNext, SweepList, SweepHashes, SweepDelete, SweepRests
<1>20. CASE Restart
  BY <1>20 DEF Restart
<1>21. CASE UNCHANGED del_vars
  BY <1>21 DEF del_vars
<1> QED
  BY <1>1, <1>2, <1>3, <1>4, <1>5, <1>6, <1>7, <1>8, <1>9, <1>11, <1>12,
     <1>13, <1>14, <1>15, <1>16, <1>17, <1>18, <1>19, <1>20, <1>21
  DEF DelNext, RouteNext

\* The rows leave a physical collection, or it goes: only two locals change.
LEMMA RefStep ==
  ASSUME route \in Routes, NEW p,
         route' = IF route.refs = {p}
                  THEN [route EXCEPT !.refs = {}, !.step = After("corpus")]
                  ELSE [route EXCEPT !.refs = @ \ {p}]
  PROVE  /\ route'.kind = route.kind /\ route'.found = route.found
         /\ route'.names = route.names /\ route'.ids = route.ids
         /\ route'.want = route.want
         /\ route'.orphans = route.orphans /\ route'.refs = route.refs \ {p}
         /\ route'.step = IF route.refs = {p} THEN After("corpus") ELSE route.step
BY DEF Routes

\* Deciding on fewer contents, and removing none, keeps the originals.
LEMMA OriginKept ==
  ASSUME OriginInv, papers' = papers, raced' = raced, course' = course,
         blobs' = blobs, route'.orphans \subseteq route.orphans,
         sweep'.orphans \subseteq sweep.orphans
  PROVE  OriginInv'
BY DEF OriginInv, OriginalThere

LEMMA OriginStep ==
  ASSUME DelType, OriginInv, [DelNext]_del_vars
  PROVE  OriginInv'
<1> USE DeletionsAssumption
    DEF DelType, OriginInv, OriginalThere, Courses, Routes, Sweeps, Idle, Resting,
        Orphans, Referenced, corpus, binding, milvus, marks, Goto, Ends
<1>1. ASSUME NEW d \in Papers, StoreDocument(d) PROVE OriginInv'
  BY <1>1, InterfereKeeps DEF StoreDocument, Advance
<1>2. ASSUME NEW d \in Papers, IndexDocument(d) PROVE OriginInv'
  BY <1>2, InterfereKeeps DEF IndexDocument, Advance
<1>3. ASSUME NEW d \in Papers, Promote(d) PROVE OriginInv'
  BY <1>3, InterfereKeeps DEF Promote, Advance
<1>4. ASSUME NEW d \in Papers, DeleteDocument(d) PROVE OriginInv'
  BY <1>4, InterfereKeeps DEF DeleteDocument, Advance
<1>5. CASE ParkRebuilt
  BY <1>5, InterfereKeeps DEF ParkRebuilt
<1>6. CASE PromoteRebuilt
  BY <1>6, InterfereKeeps DEF PromoteRebuilt
<1>7. CASE BeginRoute
  BY <1>7 DEF BeginRoute
<1>8. CASE LookUpRefs
  <2>1. PICK R \in SUBSET Places, f \in Places \cup {NoPlace}, N \in SUBSET Places :
          /\ LookUp(R, f, N)
          /\ IF active # NoPlace /\ (route.found \/ Kind("database"))
             THEN R = {active, canary} \ {NoPlace} /\ R \subseteq N
             ELSE R = {Name} /\ (~ Kind("database") => R \subseteq N)
          /\ Kind("database") /\ route.found => Name \in N
    BY <1>8, BindingMoves
  <2>2. At("binding") /\ UNCHANGED <<papers, raced, course, blobs, sweep>>
    BY <1>8 DEF LookUpRefs
  <2>3. /\ route'.kind = route.kind /\ route'.found = route.found
        /\ route'.refs = R /\ route'.names = N /\ route'.orphans = route.orphans
        /\ Kind("collection") => route'.step = "drop"
        /\ Kind("database") => route'.step = "dropAll"
        /\ ~ Kind("collection") /\ ~ Kind("database") =>
             route'.step \in {"rows", "resolve"}
    BY <2>1, LookUpMoves
  <2> QED
    BY <2>1, <2>2, <2>3
<1>9. ASSUME NEW p \in Places, Resolve(p) PROVE OriginInv'
  <2>1. At("resolve") /\ UNCHANGED <<papers, raced, course, blobs, sweep>>
    BY <1>9 DEF Resolve
  <2>2. \/ route' = Idle
        \/ /\ route'.kind = route.kind /\ route'.found = route.found
           /\ route'.refs = route.refs /\ route'.names = route.names
           /\ route'.orphans = route.orphans
           /\ route'.step \in {"rows", "resolve"}
    BY <1>9, ResolveMoves
  <2> QED
    BY <2>1, <2>2
<1>11. ASSUME NEW p \in Places, DeleteRows(p) PROVE OriginInv'
  <2>1. /\ papers' = papers /\ raced' = raced /\ course' = course /\ blobs' = blobs
        /\ sweep' = sweep
    BY <1>11 DEF DeleteRows
  <2>2. route'.orphans \subseteq route.orphans
    <3>1. CASE Ends
      BY <3>1
    <3>2. CASE ~ Ends
      BY <1>11, <3>2, RefStep DEF DeleteRows
    <3> QED
      BY <3>1, <3>2
  <2> QED
    BY <2>1, <2>2, OriginKept
<1>12. ASSUME NEW p \in Places, DropRef(p) PROVE OriginInv'
  <2>1. /\ papers' = papers /\ raced' = raced /\ course' = course /\ blobs' = blobs
        /\ sweep' = sweep
    BY <1>12 DEF DropRef
  <2>2. route'.orphans \subseteq route.orphans
    <3>1. CASE Ends
      BY <3>1
    <3>2. CASE ~ Ends
      BY <1>12, <3>2, RefStep DEF DropRef
    <3> QED
      BY <3>1, <3>2
  <2> QED
    BY <2>1, <2>2, OriginKept
<1>13. CASE DropStoreDatabase
  BY <1>13 DEF DropStoreDatabase
<1>14. CASE DeleteChunks
  BY <1>14 DEF DeleteChunks
<1>15. CASE DeleteForCollection
  BY <1>15 DEF DeleteForCollection
<1>16. CASE DeleteBlob
  BY <1>16 DEF DeleteBlob
<1>17. CASE DiscardStatistics
  BY <1>17 DEF DiscardStatistics
<1>18. CASE Answer
  BY <1>18 DEF Answer
<1>19. CASE SweepNext
  <2>1. CASE SweepList
    BY <2>1 DEF SweepList, SweepRests
  <2>2. CASE SweepHashes
    BY <2>2 DEF SweepHashes, SweepRests
  <2>3. CASE SweepDelete
    <3>1. CASE sweep.orphans = {}
      BY <2>3, <3>1 DEF SweepDelete, SweepRests
    <3>2. ASSUME NEW g \in sweep.orphans, blobs' = blobs \ {g},
                 sweep' = [sweep EXCEPT !.orphans = @ \ {g}]
          PROVE  OriginInv'
      <4>1. sweep'.orphans \subseteq sweep.orphans
        BY <3>2
      <4>2. papers' = papers /\ raced' = raced /\ course' = course /\ route' = route
        BY <2>3 DEF SweepDelete, SweepRests
      <4> QED
        BY <3>2, <4>1, <4>2
    <3> QED
      BY <2>3, <3>1, <3>2 DEF SweepDelete
  <2> QED
    BY <1>19, <2>1, <2>2, <2>3 DEF SweepNext
<1>20. CASE Restart
  BY <1>20 DEF Restart
<1>21. CASE UNCHANGED del_vars
  BY <1>21 DEF del_vars
<1> QED
  BY <1>1, <1>2, <1>3, <1>4, <1>5, <1>6, <1>7, <1>8, <1>9, <1>11, <1>12,
     <1>13, <1>14, <1>15, <1>16, <1>17, <1>18, <1>19, <1>20, <1>21
  DEF DelNext, RouteNext

LEMMA DropStep ==
  ASSUME DelType, StepKinds, DropInv, [DelNext]_del_vars
  PROVE  DropInv'
<1> USE DeletionsAssumption
    DEF DelType, StepKinds, DropInv, Bound, Unmixed, Dropping, Places, Routes, Idle,
        Here, Busy, Left, corpus, binding, milvus, marks, At, Kind, Goto, Ends, After
<1>1. ASSUME NEW d \in Papers, StoreDocument(d) PROVE DropInv'
  <2>1. /\ mixed \subseteq mixed' /\ (Busy => d \in mixed')
        /\ papers' = papers \cup {d} /\ leaves' = leaves \cup LeavesOf({d})
        /\ route'.step = route.step /\ route'.kind = route.kind
        /\ route'.found = route.found /\ route'.refs = route.refs
        /\ route'.names = route.names
        /\ UNCHANGED <<active, canary, places, fitted, strays>>
    BY <1>1, InterfereKeeps DEF StoreDocument, Advance
  <2>2. CASE Busy /\ d \in Here
    BY <2>1, <2>2
  <2>3. CASE Busy /\ d \notin Here
    <3>1. papers' \cap Here = papers \cap Here
          /\ leaves' \cap LeavesOf(Here) = leaves \cap LeavesOf(Here)
      BY <2>1, <2>3 DEF LeavesOf
    <3> HIDE DEF Here
    <3> QED
      BY <2>1, <3>1
  <2>4. CASE ~ Busy
    BY <2>1, <2>4
  <2> QED
    BY <2>2, <2>3, <2>4
<1>2. ASSUME NEW d \in Papers, IndexDocument(d) PROVE DropInv'
  <2>1. /\ mixed \subseteq mixed' /\ (Busy \/ Left => d \in mixed')
        /\ route'.step = route.step /\ route'.kind = route.kind
        /\ route'.found = route.found /\ route'.refs = route.refs
        /\ route'.names = route.names
        /\ UNCHANGED <<papers, leaves, active, canary, strays>>
        /\ IF d \in Elsewhere THEN UNCHANGED <<places, fitted>>
           ELSE places' = places \cup {Name} /\ fitted' = fitted \cup {Name}
    BY <1>2, InterfereKeeps DEF IndexDocument, Advance
  <2>2. CASE d \in Elsewhere
    BY <2>1, <2>2
  <2>3. CASE d \notin Elsewhere /\ (Busy \/ Left)
    BY <2>1, <2>3
  <2>4. CASE d \notin Elsewhere /\ ~ Busy /\ ~ Left
    BY <2>1, <2>4
  <2> QED
    BY <2>2, <2>3, <2>4
<1>3. ASSUME NEW d \in Papers, Promote(d) PROVE DropInv'
  BY <1>3, InterfereKeeps DEF Promote, Advance
<1>4. ASSUME NEW d \in Papers, DeleteDocument(d) PROVE DropInv'
  BY <1>4, InterfereKeeps DEF DeleteDocument, Advance
<1>5. CASE ParkRebuilt
  BY <1>5, InterfereKeeps DEF ParkRebuilt
<1>6. CASE PromoteRebuilt
  BY <1>6, InterfereKeeps DEF PromoteRebuilt
<1>7. CASE BeginRoute
  BY <1>7 DEF BeginRoute
<1>8. CASE LookUpRefs
  <2>1. PICK R \in SUBSET Places, f \in Places \cup {NoPlace}, N \in SUBSET Places :
          /\ LookUp(R, f, N)
          /\ IF active # NoPlace /\ (route.found \/ Kind("database"))
             THEN R = {active, canary} \ {NoPlace} /\ R \subseteq N
             ELSE R = {Name} /\ (~ Kind("database") => R \subseteq N)
          /\ Kind("database") /\ route.found => Name \in N
    BY <1>8, BindingMoves
  <2>2. At("binding") /\ UNCHANGED <<papers, leaves, active, canary, places, fitted, mixed, strays>>
    BY <1>8 DEF LookUpRefs
  <2>3. /\ route'.kind = route.kind /\ route'.found = route.found
        /\ route'.refs = R /\ route'.names = N /\ route'.orphans = route.orphans
        /\ Kind("collection") => route'.step = "drop"
        /\ Kind("database") => route'.step = "dropAll"
        /\ ~ Kind("collection") /\ ~ Kind("database") =>
             route'.step \in {"rows", "resolve"}
    BY <2>1, LookUpMoves
  <2> QED
    BY <2>1, <2>2, <2>3
<1>9. ASSUME NEW p \in Places, Resolve(p) PROVE DropInv'
  <2>1. At("resolve") /\ UNCHANGED <<papers, leaves, active, canary, places, fitted, mixed, strays>>
    BY <1>9 DEF Resolve
  <2>2. \/ route' = Idle
        \/ /\ route'.kind = route.kind /\ route'.found = route.found
           /\ route'.refs = route.refs /\ route'.names = route.names
           /\ route'.orphans = route.orphans
           /\ route'.step \in {"rows", "resolve"}
    BY <1>9, ResolveMoves
  <2> QED
    BY <2>1, <2>2
<1>11. ASSUME NEW p \in Places, DeleteRows(p) PROVE DropInv'
  <2>1. /\ UNCHANGED <<papers, leaves, active, canary, places, fitted, mixed, strays>>
        /\ route.step = "rows" /\ route.kind = "rows"
    BY <1>11 DEF DeleteRows
  <2>2. CASE Ends
    BY <2>1, <2>2
  <2>3. CASE ~ Ends
    <3>1. route'.kind = "rows" /\ route'.step \in {"rows", "corpus", "idle"}
      BY <1>11, <2>1, <2>3, RefStep DEF DeleteRows
    <3> QED
      BY <2>1, <3>1
  <2> QED
    BY <2>2, <2>3
<1>12. ASSUME NEW p \in Places, DropRef(p) PROVE DropInv'
  <2>1. /\ UNCHANGED <<papers, leaves, active, canary, fitted, mixed, strays>>
        /\ route.step = "drop" /\ route.kind = "collection"
    BY <1>12 DEF DropRef
  <2>2. CASE Ends
    BY <1>12, <2>1, <2>2 DEF DropRef
  <2>3. CASE ~ Ends
    <3>1. /\ places' = places \ {p}
          /\ route'.kind = route.kind /\ route'.found = route.found
          /\ route'.names = route.names /\ route'.refs = route.refs \ {p}
          /\ route'.step = IF route.refs = {p} THEN After("corpus") ELSE route.step
      BY <1>12, <2>3, RefStep DEF DropRef
    <3>2. After("corpus") = IF route.found THEN "corpus" ELSE "idle"
      OBVIOUS
    <3> QED
      BY <2>1, <3>1, <3>2
  <2> QED
    BY <2>2, <2>3
<1>13. CASE DropStoreDatabase
  BY <1>13 DEF DropStoreDatabase
<1>14. CASE DeleteChunks
  BY <1>14 DEF DeleteChunks
<1>15. CASE DeleteForCollection
  BY <1>15 DEF DeleteForCollection
<1>16. CASE DeleteBlob
  <2>1. /\ UNCHANGED <<papers, leaves, active, canary, places, fitted, mixed, strays>>
        /\ route.step = "blobs"
        /\ route'.kind = route.kind /\ route'.found = route.found
        /\ route'.names = route.names
        /\ route'.step \in {"blobs", "discard"}
    BY <1>16 DEF DeleteBlob
  <2> QED
    BY <2>1
<1>17. CASE DiscardStatistics
  <2>1. /\ UNCHANGED <<papers, leaves, active, canary, places, mixed, strays>>
        /\ route.step = "discard"
        /\ route'.kind = route.kind /\ route'.found = route.found
    BY <1>17 DEF DiscardStatistics
  <2>2. CASE \E p \in route.names : /\ fitted' = fitted \ {p}
                                    /\ route' = [route EXCEPT !.names = @ \ {p}]
    <3>1. PICK p \in route.names : /\ fitted' = fitted \ {p}
                                   /\ route' = [route EXCEPT !.names = @ \ {p}]
      BY <2>2
    <3>2. route'.names = route.names \ {p} /\ route'.step = "discard"
      BY <2>1, <3>1
    <3> QED
      BY <2>1, <3>1, <3>2
  <2>3. CASE route.names = {} /\ Goto("answered") /\ UNCHANGED fitted
    <3>1. route'.names = route.names /\ route'.step = "answered"
      BY <2>3
    <3> QED
      BY <2>1, <2>3, <3>1
  <2> QED
    BY <1>17, <2>2, <2>3 DEF DiscardStatistics
<1>18. CASE Answer
  BY <1>18 DEF Answer
<1>19. CASE SweepNext
  BY <1>19 DEF SweepNext, SweepList, SweepHashes, SweepDelete, SweepRests
<1>20. CASE Restart
  BY <1>20 DEF Restart
<1>21. CASE UNCHANGED del_vars
  BY <1>21 DEF del_vars
<1> QED
  BY <1>1, <1>2, <1>3, <1>4, <1>5, <1>6, <1>7, <1>8, <1>9, <1>11, <1>12,
     <1>13, <1>14, <1>15, <1>16, <1>17, <1>18, <1>19, <1>20, <1>21
  DEF DelNext, RouteNext

LEMMA RowsStep ==
  ASSUME DelType, StepKinds, RowsInv, RequestInv, [DelNext]_del_vars
  PROVE  RowsInv'
<1> USE DeletionsAssumption
    DEF DelType, StepKinds, RowsInv, RowsHaveContent, InUse, MixedRows, Dropping,
        Places, Idle, Here, Underway, LeavesOf, Busy, Left, corpus, binding, milvus, marks,
        At, Kind, Goto, Ends, Courses
<1>1. ASSUME NEW d \in Papers, StoreDocument(d) PROVE RowsInv'
  BY <1>1, InterfereKeeps DEF StoreDocument, Advance
<1>2. ASSUME NEW d \in Papers, IndexDocument(d) PROVE RowsInv'
  BY <1>2, InterfereKeeps DEF IndexDocument, Advance
<1>3. ASSUME NEW d \in Papers, Promote(d) PROVE RowsInv'
  BY <1>3, InterfereKeeps DEF Promote, Advance
<1>4. ASSUME NEW d \in Papers, DeleteDocument(d) PROVE RowsInv'
  BY <1>4, InterfereKeeps DEF DeleteDocument, Advance
<1>5. CASE ParkRebuilt
  BY <1>5, InterfereKeeps DEF ParkRebuilt
<1>6. CASE PromoteRebuilt
  BY <1>6, InterfereKeeps DEF PromoteRebuilt
<1>7. CASE BeginRoute
  BY <1>7 DEF BeginRoute
<1>8. CASE LookUpRefs
  <2>1. PICK R \in SUBSET Places, f \in Places \cup {NoPlace}, N \in SUBSET Places :
          /\ LookUp(R, f, N)
          /\ IF active # NoPlace /\ (route.found \/ Kind("database"))
             THEN R = {active, canary} \ {NoPlace} /\ R \subseteq N
             ELSE R = {Name} /\ (~ Kind("database") => R \subseteq N)
          /\ Kind("database") /\ route.found => Name \in N
    BY <1>8, BindingMoves
  <2>2. At("binding") /\ UNCHANGED <<papers, leaves, points, active, canary, course, mixed>>
    BY <1>8 DEF LookUpRefs
  <2>3. /\ route'.kind = route.kind /\ route'.found = route.found
        /\ route'.refs = R /\ route'.names = N /\ route'.orphans = route.orphans
        /\ Kind("collection") => route'.step = "drop"
        /\ Kind("database") => route'.step = "dropAll"
        /\ ~ Kind("collection") /\ ~ Kind("database") =>
             route'.step \in {"rows", "resolve"}
    BY <2>1, LookUpMoves
  <2> QED
    BY <2>1, <2>2, <2>3
<1>9. ASSUME NEW p \in Places, Resolve(p) PROVE RowsInv'
  <2>1. At("resolve") /\ UNCHANGED <<papers, leaves, points, active, canary, course, mixed>>
    BY <1>9 DEF Resolve
  <2>2. \/ route' = Idle
        \/ /\ route'.kind = route.kind /\ route'.found = route.found
           /\ route'.refs = route.refs /\ route'.names = route.names
           /\ route'.orphans = route.orphans
           /\ route'.step \in {"rows", "resolve"}
    BY <1>9, ResolveMoves
  <2> QED
    BY <2>1, <2>2
<1>11. ASSUME NEW p \in Places, DeleteRows(p) PROVE RowsInv'
  <2>1. /\ UNCHANGED <<papers, leaves, active, canary, course, mixed>>
        /\ route.step = "rows" /\ route.kind = "rows" /\ p \in route.refs
        /\ \/ points' = [points EXCEPT ![p] = @ \ route.ids[p]]
           \/ Ends /\ UNCHANGED points
    BY <1>11 DEF DeleteRows, Turn
  <2>2. CASE Ends
    BY <2>1, <2>2
  <2>3. CASE ~ Ends
    <3>1. /\ route'.kind = route.kind /\ route'.found = route.found
          /\ route'.ids = route.ids /\ route'.refs = route.refs \ {p}
          /\ route'.step = IF route.refs = {p} THEN After("corpus") ELSE route.step
      BY <1>11, <2>3, RefStep DEF DeleteRows
    <3>2. After("corpus") = IF route.found THEN "corpus" ELSE "idle"
      BY DEF After
    <3> QED
      BY <2>1, <2>3, <3>1, <3>2
  <2> QED
    BY <2>2, <2>3
<1>12. ASSUME NEW p \in Places, DropRef(p) PROVE RowsInv'
  <2>1. /\ UNCHANGED <<papers, leaves, active, canary, course, mixed>>
        /\ route.step = "drop" /\ route.kind = "collection" /\ p \in route.refs
        /\ \/ points' = [points EXCEPT ![p] = {}]
           \/ Ends /\ UNCHANGED points
    BY <1>12 DEF DropRef, Turn
  <2>2. CASE Ends
    BY <2>1, <2>2
  <2>3. CASE ~ Ends
    <3>1. /\ route'.kind = route.kind /\ route'.found = route.found
          /\ route'.ids = route.ids /\ route'.refs = route.refs \ {p}
          /\ route'.step = IF route.refs = {p} THEN After("corpus") ELSE route.step
      BY <1>12, <2>3, RefStep DEF DropRef
    <3>2. After("corpus") = IF route.found THEN "corpus" ELSE "idle"
      BY DEF After
    <3> QED
      BY <2>1, <2>3, <3>1, <3>2
  <2> QED
    BY <2>2, <2>3
<1>13. CASE DropStoreDatabase
  BY <1>13 DEF DropStoreDatabase
<1>14. CASE DeleteChunks
  <2>1. /\ At("corpus") /\ Kind("rows")
        /\ leaves' = leaves \ Chosen
        /\ route'.step = "blobs" /\ route'.kind = "rows" /\ route'.found = route.found
        /\ UNCHANGED <<points, active, canary, course, mixed>>
    BY <1>14 DEF DeleteChunks
  <2>2. Chosen \subseteq route.want
    BY <2>1 DEF Chosen, RequestInv
  <2>3. \A q \in InUse : \A x \in points[q] \cap Chosen : PaperOf[x] \in mixed
    BY <2>1, <2>2 DEF RequestInv, Cleared
  <2> HIDE DEF Chosen
  <2> QED
    BY <2>1, <2>3
<1>15. CASE DeleteForCollection
  BY <1>15 DEF DeleteForCollection
<1>16. CASE DeleteBlob
  <2>1. /\ UNCHANGED <<papers, leaves, points, active, canary, course, mixed>>
        /\ route'.kind = route.kind /\ route'.found = route.found
        /\ route.step = "blobs" /\ route'.step \in {"blobs", "discard"}
    BY <1>16 DEF DeleteBlob, Routes
  <2> QED
    BY <2>1
<1>17. CASE DiscardStatistics
  <2>1. /\ UNCHANGED <<papers, leaves, points, active, canary, course, mixed>>
        /\ route'.kind = route.kind /\ route'.found = route.found
        /\ route.step = "discard" /\ route'.step \in {"discard", "answered"}
    BY <1>17 DEF DiscardStatistics, Routes
  <2> QED
    BY <2>1
<1>18. CASE Answer
  BY <1>18 DEF Answer
<1>19. CASE SweepNext
  BY <1>19 DEF SweepNext, SweepList, SweepHashes, SweepDelete, SweepRests
<1>20. CASE Restart
  BY <1>20 DEF Restart
<1>21. CASE UNCHANGED del_vars
  BY <1>21 DEF del_vars
<1> QED
  BY <1>1, <1>2, <1>3, <1>4, <1>5, <1>6, <1>7, <1>8, <1>9, <1>11, <1>12,
     <1>13, <1>14, <1>15, <1>16, <1>17, <1>18, <1>19, <1>20, <1>21
  DEF DelNext, RouteNext

\* Whoever else acts adds only rows of mixed documents to a collection in use.
LEMMA RequestKept ==
  ASSUME RequestInv, mixed \subseteq mixed',
         route'.step = route.step, route'.kind = route.kind,
         route'.found = route.found, route'.refs = route.refs,
         route'.want = route.want, route'.due = route.due, route'.ids = route.ids,
         Busy => \A p \in InUse' :
                   \A x \in points'[p] : \/ p \in InUse /\ x \in points[p]
                                         \/ PaperOf[x] \in mixed'
  PROVE  RequestInv'
<1>1. Busy => \A p \in InUse' : /\ p \in InUse /\ Cleared(p) => Cleared(p)'
                                /\ p \in InUse /\ Found(p) => Found(p)'
                                /\ p \notin InUse => Cleared(p)' /\ Found(p)'
  BY DEF Cleared, Found
<1>2. route.step \in {"binding", "resolve", "rows", "corpus"} => Busy
  BY DEF Busy
<1> QED
  BY <1>1, <1>2 DEF RequestInv, At, Kind

LEMMA RequestStep ==
  ASSUME DelType, StepKinds, RowsInv, RequestInv, [DelNext]_del_vars
  PROVE  RequestInv'
<1> USE DeletionsAssumption
    DEF DelType, Places, InUse, At, Kind, Goto, Ends, Idle, corpus, binding, milvus,
        marks
<1>1. ASSUME NEW d \in Papers, StoreDocument(d) PROVE RequestInv'
  BY <1>1, InterfereKeeps, RequestKept DEF StoreDocument, Advance
<1>2. ASSUME NEW d \in Papers, IndexDocument(d) PROVE RequestInv'
  BY <1>2, InterfereKeeps, RequestKept DEF IndexDocument, Advance, LeavesOf
<1>3. ASSUME NEW d \in Papers, Promote(d) PROVE RequestInv'
  BY <1>3, InterfereKeeps, RequestKept DEF Promote, Advance
<1>4. ASSUME NEW d \in Papers, DeleteDocument(d) PROVE RequestInv'
  BY <1>4, InterfereKeeps, RequestKept DEF DeleteDocument, Advance
<1>5. CASE ParkRebuilt
  BY <1>5, InterfereKeeps, RequestKept DEF ParkRebuilt, LeavesOf
<1>6. CASE PromoteRebuilt
  BY <1>6, InterfereKeeps, RequestKept DEF PromoteRebuilt, StepKinds
<1>7. CASE BeginRoute
  BY <1>7 DEF BeginRoute, RequestInv
<1>8. CASE LookUpRefs
  <2>1. PICK R \in SUBSET Places, f \in Places \cup {NoPlace}, N \in SUBSET Places :
          /\ LookUp(R, f, N)
          /\ IF active # NoPlace /\ (route.found \/ Kind("database"))
             THEN R = {active, canary} \ {NoPlace}
             ELSE R = {Name}
    BY <1>8, BindingMoves
  <2>2. At("binding") /\ UNCHANGED <<points, active, canary, mixed>>
    BY <1>8 DEF LookUpRefs
  <2>3. /\ route'.kind = route.kind /\ route'.found = route.found
        /\ route'.refs = R
        /\ Kind("collection") => route'.step = "drop" /\ route'.ids = route.ids
        /\ Kind("database") => route'.step = "dropAll" /\ route'.ids = route.ids
        /\ ~ Kind("collection") /\ ~ Kind("database") =>
             \/ route'.step = "rows" /\ \A p \in Places : route'.ids[p] = route'.want
             \/ /\ route.found /\ route'.step = "resolve" /\ route'.due = R
                /\ route'.ids = route.ids
    BY <2>1, LookUpMoves
  <2>4. route.found => \A p \in InUse \ R : MixedRows(p)
    BY <2>1 DEF RowsInv, StepKinds, Left
  <2>5. route.found => \A p \in InUse' \ R : Cleared(p)' /\ Found(p)'
    BY <2>2, <2>4 DEF MixedRows, Cleared, Found
  <2>6. CASE Kind("collection") \/ Kind("database")
    <3>1. \A p \in Places : route'.ids[p] = {}
      BY <2>2, <2>3, <2>6 DEF RequestInv
    <3> QED
      BY <2>3, <2>6, <3>1 DEF RequestInv
  <2>7. CASE route'.step = "rows" /\ \A p \in Places : route'.ids[p] = route'.want
    <3>1. \A p \in InUse' : Found(p)'
      BY <2>7 DEF Found
    <3> QED
      BY <2>3, <2>5, <2>7, <3>1 DEF RequestInv
  <2>8. CASE /\ route'.step = "resolve" /\ route'.due = R /\ route'.ids = route.ids
    <3>1. \A p \in Places : route'.ids[p] = {}
      BY <2>2, <2>8 DEF RequestInv
    <3> QED
      BY <2>3, <2>5, <2>8, <3>1 DEF RequestInv
  <2> QED
    BY <2>3, <2>6, <2>7, <2>8
<1>9. ASSUME NEW p \in Places, Resolve(p) PROVE RequestInv'
  <2>1. At("resolve") /\ UNCHANGED <<points, active, canary, mixed>>
    BY <1>9 DEF Resolve
  <2>2. CASE route' = Idle
    BY <2>2 DEF RequestInv
  <2>3. CASE /\ route'.found = route.found
             /\ route'.refs = route.refs
             /\ route'.want = route.want /\ route'.due = route.due \ {p}
             /\ route'.ids = [route.ids EXCEPT ![p] = route.want \cap points[p]]
             /\ route'.step = IF route.due = {p} THEN "rows" ELSE "resolve"
    <3>1. /\ \A q \in Places \ {p} : route'.ids[q] = route.ids[q]
          /\ route'.ids[p] = route.want \cap points[p]
      BY <2>3 DEF Routes
    <3>2. \A q \in Places : route'.ids[q] \subseteq route'.want
      BY <2>1, <2>3, <3>1 DEF RequestInv
    <3>3. Found(p)' /\ \A q \in Places \ {p} : Found(q) => Found(q)'
      BY <2>1, <2>3, <3>1 DEF Found
    <3>4. \A q \in Places : Cleared(q) => Cleared(q)'
      BY <2>1, <2>3 DEF Cleared
    <3>5. InUse' = InUse
      BY <2>1
    <3> HIDE DEF InUse
    <3>6. InUse \subseteq Places
      BY DEF InUse
    <3>7. route.found => \A q \in InUse' \ route'.due : Found(q)'
      BY <2>1, <2>3, <3>3, <3>5, <3>6 DEF RequestInv
    <3>8. route.found => \A q \in InUse' \ route'.refs : Cleared(q)'
      BY <2>1, <2>3, <3>4, <3>5, <3>6 DEF RequestInv
    <3>9. route.due = {p} => route'.due = {}
      BY <2>3
    <3> QED
      BY <2>3, <3>2, <3>7, <3>8, <3>9 DEF RequestInv
  <2> QED
    BY <1>9, <2>2, <2>3, ResolveMoves
<1>11. ASSUME NEW p \in Places, DeleteRows(p) PROVE RequestInv'
  <2>1. CASE Ends
    BY <2>1 DEF RequestInv
  <2>2. CASE ~ Ends
    <3>1. /\ At("rows") /\ points' = [points EXCEPT ![p] = @ \ route.ids[p]]
          /\ route' = IF route.refs = {p}
                      THEN [route EXCEPT !.refs = {}, !.step = After("corpus")]
                      ELSE [route EXCEPT !.refs = @ \ {p}]
          /\ UNCHANGED <<active, canary, mixed>>
      BY <1>11, <2>2 DEF DeleteRows
    <3>2. /\ route'.found = route.found /\ route'.refs = route.refs \ {p}
          /\ route'.want = route.want /\ route'.ids = route.ids
          /\ route'.step = IF route.refs = {p} THEN After("corpus") ELSE "rows"
      BY <3>1, RefStep
    <3>3. /\ route.found /\ p \in InUse => Cleared(p)'
          /\ \A q \in Places : /\ Cleared(q) => Cleared(q)'
                               /\ Found(q) => Found(q)'
      BY <3>1, <3>2 DEF RequestInv, Cleared, Found
    <3>4. InUse' = InUse
      BY <3>1
    <3> HIDE DEF InUse
    <3>5. InUse \subseteq Places
      BY DEF InUse
    <3>6. route.found => /\ \A q \in InUse' : Found(q)'
                         /\ \A q \in InUse' \ route'.refs : Cleared(q)'
      BY <3>1, <3>2, <3>3, <3>4, <3>5 DEF RequestInv
    <3>7. route.refs = {p} => route'.refs = {}
      BY <3>2
    <3>8. After("corpus") = IF route.found THEN "corpus" ELSE "idle"
      BY DEF After
    <3>9. \A q \in Places : route'.ids[q] \subseteq route'.want
      BY <3>1, <3>2 DEF RequestInv
    <3> QED
      BY <3>2, <3>6, <3>7, <3>8, <3>9 DEF RequestInv
  <2> QED
    BY <2>1, <2>2
<1>12. ASSUME NEW p \in Places, DropRef(p) PROVE RequestInv'
  <2>1. CASE Ends
    BY <2>1 DEF RequestInv
  <2>2. CASE ~ Ends
    <3>1. route.kind = "collection" /\ At("drop")
      BY <1>12 DEF DropRef, StepKinds
    <3>2. /\ route'.kind = route.kind
          /\ route'.want = route.want /\ route'.ids = route.ids
          /\ route'.step \in {"drop", "corpus", "idle"}
      BY <1>12, <2>2, RefStep DEF DropRef, After
    <3> QED
      BY <3>1, <3>2 DEF RequestInv
  <2> QED
    BY <2>1, <2>2
<1>13. CASE DropStoreDatabase
  <2>1. CASE Ends
    BY <2>1 DEF RequestInv
  <2>2. CASE ~ Ends
    <3>1. /\ route.kind = "database" /\ At("dropAll")
          /\ route' = [route EXCEPT !.step = "corpus"]
      BY <1>13, <2>2 DEF DropStoreDatabase, StepKinds
    <3>2. /\ route'.kind = "database" /\ route'.step = "corpus"
          /\ route'.want = route.want /\ route'.ids = route.ids
      BY <3>1 DEF Routes
    <3> QED
      BY <3>1, <3>2 DEF RequestInv
  <2> QED
    BY <2>1, <2>2
<1>14. CASE DeleteChunks
  <2>1. route'.step = "blobs"
    BY <1>14 DEF DeleteChunks, Routes
  <2> QED
    BY <2>1 DEF RequestInv
<1>15. CASE DeleteForCollection
  <2>1. route'.step = "blobs"
    BY <1>15 DEF DeleteForCollection, Routes
  <2> QED
    BY <2>1 DEF RequestInv
<1>16. CASE DeleteBlob
  <2>1. route'.step \in {"blobs", "discard"}
    BY <1>16 DEF DeleteBlob, Routes
  <2> QED
    BY <2>1 DEF RequestInv
<1>17. CASE DiscardStatistics
  <2>1. route'.step \in {"discard", "answered"}
    BY <1>17 DEF DiscardStatistics, Routes
  <2> QED
    BY <2>1 DEF RequestInv
<1>18. CASE Answer
  BY <1>18 DEF Answer, RequestInv
<1>19. CASE SweepNext
  <2>1. UNCHANGED <<points, active, canary, mixed, route>>
    BY <1>19 DEF SweepNext, SweepList, SweepHashes, SweepDelete, SweepRests
  <2> QED
    BY <2>1, RequestKept
<1>20. CASE Restart
  BY <1>20 DEF Restart, RequestInv
<1>21. CASE UNCHANGED del_vars
  BY <1>21, RequestKept DEF del_vars
<1> QED
  BY <1>1, <1>2, <1>3, <1>4, <1>5, <1>6, <1>7, <1>8, <1>9, <1>11, <1>12,
     <1>13, <1>14, <1>15, <1>16, <1>17, <1>18, <1>19, <1>20, <1>21
  DEF DelNext, RouteNext

LEMMA DelInvariant == DelSpec => []DelInv
<1>1. DelInv /\ [DelNext]_del_vars => DelInv'
  BY TypeStep, KindStep, OriginStep, DropStep, RowsStep, RequestStep DEF DelInv
<1> QED
  BY <1>1, DelInitInv, PTL DEF DelSpec

\* No deletion and no sweep takes the original of an ingested document: what
\* delete_chunks, delete_for_collection and find_orphan_hashes decide to remove,
\* no document refers to that was not stored afterwards.
THEOREM OriginalsKept == DelSpec => []OriginalThere
<1>1. DelInv => OriginalThere
  BY DEF DelInv, OriginInv
<1> QED
  BY <1>1, DelInvariant, PTL

\* The routes that delete remove the vectors first, then the content: wherever a
\* deletion stops, a collection in use has no row without content, save those of
\* documents that were ingested or copied meanwhile.
THEOREM RowsDerived == DelSpec => []RowsHaveContent
<1>1. DelInv => RowsHaveContent
  BY DEF DelInv, RowsInv
<1> QED
  BY <1>1, DelInvariant, PTL

\* drop_collection and drop_database, undisturbed, leave neither documents nor
\* binding nor physical collections, and no statistics but those an earlier
\* deletion that the process did not survive has left behind.
THEOREM DropsComplete == DelSpec => []DropLeavesNothing
<1>1. DelInv => DropLeavesNothing
  BY DEF DelInv, StepKinds, DropInv, DropLeavesNothing, Unmixed, Dropping, At, Kind
<1> QED
  BY <1>1, DelInvariant, PTL
=============================================================================
