------------------------------ MODULE MCCorpus ------------------------------
(***************************************************************************)
(* What works on the corpus, side by side: evaluation, statistics and graph   *)
(* builds with their commits, and the pure algorithms.  The initial state     *)
(* chooses the one that moves, and the others keep theirs: the run is the    *)
(* sum of their state graphs and not the product.                           *)
(***************************************************************************)
EXTENDS Evaluation, SparseStats, GraphBuild, GraphMerge,
        EvalMetrics, ParseProfiles, Chunking, Retrieval, TLC

CONSTANTS x1, x2, e1, e2,               \* chunks and entities of a graph
          f1, f2, h1, h2, n1, n2, m1    \* files, sections, nodes, a group

VARIABLE subject

MCMentionedIn == (x1 :> {e1, e2}) @@ (x2 :> {e2})
MCClaimedIn == (x1 :> {{e1, e2}, {e2}}) @@ (x2 :> {{e2}})
MCPackSizes == {[size |-> 2, overlap |-> 1, min |-> 1],
                [size |-> 3, overlap |-> 0, min |-> 2],
                [size |-> 1, overlap |-> 0, min |-> 1]}
MCDiscounts == <<1000, 631, 500, 431>>
MCFileOf == (1 :> f1) @@ (2 :> f1) @@ (3 :> f2)
MCIndexOf == (1 :> 0) @@ (2 :> 1) @@ (3 :> 0)
MCTokens == (1 :> 1) @@ (2 :> 0) @@ (3 :> 4) @@ (h1 :> 3) @@ (h2 :> 1)
MCSectionOf == (1 :> h1) @@ (2 :> h1) @@ (3 :> h2)
MCNodeHits == (n1 :> {1, 3}) @@ (n2 :> {2})
MCGroupNodes == (m1 :> {n1, n2})

Subjects == {"eval", "sparse", "graph", "merge", "metrics",
             "probe", "chunk", "retrieve"}

all_vars == <<eval_vars, sparse_vars, graph_vars, merging, scoring,
              probing, chunking, case, subject>>

MCInit ==
  /\ subject \in Subjects
  /\ EvalInit /\ SparseInit /\ GraphInit /\ MergeInit
  /\ MetricsInit /\ ProbeInit /\ ChunkingInit /\ RetrievalInit

\* Every component but s keeps its state.
Only(s) ==
  /\ subject = s /\ UNCHANGED subject
  /\ s # "eval" => UNCHANGED eval_vars
  /\ s # "sparse" => UNCHANGED sparse_vars
  /\ s # "graph" => UNCHANGED graph_vars
  /\ s # "merge" => UNCHANGED merging
  /\ s # "metrics" => UNCHANGED scoring
  /\ s # "probe" => UNCHANGED probing
  /\ s # "chunk" => UNCHANGED chunking
  /\ s # "retrieve" => UNCHANGED case

MCNext ==
  \/ Only("eval") /\ EvalNext
  \/ Only("sparse") /\ SparseNext
  \/ Only("graph") /\ GraphNext
  \/ Only("merge") /\ MergeNext
  \/ Only("metrics") /\ MetricsNext
  \/ Only("probe") /\ ProbeNext
  \/ Only("chunk") /\ ChunkingNext
  \/ Only("retrieve") /\ RetrievalNext

MCSpec == MCInit /\ [][MCNext]_all_vars /\ EvalFairness
=============================================================================
