------------------------------ MODULE GraphMerge ------------------------------
(***************************************************************************)
(* The pure part of a graph build: extractions merged into one graph         *)
(* (graph/merge.py), its communities (graph/communities.py), and the          *)
(* subgraph a graph leg reads back (get_entity_subgraph).                     *)
(*                                                                         *)
(* An entity is its canonical name, a number, so that ids sort.  An           *)
(* extraction names each entity once and an edge any number of times; a        *)
(* claim it repeats is skipped.                                              *)
(***************************************************************************)
EXTENDS Integers, FiniteSets, SequencesExt

CONSTANTS
  NumNames,          \* how many entities there are
  MergeNames,        \* those of the extractions that are merged
  MaxTimes,          \* how often one extraction names one edge
  NodeCap,           \* _SUBGRAPH_NODE_CAP
  MaxRounds          \* DEFAULT_ITERATIONS

ASSUME GraphMergeAssumption ==
  /\ NumNames \in Nat /\ MergeNames \subseteq 1..NumNames
  /\ MaxTimes \in Nat /\ NodeCap \in Nat /\ MaxRounds \in Nat \ {0}

VARIABLE merging

Names == 1..NumNames
Edges == Names \X Names
NoObject == -1

-----------------------------------------------------------------------------
(* GraphBuilder.  A graph has its entities, how often each edge was seen,     *)
(* the claims (content only) and the chunk of each, and the provenance.       *)

NoGraph == [ents |-> {}, weight |-> [e \in Edges |-> 0],
            claims |-> {}, named |-> {}, linked |-> {}]

\* Mutant: only the source of an edge is looked up.
KeepsSource(ents, e) == e[1] # e[2] /\ e[1] \in ents

\* An edge is kept when both ends are known, from this chunk or earlier ones.
Keeps(ents, e) == e[1] # e[2] /\ e[1] \in ents /\ e[2] \in ents

\* The object of a claim, when it is a known entity other than the subject.
ObjectOf(ents, c) ==
  IF c.object \in ents \ {c.subject} THEN c.object ELSE NoObject

AddChunk(g, chunk, x) ==
  LET ents == g.ents \cup x.ents
      seen == [e \in Edges |-> IF Keeps(ents, e) THEN x.times[e] ELSE 0]
      claims == {[subject |-> c.subject, object |-> ObjectOf(ents, c)] :
                   c \in {d \in x.claims : d.subject \in ents}}
      known == {c.of : c \in g.claims}
  IN [ents |-> ents,
      weight |-> [e \in Edges |-> g.weight[e] + seen[e]],
      claims |-> g.claims \cup {[of |-> c, chunk |-> chunk] :
                                  c \in claims \ known},
      named |-> g.named \cup (x.ents \X {chunk}),
      linked |-> g.linked \cup {<<e, chunk>> : e \in {d \in Edges : seen[d] > 0}}]

Merged(order, extracted) ==
  LET graph[i \in 0..Len(order)] ==
        IF i = 0 THEN NoGraph
        ELSE AddChunk(graph[i - 1], order[i], extracted[order[i]])
  IN graph[Len(order)]

-----------------------------------------------------------------------------
(* detect_communities.  tie[{a, b}] is the summed weight between two.        *)

Votes(tie, labels, n, l) ==
  LET tally[m \in 0..NumNames] ==
        IF m = 0 THEN 0
        ELSE tally[m - 1] + (IF labels[m] = l THEN tie[{m, n}] ELSE 0)
  IN tally[NumNames]

\* The label with the most votes, the smallest of equals.
BestLabel(tie, labels, n) ==
  LET heard == {labels[m] : m \in {k \in Names : tie[{k, n}] > 0}}
      votes(l) == Votes(tie, labels, n, l)
  IN IF heard = {} THEN labels[n]
     ELSE CHOOSE l \in heard : \A k \in heard :
            votes(l) > votes(k) \/ (votes(l) = votes(k) /\ l <= k)

\* One round over the sorted ids, each node seeing the labels already changed.
Round(tie, labels) ==
  LET sweep[n \in 0..NumNames] ==
        IF n = 0 THEN labels
        ELSE [sweep[n - 1] EXCEPT ![n] = BestLabel(tie, sweep[n - 1], n)]
  IN sweep[NumNames]

LabelsAfter(tie) ==
  LET after[r \in 0..MaxRounds] ==
        IF r = 0 THEN [n \in Names |-> n] ELSE Round(tie, after[r - 1])
  IN after[MaxRounds]

-----------------------------------------------------------------------------
(* get_entity_subgraph: level by level, the cap is looked at between levels;  *)
(* rows is the order in which the database returns the edges.                 *)

EdgeEnds(row) == {row[1], row[2]}

Touches(row, frontier) == EdgeEnds(row) \cap frontier # {}

See(nodes, n) == IF n \in ToSet(nodes) THEN nodes ELSE Append(nodes, n)

Expand(s, rows) ==
  LET seen[i \in 0..Len(rows)] ==
        IF i = 0 THEN s.nodes
        ELSE IF Touches(rows[i], s.frontier)
        THEN See(See(seen[i - 1], rows[i][1]), rows[i][2]) ELSE seen[i - 1]
      nodes == seen[Len(rows)]
  IN [nodes |-> nodes,
      edges |-> s.edges \cup {row \in ToSet(rows) : Touches(row, s.frontier)},
      frontier |-> ToSet(nodes) \ ToSet(s.nodes)]

NextLevel(s, rows) ==
  IF s.frontier = {} \/ Len(s.nodes) >= NodeCap THEN s ELSE Expand(s, rows)

Subgraph(seeds, rows, depth) ==
  LET level[d \in 0..depth] ==
        IF d = 0
        THEN [nodes |-> seeds, edges |-> {}, frontier |-> ToSet(seeds)]
        ELSE NextLevel(level[d - 1], rows)
  IN level[depth]

-----------------------------------------------------------------------------
(* The cases.                                                              *)

\* An extraction names one edge, some number of times, and makes one claim.
Times == {[e \in Edges |-> IF e = d THEN n ELSE 0] :
            d \in MergeNames \X MergeNames, n \in 0..MaxTimes}
ClaimSets == {{}} \cup {{c} : c \in [subject : MergeNames,
                                     object : MergeNames \cup {NoObject}]}
Extractions == [ents : SUBSET MergeNames, times : Times, claims : ClaimSets]

\* The chunks 1 and 2.
TryMerge ==
  \E extracted \in [1..2 -> Extractions] :
    merging' = [kind |-> "merge", extracted |-> extracted]

Pairs_ == {{a, b} : a, b \in Names}
Ties == [Pairs_ -> 0..2]

TryCommunities ==
  \E tie \in {t \in Ties : \A n \in Names : t[{n}] = 0} :
    merging' = [kind |-> "communities", tie |-> tie,
                labels |-> LabelsAfter(tie)]

TrySubgraph ==
  \E edges \in {S \in SUBSET {e \in Names \X Names : e[1] < e[2]} :
                  Cardinality(S) <= 4},
     depth \in 1..2 :
    \E rows \in SetToSeqs(edges), seeds \in {<<1>>, <<2, 1>>} :
      merging' = [kind |-> "subgraph", seeds |-> seeds, rows |-> rows,
                  depth |-> depth, found |-> Subgraph(seeds, rows, depth)]

NothingMerged == [kind |-> "none"]

MergeInit == merging = NothingMerged

MergeNext ==
  /\ merging = NothingMerged
  /\ TryMerge \/ TryCommunities \/ TrySubgraph

-----------------------------------------------------------------------------
(* Properties.                                                             *)

Own_(x) == /\ \A e \in Edges : x.times[e] > 0 => EdgeEnds(e) \subseteq x.ents
           /\ \A c \in x.claims : {c.subject, c.object} \subseteq x.ents

\* What replace_graph writes refers to entities it writes, each with its
\* provenance, and the weight of an edge counts each time one of its chunks
\* names it; when every extraction names what it relates, the order of the
\* chunks decides nothing but the chunk of a claim.
MergeSound ==
  merging.kind = "merge" =>
    LET g == Merged(<<1, 2>>, merging.extracted)
        h == Merged(<<2, 1>>, merging.extracted)
        claims(k) == {c.of : c \in k.claims}
        counted(e, i) == IF <<e, i>> \in g.linked THEN merging.extracted[i].times[e]
                         ELSE 0
    IN /\ {m[1] : m \in g.named} = g.ents
       /\ \A e \in Edges :
            /\ g.weight[e] = counted(e, 1) + counted(e, 2)
            /\ g.weight[e] > 0 => EdgeEnds(e) \subseteq g.ents
       /\ \A c \in claims(g) : {c.subject, c.object} \subseteq g.ents \cup {NoObject}
       /\ Cardinality(claims(g)) = Cardinality(g.claims)
       /\ (\A i \in 1..2 : Own_(merging.extracted[i])) =>
            /\ g.ents = h.ents /\ g.weight = h.weight /\ claims(g) = claims(h)
            /\ g.named = h.named /\ g.linked = h.linked

\* The labels have settled long before the rounds are used up, whatever the
\* weights: nothing oscillates, and nobody prefers another community.
CommunitiesSettle ==
  merging.kind = "communities" =>
    LET labels == merging.labels
        tie == merging.tie
        pull(n, l) == Votes(tie, labels, n, l)
    IN \A n \in Names :
         /\ \A l \in Names : pull(n, labels[n]) >= pull(n, l)
         /\ pull(n, labels[n]) = 0 => \A m \in Names : tie[{m, n}] = 0

\* The nodes are the seeds and what is within depth of them, or, if the cap was
\* reached, within the depth it was reached at; edges have both of their nodes.
\* The cap is looked at between levels, and one level may lead far beyond it,
\* against docs/graph.md.
SubgraphReach ==
  merging.kind = "subgraph" =>
    LET rows == ToSet(merging.rows)
        nodes == merging.found.nodes
        seeds == ToSet(merging.seeds)
        ball[d \in 0..merging.depth] ==
          IF d = 0 THEN seeds
          ELSE ball[d - 1] \cup
                 UNION {EdgeEnds(row) : row \in {r \in rows : Touches(r, ball[d - 1])}}
        full(d) == d = merging.depth \/ Cardinality(ball[d]) >= NodeCap
    IN /\ IsPrefix(merging.seeds, nodes) /\ IsInjective(nodes)
       /\ \E d \in 0..merging.depth :
            /\ full(d) /\ \A e \in 0..(d - 1) : ~ full(e)
            /\ ToSet(nodes) = ball[d]
       /\ \A row \in merging.found.edges : EdgeEnds(row) \subseteq ToSet(nodes)

\* The graph's three algorithms: merging, communities and the subgraph query.
GraphAlgorithmsSound == MergeSound /\ CommunitiesSettle /\ SubgraphReach

=============================================================================
