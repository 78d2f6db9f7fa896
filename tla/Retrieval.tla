------------------------------ MODULE Retrieval ------------------------------
(***************************************************************************)
(* What one retrieval request computes (retrieval/): which legs run, what  *)
(* each may return under the filter, how their ranks are fused, and how    *)
(* the fused list is diversified, cut, expanded and packed.                *)
(*                                                                         *)
(* The functions are evaluated over all small inputs: a state is one case. *)
(* Scores are integers, multiples of 1/Unit; similarities are given.       *)
(***************************************************************************)
EXTENDS Integers, Sequences, FiniteSets, SequencesExt

CONSTANTS
  Hits, Files, FileOf, IndexOf,     \* leaves, documents, chunk_index
  SectionOf, Tokens,                \* the parent section; token_count of both
  Nodes, NodeHits, Groups, GroupNodes,   \* entities, communities
  NoFile, Unit, RrfK, Budgets,
  MmrFloor                          \* the least pool of diversity, 30

ASSUME RetrievalAssumption ==
  /\ IsFiniteSet(Hits) /\ Hits \subseteq Nat           \* ids sort
  /\ FileOf \in [Hits -> Files] /\ NoFile \notin Files
  /\ IndexOf \in [Hits -> Nat]
  /\ \A x \in Hits : SectionOf[x] \notin Hits
  /\ \A x \in Hits : Tokens[x] \in Nat /\ Tokens[SectionOf[x]] \in Nat
  /\ \A n \in Nodes : NodeHits[n] \subseteq Hits
  /\ \A g \in Groups : GroupNodes[g] \subseteq Nodes
  /\ Unit \in Nat /\ RrfK \in Nat /\ Budgets \subseteq Nat /\ MmrFloor \in Nat
  /\ \A rank \in 1..Cardinality(Hits) : Unit % (RrfK + rank) = 0

VARIABLE case

\* S by falling score, and by rising tie where scores are equal.
Precedes(score, tie, x, y) ==
  score[x] > score[y] \/ (score[x] = score[y] /\ tie[x] < tie[y])
Ranked(S, score, tie) ==
  [i \in 1..Cardinality(S) |->
     CHOOSE x \in S : Cardinality({y \in S : Precedes(score, tie, y, x)}) = i - 1]

First(s, k) == SubSeq(s, 1, IF k < Len(s) THEN k ELSE Len(s))
Place(s, x) ==
  CHOOSE i \in DOMAIN s : s[i] = x /\ \A j \in DOMAIN s : s[j] = x => i <= j
InOrder(S, order) ==
  Ranked(S, [x \in S |-> 0], [x \in S |-> Place(order, x)])
Total(s) == FoldLeft(+, 0, s)
Biggest(S) == CHOOSE n \in S : \A m \in S : m <= n
Orders(S) == UNION {SetToSeqs(T) : T \in SUBSET S}

-----------------------------------------------------------------------------
(* The filter.  doc is an explicit doc_id; files is what SQLite found for   *)
(* the predicates on documents, Files when there are none; below bounds the *)
(* chunk_index.                                                             *)

\* _resolve_filter: all becomes the expression, but the graph leg is handed
\* only the documents SQLite found and the predicates on chunk_index.
StoreAllows(f, x) ==
  /\ f.doc \in {NoFile, FileOf[x]}
  /\ FileOf[x] \in f.files /\ IndexOf[x] < f.below

GraphAllows(f, x) == FileOf[x] \in f.files /\ IndexOf[x] < f.below

\* A predicate no document matches leaves every leg empty.
Matches(f) == f.files # {}

-----------------------------------------------------------------------------
(* The legs.                                                               *)

\* DenseChannel, SummaryChannel, BM25Channel: the store returns the best
\* under the expression, order being its ranking of the whole collection.
StoreLeg(name, order, f, limit) ==
  [channel |-> name,
   hits |-> IF Matches(f)
            THEN First(InOrder({x \in ToSet(order) : StoreAllows(f, x)}, order),
                       limit)
            ELSE <<>>]

\* GraphChannel: a leaf has the best score of the entities that mention it and
\* of the communities of such an entity.
GraphScores(nodes, groups, x) ==
  {nodes[n] : n \in {m \in DOMAIN nodes : x \in NodeHits[m]}}
    \cup {groups[g] : g \in {h \in DOMAIN groups :
                               \E n \in GroupNodes[h] : x \in NodeHits[n]}}

GraphLeg(nodes, groups, f) ==
  LET score == [x \in Hits |-> GraphScores(nodes, groups, x)]
      found == {x \in Hits : score[x] # {} /\ GraphAllows(f, x) /\ Matches(f)}
      best == [x \in found |-> Biggest(score[x])]
  IN [channel |-> "graph",
      hits |-> Ranked(found, best, [x \in found |-> x])]

\* The channels of a request, and of a routed one: the decision of the router,
\* as far as the fields and collections are there (_recall).
Channels(q) ==
  IF ~ q.routed THEN q.wanted
  ELSE {c \in q.wanted :
          CASE c = "dense" -> TRUE
            [] OTHER -> c \in q.available}

\* _decision: the channels for the intents of a query.
Decide(intents, exclusive) ==
  LET bm25 == "keyword" \in intents
      dense == (bm25 /\ ~ exclusive) \/ "semantic" \in intents
      none == ~ bm25 /\ ~ dense
  IN {c \in {"dense", "bm25", "summary", "graph"} :
        CASE c = "dense" -> dense \/ none
          [] c = "bm25" -> bm25 \/ none
          [] c = "summary" -> "semantic" \in intents
          [] OTHER -> "graph" \in intents}

\* llm_route takes any keyword intent without a semantic one as exclusive; the
\* heuristic only code-like surfaces.
Exclusive(router, intents, codeLike) ==
  IF router = "llm" THEN "keyword" \in intents /\ "semantic" \notin intents
  ELSE codeLike /\ "keyword" \in intents

-----------------------------------------------------------------------------
(* Fusion.                                                                 *)

FirstSeen(runs) ==
  LET all == FlattenSeq([i \in DOMAIN runs |-> runs[i].hits])
  IN [x \in ToSet(all) |-> Place(all, x)]

\* rrf_fuse and weighted_fuse sort by the sum of the shares of the legs, and
\* keep the order in which chunks were first seen (_collect, _finalize);
\* share[i][x] is what leg i gives to chunk x.
Fuse(runs, share) ==
  LET seen == FirstSeen(runs)
      score == [x \in DOMAIN seen |->
                  Total([i \in DOMAIN runs |-> share[i][x]])]
  IN Ranked(DOMAIN seen, score, seen)

RrfShare(run, x) ==
  IF x \in ToSet(run.hits) THEN Unit \div (RrfK + Place(run.hits, x)) ELSE 0

\* _normalize_run: scores fall with the rank, or are all equal; the last of a
\* leg is worth as much as a chunk the leg has not found.
WeightedShare(weight, flat, run, x) ==
  IF x \notin ToSet(run.hits) THEN 0
  ELSE weight[run.channel] *
         (IF flat \/ Len(run.hits) = 1 THEN Unit \div 2
          ELSE (Unit * (Len(run.hits) - Place(run.hits, x)))
                 \div (Len(run.hits) - 1))

-----------------------------------------------------------------------------
(* After fusion.  relevance[i] and alike[i][j] are the similarities of the  *)
(* pool to the query and to each other; lambda is in tenths.                *)

MostRelevant(relevance) ==
  CHOOSE i \in DOMAIN relevance :
    \A j \in DOMAIN relevance :
      relevance[i] > relevance[j] \/ (relevance[i] = relevance[j] /\ i <= j)

MmrScore(relevance, alike, lambda, picked, i) ==
  LET redundancy == Biggest({alike[i][j] : j \in picked})
  IN lambda * relevance[i] - (10 - lambda) * redundancy

BestOf(S, score) ==
  CHOOSE i \in S : \A j \in S : score[i] > score[j]
                                \/ (score[i] = score[j] /\ i <= j)

\* mmr, for 1 <= k <= the size of the pool.
Mmr(relevance, alike, lambda, k) ==
  LET pick[n \in 1..k] ==
        IF n = 1 THEN <<MostRelevant(relevance)>>
        ELSE LET before == pick[n - 1]
                 rest == DOMAIN relevance \ ToSet(before)
             IN Append(before, BestOf(rest, [i \in rest |->
                  MmrScore(relevance, alike, lambda, ToSet(before), i)]))
  IN pick[k]

\* expand_chunks: a leaf becomes its section, where the corpus has it, and a
\* section comes once.
Expanded(leaves, known) ==
  LET context(x) == IF x \in known THEN SectionOf[x] ELSE x
      fresh(i) == leaves[i] \notin known
                  \/ \A j \in 1..(i - 1) :
                       leaves[j] \notin known
                         \/ SectionOf[leaves[j]] # SectionOf[leaves[i]]
      kept == InOrder({i \in DOMAIN leaves : fresh(i)}, [i \in DOMAIN leaves |-> i])
  IN [n \in DOMAIN kept |-> context(leaves[kept[n]])]

SizesOf(contexts) == [i \in DOMAIN contexts |-> Tokens[contexts[i]]]

\* _compress_to_budget: how many of the ranked contexts are kept.  It ends at
\* the first that reaches the budget, and does not look at those behind it.
Compressed(sizes, budget) ==
  LET forgiven == IF sizes[1] > budget THEN sizes[1] ELSE 0
      used(i) == Total(SubSeq(sizes, 1, i)) - forgiven
      stops == {i \in 2..Len(sizes) : sizes[i] > 0 /\ used(i) >= budget}
  IN IF stops = {} THEN Len(sizes)
     ELSE (CHOOSE i \in stops : \A j \in stops : i <= j) - 1

-----------------------------------------------------------------------------
(* retrieve: what becomes of the fused list.  q has its parameters, and two  *)
(* rankings that a model makes of whatever it is given: by diversity and by *)
(* the reranker.                                                            *)

Given(order, s) == InOrder(ToSet(s), order)

\* Mutant: the pool of the reranker is diversified for the answer alone, and
\* an answer without reranking for the pool.
SelectSwapped(q) == IF q.rerank THEN q.top ELSE q.pool

SelectCount(q) == IF q.rerank THEN q.pool ELSE q.top

\* mmr chooses from the head of the fused list, and keeps as many as the next
\* stage takes.
MmrPool(q, fused) ==
  LET twice == 2 * SelectCount(q)
  IN First(fused, IF twice > MmrFloor THEN twice ELSE MmrFloor)

Diversified(q, fused) ==
  IF q.mmr THEN First(Given(q.diverse, MmrPool(q, fused)), SelectCount(q)) ELSE fused

RerankInput(q, fused) == First(Diversified(q, fused), q.pool)

AnswerLeaves(q, fused) ==
  IF q.rerank THEN First(Given(q.reranked, RerankInput(q, fused)), q.top)
  ELSE First(Diversified(q, fused), q.top)

-----------------------------------------------------------------------------
(* The cases.                                                              *)

\* The schema refuses a pool smaller than top_k.
TryAnswer ==
  \E dense, bm25 \in Orders(Hits), top, pool \in 1..3, mmr, rerank \in BOOLEAN,
     diverse, reranked \in SetToSeqs(Hits) :
    /\ rerank => top <= pool
    /\ ~ mmr => diverse = CHOOSE s \in SetToSeqs(Hits) : TRUE
    /\ ~ rerank => reranked = CHOOSE s \in SetToSeqs(Hits) : TRUE
    /\ case' = [kind |-> "answer",
                runs |-> <<[channel |-> "dense", hits |-> dense],
                           [channel |-> "bm25", hits |-> bm25]>>,
                q |-> [top |-> top, pool |-> pool, mmr |-> mmr, rerank |-> rerank,
                       diverse |-> diverse, reranked |-> reranked]]

Filters == [doc : {NoFile} \cup Files, files : SUBSET Files, below : 0..2]

Scored(S) == UNION {[T -> 1..2] : T \in SUBSET S}

TryRecall ==
  \E f \in Filters, dense \in SetToSeqs(Hits), bm25 \in Orders(Hits),
     nodes \in Scored(Nodes), groups \in Scored(Groups) :
    case' = [kind |-> "recall", filter |-> f,
             runs |-> <<StoreLeg("dense", dense, f, 2),
                        StoreLeg("bm25", bm25, f, 2),
                        GraphLeg(nodes, groups, f)>>]

TryFusion ==
  \E dense, bm25 \in Orders(Hits), method \in {"rrf", "weighted"},
     wd, wb \in 0..2, flat \in BOOLEAN :
    /\ method = "rrf" => wd = 1 /\ wb = 1 /\ ~ flat
    /\ case' = [kind |-> "fusion",
                runs |-> <<[channel |-> "dense", hits |-> dense],
                           [channel |-> "bm25", hits |-> bm25]>>,
                method |-> method, flat |-> flat,
                weight |-> [c \in {"dense", "bm25"} |->
                              IF c = "dense" THEN wd ELSE wb]]

TryDiversity ==
  \E relevance \in [1..3 -> 1..3], a, b, c \in {0, 2}, lambda \in {0, 5, 10} :
    case' = [kind |-> "mmr", relevance |-> relevance, lambda |-> lambda,
             alike |-> <<<<3, a, b>>, <<a, 3, c>>, <<b, c, 3>>>>]

TryContext ==
  \E leaves \in Orders(Hits) \ {<<>>}, known \in SUBSET Hits,
     budget \in Budgets :
    case' = [kind |-> "context", leaves |-> leaves, known |-> known,
             budget |-> budget]

TryRouting ==
  \E intents \in SUBSET {"keyword", "semantic", "graph", "metadata"},
     router \in {"heuristic", "llm"}, codeLike \in BOOLEAN,
     available \in SUBSET {"bm25", "summary", "graph"} :
    /\ router = "llm" => intents # {} /\ ~ codeLike
    /\ case' = [kind |-> "routing", intents |-> intents,
                exclusive |-> Exclusive(router, intents, codeLike),
                available |-> available]

NoCase == [kind |-> "none"]

RetrievalInit == case = NoCase

RetrievalNext ==
  /\ case = NoCase
  /\ TryRecall \/ TryFusion \/ TryAnswer \/ TryDiversity \/ TryContext \/ TryRouting

-----------------------------------------------------------------------------
(* Properties.                                                             *)

Kind_(k) == case.kind = k

\* No leg returns a chunk of a document, or of a place in it, that the filter
\* excludes; an explicit doc_id does not reach the graph leg.
FilterHeld ==
  Kind_("recall") =>
    \A run \in ToSet(case.runs) : \A x \in ToSet(run.hits) :
      /\ FileOf[x] \in case.filter.files /\ IndexOf[x] < case.filter.below
      /\ run.channel # "graph" => case.filter.doc \in {NoFile, FileOf[x]}

SharesOf(runs) ==
  [i \in DOMAIN runs |-> [x \in Hits |->
     IF case.kind = "fusion" /\ case.method = "weighted"
     THEN WeightedShare(case.weight, case.flat, runs[i], x)
     ELSE RrfShare(runs[i], x)]]

Better(run, x, y) ==
  y \in ToSet(run.hits) =>
    x \in ToSet(run.hits) /\ Place(run.hits, x) < Place(run.hits, y)

\* A chunk that every leg ranks before another, or alone has found, comes
\* before it in the fused list, whatever the method, the weights and the ties.
DominanceKept ==
  Kind_("fusion") =>
    LET fused == Fuse(case.runs, SharesOf(case.runs))
    IN \A x, y \in ToSet(fused) :
         x # y /\ (\A run \in ToSet(case.runs) : Better(run, x, y))
           => Place(fused, x) < Place(fused, y)

\* The first pick is the most relevant one for every lambda (a comment in mmr
\* is about 0), picks differ, and with lambda 1 they go by relevance.
DiversityKeepsBest ==
  Kind_("mmr") =>
    LET picks == Mmr(case.relevance, case.alike, case.lambda, 3)
    IN /\ ToSet(picks) = 1..3
       /\ \A i \in 1..3 : case.relevance[picks[1]] >= case.relevance[i]
       /\ case.lambda = 10 =>
            \A i \in 1..2 : case.relevance[picks[i]] >= case.relevance[picks[i + 1]]

\* Diversity and reranking cost the answer no place: it has as many leaves as
\* were found and asked for, the reranker chose among as many as it may, a
\* reranked answer is in the reranker's order, and a plain one in the fused.
AnswerFilled ==
  Kind_("answer") =>
    LET q == case.q
        fused == Fuse(case.runs, SharesOf(case.runs))
        answer == AnswerLeaves(q, fused)
        shorter(n, s) == IF n < Len(s) THEN n ELSE Len(s)
    IN /\ IsInjective(answer) /\ ToSet(answer) \subseteq ToSet(fused)
       /\ Len(answer) = shorter(q.top, fused)
       /\ q.rerank => /\ Len(RerankInput(q, fused)) = shorter(q.pool, fused)
                      /\ \A i, j \in DOMAIN answer : i < j =>
                           Place(q.reranked, answer[i]) < Place(q.reranked, answer[j])
       /\ ~ q.mmr /\ ~ q.rerank => IsPrefix(answer, fused)

\* Every leaf is among the contexts or its section is, once; what is kept after
\* the first stays below the budget, together with the first unless it alone is
\* beyond it; and the cut is at a context that would reach the budget.  Of what
\* is behind the cut it says nothing: a smaller one that would fit is left out,
\* against docs/retrieval.md.
ContextFits ==
  Kind_("context") =>
    LET contexts == Expanded(case.leaves, case.known)
        sizes == SizesOf(contexts)
        kept == Compressed(sizes, case.budget)
        sum(i, j) == Total(SubSeq(sizes, i, j))
        start == IF sizes[1] > case.budget THEN 2 ELSE 1
    IN /\ IsInjective(contexts)
       /\ \A x \in ToSet(case.leaves) :
            (IF x \in case.known THEN SectionOf[x] ELSE x) \in ToSet(contexts)
       /\ kept >= 1
       /\ sum(2, kept) > 0 => sum(start, kept) < case.budget
       /\ kept < Len(sizes) => sum(start, kept + 1) >= case.budget

\* Some content leg answers a routed query whatever its intents; only one that
\* is taken for exact terms depends on the sparse field.
SomeLegAnswers ==
  Kind_("routing") =>
    LET wanted == Decide(case.intents, case.exclusive)
        legs == Channels([routed |-> TRUE, wanted |-> wanted,
                          available |-> case.available])
    IN /\ wanted \cap {"dense", "bm25"} # {}
       /\ legs \cap {"dense", "bm25"} # {}
            \/ (case.exclusive /\ "bm25" \notin case.available)

\* Every stage of a query keeps what the stages before it decided.
RetrievalSound ==
  /\ FilterHeld /\ DominanceKept /\ DiversityKeepsBest
  /\ AnswerFilled /\ ContextFits /\ SomeLegAnswers

=============================================================================
