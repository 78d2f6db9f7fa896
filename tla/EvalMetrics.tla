------------------------------ MODULE EvalMetrics ------------------------------
(***************************************************************************)
(* The arithmetic of an evaluation: ranking metrics and channel attribution   *)
(* of a question, their means over a run, and the verdict of the gate         *)
(* (api/evaluation.py).                                                     *)
(*                                                                         *)
(* A fraction is a pair of naturals and is compared by cross                  *)
(* multiplication.  Each state is one trial of a pure function.               *)
(***************************************************************************)
EXTENDS Integers, FiniteSets, SequencesExt

CONSTANTS
  Rankable,           \* chunk ids a question may retrieve or expect
  RecallChannels,   \* names of the recall channels
  Discounts,        \* 1 / log2(rank + 1), scaled to integers
  Grades            \* values of a metric, naturals

ASSUME EvalMetricsAssumption ==
  /\ IsFiniteSet(Rankable) /\ Discounts \in Seq(Nat \ {0})
  /\ Len(Discounts) >= Cardinality(Rankable)
  /\ \A i, j \in 1 .. Len(Discounts) : i < j => Discounts[i] > Discounts[j]
  /\ Grades \subseteq Nat

VARIABLE scoring

Leq(a, b) == a[1] * b[2] <= b[1] * a[2]
InUnit(a) == 0 <= a[1] /\ a[1] <= a[2]

-----------------------------------------------------------------------------
(* _ranking_metrics of one question.                                        *)

Relevant(ids, wanted) == {i \in 1 .. Len(ids) : ids[i] \in wanted}

Discount(i) == Discounts[i]
GainOf(ranks) == MapThenSumSet(Discount, ranks)

FirstHit(ranks) == CHOOSE i \in ranks : \A j \in ranks : i <= j

IdealCount(ids, wanted) == Min({Cardinality(wanted), Len(ids)})

RankingMetrics(ids, wanted) ==
  LET hits == Relevant(ids, wanted)
      ideal == GainOf(1 .. IdealCount(ids, wanted))
  IN [recall |-> <<Cardinality(hits), Cardinality(wanted)>>,
      mrr    |-> IF hits = {} THEN <<0, 1>> ELSE <<1, FirstHit(hits)>>,
      ndcg   |-> IF ideal = 0 THEN <<0, 1>> ELSE <<GainOf(hits), ideal>>]

\* _channel_attribution: of the final hits the ones the channel matched, of the
\* expected chunks the ones its raw run held.  runs: channel -> set of chunks.
ChannelAttribution(runs, ids, wanted) ==
  LET final == wanted \cap ToSet(ids)
  IN [hits  |-> [c \in RecallChannels |-> Cardinality(final \cap runs[c])],
      found |-> [c \in RecallChannels |-> Cardinality(wanted \cap runs[c])],
      hits_total |-> Cardinality(final), wanted_total |-> Cardinality(wanted)]

\* _summarize of two questions, either of which may lack expectations.
HitShare(a, b, c)  == <<a.hits[c] + b.hits[c], a.hits_total + b.hits_total>>
RawRecall(a, b, c) == <<a.found[c] + b.found[c], a.wanted_total + b.wanted_total>>
MeanOf(a, b)       == <<a[1] * b[2] + b[1] * a[2], 2 * a[2] * b[2]>>

-----------------------------------------------------------------------------
(* _evaluate_gate: one metric's floor and drop; a run of questions without    *)
(* expectations leaves it Unmeasured, a gate without a baseline run too.       *)

Unmeasured == -1
NoCriterion == -2

FloorViolated(value, min) ==
  min # NoCriterion /\ (value = Unmeasured \/ value < min)

\* Mutant: what is not measured is skipped.
DropViolatedMeasured(value, base, drop) ==
  /\ drop # NoCriterion
  /\ value # Unmeasured /\ base # Unmeasured
  /\ value - base < -drop

DropViolated(value, base, drop) ==
  /\ drop # NoCriterion
  /\ value = Unmeasured \/ base = Unmeasured \/ value - base < -drop

GatePasses(g, value, base) ==
  /\ ~FloorViolated(value, g.min)
  /\ ~DropViolated(value, base, g.drop)

\* GateCreate's validator: a criterion, and a baseline for a drop.
GateAccepted(g, baselined) ==
  /\ g.min # NoCriterion \/ g.drop # NoCriterion
  /\ g.drop # NoCriterion => baselined

-----------------------------------------------------------------------------
(* Trials.                                                                  *)

Lists == {s \in UNION {[1 .. n -> Rankable] : n \in 0 .. Cardinality(Rankable)} :
            IsInjective(s)}

RankTrials ==
  {[kind |-> "rank", ids |-> s, wanted |-> w, runs |-> r] :
     s \in Lists, w \in SUBSET Rankable \ {{}}, r \in [RecallChannels -> SUBSET Rankable]}

GateTrials ==
  {[kind |-> "gate", gate |-> [min |-> m, drop |-> d], value |-> v, base |-> b,
    baselined |-> k] :
     m, d \in Grades \cup {NoCriterion}, v, b \in Grades \cup {Unmeasured}, k \in BOOLEAN}

NoScoring == [kind |-> "none"]

MetricsInit == scoring = NoScoring
MetricsNext ==
  /\ scoring = NoScoring
  /\ scoring' \in RankTrials \cup GateTrials

-----------------------------------------------------------------------------
(* Properties.                                                              *)

\* Every metric of a ranking without duplicates is a share of one, so are the
\* means and the channels' shares of a run; a channel is credited with no final
\* hit that its raw run did not hold.
MetricsAreShares ==
  scoring.kind = "rank" =>
    LET m == RankingMetrics(scoring.ids, scoring.wanted)
        a == ChannelAttribution(scoring.runs, scoring.ids, scoring.wanted)
        b == ChannelAttribution(scoring.runs, Reverse(scoring.ids), {})
    IN /\ InUnit(m.recall) /\ InUnit(m.mrr) /\ InUnit(m.ndcg)
       /\ InUnit(MeanOf(m.recall, m.ndcg))
       /\ \A c \in RecallChannels :
            /\ a.hits[c] <= a.found[c]
            /\ InUnit(HitShare(a, b, c)) /\ InUnit(RawRecall(a, b, c))

\* Moving an expected chunk one place up never lowers a metric.
BetterRankScoresNoLess ==
  scoring.kind = "rank" =>
    \A i \in 1 .. Len(scoring.ids) - 1 :
      LET s == scoring.ids
          up == [s EXCEPT ![i] = s[i + 1], ![i + 1] = s[i]]
          m == RankingMetrics(s, scoring.wanted)
          n == RankingMetrics(up, scoring.wanted)
      IN (s[i] \notin scoring.wanted /\ s[i + 1] \in scoring.wanted) =>
           /\ Leq(m.recall, n.recall) /\ Leq(m.mrr, n.mrr) /\ Leq(m.ndcg, n.ndcg)

\* A candidate that scores more passes whatever one that scores less passed,
\* nothing measured passes nothing, and a drop needs its baseline.
VerdictMonotone ==
  (scoring.kind = "gate" /\ GateAccepted(scoring.gate, scoring.baselined)) =>
    LET base == IF scoring.baselined THEN scoring.base ELSE Unmeasured
        Pass(v) == GatePasses(scoring.gate, v, base)
    IN /\ \A v \in Grades : (v > scoring.value /\ Pass(scoring.value)) => Pass(v)
       /\ ~Pass(Unmeasured)
       /\ (scoring.gate.drop # NoCriterion /\ base = Unmeasured) => ~Pass(scoring.value)

\* The numbers of a run and the verdict on them order rankings as they should.
MetricsSound == MetricsAreShares /\ BetterRankScoresNoLess /\ VerdictMonotone

=============================================================================
