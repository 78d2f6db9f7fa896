-------------------------- MODULE Services_proofs ---------------------------
(****************************************************************************)
(* The parts of the process beside the corpus, for any number of requests,  *)
(* pool calls, streams, processes and parse calls.                          *)
(****************************************************************************)
EXTENDS ModelSlot, ThreadPools, JobEvents, Lifespan, Parsing,
        FiniteSetTheorems, SequenceTheorems, TLAPS

-----------------------------------------------------------------------------
(****************************************************************************)
(* ModelSlot: the slot is a single-instance resource, on whichever threads  *)
(* its requests run.                                                        *)
(****************************************************************************)

\* What the properties need of the types.
OpType == op \in [Requests -> OpStates]

SlotInv == OpType /\ LockExclusive /\ StatusTruthful

LEMMA SlotInit == Init => SlotInv
BY DEF Init, SlotInv, OpType, OpStates, LockExclusive, StatusTruthful, Working,
       Critical

LEMMA SlotStep ==
  ASSUME SlotInv, [Next]_vars
  PROVE  SlotInv'
<1> USE DEF SlotInv, OpType, OpStates, LockExclusive, StatusTruthful, Working,
        Critical, Step, slot, vars
<1>1. ASSUME NEW r \in Requests, Arrive(r) PROVE SlotInv'
  <2>1. CASE LoadSettledAtOnce(r)
    BY <2>1 DEF LoadSettledAtOnce
  <2>2. CASE LoadBegin(r)
    BY <2>2 DEF LoadBegin
  <2>3. CASE SubmitUnload(r)
    BY <2>3 DEF SubmitUnload
  <2> QED
    BY <1>1, <2>1, <2>2, <2>3 DEF Arrive
<1>2. ASSUME NEW r \in Requests, Thread(r) PROVE SlotInv'
  <2>1. CASE BuildSucceeds(r)
    <3>1. \A s \in Requests \ {r} : op[s] \notin Critical /\ op'[s] = op[s]
      BY <2>1 DEF BuildSucceeds
    <3>2. op' \in [Requests -> OpStates] /\ op'[r] \notin Critical
      BY <2>1 DEF BuildSucceeds
    <3>3. lock' = FALSE /\ state' = "loaded" /\ instance' # NoInst
      BY <2>1, NoInstAssumption DEF BuildSucceeds
    <3>4. LockExclusive'
      BY <3>1, <3>2, <3>3
    <3>5. StatusTruthful'
      BY <3>1, <3>2, <3>3
    <3> QED
      BY <3>2, <3>4, <3>5
  <2>2. CASE BuildFails(r)
    <3>1. \A s \in Requests \ {r} : op[s] \notin Critical /\ op'[s] = op[s]
      BY <2>2 DEF BuildFails
    <3>2. op' \in [Requests -> OpStates] /\ op'[r] \notin Critical
      BY <2>2 DEF BuildFails
    <3>3. lock' = FALSE /\ state' = "failed" /\ instance' = NoInst
      BY <2>2, NoInstAssumption DEF BuildFails
    <3>4. LockExclusive'
      BY <3>1, <3>2, <3>3
    <3>5. StatusTruthful'
      BY <3>1, <3>2, <3>3
    <3> QED
      BY <3>2, <3>4, <3>5
  <2>3. CASE UnloadRefused(r)
    BY <2>3 DEF UnloadRefused
  <2>4. CASE UnloadBegin(r)
    BY <2>4 DEF UnloadBegin
  <2>5. CASE UnloadEnds(r)
    <3>1. \A s \in Requests \ {r} : op[s] \notin Critical /\ op'[s] = op[s]
      BY <2>5 DEF UnloadEnds
    <3>2. op' \in [Requests -> OpStates] /\ op'[r] \notin Critical
      BY <2>5 DEF UnloadEnds
    <3>3. lock' = FALSE /\ state' = "unloaded" /\ instance' = NoInst
      BY <2>5, NoInstAssumption DEF UnloadEnds
    <3>4. LockExclusive'
      BY <3>1, <3>2, <3>3
    <3>5. StatusTruthful'
      BY <3>1, <3>2, <3>3
    <3> QED
      BY <3>2, <3>4, <3>5
  <2>6. CASE Post(r)
    BY <2>6 DEF Post
  <2> QED
    BY <1>2, <2>1, <2>2, <2>3, <2>4, <2>5, <2>6 DEF Thread
<1>3. ASSUME NEW r \in Requests, Resume(r) PROVE SlotInv'
  BY <1>3 DEF Resume
<1>4. CASE UNCHANGED vars
  BY <1>4
<1> QED
  BY <1>1, <1>2, <1>3, <1>4 DEF Next

LEMMA SlotCorrect == Spec => []SlotInv
BY SlotInit, SlotStep, PTL DEF Spec

\* The lock that begin_load takes on the event loop and finish_load releases
\* on another thread excludes every other load and unload and never leaks, and
\* GET /v1/models tells the truth about every load, however it ended.
THEOREM SlotIsTruthful == Spec => []SlotTruthful
<1>1. SlotInv => SlotTruthful
  BY DEF SlotInv, SlotTruthful
<1> QED
  BY <1>1, SlotCorrect, PTL

\* No load ever overwrites an instance that was not unloaded.
THEOREM InstanceNeverReplaced == Spec => NeverReplaced
<1>1. SlotInv /\ [Next]_vars =>
        [instance # NoInst => instance' \in {instance, NoInst}]_vars
  <2> SUFFICES ASSUME SlotInv, [Next]_vars, instance # NoInst
               PROVE  instance' \in {instance, NoInst}
    OBVIOUS
  <2>1. \A r \in Requests : ~ BuildSucceeds(r)
    BY DEF SlotInv, StatusTruthful, BuildSucceeds, Step
  <2> QED
    BY <2>1
    DEF Next, Arrive, Thread, LoadSettledAtOnce, LoadBegin, SubmitUnload,
        BuildFails, UnloadRefused, UnloadBegin, UnloadEnds,
        Post, Resume, slot, vars
<1> QED
  BY <1>1, SlotCorrect, PTL DEF Spec, NeverReplaced

-----------------------------------------------------------------------------
(****************************************************************************)
(* ThreadPools: the account of a pool's permits.                            *)
(****************************************************************************)

AwaitStates == {"new", "permit", "woken", "result", "posted", "ended"}

PoolType ==
  /\ await \in [PoolCalls -> AwaitStates]
  /\ line \in Seq(PoolCalls) /\ work \in Seq(PoolCalls)
  /\ permits \in Nat /\ inflight \in Nat /\ waiting \in Nat
  /\ dead \subseteq PoolCalls /\ busy \subseteq PoolCalls
  /\ closed \in BOOLEAN

Distinct(s) == \A i \in 1..Len(s) : \A j \in 1..Len(s) : s[i] = s[j] => i = j

LineInv ==
  /\ Distinct(line)
  /\ \A i \in 1..Len(line) : await[line[i]] = "permit"

\* The calls whose function the executor has not begun, of those somebody waits for.
Queued == {c \in PoolCalls : await[c] = "result" /\ c \notin busy}

WorkInv ==
  /\ Distinct(work)
  /\ \A i \in 1..Len(work) : work[i] \in Queued \cup dead
  /\ \A c \in Queued \cup dead : \E i \in 1..Len(work) : work[i] = c
  /\ \A c \in dead : await[c] = "ended" /\ c \notin busy
  /\ \A c \in busy : await[c] \in {"result", "ended"}

AccountInv ==
  /\ IsFiniteSet(Holders) /\ IsFiniteSet(Woken) /\ IsFiniteSet(Queued)
  /\ IsFiniteSet(dead) /\ IsFiniteSet(busy)
  /\ PermitsConserved /\ NoIdlePermit
  /\ Len(work) = Cardinality(Queued) + Cardinality(dead)

PoolInv == PoolType /\ LineInv /\ WorkInv /\ AccountInv

-----------------------------------------------------------------------------
(* Sequences without repetitions.                                           *)

LEMMA DistinctAppend ==
  ASSUME NEW s \in Seq(PoolCalls), Distinct(s), NEW c \in PoolCalls,
         \A i \in 1..Len(s) : s[i] # c
  PROVE  /\ Append(s, c) \in Seq(PoolCalls) /\ Distinct(Append(s, c))
         /\ Len(Append(s, c)) = Len(s) + 1 /\ Append(s, c)[Len(s) + 1] = c
         /\ \A i \in 1..Len(s) : Append(s, c)[i] = s[i]
<1> DEFINE u == Append(s, c)
<1>1. /\ u \in Seq(PoolCalls) /\ Len(u) = Len(s) + 1 /\ u[Len(s) + 1] = c
      /\ \A i \in 1..Len(s) : u[i] = s[i]
  OBVIOUS
<1> HIDE DEF u
<1>2. Distinct(u)
  BY <1>1 DEF Distinct
<1> QED
  BY <1>1, <1>2 DEF u

LEMMA DistinctSuffix ==
  ASSUME NEW s \in Seq(PoolCalls), Distinct(s), NEW n \in 0..Len(s)
  PROVE  LET u == SubSeq(s, n + 1, Len(s)) IN
         /\ u \in Seq(PoolCalls) /\ Distinct(u) /\ Len(u) = Len(s) - n
         /\ \A i \in 1..Len(u) : u[i] = s[n + i]
<1> DEFINE u == SubSeq(s, n + 1, Len(s))
<1>1. /\ u \in Seq(PoolCalls) /\ Len(u) = Len(s) - n
      /\ \A i \in 1..Len(u) : u[i] = s[n + i]
  OBVIOUS
<1> HIDE DEF u
<1>2. Distinct(u)
  BY <1>1 DEF Distinct
<1> QED
  BY <1>1, <1>2 DEF u

LEMMA DistinctRemove ==
  ASSUME NEW s \in Seq(PoolCalls), Distinct(s), NEW i \in 1..Len(s)
  PROVE  LET u == RemoveAt(s, i) IN
         /\ u \in Seq(PoolCalls) /\ Distinct(u) /\ Len(u) = Len(s) - 1
         /\ \A j \in 1..Len(u) : \E k \in 1..Len(s) : u[j] = s[k] /\ k # i
<1> DEFINE a == SubSeq(s, 1, i - 1)
           b == SubSeq(s, i + 1, Len(s))
           u == a \o b
<1>1. /\ a \in Seq(PoolCalls) /\ Len(a) = i - 1 /\ \A j \in 1..(i - 1) : a[j] = s[j]
  OBVIOUS
<1>2. /\ b \in Seq(PoolCalls) /\ Len(b) = Len(s) - i
      /\ \A j \in 1..(Len(s) - i) : b[j] = s[i + j]
  OBVIOUS
<1> HIDE DEF a, b
<1>0. a \in Seq(PoolCalls) /\ b \in Seq(PoolCalls) /\ Len(a) \in Nat /\ Len(b) \in Nat
  BY <1>1, <1>2
<1>3. /\ u \in Seq(PoolCalls) /\ Len(u) = Len(a) + Len(b)
      /\ \A j \in 1..(Len(a) + Len(b)) : u[j] = IF j <= Len(a) THEN a[j] ELSE b[j - Len(a)]
  BY <1>0
<1> HIDE DEF u
<1>a. /\ Len(a) = i - 1 /\ Len(a) + Len(b) = Len(s) - 1
       /\ i \in 1..Len(s) /\ Len(s) \in Nat
  BY <1>1, <1>2
<1>4. Len(u) = Len(s) - 1
  BY <1>1, <1>2, <1>3
<1>5. \A j \in 1..(i - 1) : u[j] = s[j]
  <2> TAKE j \in 1..(i - 1)
  <2>1. j \in 1..(Len(a) + Len(b)) /\ j <= Len(a)
    BY <1>a
  <2>2. u[j] = a[j]
    BY <1>3, <2>1
  <2> QED
    BY <1>1, <2>2
<1>6. \A j \in i..(Len(s) - 1) : u[j] = s[j + 1]
  <2> TAKE j \in i..(Len(s) - 1)
  <2>0. j \in 1..(Len(a) + Len(b)) /\ ~ (j <= Len(a)) /\ j - Len(a) = j - (i - 1)
    BY <1>a
  <2>1. u[j] = b[j - (i - 1)]
    BY <1>3, <2>0
  <2>2. j - (i - 1) \in 1..(Len(s) - i) /\ i + (j - (i - 1)) = j + 1
    BY <1>a
  <2> QED
    BY <1>2, <2>1, <2>2
<1>7. Distinct(u)
  BY <1>4, <1>5, <1>6 DEF Distinct
<1>8. \A j \in 1..Len(u) : \E k \in 1..Len(s) : u[j] = s[k] /\ k # i
  <2> TAKE j \in 1..Len(u)
  <2>1. CASE j < i
    BY <1>4, <1>5, <2>1
  <2>2. CASE ~ (j < i)
    BY <1>4, <1>6, <2>2
  <2> QED
    BY <2>1, <2>2
<1> QED
  BY <1>3, <1>4, <1>7, <1>8 DEF RemoveAt, u, a, b

LEMMA FirstOfLine ==
  ASSUME NEW s \in Seq(PoolCalls), Distinct(s), NEW n \in 0..Len(s)
  PROVE  LET first == {s[i] : i \in 1..n}
         IN  IsFiniteSet(first) /\ Cardinality(first) = n
<1> DEFINE first == {s[i] : i \in 1..n}
           f == [i \in 1..n |-> s[i]]
<1>1. n \in Nat
  OBVIOUS
<1>2. f \in [1..n -> first]
  OBVIOUS
<1>3. IsInjective(f)
  BY DEF IsInjective, Distinct
<1>4. \A t \in first : \E i \in 1..n : f[i] = t
  OBVIOUS
<1>5. f \in Bijection(1..n, first)
  BY <1>2, <1>3, <1>4 DEF Bijection, Injection, Surjection
<1>6. ExistsBijection(1..n, first)
  BY <1>5 DEF ExistsBijection
<1> QED
  BY <1>1, <1>6, FS_CountingElements, FS_NatBijection

-----------------------------------------------------------------------------
(* What the semaphore does when it wakes callers.                           *)

WokenOf(callers) == {c \in PoolCalls : callers[c] = "woken"}
HoldersOf(callers) == {c \in PoolCalls : callers[c] \in {"result", "posted"}}

LEMMA HowMany ==
  ASSUME NEW most \in Nat, NEW free \in Nat, NEW l \in Nat
  PROVE  \E m \in 0..most : m <= free /\ m <= l /\ m \in {most, free, l}
<1>1. CASE most <= free /\ most <= l
  BY <1>1
<1>2. CASE free <= most /\ free <= l
  BY <1>2
<1>3. CASE l <= most /\ l <= free
  BY <1>3
<1> QED
  BY <1>1, <1>2, <1>3

LEMMA WakeUpDoes ==
  ASSUME NEW callers \in [PoolCalls -> AwaitStates], NEW queued \in Seq(PoolCalls),
         NEW most \in Nat, NEW free \in Nat,
         Distinct(queued), \A i \in 1..Len(queued) : callers[queued[i]] = "permit",
         IsFiniteSet(WokenOf(callers)), WakeUp(most, callers, queued, free)
  PROVE  \E n \in 0..Len(queued) :
           /\ n <= most /\ n <= free /\ n \in {most, free, Len(queued)}
           /\ permits' = free - n
           /\ line' \in Seq(PoolCalls) /\ Len(line') = Len(queued) - n
           /\ LineInv'
           /\ await' \in [PoolCalls -> AwaitStates]
           /\ \A c \in PoolCalls :
                await'[c] # callers[c] => callers[c] = "permit" /\ await'[c] = "woken"
           /\ IsFiniteSet(Woken') /\ Cardinality(Woken') = Cardinality(WokenOf(callers)) + n
           /\ Holders' = HoldersOf(callers)
           /\ most = 1 \/ most >= Len(queued) => NoIdlePermit'
<1> DEFINE n == CHOOSE m \in 0..most :
                  /\ m <= free /\ m <= Len(queued)
                  /\ m \in {most, free, Len(queued)}
           first == {queued[i] : i \in 1..n}
<1>1. n \in 0..most /\ n <= free /\ n <= Len(queued) /\ n \in {most, free, Len(queued)}
  <2>1. Len(queued) \in Nat
    OBVIOUS
  <2>2. \E m \in 0..most : m <= free /\ m <= Len(queued) /\ m \in {most, free, Len(queued)}
    BY <2>1, HowMany
  <2> QED
    BY <2>2
<1>2. /\ await' = [c \in PoolCalls |-> IF c \in first THEN "woken" ELSE callers[c]]
      /\ line' = SubSeq(queued, n + 1, Len(queued))
      /\ permits' = free - n
  BY DEF WakeUp
<1> HIDE DEF n
<1>3. n \in 0..Len(queued)
  BY <1>1
<1>4. /\ line' \in Seq(PoolCalls) /\ Distinct(line') /\ Len(line') = Len(queued) - n
      /\ \A i \in 1..Len(line') : line'[i] = queued[n + i]
  BY <1>2, <1>3, DistinctSuffix
<1>5. IsFiniteSet(first) /\ Cardinality(first) = n
  BY <1>3, FirstOfLine
<1>6. \A c \in first : c \in PoolCalls /\ callers[c] = "permit"
  BY <1>3
<1>7. first \cap WokenOf(callers) = {} /\ Woken' = WokenOf(callers) \cup first
  BY <1>2, <1>6 DEF WokenOf, Woken
<1>8. \A i \in 1..Len(line') : line'[i] \notin first
  <2> TAKE i \in 1..Len(line')
  <2>1. line'[i] = queued[n + i] /\ n + i \in 1..Len(queued) /\ n + i > n
    BY <1>3, <1>4
  <2> QED
    BY <1>3, <2>1 DEF Distinct
<1>9. \A i \in 1..Len(line') : line'[i] \in PoolCalls /\ callers[line'[i]] = "permit"
  <2> TAKE i \in 1..Len(line')
  <2>1. line'[i] = queued[n + i] /\ n + i \in 1..Len(queued)
    BY <1>3, <1>4
  <2> QED
    BY <2>1
<1>10. \A i \in 1..Len(line') : await'[line'[i]] = "permit"
  BY <1>2, <1>8, <1>9
<1>11. LineInv'
  BY <1>4, <1>10 DEF LineInv, Distinct
<1>12. IsFiniteSet(Woken') /\ Cardinality(Woken') = Cardinality(WokenOf(callers)) + n
  <2>1. IsFiniteSet(WokenOf(callers) \cup first)
        /\ Cardinality(WokenOf(callers) \cup first)
             = Cardinality(WokenOf(callers)) + n - Cardinality({})
    BY <1>5, <1>7, FS_Union
  <2>2. Cardinality({}) = 0 /\ Cardinality(WokenOf(callers)) \in Nat
    BY FS_EmptySet, FS_CardinalityType
  <2> QED
    BY <1>3, <1>7, <2>1, <2>2
<1>13. await' \in [PoolCalls -> AwaitStates]
  BY <1>2 DEF AwaitStates
<1>14. \A c \in PoolCalls :
         await'[c] # callers[c] => callers[c] = "permit" /\ await'[c] = "woken"
  BY <1>2, <1>6
<1>15. Holders' = HoldersOf(callers)
  BY <1>14 DEF Holders, HoldersOf
<1>16. ASSUME most = 1 \/ most >= Len(queued) PROVE NoIdlePermit'
  <2> SUFFICES ASSUME line' # <<>>, permits' # 0 PROVE Woken' # {}
    BY DEF NoIdlePermit
  <2>1. Len(line') # 0 /\ Len(queued) \in Nat
    BY <1>4
  <2>2. n = 1
    BY <1>1, <1>2, <1>4, <1>16, <2>1
  <2>3. Cardinality(WokenOf(callers)) \in Nat
    BY FS_CardinalityType
  <2>4. Cardinality(Woken') # 0
    BY <1>12, <2>2, <2>3
  <2> QED
    BY <2>4, FS_EmptySet
<1>17. WITNESS n \in 0..Len(queued)
<1> QED
  BY <1>1, <1>2, <1>4, <1>11, <1>12, <1>13, <1>14, <1>15, <1>16

-----------------------------------------------------------------------------
(* The executor's queue.                                                     *)

LEMMA WorkStays ==
  ASSUME PoolType, WorkInv, UNCHANGED executor,
         \A x \in PoolCalls : /\ await[x] \in {"result", "ended"} => await'[x] = await[x]
                              /\ await'[x] = "result" => await[x] = "result"
  PROVE  WorkInv' /\ Queued' = Queued
<1>1. Queued' = Queued
  BY DEF Queued, executor
<1> QED
  BY <1>1 DEF WorkInv, Distinct, executor, PoolType

LEMMA WorkGrows ==
  ASSUME PoolType, WorkInv, NEW c \in PoolCalls, await[c] \notin {"result", "ended"},
         work' = Append(work, c), UNCHANGED <<dead, busy>>, await'[c] = "result",
         \A x \in PoolCalls \ {c} :
            /\ await[x] \in {"result", "ended"} => await'[x] = await[x]
            /\ await'[x] = "result" => await[x] = "result"
  PROVE  /\ WorkInv' /\ work' \in Seq(PoolCalls) /\ Len(work') = Len(work) + 1
         /\ Queued' = Queued \cup {c} /\ c \notin Queued
<1>1. c \notin Queued /\ c \notin dead /\ c \notin busy
  BY DEF Queued, WorkInv
<1>2. Queued' = Queued \cup {c}
  BY <1>1 DEF Queued
<1>3. \A i \in 1..Len(work) : work[i] # c
  BY <1>1 DEF WorkInv
<1>4. work \in Seq(PoolCalls) /\ Distinct(work)
  BY DEF PoolType, WorkInv
<1>5. /\ work' \in Seq(PoolCalls) /\ Distinct(work') /\ Len(work') = Len(work) + 1
      /\ work'[Len(work) + 1] = c /\ \A i \in 1..Len(work) : work'[i] = work[i]
  BY <1>3, <1>4, DistinctAppend
<1>6. Len(work) \in Nat
  BY <1>4
<1>7. \A i \in 1..Len(work') : work'[i] \in Queued' \cup dead'
  BY <1>2, <1>5, <1>6 DEF WorkInv
<1>8. \A x \in Queued' \cup dead' : \E i \in 1..Len(work') : work'[i] = x
  <2> TAKE x \in Queued' \cup dead'
  <2>1. CASE x = c
    BY <1>5, <1>6, <2>1
  <2>2. CASE x # c
    <3>1. x \in Queued \cup dead
      BY <1>2, <2>2
    <3>2. PICK i \in 1..Len(work) : work[i] = x
      BY <3>1 DEF WorkInv
    <3>3. i \in 1..Len(work') /\ work'[i] = x
      BY <1>5, <1>6, <3>2
    <3> QED
      BY <3>3
  <2> QED
    BY <2>1, <2>2
<1>9. /\ \A x \in dead' : await'[x] = "ended" /\ x \notin busy'
      /\ \A x \in busy' : await'[x] \in {"result", "ended"}
  BY <1>1 DEF WorkInv, PoolType
<1>10. Distinct(work)'
  BY <1>5 DEF Distinct
<1> QED
  BY <1>1, <1>2, <1>5, <1>7, <1>8, <1>9, <1>10 DEF WorkInv

-----------------------------------------------------------------------------
(* The steps of the callers.                                                *)

LEMMA PoolInitInv == PoolInit => PoolInv
<1> SUFFICES ASSUME PoolInit PROVE PoolInv
  OBVIOUS
<1> USE PoolAssumption DEF PoolInit
<1>0. await \in [PoolCalls -> AwaitStates]
  BY DEF AwaitStates
<1>a. line \in Seq(PoolCalls) /\ work \in Seq(PoolCalls)
  OBVIOUS
<1>b. dead \subseteq PoolCalls /\ busy \subseteq PoolCalls /\ closed \in BOOLEAN
  OBVIOUS
<1>c. permits \in Nat /\ inflight \in Nat /\ waiting \in Nat
  OBVIOUS
<1>1. PoolType
  BY <1>0, <1>a, <1>b, <1>c DEF PoolType
<1>2. Holders = {} /\ Woken = {} /\ Queued = {}
  BY DEF Holders, Woken, Queued
<1>3. LineInv /\ WorkInv
  BY <1>2 DEF LineInv, WorkInv, Distinct
<1>4. AccountInv
  BY <1>2, FS_EmptySet DEF AccountInv, PermitsConserved, NoIdlePermit
<1> QED
  BY <1>1, <1>3, <1>4 DEF PoolInv

\* The sets the account counts, and their sizes.
LEMMA Sizes ==
  ASSUME PoolInv
  PROVE  /\ IsFiniteSet(Holders) /\ Cardinality(Holders) \in Nat
         /\ IsFiniteSet(Woken) /\ Cardinality(Woken) \in Nat
         /\ IsFiniteSet(Queued) /\ Cardinality(Queued) \in Nat
         /\ IsFiniteSet(dead) /\ Cardinality(dead) \in Nat
         /\ IsFiniteSet(busy) /\ Len(line) \in Nat /\ Len(work) \in Nat
BY FS_CardinalityType DEF PoolInv, AccountInv, PoolType

LEMMA Account ==
  ASSUME PoolInv
  PROVE  /\ permits \in Nat /\ inflight \in Nat /\ waiting \in Nat /\ MaxPending \in Nat
         /\ permits + Cardinality(Holders) + Cardinality(Woken) = MaxPending
         /\ inflight = Cardinality(Holders) /\ waiting = Len(line) + Cardinality(Woken)
         /\ line # <<>> => permits = 0 \/ Woken # {}
BY PoolAssumption DEF PoolInv, PoolType, AccountInv, PermitsConserved, NoIdlePermit

\* A step that wakes callers, when one of them has taken, kept or given up what it held.
LEMMA WakeKeeps ==
  ASSUME PoolInv, NEW callers \in [PoolCalls -> AwaitStates], NEW queued \in Seq(PoolCalls),
         NEW most \in Nat, NEW free \in Nat, most = 1 \/ most >= Len(queued),
         Distinct(queued), \A i \in 1..Len(queued) : callers[queued[i]] = "permit",
         WakeUp(most, callers, queued, free),
         IsFiniteSet(WokenOf(callers)), IsFiniteSet(HoldersOf(callers)),
         free + Cardinality(HoldersOf(callers)) + Cardinality(WokenOf(callers)) = MaxPending,
         inflight' = Cardinality(HoldersOf(callers)),
         waiting' = Len(queued) + Cardinality(WokenOf(callers))
  PROVE  /\ LineInv' /\ PermitsConserved' /\ NoIdlePermit'
         /\ IsFiniteSet(Holders') /\ IsFiniteSet(Woken')
         /\ await' \in [PoolCalls -> AwaitStates] /\ line' \in Seq(PoolCalls)
         /\ permits' \in Nat /\ inflight' \in Nat /\ waiting' \in Nat
         /\ \A c \in PoolCalls :
              await'[c] # callers[c] => callers[c] = "permit" /\ await'[c] = "woken"
<1>1. PICK n \in 0..Len(queued) :
           /\ n <= most /\ n <= free /\ n \in {most, free, Len(queued)}
           /\ permits' = free - n
           /\ line' \in Seq(PoolCalls) /\ Len(line') = Len(queued) - n
           /\ LineInv'
           /\ await' \in [PoolCalls -> AwaitStates]
           /\ \A c \in PoolCalls :
                await'[c] # callers[c] => callers[c] = "permit" /\ await'[c] = "woken"
           /\ IsFiniteSet(Woken') /\ Cardinality(Woken') = Cardinality(WokenOf(callers)) + n
           /\ Holders' = HoldersOf(callers)
           /\ most = 1 \/ most >= Len(queued) => NoIdlePermit'
  BY WakeUpDoes
<1>2. /\ Cardinality(HoldersOf(callers)) \in Nat /\ Cardinality(WokenOf(callers)) \in Nat
      /\ Len(queued) \in Nat
  BY FS_CardinalityType
<1>3. permits' \in Nat /\ inflight' \in Nat /\ waiting' \in Nat
  BY <1>1, <1>2
<1>4. /\ permits' + Cardinality(Holders') + Cardinality(Woken') = MaxPending
      /\ inflight' = Cardinality(Holders')
      /\ waiting' = Len(line') + Cardinality(Woken')
  BY <1>1, <1>2, PoolAssumption
<1> QED
  BY <1>1, <1>3, <1>4 DEF PermitsConserved

LEMMA AccountStays ==
  ASSUME PoolInv, UNCHANGED <<line, permits, inflight, waiting>>, LineInv',
         Holders' = Holders, Woken' = Woken
  PROVE  /\ IsFiniteSet(Holders') /\ IsFiniteSet(Woken') /\ PermitsConserved' /\ NoIdlePermit'
BY DEF PoolInv, AccountInv, PermitsConserved, NoIdlePermit

\* What the semaphore's step leaves of the executor.
LEMMA QueueStays ==
  ASSUME PoolInv, WorkInv', Queued' = Queued, UNCHANGED executor
  PROVE  /\ IsFiniteSet(Queued') /\ IsFiniteSet(dead') /\ IsFiniteSet(busy')
         /\ Len(work') = Cardinality(Queued') + Cardinality(dead')
         /\ work' \in Seq(PoolCalls) /\ dead' \subseteq PoolCalls /\ busy' \subseteq PoolCalls
BY DEF PoolInv, PoolType, AccountInv, executor

LEMMA EndedIs ==
  ASSUME PoolInv, NEW c \in PoolCalls
  PROVE  /\ Ended(c) \in [PoolCalls -> AwaitStates] /\ Ended(c)[c] = "ended"
         /\ \A x \in PoolCalls : x # c => Ended(c)[x] = await[x]
         /\ HoldersOf(Ended(c)) = Holders \ {c} /\ WokenOf(Ended(c)) = Woken \ {c}
<1>1. await \in [PoolCalls -> AwaitStates]
  BY DEF PoolInv, PoolType
<1>2. /\ Ended(c) \in [PoolCalls -> AwaitStates] /\ Ended(c)[c] = "ended"
      /\ \A x \in PoolCalls : x # c => Ended(c)[x] = await[x]
  BY <1>1 DEF Ended, AwaitStates
<1> QED
  BY <1>2 DEF HoldersOf, WokenOf, Holders, Woken

LEMMA AdmitAtOnceKeeps ==
  ASSUME PoolInv, NEW c \in PoolCalls, AdmitAtOnce(c) PROVE PoolInv'
<1>1. /\ await \in [PoolCalls -> AwaitStates] /\ await[c] = "new" /\ await'[c] = "result"
      /\ await' \in [PoolCalls -> AwaitStates]
      /\ \A x \in PoolCalls : x # c => await'[x] = await[x]
  BY DEF PoolInv, PoolType, AdmitAtOnce, Waits, AwaitStates
<1>2. Holders' = Holders \cup {c} /\ c \notin Holders /\ Woken' = Woken /\ Woken = {}
  BY <1>1 DEF Holders, Woken, AdmitAtOnce
<1>3. IsFiniteSet(Holders') /\ Cardinality(Holders') = Cardinality(Holders) + 1
  BY <1>2, Sizes, FS_AddElement
<1>4. /\ WorkInv' /\ work' \in Seq(PoolCalls) /\ Len(work') = Len(work) + 1
      /\ Queued' = Queued \cup {c} /\ c \notin Queued
  BY <1>1, WorkGrows DEF PoolInv, AdmitAtOnce
<1>5. IsFiniteSet(Queued') /\ Cardinality(Queued') = Cardinality(Queued) + 1
  BY <1>4, Sizes, FS_AddElement
<1>6. LineInv'
  BY <1>1 DEF AdmitAtOnce, PoolInv, LineInv, Distinct
<1>7. PoolType'
  BY <1>1, <1>4 DEF AdmitAtOnce, PoolInv, PoolType
<1>8. PermitsConserved' /\ NoIdlePermit'
  <2>1. Cardinality(Woken) \in Nat /\ Len(line) \in Nat /\ Cardinality(Holders) \in Nat
    BY Sizes
  <2>2. /\ permits' = permits - 1 /\ inflight' = inflight + 1 /\ waiting' = waiting
        /\ line = <<>> /\ line' = line /\ permits > 0
    BY DEF AdmitAtOnce
  <2>3. PermitsConserved'
    BY <1>2, <1>3, <2>1, <2>2, Account DEF PermitsConserved
  <2>4. NoIdlePermit'
    BY <2>2 DEF NoIdlePermit
  <2>5. permits' \in Nat
    BY <2>2, Account
  <2> QED
    BY <2>3, <2>4
<1>9. AccountInv'
  BY <1>2, <1>3, <1>4, <1>5, <1>8, Sizes DEF AdmitAtOnce, PoolInv, AccountInv
<1> QED
  BY <1>4, <1>6, <1>7, <1>9 DEF PoolInv

LEMMA StandInLineKeeps ==
  ASSUME PoolInv, NEW c \in PoolCalls, StandInLine(c) PROVE PoolInv'
<1>1. /\ await \in [PoolCalls -> AwaitStates] /\ await[c] = "new" /\ await'[c] = "permit"
      /\ await' \in [PoolCalls -> AwaitStates]
      /\ \A x \in PoolCalls : x # c => await'[x] = await[x]
  BY DEF PoolInv, PoolType, StandInLine, Waits, AwaitStates
<1>2. Holders' = Holders /\ Woken' = Woken
  BY <1>1 DEF Holders, Woken
<1>3. line \in Seq(PoolCalls) /\ Distinct(line) /\ \A i \in 1..Len(line) : line[i] # c
  BY <1>1 DEF PoolInv, PoolType, LineInv
<1>4. /\ line' \in Seq(PoolCalls) /\ Distinct(line') /\ Len(line') = Len(line) + 1
      /\ line'[Len(line) + 1] = c /\ \A i \in 1..Len(line) : line'[i] = line[i]
  BY <1>3, DistinctAppend DEF StandInLine
<1>5. \A i \in 1..Len(line') : await'[line'[i]] = "permit"
  <2> TAKE i \in 1..Len(line')
  <2>1. i \in 1..Len(line) \/ i = Len(line) + 1
    BY <1>3, <1>4
  <2>2. CASE i \in 1..Len(line)
    BY <1>1, <1>3, <1>4, <2>2 DEF PoolInv, LineInv
  <2> QED
    BY <1>1, <1>4, <2>1, <2>2
<1>6. LineInv'
  BY <1>4, <1>5 DEF LineInv, Distinct
<1>7. WorkInv' /\ Queued' = Queued
  BY <1>1, WorkStays DEF PoolInv, StandInLine
<1>8. PoolType'
  BY <1>1, <1>4 DEF StandInLine, PoolInv, PoolType, executor
<1>9. PermitsConserved' /\ NoIdlePermit'
  <2>1. Cardinality(Woken) \in Nat /\ Len(line) \in Nat
    BY Sizes
  <2>2. /\ permits' = permits /\ inflight' = inflight /\ waiting' = waiting + 1
        /\ permits = 0 \/ Woken # {} \/ line # <<>>
    BY DEF StandInLine
  <2>3. PermitsConserved'
    BY <1>2, <1>4, <2>1, <2>2, Account DEF PermitsConserved
  <2>4. NoIdlePermit'
    BY <1>2, <2>2, Account DEF NoIdlePermit
  <2> QED
    BY <2>3, <2>4
<1>10. AccountInv'
  BY <1>2, <1>7, <1>9 DEF StandInLine, PoolInv, AccountInv, executor
<1> QED
  BY <1>6, <1>7, <1>8, <1>10 DEF PoolInv

LEMMA GiveUpKeeps ==
  ASSUME PoolInv, NEW c \in PoolCalls, GiveUp(c) PROVE PoolInv'
<1>1. PICK i \in 1..Len(line) :
        line[i] = c /\ WakeUp(Len(line), Ended(c), RemoveAt(line, i), permits)
  BY DEF GiveUp, PoolInv, PoolType
<1>2. await[c] = "permit" /\ c \notin Holders /\ c \notin Woken
  BY DEF GiveUp, Holders, Woken
<1> DEFINE q == RemoveAt(line, i)
<1>3. /\ q \in Seq(PoolCalls) /\ Distinct(q) /\ Len(q) = Len(line) - 1
      /\ \A j \in 1..Len(q) : \E k \in 1..Len(line) : q[j] = line[k] /\ k # i
  BY DistinctRemove DEF PoolInv, PoolType, LineInv
<1> HIDE DEF q
<1>4. \A j \in 1..Len(q) : Ended(c)[q[j]] = "permit"
  <2> TAKE j \in 1..Len(q)
  <2>1. PICK k \in 1..Len(line) : q[j] = line[k] /\ k # i
    BY <1>3
  <2>2. line[k] # c /\ line[k] \in PoolCalls /\ await[line[k]] = "permit"
    BY <1>1, <2>1 DEF PoolInv, PoolType, LineInv, Distinct
  <2> QED
    BY <2>1, <2>2, EndedIs
<1>5. HoldersOf(Ended(c)) = Holders /\ WokenOf(Ended(c)) = Woken
  BY <1>2, EndedIs
<1>6. /\ LineInv' /\ PermitsConserved' /\ NoIdlePermit'
      /\ IsFiniteSet(Holders') /\ IsFiniteSet(Woken')
      /\ await' \in [PoolCalls -> AwaitStates] /\ line' \in Seq(PoolCalls)
      /\ permits' \in Nat /\ inflight' \in Nat /\ waiting' \in Nat
      /\ \A x \in PoolCalls :
           await'[x] # Ended(c)[x] => Ended(c)[x] = "permit" /\ await'[x] = "woken"
  <2>1. /\ Len(line) \in Nat /\ Len(line) >= Len(q) /\ permits \in Nat
        /\ permits + Cardinality(Holders) + Cardinality(Woken) = MaxPending
        /\ inflight' = Cardinality(Holders) /\ waiting' = Len(q) + Cardinality(Woken)
    <3>1. Cardinality(Woken) \in Nat /\ Len(line) \in Nat /\ Len(q) \in Nat
      BY <1>3, Sizes
    <3> QED
      BY <1>3, <3>1, Account DEF GiveUp
  <2>2. Ended(c) \in [PoolCalls -> AwaitStates]
    BY EndedIs
  <2>3. WakeUp(Len(line), Ended(c), q, permits)
    BY <1>1 DEF q
  <2> QED
    BY <1>3, <1>4, <1>5, <2>1, <2>2, <2>3, WakeKeeps, Sizes
<1>7. WorkInv' /\ Queued' = Queued
  <2>1. UNCHANGED executor
    BY DEF GiveUp
  <2> QED
    BY <1>2, <1>6, <2>1, EndedIs, WorkStays DEF PoolInv
<1>8. PoolType' /\ AccountInv'
  BY <1>6, <1>7, QueueStays DEF GiveUp, PoolInv, PoolType, AccountInv
<1> QED
  BY <1>6, <1>7, <1>8 DEF PoolInv

\* A step in which the caller c leaves and those in line are woken.
LEMMA LineWaits ==
  ASSUME PoolInv, NEW c \in PoolCalls, await[c] # "permit", NEW callers,
         \A x \in PoolCalls : x # c => callers[x] = await[x]
  PROVE  /\ line \in Seq(PoolCalls) /\ Distinct(line) /\ Len(line) \in Nat
         /\ \A i \in 1..Len(line) : callers[line[i]] = "permit"
<1>1. line \in Seq(PoolCalls) /\ Distinct(line) /\ Len(line) \in Nat
  BY DEF PoolInv, PoolType, LineInv
<1>2. \A i \in 1..Len(line) : line[i] \in PoolCalls /\ line[i] # c /\ await[line[i]] = "permit"
  BY <1>1 DEF PoolInv, LineInv
<1> QED
  BY <1>1, <1>2

LEMMA LeaveKeeps ==
  ASSUME PoolInv, NEW c \in PoolCalls, await[c] \in {"woken", "result", "posted"},
         NEW most \in Nat, most = 1 \/ most >= Len(line),
         WakeUp(most, Ended(c), line, permits + 1),
         inflight' = IF await[c] = "woken" THEN inflight ELSE inflight - 1,
         waiting' = IF await[c] = "woken" THEN waiting - 1 ELSE waiting
  PROVE  /\ LineInv' /\ PermitsConserved' /\ NoIdlePermit'
         /\ IsFiniteSet(Holders') /\ IsFiniteSet(Woken')
         /\ await' \in [PoolCalls -> AwaitStates] /\ line' \in Seq(PoolCalls)
         /\ permits' \in Nat /\ inflight' \in Nat /\ waiting' \in Nat
         /\ \A x \in PoolCalls :
              await'[x] # Ended(c)[x] => Ended(c)[x] = "permit" /\ await'[x] = "woken"
<1>1. /\ line \in Seq(PoolCalls) /\ Distinct(line) /\ Len(line) \in Nat
      /\ \A i \in 1..Len(line) : Ended(c)[line[i]] = "permit"
  BY LineWaits, EndedIs
<1>2. IF await[c] = "woken"
      THEN /\ HoldersOf(Ended(c)) = Holders /\ WokenOf(Ended(c)) = Woken \ {c} /\ c \in Woken
      ELSE /\ HoldersOf(Ended(c)) = Holders \ {c} /\ WokenOf(Ended(c)) = Woken /\ c \in Holders
  BY EndedIs DEF Holders, Woken
<1>3. /\ IsFiniteSet(Holders \ {c}) /\ (c \in Holders => Cardinality(Holders \ {c}) = Cardinality(Holders) - 1)
      /\ IsFiniteSet(Woken \ {c}) /\ (c \in Woken => Cardinality(Woken \ {c}) = Cardinality(Woken) - 1)
  BY Sizes, FS_RemoveElement
<1>4. /\ permits \in Nat /\ permits + Cardinality(Holders) + Cardinality(Woken) = MaxPending
      /\ inflight = Cardinality(Holders) /\ waiting = Len(line) + Cardinality(Woken)
  BY DEF PoolInv, PoolType, AccountInv, PermitsConserved
<1>5. /\ IsFiniteSet(HoldersOf(Ended(c))) /\ IsFiniteSet(WokenOf(Ended(c)))
      /\ (permits + 1) + Cardinality(HoldersOf(Ended(c))) + Cardinality(WokenOf(Ended(c))) = MaxPending
      /\ inflight' = Cardinality(HoldersOf(Ended(c)))
      /\ waiting' = Len(line) + Cardinality(WokenOf(Ended(c)))
      /\ permits + 1 \in Nat
  <2>0. /\ Cardinality(Woken) \in Nat /\ Cardinality(Holders) \in Nat /\ MaxPending \in Nat
        /\ IsFiniteSet(Woken) /\ IsFiniteSet(Holders)
    BY Sizes, PoolAssumption
  <2>1. CASE await[c] = "woken"
    <3>1. /\ HoldersOf(Ended(c)) = Holders /\ IsFiniteSet(WokenOf(Ended(c)))
          /\ Cardinality(WokenOf(Ended(c))) = Cardinality(Woken) - 1
      BY <1>2, <1>3, <2>1
    <3>2. inflight' = inflight /\ waiting' = waiting - 1
      BY <2>1
    <3>3. (permits + 1) + Cardinality(Holders) + (Cardinality(Woken) - 1) = MaxPending
      BY <1>4, <2>0
    <3>4. waiting' = Len(line) + (Cardinality(Woken) - 1)
      BY <1>1, <1>4, <2>0, <3>2
    <3> QED
      BY <1>4, <2>0, <3>1, <3>2, <3>3, <3>4
  <2>2. CASE await[c] # "woken"
    <3>1. /\ WokenOf(Ended(c)) = Woken /\ IsFiniteSet(HoldersOf(Ended(c)))
          /\ Cardinality(HoldersOf(Ended(c))) = Cardinality(Holders) - 1
      BY <1>2, <1>3, <2>2
    <3>2. inflight' = inflight - 1 /\ waiting' = waiting
      BY <2>2
    <3> QED
      BY <1>1, <1>4, <2>0, <3>1, <3>2
  <2> QED
    BY <2>1, <2>2
<1>6. Ended(c) \in [PoolCalls -> AwaitStates]
  BY EndedIs
<1> QED
  BY <1>1, <1>5, <1>6, WakeKeeps

LEMMA GiveBackKeeps ==
  ASSUME PoolInv, NEW c \in PoolCalls, GiveBack(c) PROVE PoolInv'
<1>1. /\ LineInv' /\ PermitsConserved' /\ NoIdlePermit'
      /\ IsFiniteSet(Holders') /\ IsFiniteSet(Woken')
      /\ await' \in [PoolCalls -> AwaitStates] /\ line' \in Seq(PoolCalls)
      /\ permits' \in Nat /\ inflight' \in Nat /\ waiting' \in Nat
      /\ \A x \in PoolCalls :
           await'[x] # Ended(c)[x] => Ended(c)[x] = "permit" /\ await'[x] = "woken"
  <2>1. Len(line) \in Nat /\ Len(line) >= Len(line)
    BY Sizes
  <2> QED
    BY <2>1, LeaveKeeps DEF GiveBack
<1>2. WorkInv' /\ Queued' = Queued /\ UNCHANGED executor
  BY <1>1, EndedIs, WorkStays DEF PoolInv, GiveBack
<1>3. PoolType' /\ AccountInv'
  BY <1>1, <1>2, QueueStays DEF GiveBack, PoolInv, PoolType, AccountInv
<1> QED
  BY <1>1, <1>2, <1>3 DEF PoolInv

LEMMA ReturnKeeps ==
  ASSUME PoolInv, NEW c \in PoolCalls, Return(c) PROVE PoolInv'
<1>1. /\ LineInv' /\ PermitsConserved' /\ NoIdlePermit'
      /\ IsFiniteSet(Holders') /\ IsFiniteSet(Woken')
      /\ await' \in [PoolCalls -> AwaitStates] /\ line' \in Seq(PoolCalls)
      /\ permits' \in Nat /\ inflight' \in Nat /\ waiting' \in Nat
      /\ \A x \in PoolCalls :
           await'[x] # Ended(c)[x] => Ended(c)[x] = "permit" /\ await'[x] = "woken"
  BY LeaveKeeps DEF Return, Release
<1>2. WorkInv' /\ Queued' = Queued /\ UNCHANGED executor
  BY <1>1, EndedIs, WorkStays DEF PoolInv, Return
<1>3. PoolType' /\ AccountInv'
  BY <1>1, <1>2, QueueStays DEF Return, PoolInv, PoolType, AccountInv
<1> QED
  BY <1>1, <1>2, <1>3 DEF PoolInv

LEMMA AdmitKeeps ==
  ASSUME PoolInv, NEW c \in PoolCalls, Admit(c) PROVE PoolInv'
<1>0. Len(line) \in Nat /\ Len(line) >= Len(line)
  BY Sizes
<1>1. CASE closed
  <2>1. /\ LineInv' /\ PermitsConserved' /\ NoIdlePermit'
        /\ IsFiniteSet(Holders') /\ IsFiniteSet(Woken')
        /\ await' \in [PoolCalls -> AwaitStates] /\ line' \in Seq(PoolCalls)
        /\ permits' \in Nat /\ inflight' \in Nat /\ waiting' \in Nat
        /\ \A x \in PoolCalls :
             await'[x] # Ended(c)[x] => Ended(c)[x] = "permit" /\ await'[x] = "woken"
    BY <1>0, <1>1, LeaveKeeps DEF Admit
  <2>2. WorkInv' /\ Queued' = Queued /\ UNCHANGED executor
    BY <1>1, <2>1, EndedIs, WorkStays DEF PoolInv, Admit, executor
  <2>3. PoolType' /\ AccountInv'
    BY <2>1, <2>2, QueueStays DEF Admit, PoolInv, PoolType, AccountInv
  <2> QED
    BY <2>1, <2>2, <2>3 DEF PoolInv
<1>2. CASE ~ closed
  <2> DEFINE callers == [await EXCEPT ![c] = "result"]
  <2>1. /\ await \in [PoolCalls -> AwaitStates] /\ await[c] = "woken"
    BY DEF PoolInv, PoolType, Admit
  <2>2. /\ callers \in [PoolCalls -> AwaitStates] /\ callers[c] = "result"
        /\ \A x \in PoolCalls : x # c => callers[x] = await[x]
    BY <2>1 DEF AwaitStates
  <2>3. /\ WakeUp(Len(line), callers, line, permits) /\ waiting' = waiting - 1
        /\ inflight' = inflight + 1 /\ work' = Append(work, c) /\ UNCHANGED <<dead, busy,
                closed>>
    BY <1>2 DEF Admit
  <2> HIDE DEF callers
  <2>4. /\ HoldersOf(callers) = Holders \cup {c} /\ c \notin Holders
        /\ WokenOf(callers) = Woken \ {c} /\ c \in Woken
    BY <2>1, <2>2 DEF HoldersOf, WokenOf, Holders, Woken
  <2>5. /\ IsFiniteSet(HoldersOf(callers)) /\ Cardinality(HoldersOf(callers)) = Cardinality(Holders) + 1
        /\ IsFiniteSet(WokenOf(callers)) /\ Cardinality(WokenOf(callers)) = Cardinality(Woken) - 1
    BY <2>4, Sizes, FS_AddElement, FS_RemoveElement
  <2>6. /\ line \in Seq(PoolCalls) /\ Distinct(line)
        /\ \A i \in 1..Len(line) : callers[line[i]] = "permit"
    BY <2>1, <2>2, LineWaits
  <2>7. /\ permits \in Nat /\ permits + Cardinality(Holders) + Cardinality(Woken) = MaxPending
        /\ inflight = Cardinality(Holders) /\ waiting = Len(line) + Cardinality(Woken)
    BY DEF PoolInv, PoolType, AccountInv, PermitsConserved
  <2>8. /\ permits + Cardinality(HoldersOf(callers)) + Cardinality(WokenOf(callers)) = MaxPending
        /\ inflight' = Cardinality(HoldersOf(callers))
        /\ waiting' = Len(line) + Cardinality(WokenOf(callers))
    <3>1. Cardinality(Woken) \in Nat /\ Cardinality(Holders) \in Nat
      BY Sizes
    <3>2. permits + (Cardinality(Holders) + 1) + (Cardinality(Woken) - 1) = MaxPending
      BY <2>7, <3>1
    <3>3. waiting' = Len(line) + (Cardinality(Woken) - 1)
      BY <1>0, <2>3, <2>7, <3>1
    <3> QED
      BY <2>3, <2>5, <2>7, <3>2, <3>3
  <2>9. /\ LineInv' /\ PermitsConserved' /\ NoIdlePermit'
        /\ IsFiniteSet(Holders') /\ IsFiniteSet(Woken')
        /\ await' \in [PoolCalls -> AwaitStates] /\ line' \in Seq(PoolCalls)
        /\ permits' \in Nat /\ inflight' \in Nat /\ waiting' \in Nat
        /\ \A x \in PoolCalls :
             await'[x] # callers[x] => callers[x] = "permit" /\ await'[x] = "woken"
    BY <1>0, <2>2, <2>3, <2>5, <2>6, <2>7, <2>8, WakeKeeps
  <2>10. /\ await'[c] = "result"
         /\ \A x \in PoolCalls \ {c} :
              /\ await[x] \in {"result", "ended"} => await'[x] = await[x]
              /\ await'[x] = "result" => await[x] = "result"
    BY <2>2, <2>9
  <2>11. /\ WorkInv' /\ work' \in Seq(PoolCalls) /\ Len(work') = Len(work) + 1
         /\ Queued' = Queued \cup {c} /\ c \notin Queued
    BY <2>1, <2>3, <2>10, WorkGrows DEF PoolInv
  <2>12. IsFiniteSet(Queued') /\ Cardinality(Queued') = Cardinality(Queued) + 1
    BY <2>11, Sizes, FS_AddElement
  <2>13. PoolType'
    BY <2>3, <2>9, <2>11 DEF PoolInv, PoolType
  <2>14. AccountInv'
    BY <2>3, <2>9, <2>11, <2>12, Sizes DEF PoolInv, AccountInv
  <2> QED
    BY <2>9, <2>11, <2>13, <2>14 DEF PoolInv
<1> QED
  BY <1>1, <1>2

LEMMA AbandonCallKeeps ==
  ASSUME PoolInv, NEW c \in PoolCalls, AbandonCall(c) PROVE PoolInv'
<1>1. /\ LineInv' /\ PermitsConserved' /\ NoIdlePermit'
      /\ IsFiniteSet(Holders') /\ IsFiniteSet(Woken')
      /\ await' \in [PoolCalls -> AwaitStates] /\ line' \in Seq(PoolCalls)
      /\ permits' \in Nat /\ inflight' \in Nat /\ waiting' \in Nat
      /\ \A x \in PoolCalls :
           await'[x] # Ended(c)[x] => Ended(c)[x] = "permit" /\ await'[x] = "woken"
  BY LeaveKeeps DEF AbandonCall, Release
<1>2. /\ await[c] = "result" /\ await'[c] = "ended" /\ work' = work /\ busy' = busy
      /\ \A x \in PoolCalls : x # c => /\ await[x] \in {"result",
                                                        "ended"} => await'[x] = await[x]
                                       /\ await'[x] = "result" => await[x] = "result"
  BY <1>1, EndedIs DEF AbandonCall
<1>3. c \notin dead
  BY <1>2 DEF PoolInv, WorkInv
<1>4. CASE c \in busy
  <2>1. dead' = dead
    <3>1. ~ \E i \in DOMAIN work : work[i] = c
      <4>1. c \notin Queued
        BY <1>4 DEF Queued
      <4> QED
        BY <1>3, <4>1 DEF PoolInv, WorkInv, PoolType
    <3> QED
      BY <3>1 DEF AbandonCall
  <2>2. Queued' = Queued
    BY <1>2, <1>4 DEF Queued
  <2>3. WorkInv'
    BY <1>2, <1>4, <2>1, <2>2 DEF PoolInv, WorkInv, Distinct, PoolType
  <2>4. UNCHANGED executor
    BY <1>2, <2>1 DEF executor
  <2>5. PoolType' /\ AccountInv'
    BY <1>1, <2>2, <2>3, <2>4, QueueStays DEF AbandonCall, PoolInv, PoolType, AccountInv
  <2> QED
    BY <1>1, <2>3, <2>5 DEF PoolInv
<1>5. CASE c \notin busy
  <2>1. c \in Queued
    BY <1>2, <1>5 DEF Queued
  <2>2. dead' = dead \cup {c}
    <3>1. \E i \in DOMAIN work : work[i] = c
      BY <2>1 DEF PoolInv, WorkInv, PoolType
    <3> QED
      BY <3>1 DEF AbandonCall
  <2>3. Queued' = Queued \ {c}
    BY <1>2, <1>5 DEF Queued
  <2>4. WorkInv'
    <3>1. Queued' \cup dead' = Queued \cup dead
      BY <2>1, <2>2, <2>3
    <3>2. \A x \in dead' : await'[x] = "ended" /\ x \notin busy'
      BY <1>2, <1>5, <2>2 DEF PoolInv, WorkInv, PoolType
    <3>3. \A x \in busy' : await'[x] \in {"result", "ended"}
      BY <1>2, <1>5 DEF PoolInv, WorkInv, PoolType
    <3> QED
      BY <1>2, <3>1, <3>2, <3>3 DEF PoolInv, WorkInv, Distinct
  <2>5. /\ IsFiniteSet(Queued') /\ Cardinality(Queued') = Cardinality(Queued) - 1
        /\ IsFiniteSet(dead') /\ Cardinality(dead') = Cardinality(dead) + 1
    BY <1>3, <2>1, <2>2, <2>3, Sizes, FS_AddElement, FS_RemoveElement
  <2>6. PoolType'
    BY <1>1, <1>2, <2>2 DEF AbandonCall, PoolInv, PoolType
  <2>7. AccountInv'
    BY <1>1, <1>2, <2>5, Sizes DEF PoolInv, AccountInv
  <2> QED
    BY <1>1, <2>4, <2>6, <2>7 DEF PoolInv
<1> QED
  BY <1>4, <1>5

-----------------------------------------------------------------------------
(* The steps of the executor.                                               *)

LEMMA StartKeeps ==
  ASSUME PoolInv, Start PROVE PoolInv'
<1> DEFINE h == Head(work)
<1>1. /\ work \in Seq(PoolCalls) /\ work # <<>> /\ Distinct(work)
      /\ \A x \in Queued \cup dead : \E i \in 1..Len(work) : work[i] = x
      /\ \A i \in 1..Len(work) : work[i] \in Queued \cup dead
  BY DEF PoolInv, PoolType, WorkInv, Start
<1>2. /\ h = work[1] /\ 1 \in 1..Len(work) /\ h \in PoolCalls /\ Len(work) \in Nat
      /\ work' \in Seq(PoolCalls) /\ Len(work') = Len(work) - 1
      /\ \A i \in 1..Len(work') : work'[i] = work[i + 1] /\ i + 1 \in 1..Len(work)
  BY <1>1 DEF Start
<1> HIDE DEF h
<1>3. Distinct(work')
  BY <1>1, <1>2 DEF Distinct
<1>4. \A i \in 1..Len(work') : work'[i] # h /\ work'[i] \in Queued \cup dead
  BY <1>1, <1>2 DEF Distinct
<1>5. \A x \in (Queued \cup dead) \ {h} : \E i \in 1..Len(work') : work'[i] = x
  <2> TAKE x \in (Queued \cup dead) \ {h}
  <2>1. PICK i \in 1..Len(work) : work[i] = x
    BY <1>1
  <2>2. i # 1
    BY <1>2, <2>1
  <2>3. i - 1 \in 1..Len(work') /\ work'[i - 1] = work[i]
    BY <1>2, <2>1, <2>2
  <2> QED
    BY <2>1, <2>3
<1>6. UNCHANGED <<await, line, permits, inflight, waiting, closed>>
  BY DEF Start, counters
<1>7. /\ LineInv' /\ Holders' = Holders /\ Woken' = Woken
  BY <1>6 DEF PoolInv, LineInv, Distinct, Holders, Woken
<1>8. /\ IsFiniteSet(Holders') /\ IsFiniteSet(Woken') /\ PermitsConserved' /\ NoIdlePermit'
  BY <1>6, <1>7, AccountStays
<1>9. CASE h \in dead
  <2>1. dead' = dead \ {h} /\ busy' = busy /\ Queued' = Queued /\ h \notin Queued
    BY <1>6, <1>9 DEF Start, Queued, h, PoolInv, WorkInv
  <2>2. WorkInv'
    <3>1. /\ Distinct(work)' /\ \A x \in dead' : await'[x] = "ended" /\ x \notin busy'
          /\ \A x \in busy' : await'[x] \in {"result", "ended"}
      BY <1>3, <1>6, <2>1 DEF PoolInv, WorkInv, Distinct
    <3>2. /\ \A i \in 1..Len(work') : work'[i] \in Queued' \cup dead'
          /\ \A x \in Queued' \cup dead' : \E i \in 1..Len(work') : work'[i] = x
      BY <1>4, <1>5, <2>1
    <3> QED
      BY <3>1, <3>2 DEF WorkInv
  <2>3. IsFiniteSet(dead') /\ Cardinality(dead') = Cardinality(dead) - 1
    BY <1>9, <2>1, Sizes, FS_RemoveElement
  <2>4. PoolType'
    BY <1>2, <1>6, <2>1 DEF PoolInv, PoolType
  <2>5. Len(work) = Cardinality(Queued) + Cardinality(dead)
    BY DEF PoolInv, AccountInv
  <2>6. AccountInv'
    BY <1>2, <1>8, <2>1, <2>3, <2>5, Sizes DEF AccountInv
  <2> QED
    BY <1>7, <2>2, <2>4, <2>6 DEF PoolInv
<1>10. CASE h \notin dead
  <2>1. h \in Queued
    BY <1>1, <1>2, <1>10
  <2>2. dead' = dead /\ busy' = busy \cup {h} /\ Queued' = Queued \ {h} /\ await[h] = "result"
    BY <1>6, <1>10, <2>1 DEF Start, Queued, h
  <2>3. WorkInv'
    <3>1. /\ Distinct(work)' /\ \A x \in dead' : await'[x] = "ended" /\ x \notin busy'
          /\ \A x \in busy' : await'[x] \in {"result", "ended"}
      BY <1>3, <1>6, <1>10, <2>2 DEF PoolInv, WorkInv, Distinct
    <3>2. /\ \A i \in 1..Len(work') : work'[i] \in Queued' \cup dead'
          /\ \A x \in Queued' \cup dead' : \E i \in 1..Len(work') : work'[i] = x
      BY <1>4, <1>5, <1>10, <2>2
    <3> QED
      BY <3>1, <3>2 DEF WorkInv
  <2>4. /\ IsFiniteSet(Queued') /\ Cardinality(Queued') = Cardinality(Queued) - 1
        /\ IsFiniteSet(busy')
    BY <2>1, <2>2, Sizes, FS_RemoveElement, FS_AddElement
  <2>5. PoolType'
    BY <1>2, <1>6, <2>2 DEF PoolInv, PoolType
  <2>6. Len(work) = Cardinality(Queued) + Cardinality(dead)
    BY DEF PoolInv, AccountInv
  <2>7. AccountInv'
    BY <1>2, <1>8, <2>2, <2>4, <2>6, Sizes DEF AccountInv
  <2> QED
    BY <1>7, <2>3, <2>5, <2>7 DEF PoolInv
<1> QED
  BY <1>9, <1>10

LEMMA FinishKeeps ==
  ASSUME PoolInv, NEW c \in PoolCalls, Finish(c) PROVE PoolInv'
<1>1. /\ c \in busy /\ busy' = busy \ {c} /\ UNCHANGED <<line, permits, inflight, waiting, work,
                                                         dead, closed>>
      /\ await' = [await EXCEPT ![c] = IF @ = "result" THEN "posted" ELSE @]
  BY DEF Finish, counters
<1>2. await \in [PoolCalls -> AwaitStates] /\ await[c] \in {"result", "ended"}
  BY <1>1 DEF PoolInv, PoolType, WorkInv
<1>3. /\ await' \in [PoolCalls -> AwaitStates]
      /\ await'[c] = IF await[c] = "result" THEN "posted" ELSE "ended"
      /\ \A x \in PoolCalls : x # c => await'[x] = await[x]
  BY <1>1, <1>2 DEF AwaitStates
<1>4. Holders' = Holders /\ Woken' = Woken
  BY <1>2, <1>3 DEF Holders, Woken
<1>5. Queued' = Queued
  BY <1>1, <1>2, <1>3 DEF Queued
<1>6. LineInv'
  BY <1>1, <1>2, <1>3 DEF PoolInv, PoolType, LineInv, Distinct
<1>7. WorkInv'
  BY <1>1, <1>2, <1>3, <1>5 DEF PoolInv, PoolType, WorkInv, Distinct
<1>8. /\ IsFiniteSet(Holders') /\ IsFiniteSet(Woken') /\ PermitsConserved' /\ NoIdlePermit'
  BY <1>1, <1>4, <1>6, AccountStays
<1>9. IsFiniteSet(busy')
  BY <1>1, Sizes, FS_RemoveElement
<1>10. PoolType'
  BY <1>1, <1>3 DEF PoolInv, PoolType
<1>11. AccountInv'
  BY <1>1, <1>5, <1>8, <1>9 DEF PoolInv, AccountInv
<1> QED
  BY <1>6, <1>7, <1>10, <1>11 DEF PoolInv

LEMMA ShutdownKeeps ==
  ASSUME PoolInv, Shutdown PROVE PoolInv'
<1>1. /\ work' = <<>> /\ dead' = {} /\ UNCHANGED <<line, permits, inflight, waiting,
                                                   busy>> /\ closed' = TRUE
      /\ await' = [c \in PoolCalls |->
                     IF \E i \in DOMAIN work : work[i] = c /\ c \notin dead
                     THEN "posted" ELSE await[c]]
  BY DEF Shutdown, counters
<1>2. \A c \in PoolCalls : (\E i \in DOMAIN work : work[i] = c /\ c \notin dead) <=> c \in Queued
  BY DEF PoolInv, PoolType, WorkInv, Queued
<1>3. \A c \in PoolCalls : await'[c] = IF c \in Queued THEN "posted" ELSE await[c]
  BY <1>1, <1>2
<1>4. await' \in [PoolCalls -> AwaitStates]
  BY <1>1 DEF PoolInv, PoolType, AwaitStates
<1>5. Holders' = Holders /\ Woken' = Woken
  BY <1>3 DEF Holders, Woken, Queued
<1>6. Queued' = {}
  BY <1>1, <1>3 DEF Queued
<1>7. LineInv'
  BY <1>1, <1>3 DEF PoolInv, PoolType, LineInv, Distinct, Queued
<1>8. WorkInv'
  <2>1. \A x \in busy' : await'[x] \in {"result", "ended"}
    BY <1>1, <1>3 DEF PoolInv, PoolType, WorkInv, Queued
  <2>2. Distinct(work)' /\ \A i \in 1..Len(work') : work'[i] \in Queued' \cup dead'
    BY <1>1 DEF Distinct
  <2> QED
    BY <1>1, <1>6, <2>1, <2>2 DEF WorkInv
<1>9. /\ IsFiniteSet(Holders') /\ IsFiniteSet(Woken') /\ PermitsConserved' /\ NoIdlePermit'
  BY <1>1, <1>5, <1>7, AccountStays
<1>10. PoolType'
  BY <1>1, <1>4 DEF PoolInv, PoolType
<1>11. Len(work') = 0
  BY <1>1
<1>12. AccountInv'
  BY <1>1, <1>6, <1>9, <1>11, FS_EmptySet DEF PoolInv, AccountInv
<1> QED
  BY <1>7, <1>8, <1>10, <1>12 DEF PoolInv

-----------------------------------------------------------------------------
(* The invariant and what it says.                                          *)

LEMMA PoolStep ==
  ASSUME PoolInv, [PoolNext]_pool PROVE PoolInv'
<1>1. ASSUME NEW c \in PoolCalls, PoolRequest(c) PROVE PoolInv'
  BY <1>1, AdmitAtOnceKeeps, StandInLineKeeps DEF PoolRequest
<1>2. ASSUME NEW c \in PoolCalls, PoolCancel(c) PROVE PoolInv'
  BY <1>2, GiveUpKeeps, GiveBackKeeps, AbandonCallKeeps DEF PoolCancel
<1>3. ASSUME NEW c \in PoolCalls, PoolLoop(c) PROVE PoolInv'
  BY <1>3, AdmitKeeps, ReturnKeeps DEF PoolLoop
<1>4. CASE UNCHANGED pool
  <2>1. UNCHANGED <<await, line, permits, inflight, waiting, work, dead, busy, closed>>
    BY <1>4 DEF pool, counters, executor
  <2>2. Holders' = Holders /\ Woken' = Woken /\ Queued' = Queued
    BY <2>1 DEF Holders, Woken, Queued
  <2>3. PoolType' /\ LineInv'
    BY <2>1 DEF PoolInv, PoolType, LineInv, Distinct
  <2>4. WorkInv'
    BY <2>1, <2>2 DEF PoolInv, WorkInv, Distinct
  <2>5. PermitsConserved' /\ NoIdlePermit'
    BY <2>1, <2>2 DEF PoolInv, AccountInv, PermitsConserved, NoIdlePermit
  <2>6. AccountInv'
    BY <2>1, <2>2, <2>5 DEF PoolInv, AccountInv
  <2> QED
    BY <2>3, <2>4, <2>6 DEF PoolInv
<1> QED
  BY <1>1, <1>2, <1>3, <1>4, FinishKeeps, StartKeeps, ShutdownKeeps DEF PoolNext

LEMMA BoundFollows ==
  ASSUME PoolInv PROVE WorkBounded
<1> DEFINE alive == {c \in busy : await[c] = "result"}
           gone == {c \in busy : await[c] = "ended"}
<1>1. busy = alive \cup gone /\ alive \cap gone = {} /\ alive \in SUBSET busy /\ gone \in SUBSET busy
  BY DEF PoolInv, WorkInv
<1>2. /\ IsFiniteSet(alive) /\ IsFiniteSet(gone)
      /\ Cardinality(alive) \in Nat /\ Cardinality(gone) \in Nat
  BY <1>1, Sizes, FS_Subset, FS_CardinalityType
<1> HIDE DEF alive, gone
<1>3. Cardinality(busy) = Cardinality(alive) + Cardinality(gone)
  <2>1. Cardinality(alive \cup gone) = Cardinality(alive) + Cardinality(gone) - Cardinality(alive \cap gone)
    BY <1>2, FS_Union
  <2>2. Cardinality(alive \cap gone) = 0
    BY <1>1, FS_EmptySet
  <2> QED
    BY <1>1, <1>2, <2>1, <2>2
<1>4. Queued \cap alive = {} /\ (Queued \cup alive) \in SUBSET Holders
  BY DEF Queued, alive, Holders, PoolInv, PoolType
<1>5. Cardinality(Queued \cup alive) = Cardinality(Queued) + Cardinality(alive)
  <2>1. Cardinality(Queued \cup alive) = Cardinality(Queued) + Cardinality(alive) - Cardinality(Queued \cap alive)
    BY <1>2, Sizes, FS_Union
  <2>2. Cardinality(Queued \cap alive) = 0
    BY <1>4, FS_EmptySet
  <2> QED
    BY <1>2, <2>1, <2>2, Sizes
<1>6. Cardinality(Queued \cup alive) <= Cardinality(Holders)
  BY <1>4, Sizes, FS_Subset
<1>7. Cardinality(Holders) <= MaxPending
  <2>1. Cardinality(Holders) \in Nat /\ Cardinality(Woken) \in Nat
    BY Sizes
  <2> QED
    BY <2>1, Account
<1>8. Len(work) = Cardinality(Queued) + Cardinality(dead)
  BY DEF PoolInv, AccountInv
<1>9. /\ Cardinality(Queued) \in Nat /\ Cardinality(dead) \in Nat /\ Cardinality(Holders) \in Nat
      /\ MaxPending \in Nat
  BY Sizes, PoolAssumption
<1>10. Cardinality(busy) + Len(work) - Cardinality(dead) <= MaxPending + Cardinality(gone)
  BY <1>2, <1>3, <1>5, <1>6, <1>7, <1>8, <1>9
<1> QED
  BY <1>10 DEF WorkBounded, gone

\* Every permit of a pool is free or held by exactly one call, the counters
\* that describe() reports are exact, nobody waits in line beside a free
\* permit, and the work accepted exceeds max_pending by no more than the calls
\* that run without anybody waiting: for any number of calls, threads and permits,
\* and through every cancellation and the shutdown (AdmissionExact).
THEOREM AdmissionStaysExact == PoolSpec => []AdmissionExact
<1>1. PoolInv => AdmissionExact
  BY BoundFollows DEF PoolInv, AccountInv, AdmissionExact
<1>2. PoolInv /\ [PoolNext]_pool => PoolInv'
  BY PoolStep
<1> QED
  BY <1>1, <1>2, PoolInitInv, PTL DEF PoolSpec

-----------------------------------------------------------------------------
(****************************************************************************)
(* JobEvents: what a stream has been told of its job.                       *)
(****************************************************************************)

Connections == {"new", "opened", "waiting", "awake", "fetched", "closed", "gone"}
Attached == {"waiting", "awake", "fetched"}

EventsType ==
  /\ version \in Nat /\ unsent \in Nat
  /\ conn \in [Streams -> Connections]
  /\ row \in [Streams -> Nat] /\ sent \in [Streams -> Nat]
  /\ queue \in [Streams -> Nat] /\ subscribed \subseteq Streams
  /\ woken \in [Streams -> SUBSET {"nudge", "resync", "heartbeat"}]

\* What a stream read or sent had been committed; it sends a terminal row and
\* closes in one step; and it subscribes between its first frame and its end.
StreamInv ==
  \A s \in Streams :
    /\ row[s] <= version /\ sent[s] <= version
    /\ s \in subscribed => conn[s] \in Attached
    /\ conn[s] = "closed" => sent[s] = LastVersion
    /\ sent[s] = LastVersion => conn[s] \in {"closed", "gone"}

EventsInv == EventsType /\ StreamInv

LEMMA EventsInitInv == EventsInit => EventsInv
BY EventsAssumption
DEF EventsInit, EventsInv, EventsType, StreamInv, Connections, Attached

LEMMA EventsStep ==
  ASSUME EventsInv, [EventsNext]_events
  PROVE  EventsInv'
<1> USE EventsAssumption
    DEF EventsInv, EventsType, StreamInv, Connections, Attached, Moves, TerminalRow,
        SendFrame, ClientLeaves
<1>1. CASE CommitRow
  BY <1>1 DEF CommitRow
<1>2. CASE Publish
  <2>1. queue' \in [Streams -> Nat]
    BY <1>2 DEF Publish
  <2> QED
    BY <1>2, <2>1 DEF Publish
<1>3. ASSUME NEW s \in Streams, OpenStream(s) PROVE EventsInv'
  BY <1>3 DEF OpenStream
<1>4. ASSUME NEW s \in Streams, FirstFrame(s) PROVE EventsInv'
  BY <1>4 DEF FirstFrame
<1>5. ASSUME NEW s \in Streams, Wake(s) PROVE EventsInv'
  <2>1. woken' \in [Streams -> SUBSET {"nudge", "resync", "heartbeat"}]
    <3>1. Nudges(s) \subseteq {"nudge"}
      BY DEF Nudges
    <3>2. \A t \in Timers : t \subseteq {"resync", "heartbeat"}
      BY DEF Timers
    <3> QED
      BY <1>5, <3>1, <3>2 DEF Wake
  <2> QED
    BY <1>5, <2>1 DEF Wake
<1>6. ASSUME NEW s \in Streams, Fetch(s) PROVE EventsInv'
  BY <1>6 DEF Fetch
<1>7. ASSUME NEW s \in Streams, Frame(s) PROVE EventsInv'
  BY <1>7 DEF Frame
<1>8. ASSUME NEW s \in Streams, Disconnect(s) PROVE EventsInv'
  BY <1>8 DEF Disconnect
<1>9. CASE UNCHANGED events
  BY <1>9 DEF events
<1> QED
  BY <1>1, <1>2, <1>3, <1>4, <1>5, <1>6, <1>7, <1>8, <1>9 DEF EventsNext, StreamStep

\* For any number of connections, versions and lengths of the timers and queues:
\* a generator sends what was committed, closes with the terminal row and not
\* before, and leaves the bus when it ends, also when it is cancelled.
THEOREM StreamsStayFaithful == EventsSpec => []StreamsFaithful
<1>1. EventsInv /\ [EventsNext]_events => EventsInv'
  BY EventsStep
<1>2. EventsInv => StreamsFaithful
  BY DEF EventsInv, EventsType, StreamInv, Attached, StreamsFaithful, NoLeakedSubscription,
         ClosesOnTerminal, TerminalRow
<1> QED
  BY <1>1, <1>2, EventsInitInv, PTL DEF EventsSpec

-----------------------------------------------------------------------------
(****************************************************************************)
(* Lifespan: one process works on the corpus, however many are started and  *)
(* however they end.                                                        *)
(****************************************************************************)

Phases == {"off", "acquire", "initialize", "load", "recover", "serve",
           "stop_maintenance", "stop_worker", "unload", "close_store",
           "shutdown_pools", "release_lock"}

Idle == {"off", "acquire"}

LifeType ==
  /\ phase \in [Procs -> Phases]
  /\ loaded \in [Procs -> SUBSET Families]
  /\ threads \in [Procs -> Nat]

\* The lock is held from its acquisition to its release, and by nobody else; a
\* process that has not acquired it has no thread and no model, and one that is
\* about to release it has joined its threads.
HolderInv ==
  \A p \in Procs :
    /\ holder = p <=> phase[p] \notin Idle
    /\ phase[p] \in Idle => threads[p] = 0 /\ loaded[p] = {}
    /\ InPhase(p, "release_lock") => threads[p] = 0

LifeInv == LifeType /\ HolderInv

LEMMA LifeInitInv == LifeInit => LifeInv
BY LifespanAssumption
DEF LifeInit, LifeInv, LifeType, HolderInv, Phases, Idle, InPhase

LEMMA LifeStepInv ==
  ASSUME LifeInv, [LifeNext]_life_vars
  PROVE  LifeInv'
<1> USE LifespanAssumption
    DEF LifeInv, LifeType, HolderInv, Phases, Idle, InPhase, PhaseGoes
<1>1. ASSUME NEW p \in Procs, StartProcess(p) PROVE LifeInv'
  BY <1>1 DEF StartProcess
<1>2. ASSUME NEW p \in Procs, StartupStep(p) PROVE LifeInv'
  <2>1. CASE Acquire(p)
    BY <2>1 DEF Acquire, LockFree
  <2>2. CASE InitializeCorpus(p)
    BY <2>2 DEF InitializeCorpus
  <2>3. CASE EagerLoadsDone(p)
    BY <2>3 DEF EagerLoadsDone
  <2>4. ASSUME NEW f \in Families, NEW ok \in BOOLEAN, EagerLoad(p, f, ok)
        PROVE  LifeInv'
    BY <2>4 DEF EagerLoad
  <2>5. ASSUME NEW ok \in BOOLEAN, RecoverAndServe(p, ok) PROVE LifeInv'
    BY <2>5 DEF RecoverAndServe
  <2> QED
    BY <1>2, <2>1, <2>2, <2>3, <2>4, <2>5 DEF StartupStep
<1>3. ASSUME NEW p \in Procs, CallThread(p) PROVE LifeInv'
  BY <1>3 DEF CallThread
<1>4. ASSUME NEW p \in Procs, ThreadReturns(p) PROVE LifeInv'
  BY <1>4 DEF ThreadReturns
<1>5. ASSUME NEW p \in Procs, NEW f \in Families, HotSwap(p, f) PROVE LifeInv'
  BY <1>5 DEF HotSwap, NextPhase
<1>6. ASSUME NEW p \in Procs, StopServing(p) PROVE LifeInv'
  BY <1>6 DEF StopServing
<1>7. ASSUME NEW p \in Procs, ShutdownStep(p) PROVE LifeInv'
  <2>1. PICK kept \in SUBSET loaded[p] : loaded' = [loaded EXCEPT ![p] = kept]
    BY <1>7 DEF ShutdownStep
  <2>2. /\ phase[p] \notin Idle
        /\ phase' = [phase EXCEPT ![p] = NextPhase[phase[p]]]
        /\ NextPhase[phase[p]] \in Phases \ Idle
        /\ holder' = holder /\ threads' = threads
    BY <1>7 DEF ShutdownStep, NextPhase
  <2>3. NextPhase[phase[p]] = "release_lock" => threads[p] = 0
    BY <1>7 DEF ShutdownStep, NextPhase, PoolsQuiet
  <2>4. LifeType'
    BY <2>1, <2>2
  <2>5. HolderInv'
    BY <2>1, <2>2, <2>3
  <2> QED
    BY <2>4, <2>5
<1>8. ASSUME NEW p \in Procs, ReleaseLock(p) PROVE LifeInv'
  BY <1>8 DEF ReleaseLock
<1>9. ASSUME NEW p \in Procs, CrashProcess(p) PROVE LifeInv'
  BY <1>9 DEF CrashProcess, Alive
<1>10. CASE UNCHANGED life_vars
  BY <1>10 DEF life_vars
<1> QED
  BY <1>1, <1>2, <1>3, <1>4, <1>5, <1>6, <1>7, <1>8, <1>9, <1>10 DEF LifeNext

\* For any number of processes, threads and crashes: threads that outlive the
\* shutdown of their tasks are joined before InstanceLock.release, so none of
\* them ever works beside the next process.
THEOREM OneWorksOnCorpus == LifeSpec => []OneProcessWorks
<1>1. LifeInv => OneProcessWorks
  <2> SUFFICES ASSUME LifeInv, NEW p \in Procs,
                      threads[p] > 0 \/ loaded[p] # {} \/ phase[p] \in {"recover", "serve"}
               PROVE  holder = p
    BY DEF OneProcessWorks
  <2>1. phase[p] \notin Idle
    BY DEF LifeInv, HolderInv, Idle
  <2> QED
    BY <2>1 DEF LifeInv, HolderInv
<1> QED
  BY <1>1, LifeInitInv, LifeStepInv, PTL DEF LifeSpec

-----------------------------------------------------------------------------
(****************************************************************************)
(* Parsing: the converters that parse calls share, and what the clients of  *)
(* their streams read, for any number of calls, profiles, pages and         *)
(* evictions.                                                               *)
(****************************************************************************)

ParseSteps == {"new", "ensure", "locking", "building", "convert", "warmed",
               "failing", "refused", "draining", "ended"}
CallStates == [step : ParseSteps, profile : Profiles \cup {"none"}, pages : Nat]
ParseEvents == [type : {"progress", "result", "error", "sentinel"}, page : Nat]
EventSeqs == Seq(ParseEvents)
StreamStates == [due : EventSeqs, scheduled : Nat, queue : EventSeqs, read : EventSeqs]

ParseType ==
  /\ converters \in [Profiles -> BOOLEAN]
  /\ builder \in AllCalls \cup {NoCall}
  /\ built \in [Profiles -> Nat] /\ evicted \in [Profiles -> Nat]
  /\ calls \in [AllCalls -> CallStates]
  /\ streams \in [ParseCalls -> StreamStates]
  /\ \A c \in AllCalls : CallAt(c, "new") \/ ProfileOf(c) \in Profiles

\* The call that builds holds the lock, and builds what is missing.
BuildInv ==
  /\ \A c \in AllCalls :
       CallAt(c, "building") => builder = c /\ ~ converters[ProfileOf(c)]
  /\ BuiltOnce

\* The events of a stream in the order in which a reader gets them: those it has
\* read, those in its queue, and the ticks the loop has still to put there.
Arrived(s) == s.read \o s.queue
Delivery(s) == Arrived(s) \o s.due

IsTick(e) == e = Tick(e.page)

\* Ticks only, in order, and the last one is of the last page scheduled.
OpenPages(w, n) ==
  /\ \A i \in 1..Len(w) : IsTick(w[i]) /\ w[i].page <= n
  /\ \A i \in 1..Len(w) : \A j \in 1..Len(w) : i < j => w[i].page < w[j].page
  /\ n > 0 => Len(w) > 0 /\ w[Len(w)].page = n

\* The terminal event at m, its sentinel behind it, ticks elsewhere; the ticks of a
\* result all precede it.
ClosedStream(w, n, m) ==
  /\ m + 1 <= Len(w)
  /\ w[m] \in {Closing("result"), Closing("error")} /\ w[m + 1] = Closing("sentinel")
  /\ \A i \in 1..Len(w) : i \notin {m, m + 1} => IsTick(w[i])
  /\ \A i \in 1..Len(w) : \A j \in 1..Len(w) : i < j /\ j < m => w[i].page < w[j].page
  /\ w[m] = Closing("result") /\ n > 0 => m > 1 /\ w[m - 1] = Tick(n)

PipeInv(c) ==
  /\ ~ CallAt(c, "ended") => OpenPages(Delivery(streams[c]), streams[c].scheduled)
  /\ CallAt(c, "ended") =>
       \E m \in Nat \ {0} :
         /\ ClosedStream(Delivery(streams[c]), calls[c].pages, m)
         /\ m + 1 <= Len(Arrived(streams[c])) /\ Len(streams[c].read) <= m + 1
  /\ CallAt(c, "draining") => streams[c].scheduled = calls[c].pages

ParseInv == ParseType /\ BuildInv /\ \A c \in ParseCalls : PipeInv(c)

-----------------------------------------------------------------------------
(* How a stream moves.                                                      *)

StreamIs(s, d, n, q, r) ==
  /\ s \in StreamStates
  /\ s.due = d /\ s.scheduled = n /\ s.queue = q /\ s.read = r

LEMMA StreamFields ==
  ASSUME NEW s \in StreamStates
  PROVE  /\ StreamIs(s, s.due, s.scheduled, s.queue, s.read)
         /\ s.due \in EventSeqs /\ s.scheduled \in Nat /\ s.queue \in EventSeqs
         /\ s.read \in EventSeqs
BY DEF StreamIs, StreamStates

LEMMA DueMoves ==
  ASSUME NEW s \in StreamStates, NEW d \in EventSeqs
  PROVE  StreamIs([s EXCEPT !.due = d], d, s.scheduled, s.queue, s.read)
BY DEF StreamStates, StreamIs

LEMMA ScheduleMoves ==
  ASSUME NEW s \in StreamStates, NEW n \in Nat
  PROVE  StreamIs([s EXCEPT !.scheduled = n], s.due, n, s.queue, s.read)
BY DEF StreamStates, StreamIs

LEMMA QueueMoves ==
  ASSUME NEW s \in StreamStates, NEW q \in EventSeqs
  PROVE  StreamIs([s EXCEPT !.queue = q], s.due, s.scheduled, q, s.read)
BY DEF StreamStates, StreamIs

LEMMA ReadMoves ==
  ASSUME NEW s \in StreamStates, NEW r \in EventSeqs
  PROVE  StreamIs([s EXCEPT !.read = r], s.due, s.scheduled, s.queue, r)
BY DEF StreamStates, StreamIs

LEMMA ScheduleTick ==
  ASSUME NEW s \in StreamStates, NEW n \in Nat, NEW d \in EventSeqs
  PROVE  StreamIs([s EXCEPT !.scheduled = n, !.due = d], d, n, s.queue, s.read)
<1> DEFINE t == [s EXCEPT !.scheduled = n]
<1>1. [s EXCEPT !.scheduled = n, !.due = d] = [t EXCEPT !.due = d]
  OBVIOUS
<1>2. StreamIs(t, s.due, n, s.queue, s.read)
  BY ScheduleMoves
<1> HIDE DEF t
<1>3. StreamIs([t EXCEPT !.due = d], d, t.scheduled, t.queue, t.read)
  BY <1>2, DueMoves DEF StreamIs
<1> QED
  BY <1>1, <1>2, <1>3 DEF StreamIs

LEMMA PutOne ==
  ASSUME NEW s \in StreamStates, NEW q \in EventSeqs, NEW d \in EventSeqs
  PROVE  StreamIs([s EXCEPT !.queue = q, !.due = d], d, s.scheduled, q, s.read)
<1> DEFINE t == [s EXCEPT !.queue = q]
<1>1. [s EXCEPT !.queue = q, !.due = d] = [t EXCEPT !.due = d]
  OBVIOUS
<1>2. StreamIs(t, s.due, s.scheduled, q, s.read)
  BY QueueMoves
<1> HIDE DEF t
<1>3. StreamIs([t EXCEPT !.due = d], d, t.scheduled, t.queue, t.read)
  BY <1>2, DueMoves DEF StreamIs
<1> QED
  BY <1>1, <1>2, <1>3 DEF StreamIs

LEMMA ReadOne ==
  ASSUME NEW s \in StreamStates, NEW r \in EventSeqs, NEW q \in EventSeqs
  PROVE  StreamIs([s EXCEPT !.read = r, !.queue = q], s.due, s.scheduled, q, r)
<1> DEFINE t == [s EXCEPT !.read = r]
<1>1. [s EXCEPT !.read = r, !.queue = q] = [t EXCEPT !.queue = q]
  OBVIOUS
<1>2. StreamIs(t, s.due, s.scheduled, s.queue, r)
  BY ReadMoves
<1> HIDE DEF t
<1>3. StreamIs([t EXCEPT !.queue = q], t.due, t.scheduled, q, t.read)
  BY <1>2, QueueMoves DEF StreamIs
<1> QED
  BY <1>1, <1>2, <1>3 DEF StreamIs

LEMMA EmptyEvents == <<>> \in EventSeqs
BY DEF EventSeqs

LEMMA Regrouped ==
  ASSUME NEW a \in EventSeqs, NEW b \in EventSeqs, NEW c \in EventSeqs
  PROVE  (a \o b) \o c = a \o (b \o c)
BY ConcatAssociative DEF EventSeqs

LEMMA Joined ==
  ASSUME NEW a \in EventSeqs, NEW b \in EventSeqs
  PROVE  /\ a \o b \in EventSeqs /\ Len(a) \in Nat /\ Len(b) \in Nat
         /\ Len(a \o b) = Len(a) + Len(b)
         /\ \A i \in 1..(Len(a) + Len(b)) :
              (a \o b)[i] = IF i <= Len(a) THEN a[i] ELSE b[i - Len(a)]
BY ConcatProperties DEF EventSeqs

LEMMA FirstThenRest ==
  ASSUME NEW q \in EventSeqs, q # <<>>
  PROVE  /\ Head(q) \in ParseEvents /\ Tail(q) \in EventSeqs /\ <<Head(q)>> \in EventSeqs
         /\ <<Head(q)>> \o Tail(q) = q /\ Len(q) \in Nat \ {0}
<1>1. Head(q) \in ParseEvents /\ Tail(q) \in EventSeqs /\ Len(Tail(q)) = Len(q) - 1
  BY HeadTailProperties DEF EventSeqs
<1>2. /\ <<Head(q)>> \in EventSeqs /\ Len(<<Head(q)>>) = 1 /\ <<Head(q)>>[1] = q[1]
      /\ Len(q) \in Nat \ {0}
  BY <1>1 DEF EventSeqs
<1> DEFINE h == <<Head(q)>>
           t == Tail(q)
<1>3. \A i \in 1..Len(t) : t[i] = q[i + 1]
  BY HeadTailProperties DEF EventSeqs
<1>4. h \in EventSeqs /\ Len(h) = 1 /\ h[1] = q[1] /\ t \in EventSeqs /\ Len(t) = Len(q) - 1
  BY <1>1, <1>2
<1> HIDE DEF h, t
<1>5. /\ h \o t \in Seq(ParseEvents) /\ Len(h \o t) = Len(h) + Len(t)
      /\ \A i \in 1..(Len(h) + Len(t)) : (h \o t)[i] = IF i <= Len(h) THEN h[i] ELSE t[i - Len(h)]
  <2>1. h \in EventSeqs /\ t \in EventSeqs
    BY <1>4
  <2> QED
    BY <2>1, Joined DEF EventSeqs
<1>6. ASSUME NEW i \in 1..Len(q) PROVE (h \o t)[i] = q[i]
  <2>1. CASE i = 1
    BY <1>2, <1>4, <1>5, <2>1
  <2>2. CASE i # 1
    <3>1. i \in 1..(Len(h) + Len(t)) /\ ~ (i <= Len(h)) /\ i - 1 \in 1..Len(t) /\ (i - 1) + 1 = i
      BY <1>2, <1>4, <2>2
    <3> QED
      BY <1>3, <1>4, <1>5, <3>1
  <2> QED
    BY <2>1, <2>2
<1>7. h \o t = q
  <2>1. Len(h \o t) = Len(q)
    BY <1>2, <1>4, <1>5
  <2> QED
    BY <1>5, <1>6, <2>1, SeqEqual DEF EventSeqs
<1> QED
  BY <1>1, <1>2, <1>7 DEF h, t

\* The first of the second sequence becomes the last of the first one.
LEMMA FirstMoves ==
  ASSUME NEW r \in EventSeqs, NEW q \in EventSeqs, q # <<>>
  PROVE  /\ Append(r, Head(q)) \in EventSeqs /\ Tail(q) \in EventSeqs
         /\ Len(Append(r, Head(q))) = Len(r) + 1
         /\ Append(r, Head(q)) \o Tail(q) = r \o q
<1>1. /\ Head(q) \in ParseEvents /\ Tail(q) \in EventSeqs /\ <<Head(q)>> \in EventSeqs
      /\ <<Head(q)>> \o Tail(q) = q
  BY FirstThenRest
<1>2. /\ Append(r, Head(q)) = r \o <<Head(q)>> /\ Append(r, Head(q)) \in EventSeqs
      /\ Len(Append(r, Head(q))) = Len(r) + 1
  BY <1>1, AppendIsConcat, AppendProperties DEF EventSeqs
<1>3. (r \o <<Head(q)>>) \o Tail(q) = r \o (<<Head(q)>> \o Tail(q))
  BY <1>1, Regrouped
<1> QED
  BY <1>1, <1>2, <1>3

LEMMA DeliveryType ==
  ASSUME NEW s \in StreamStates
  PROVE  /\ Arrived(s) \in EventSeqs /\ Delivery(s) \in EventSeqs
         /\ Len(s.read) \in Nat /\ Len(s.queue) \in Nat /\ Len(s.due) \in Nat
         /\ Len(Arrived(s)) \in Nat /\ Len(Delivery(s)) \in Nat
         /\ Len(Arrived(s)) = Len(s.read) + Len(s.queue)
         /\ Len(Delivery(s)) = Len(Arrived(s)) + Len(s.due)
         /\ \A i \in 1..Len(s.read) : Delivery(s)[i] = s.read[i] /\ i \in 1..Len(Delivery(s))
<1>1. s.due \in EventSeqs /\ s.queue \in EventSeqs /\ s.read \in EventSeqs
  BY StreamFields
<1>2. Len(s.read) \in Nat /\ Len(s.queue) \in Nat /\ Len(s.due) \in Nat
  BY <1>1 DEF EventSeqs
<1>3. /\ Arrived(s) \in EventSeqs /\ Len(Arrived(s)) = Len(s.read) + Len(s.queue)
      /\ \A i \in 1..(Len(s.read) + Len(s.queue)) :
           Arrived(s)[i] = IF i <= Len(s.read) THEN s.read[i] ELSE s.queue[i - Len(s.read)]
  BY <1>1, Joined DEF Arrived
<1>4. /\ Delivery(s) \in EventSeqs /\ Len(Delivery(s)) = Len(Arrived(s)) + Len(s.due)
      /\ \A i \in 1..(Len(Arrived(s)) + Len(s.due)) :
           Delivery(s)[i] = IF i <= Len(Arrived(s)) THEN Arrived(s)[i]
                            ELSE s.due[i - Len(Arrived(s))]
  BY <1>1, <1>3, Joined DEF Delivery
<1>5. ASSUME NEW i \in 1..Len(s.read)
      PROVE  Delivery(s)[i] = s.read[i] /\ i \in 1..Len(Delivery(s))
  <2>0. \A x, y, z \in Nat :
          i \in 1..x => i \in 1..(x + y) /\ i \in 1..((x + y) + z) /\ i <= x /\ i <= x + y
    OBVIOUS
  <2>1. /\ i \in 1..(Len(s.read) + Len(s.queue)) /\ i <= Len(s.read) /\ i <= Len(Arrived(s))
        /\ i \in 1..(Len(Arrived(s)) + Len(s.due))
    <3>1. /\ i \in 1..(Len(s.read) + Len(s.queue)) /\ i <= Len(s.read)
          /\ i <= Len(s.read) + Len(s.queue)
          /\ i \in 1..((Len(s.read) + Len(s.queue)) + Len(s.due))
      BY <1>2, <2>0
    <3>2. Len(Arrived(s)) = Len(s.read) + Len(s.queue)
      BY <1>3
    <3> QED
      BY <3>1, <3>2
  <2>2. Delivery(s)[i] = Arrived(s)[i] /\ Arrived(s)[i] = s.read[i]
    BY <1>3, <1>4, <2>1
  <2>3. Len(Delivery(s)) = Len(Arrived(s)) + Len(s.due)
    BY <1>4
  <2> QED
    BY <2>1, <2>2, <2>3
<1>6. Len(Arrived(s)) \in Nat /\ Len(Delivery(s)) \in Nat
  <2>1. Arrived(s) \in Seq(ParseEvents) /\ Delivery(s) \in Seq(ParseEvents)
    BY <1>3, <1>4 DEF EventSeqs
  <2> QED
    BY <2>1
<1> QED
  BY <1>2, <1>3, <1>4, <1>5, <1>6

\* An event moves from the queue to the reader.
LEMMA ReadKeepsOrder ==
  ASSUME NEW s \in StreamStates, NEW t \in StreamStates, s.queue # <<>>,
         StreamIs(t, s.due, s.scheduled, Tail(s.queue), Append(s.read, Head(s.queue)))
  PROVE  Arrived(t) = Arrived(s) /\ Delivery(t) = Delivery(s) /\ Len(t.read) = Len(s.read) + 1
BY StreamFields, FirstMoves DEF StreamIs, Arrived, Delivery

\* A tick moves from the loop to the queue.
LEMMA PutKeepsOrder ==
  ASSUME NEW s \in StreamStates, NEW t \in StreamStates, s.due # <<>>,
         StreamIs(t, Tail(s.due), s.scheduled, Append(s.queue, Head(s.due)), s.read)
  PROVE  Delivery(t) = Delivery(s) /\ Len(Arrived(t)) = Len(Arrived(s)) + 1
<1>1. s.due \in EventSeqs /\ s.queue \in EventSeqs /\ s.read \in EventSeqs
  BY StreamFields
<1> DEFINE h == Head(s.due)
<1>2. h \in ParseEvents /\ Append(s.queue, h) \in EventSeqs /\ Tail(s.due) \in EventSeqs
  BY <1>1, FirstThenRest, FirstMoves
<1>3. t.queue = Append(s.queue, h) /\ t.due = Tail(s.due) /\ t.read = s.read
  BY DEF StreamIs
<1>4. Arrived(t) = Append(Arrived(s), h)
  <2>1. Append(s.queue, h) = s.queue \o <<h>> /\ <<h>> \in EventSeqs
    BY <1>1, <1>2, AppendIsConcat DEF EventSeqs
  <2>2. s.read \o (s.queue \o <<h>>) = (s.read \o s.queue) \o <<h>>
    BY <1>1, <2>1, Regrouped
  <2>3. Arrived(s) \in EventSeqs
    BY DeliveryType
  <2>4. Append(Arrived(s), h) = Arrived(s) \o <<h>>
    BY <1>2, <2>3, AppendIsConcat DEF EventSeqs
  <2> QED
    BY <1>3, <2>1, <2>2, <2>4 DEF Arrived
<1>5. Arrived(s) \in EventSeqs
  BY DeliveryType
<1> QED
  BY <1>1, <1>3, <1>4, <1>5, FirstMoves DEF Delivery

\* A tick is scheduled.
LEMMA ScheduleAddsLast ==
  ASSUME NEW s \in StreamStates, NEW t \in StreamStates, NEW n \in Nat,
         StreamIs(t, Append(s.due, Tick(n)), n, s.queue, s.read)
  PROVE  /\ Len(Delivery(t)) = Len(Delivery(s)) + 1
         /\ Delivery(t)[Len(Delivery(s)) + 1] = Tick(n)
         /\ \A i \in 1..Len(Delivery(s)) : Delivery(t)[i] = Delivery(s)[i]
<1>0. Tick(n) \in ParseEvents
  BY DEF Tick, ParseEvents
<1>1. s.due \in EventSeqs /\ Arrived(s) \in EventSeqs /\ Delivery(s) \in EventSeqs
  BY StreamFields, DeliveryType
<1>2. /\ Append(s.due, Tick(n)) = s.due \o <<Tick(n)>> /\ <<Tick(n)>> \in EventSeqs
      /\ Append(Delivery(s), Tick(n)) = Delivery(s) \o <<Tick(n)>>
  BY <1>0, <1>1, AppendIsConcat DEF EventSeqs
<1>3. Arrived(s) \o (s.due \o <<Tick(n)>>) = (Arrived(s) \o s.due) \o <<Tick(n)>>
  BY <1>1, <1>2, Regrouped
<1>4. t.due = Append(s.due, Tick(n)) /\ Arrived(t) = Arrived(s)
  BY DEF StreamIs, Arrived
<1>5. Delivery(t) = Append(Delivery(s), Tick(n))
  BY <1>2, <1>3, <1>4 DEF Delivery
<1> HIDE DEF Tick
<1> QED
  BY <1>0, <1>1, <1>5, AppendProperties DEF EventSeqs

\* The terminal event and the sentinel enter behind what the queue holds.
LEMMA EndAddsTwo ==
  ASSUME NEW s \in StreamStates, NEW t \in StreamStates, NEW k \in {"result", "error"},
         StreamIs(t, s.due, s.scheduled, s.queue \o <<Closing(k), Closing("sentinel")>>, s.read)
  PROVE  LET p == Len(Arrived(s))
             v == Delivery(s)
             w == Delivery(t)
         IN /\ Len(Arrived(t)) = p + 2 /\ Len(w) = Len(v) + 2
            /\ w[p + 1] = Closing(k) /\ w[p + 2] = Closing("sentinel")
            /\ \A i \in 1..p : w[i] = v[i]
            /\ \A i \in (p + 3)..Len(w) : w[i] = v[i - 2] /\ i - 2 \in (p + 1)..Len(v)
<1> DEFINE e == <<Closing(k), Closing("sentinel")>>
           a == Arrived(s)
           b == Arrived(t)
           d == s.due
           p == Len(a)
           v == Delivery(s)
           w == Delivery(t)
<1>0. Closing(k) \in ParseEvents /\ Closing("sentinel") \in ParseEvents
  BY DEF Closing, ParseEvents
<1>1. d \in EventSeqs /\ s.queue \in EventSeqs /\ s.read \in EventSeqs /\ a \in EventSeqs
  BY StreamFields, DeliveryType
<1>2. e \in EventSeqs /\ Len(e) = 2 /\ e[1] = Closing(k) /\ e[2] = Closing("sentinel")
  BY <1>0 DEF EventSeqs
<1>3. t.queue = s.queue \o e /\ t.due = d /\ t.read = s.read
  BY DEF StreamIs
<1> HIDE DEF e
<1>4. b = a \o e
  <2>1. (s.read \o s.queue) \o e = s.read \o (s.queue \o e)
    BY <1>1, <1>2, Regrouped
  <2> QED
    BY <1>3, <2>1 DEF Arrived
<1>5. v = a \o d /\ w = b \o d
  BY <1>3 DEF Delivery
<1> HIDE DEF a, b, d, v, w
<1>6. p \in Nat /\ Len(d) \in Nat
  BY <1>1 DEF EventSeqs
<1>7. /\ b \in EventSeqs /\ Len(b) = p + 2
      /\ \A i \in 1..(p + 2) : b[i] = IF i <= p THEN a[i] ELSE e[i - p]
  <2>1. /\ a \o e \in EventSeqs /\ Len(a \o e) = p + Len(e)
        /\ \A i \in 1..(p + Len(e)) : (a \o e)[i] = IF i <= p THEN a[i] ELSE e[i - p]
    BY <1>1, <1>2, Joined
  <2> QED
    BY <1>2, <1>4, <2>1
<1>8. /\ Len(v) = p + Len(d)
      /\ \A i \in 1..(p + Len(d)) : v[i] = IF i <= p THEN a[i] ELSE d[i - p]
  BY <1>1, <1>5, Joined
<1>9. /\ Len(w) = (p + 2) + Len(d)
      /\ \A i \in 1..((p + 2) + Len(d)) : w[i] = IF i <= p + 2 THEN b[i] ELSE d[i - (p + 2)]
  <2>1. b \in EventSeqs /\ d \in EventSeqs
    BY <1>1, <1>7
  <2>2. /\ Len(b \o d) = Len(b) + Len(d)
        /\ \A i \in 1..(Len(b) + Len(d)) :
             (b \o d)[i] = IF i <= Len(b) THEN b[i] ELSE d[i - Len(b)]
    BY <2>1, Joined
  <2> QED
    BY <1>5, <1>7, <2>2
<1> HIDE DEF p
<1>10. w[p + 1] = Closing(k) /\ w[p + 2] = Closing("sentinel")
  <2>1. /\ p + 1 \in 1..((p + 2) + Len(d)) /\ p + 2 \in 1..((p + 2) + Len(d))
        /\ p + 1 \in 1..(p + 2) /\ p + 2 \in 1..(p + 2)
        /\ p + 1 <= p + 2 /\ p + 2 <= p + 2 /\ ~ (p + 1 <= p) /\ ~ (p + 2 <= p)
        /\ (p + 1) - p = 1 /\ (p + 2) - p = 2
    BY <1>6
  <2> QED
    BY <1>2, <1>7, <1>9, <2>1
<1>11. ASSUME NEW i \in 1..p PROVE w[i] = v[i]
  <2>1. /\ i \in 1..((p + 2) + Len(d)) /\ i \in 1..(p + 2) /\ i \in 1..(p + Len(d))
        /\ i <= p /\ i <= p + 2
    BY <1>6
  <2> QED
    BY <1>7, <1>8, <1>9, <2>1
<1>12. ASSUME NEW i \in (p + 3)..Len(w) PROVE w[i] = v[i - 2] /\ i - 2 \in (p + 1)..Len(v)
  <2>1. /\ i \in 1..((p + 2) + Len(d)) /\ i - 2 \in 1..(p + Len(d)) /\ i - 2 \in (p + 1)..Len(v)
        /\ ~ (i <= p + 2) /\ ~ (i - 2 <= p) /\ i - (p + 2) = (i - 2) - p
    BY <1>6, <1>8, <1>9
  <2> QED
    BY <1>8, <1>9, <2>1
<1>13. Len(b) = p + 2 /\ Len(w) = Len(v) + 2
  BY <1>6, <1>7, <1>8, <1>9
<1> QED
  BY <1>10, <1>11, <1>12, <1>13 DEF a, b, v, w, p

-----------------------------------------------------------------------------
(* What the actions do to a call and to a stream.                           *)

\* One call goes on, its profile and its pages stay what they were.
CallTakes(c, from, to) ==
  /\ calls[c].step = from
  /\ calls' \in [AllCalls -> CallStates]
  /\ \A k \in AllCalls :
       /\ calls'[k].step = IF k = c THEN to ELSE calls[k].step
       /\ calls'[k].profile = calls[k].profile /\ calls'[k].pages = calls[k].pages

LEMMA CallMoves ==
  ASSUME ParseType, NEW c \in AllCalls, NEW from, NEW to \in ParseSteps,
         CallAt(c, from), CallGoes(c, to)
  PROVE  CallTakes(c, from, to)
BY DEF ParseType, CallTakes, CallAt, CallGoes, CallStates

\* One stream becomes the stream of these fields.
StreamTakes(c, d, n, q, r) ==
  \E t \in StreamStates :
    StreamIs(t, d, n, q, r) /\ streams' = [streams EXCEPT ![c] = t]

\* A stream in its place.
LEMMA OtherStreamsStay ==
  ASSUME ParseType, NEW c \in ParseCalls, NEW t \in StreamStates,
         streams' = [streams EXCEPT ![c] = t]
  PROVE  /\ streams' \in [ParseCalls -> StreamStates] /\ streams'[c] = t
         /\ \A k \in ParseCalls : k # c => streams'[k] = streams[k]
BY DEF ParseType

LEMMA StreamOf ==
  ASSUME ParseType, NEW c \in ParseCalls
  PROVE  /\ streams[c] \in StreamStates
         /\ streams[c].due \in EventSeqs /\ streams[c].scheduled \in Nat
         /\ streams[c].queue \in EventSeqs /\ streams[c].read \in EventSeqs
BY StreamFields DEF ParseType

StartDoes(c, p, n) ==
  /\ calls[c].step = "new"
  /\ calls' \in [AllCalls -> CallStates]
  /\ calls'[c].step = "ensure" /\ calls'[c].profile \in Profiles
  /\ \A k \in AllCalls : k # c => calls'[k] = calls[k]
  /\ UNCHANGED <<converters, builder, built, evicted, streams>>

LEMMA StartEffect ==
  ASSUME ParseType, NEW c \in AllCalls, NEW p \in Profiles, NEW n \in Nat, StartCall(c, p, n)
  PROVE  StartDoes(c, p, n)
<1>1. /\ calls' = [calls EXCEPT ![c] = [step |-> "ensure", profile |-> p, pages |-> n]]
      /\ calls[c].step = "new"
      /\ UNCHANGED <<converters, builder, built, evicted, streams>>
  BY DEF StartCall, CallAt
<1>2. [step |-> "ensure", profile |-> p, pages |-> n] \in CallStates
  BY DEF CallStates, ParseSteps
<1> QED
  BY <1>1, <1>2 DEF ParseType, StartDoes

LookUpDoes(c) ==
  /\ CallTakes(c, "ensure", IF converters[ProfileOf(c)] THEN HasConverter(c) ELSE "locking")
  /\ UNCHANGED <<converters, builder, built, evicted, streams>>

LEMMA Outcomes ==
  ASSUME NEW c
  PROVE  /\ HasConverter(c) \in {"convert", "warmed"} /\ FailureGoes(c) \in {"failing", "refused"}
         /\ HasConverter(c) \in ParseSteps /\ FailureGoes(c) \in ParseSteps
         /\ (IF converters[ProfileOf(c)] THEN HasConverter(c) ELSE "locking") \in
              ParseSteps \ {"new", "building", "draining", "ended"}
BY DEF HasConverter, FailureGoes, ParseSteps

LEMMA LookUpEffect ==
  ASSUME ParseType, NEW c \in AllCalls, LookUpConverter(c)
  PROVE  LookUpDoes(c)
BY CallMoves, Outcomes DEF LookUpConverter, LookUpDoes

LockDoes(c) ==
  /\ builder = NoCall
  /\ \/ CallTakes(c, "locking", HasConverter(c)) /\ builder' = builder
     \/ CallTakes(c, "locking", "building") /\ ~ converters[ProfileOf(c)] /\ builder' = c
  /\ UNCHANGED <<converters, built, evicted, streams>>

LEMMA LockEffect ==
  ASSUME ParseType, NEW c \in AllCalls, TakeBuildLock(c)
  PROVE  LockDoes(c)
<1>1. "building" \in ParseSteps /\ HasConverter(c) \in ParseSteps
  BY Outcomes DEF ParseSteps
<1> QED
  BY <1>1, CallMoves DEF TakeBuildLock, FoundUnderLock, LockDoes

BuildDoes(c) ==
  /\ CallTakes(c, "building", HasConverter(c))
  /\ converters' = [converters EXCEPT ![ProfileOf(c)] = TRUE]
  /\ built' = [built EXCEPT ![ProfileOf(c)] = @ + 1]
  /\ builder' = NoCall
  /\ UNCHANGED <<evicted, streams>>

LEMMA BuildEffect ==
  ASSUME ParseType, NEW c \in AllCalls, BuildConverter(c)
  PROVE  BuildDoes(c)
BY CallMoves, Outcomes DEF BuildConverter, BuildDoes

FailDoes(c) ==
  /\ CallTakes(c, "building", FailureGoes(c))
  /\ builder' = NoCall
  /\ UNCHANGED <<converters, built, evicted, streams>>

LEMMA FailEffect ==
  ASSUME ParseType, NEW c \in AllCalls, ConverterFails(c)
  PROVE  FailDoes(c)
BY CallMoves, Outcomes DEF ConverterFails, FailDoes

PagesDo(c) ==
  /\ CallAt(c, "convert")
  /\ \E n \in Nat :
       /\ streams[c].scheduled < n
       /\ StreamTakes(c, Append(streams[c].due, Tick(n)), n, streams[c].queue, streams[c].read)
  /\ UNCHANGED <<converters, builder, built, evicted, calls>>

LEMMA PagesEffect ==
  ASSUME ParseType, NEW c \in ParseCalls, ConvertPages(c)
  PROVE  PagesDo(c)
<1>1. PICK n \in streams[c].scheduled + 1 .. calls[c].pages :
        streams' = [streams EXCEPT ![c].scheduled = n, ![c].due = Append(@, Tick(n))]
  BY DEF ConvertPages
<1>2. streams[c].scheduled \in Nat /\ calls[c].pages \in Nat /\ c \in AllCalls
  BY StreamOf DEF ParseType, CallStates, AllCalls
<1>3. n \in Nat /\ streams[c].scheduled < n
  BY <1>2
<1>4. Tick(n) \in ParseEvents
  BY <1>3 DEF Tick, ParseEvents
<1> DEFINE d == Append(streams[c].due, Tick(n))
           t == [streams[c] EXCEPT !.scheduled = n, !.due = d]
<1>5. d \in EventSeqs
  BY <1>4, StreamOf, AppendProperties DEF EventSeqs
<1>6. streams' = [streams EXCEPT ![c] = t]
  BY <1>1
<1> HIDE DEF d
<1>7. StreamIs(t, d, n, streams[c].queue, streams[c].read)
  BY <1>3, <1>5, StreamOf, ScheduleTick
<1>8. t \in StreamStates
  BY <1>7 DEF StreamIs
<1> HIDE DEF t
<1>9. StreamTakes(c, d, n, streams[c].queue, streams[c].read)
  BY <1>6, <1>7, <1>8 DEF StreamTakes
<1> QED
  BY <1>3, <1>9 DEF PagesDo, ConvertPages, d

LEMMA ConvertDoneEffect ==
  ASSUME ParseType, NEW c \in ParseCalls, ConvertDone(c)
  PROVE  /\ CallTakes(c, "convert", "draining") /\ streams[c].scheduled = calls[c].pages
         /\ UNCHANGED <<converters, builder, built, evicted, streams>>
<1>1. "draining" \in ParseSteps /\ c \in AllCalls
  BY DEF ParseSteps, AllCalls
<1> QED
  BY <1>1, CallMoves DEF ConvertDone

LEMMA ConvertFailsEffect ==
  ASSUME ParseType, NEW c \in ParseCalls, ConvertFails(c)
  PROVE  /\ CallTakes(c, "convert", "failing")
         /\ UNCHANGED <<converters, builder, built, evicted, streams>>
<1>1. "failing" \in ParseSteps /\ c \in AllCalls
  BY DEF ParseSteps, AllCalls
<1> QED
  BY <1>1, CallMoves DEF ConvertFails

PutDoes(c) ==
  /\ streams[c].due # <<>>
  /\ StreamTakes(c, Tail(streams[c].due), streams[c].scheduled,
                 Append(streams[c].queue, Head(streams[c].due)), streams[c].read)
  /\ UNCHANGED <<converters, builder, built, evicted, calls>>

LEMMA PutEffect ==
  ASSUME ParseType, NEW c \in ParseCalls, PutTick(c)
  PROVE  PutDoes(c)
<1> DEFINE q == Append(streams[c].queue, Head(streams[c].due))
           d == Tail(streams[c].due)
           t == [streams[c] EXCEPT !.queue = q, !.due = d]
<1>1. streams' = [streams EXCEPT ![c] = t] /\ streams[c].due # <<>>
  BY DEF PutTick
<1>2. q \in EventSeqs /\ d \in EventSeqs
  BY <1>1, StreamOf, FirstMoves
<1> HIDE DEF q, d
<1>3. StreamIs(t, d, streams[c].scheduled, q, streams[c].read)
  BY <1>2, StreamOf, PutOne
<1>4. t \in StreamStates
  BY <1>3 DEF StreamIs
<1> HIDE DEF t
<1>5. StreamTakes(c, d, streams[c].scheduled, q, streams[c].read)
  BY <1>1, <1>3, <1>4 DEF StreamTakes
<1> QED
  BY <1>1, <1>5 DEF PutDoes, PutTick, q, d

ReadDoes(c) ==
  /\ streams[c].queue # <<>>
  /\ \A i \in 1..Len(streams[c].read) : streams[c].read[i] # Closing("sentinel")
  /\ StreamTakes(c, streams[c].due, streams[c].scheduled, Tail(streams[c].queue),
                 Append(streams[c].read, Head(streams[c].queue)))
  /\ UNCHANGED <<converters, builder, built, evicted, calls>>

LEMMA ReadEffect ==
  ASSUME ParseType, NEW c \in ParseCalls, ReadEvent(c)
  PROVE  ReadDoes(c)
<1> DEFINE r == Append(streams[c].read, Head(streams[c].queue))
           q == Tail(streams[c].queue)
           t == [streams[c] EXCEPT !.read = r, !.queue = q]
<1>1. /\ streams' = [streams EXCEPT ![c] = t] /\ streams[c].queue # <<>>
      /\ ~ Contains(streams[c].read, Closing("sentinel"))
  BY DEF ReadEvent
<1>2. r \in EventSeqs /\ q \in EventSeqs
  BY <1>1, StreamOf, FirstMoves
<1> HIDE DEF r, q
<1>3. StreamIs(t, streams[c].due, streams[c].scheduled, q, r)
  BY <1>2, StreamOf, ReadOne
<1>4. t \in StreamStates
  BY <1>3 DEF StreamIs
<1> HIDE DEF t
<1>5. StreamTakes(c, streams[c].due, streams[c].scheduled, q, r)
  BY <1>1, <1>3, <1>4 DEF StreamTakes
<1>6. \A i \in 1..Len(streams[c].read) : streams[c].read[i] # Closing("sentinel")
  BY <1>1 DEF Contains
<1> QED
  BY <1>1, <1>5, <1>6 DEF ReadDoes, ReadEvent, r, q

EndDoes(c, k) ==
  /\ StreamTakes(c, streams[c].due, streams[c].scheduled,
                 streams[c].queue \o <<Closing(k), Closing("sentinel")>>, streams[c].read)
  /\ CallTakes(c, IF k = "result" THEN "draining" ELSE "failing", "ended")
  /\ k = "result" => streams[c].due = <<>>
  /\ UNCHANGED <<converters, builder, built, evicted>>

LEMMA EndEffect ==
  ASSUME ParseType, NEW c \in ParseCalls, NEW k \in {"result", "error"},
         EndStream(c, k), CallAt(c, IF k = "result" THEN "draining" ELSE "failing"),
         k = "result" => Drained(c)
  PROVE  EndDoes(c, k)
<1> DEFINE e == <<Closing(k), Closing("sentinel")>>
           q == streams[c].queue \o e
           t == [streams[c] EXCEPT !.queue = q]
<1>1. streams' = [streams EXCEPT ![c] = t]
  BY DEF EndStream
<1>2. e \in EventSeqs
  BY DEF Closing, ParseEvents, EventSeqs
<1> HIDE DEF e
<1>3. q \in EventSeqs
  BY <1>2, StreamOf, Joined
<1> HIDE DEF q
<1>4. StreamIs(t, streams[c].due, streams[c].scheduled, q, streams[c].read)
  BY <1>3, StreamOf, QueueMoves
<1>5. t \in StreamStates
  BY <1>4 DEF StreamIs
<1> HIDE DEF t
<1>6. StreamTakes(c, streams[c].due, streams[c].scheduled, q, streams[c].read)
  BY <1>1, <1>4, <1>5 DEF StreamTakes
<1>7. c \in AllCalls /\ "ended" \in ParseSteps
  BY DEF AllCalls, ParseSteps
<1>8. CallTakes(c, IF k = "result" THEN "draining" ELSE "failing", "ended")
  BY <1>7, CallMoves DEF EndStream
<1> QED
  BY <1>6, <1>8 DEF EndDoes, EndStream, Drained, q, e

EvictDoes(p) ==
  /\ builder = NoCall /\ converters[p]
  /\ converters' = [converters EXCEPT ![p] = FALSE]
  /\ evicted' = [evicted EXCEPT ![p] = @ + 1]
  /\ UNCHANGED <<builder, built, calls, streams>>

\* A step of the specification is a step of one of these kinds.
LEMMA ParseStepCases ==
  ASSUME ParseType, ParseNext
  PROVE  \/ \E c \in AllCalls, p \in Profiles, n \in Nat : StartDoes(c, p, n)
         \/ \E c \in AllCalls :
              LookUpDoes(c) \/ LockDoes(c) \/ BuildDoes(c) \/ FailDoes(c)
         \/ \E c \in ParseCalls :
              \/ PagesDo(c) \/ PutDoes(c) \/ ReadDoes(c)
              \/ ConvertDone(c) \/ ConvertFails(c)
              \/ EndDoes(c, "result") \/ EndDoes(c, "error")
         \/ \E p \in Profiles : EvictDoes(p)
<1>1. CASE \E c \in AllCalls, p \in Profiles, n \in 0 .. MaxPages :
             StartCall(c, p, IF c \in ParseCalls THEN n ELSE 0)
  <2>1. PICK c \in AllCalls, p \in Profiles, n \in 0 .. MaxPages :
          StartCall(c, p, IF c \in ParseCalls THEN n ELSE 0)
    BY <1>1
  <2>2. (IF c \in ParseCalls THEN n ELSE 0) \in Nat
    BY ParsingAssumption
  <2>3. StartDoes(c, p, IF c \in ParseCalls THEN n ELSE 0)
    BY <2>1, <2>2, StartEffect
  <2> QED
    BY <2>2, <2>3
<1>2. ASSUME NEW c \in AllCalls, ParseStep(c) \/ ConverterFails(c)
      PROVE  \/ LookUpDoes(c) \/ LockDoes(c) \/ BuildDoes(c) \/ FailDoes(c)
             \/ c \in ParseCalls /\ (PagesDo(c) \/ ConvertDone(c) \/ EndDoes(c, "result")
                                     \/ EndDoes(c, "error"))
  <2>1. CASE LookUpConverter(c) \/ TakeBuildLock(c) \/ BuildConverter(c) \/ ConverterFails(c)
    BY <2>1, LookUpEffect, LockEffect, BuildEffect, FailEffect
  <2>2. CASE c \in ParseCalls /\ (ConvertPages(c) \/ ConvertDone(c))
    BY <2>2, PagesEffect
  <2>3. CASE c \in ParseCalls /\ SendResult(c)
    BY <2>3, EndEffect DEF SendResult
  <2>4. CASE c \in ParseCalls /\ SendError(c)
    BY <2>4, EndEffect DEF SendError
  <2> QED
    BY <1>2, <2>1, <2>2, <2>3, <2>4 DEF ParseStep
<1>3. ASSUME NEW c \in ParseCalls, PutTick(c) \/ ReadEvent(c) \/ ConvertFails(c)
      PROVE  PutDoes(c) \/ ReadDoes(c) \/ ConvertFails(c)
  BY <1>3, PutEffect, ReadEffect
<1>4. ASSUME NEW p \in Profiles, EvictConverter(p) PROVE EvictDoes(p)
  BY <1>4 DEF EvictConverter, EvictDoes
<1> QED
  BY <1>1, <1>2, <1>3, <1>4 DEF ParseNext

-----------------------------------------------------------------------------
(* Types.                                                                   *)

LEMMA ProfilesStay ==
  ASSUME ParseType, NEW c \in AllCalls, NEW from, NEW to, from # "new", CallTakes(c, from, to)
  PROVE  /\ calls' \in [AllCalls -> CallStates]
         /\ \A k \in AllCalls : calls'[k].step = "new" \/ calls'[k].profile \in Profiles
BY DEF ParseType, CallTakes, CallAt, ProfileOf

LEMMA CallsUnmoved ==
  ASSUME ParseType, UNCHANGED calls
  PROVE  /\ calls' \in [AllCalls -> CallStates]
         /\ \A k \in AllCalls : calls'[k].step = "new" \/ calls'[k].profile \in Profiles
BY DEF ParseType, CallAt, ProfileOf

LEMMA StreamsTyped ==
  ASSUME ParseType, NEW c \in ParseCalls, NEW d, NEW n, NEW q, NEW r, StreamTakes(c, d, n, q, r)
  PROVE  streams' \in [ParseCalls -> StreamStates]
BY OtherStreamsStay DEF StreamTakes

LEMMA ParseCallsAreCalls == ParseCalls \subseteq AllCalls
BY DEF AllCalls

LEMMA ParseTypeStep ==
  ASSUME ParseType, [ParseNext]_parse_vars
  PROVE  ParseType'
<1> DEFINE CallsTyped == /\ calls' \in [AllCalls -> CallStates]
                         /\ \A k \in AllCalls :
                              calls'[k].step = "new" \/ calls'[k].profile \in Profiles
           RestTyped == /\ converters' \in [Profiles -> BOOLEAN]
                        /\ builder' \in AllCalls \cup {NoCall}
                        /\ built' \in [Profiles -> Nat] /\ evicted' \in [Profiles -> Nat]
           StreamsFine == streams' \in [ParseCalls -> StreamStates]
<1>1. SUFFICES CallsTyped /\ RestTyped /\ StreamsFine
  BY DEF ParseType, CallAt, ProfileOf
<1>2. UNCHANGED <<converters, builder, built, evicted>> => RestTyped
  BY DEF ParseType
<1>3. UNCHANGED streams => StreamsFine
  BY DEF ParseType
<1>4. UNCHANGED calls => CallsTyped
  BY CallsUnmoved
<1>5. CASE UNCHANGED parse_vars
  BY <1>2, <1>3, <1>4, <1>5 DEF parse_vars
<1>6. ASSUME NEW c \in AllCalls, NEW p \in Profiles, NEW n \in Nat, StartDoes(c, p, n)
      PROVE  CallsTyped /\ RestTyped /\ StreamsFine
  <2>1. CallsTyped
    BY <1>6 DEF StartDoes, ParseType, CallAt, ProfileOf
  <2> QED
    BY <1>2, <1>3, <1>6, <2>1 DEF StartDoes
<1>7. ASSUME NEW c \in AllCalls, LookUpDoes(c) PROVE CallsTyped /\ RestTyped /\ StreamsFine
  BY <1>2, <1>3, <1>7, ProfilesStay DEF LookUpDoes
<1>8. ASSUME NEW c \in AllCalls, LockDoes(c) PROVE CallsTyped /\ RestTyped /\ StreamsFine
  <2>1. CallsTyped
    BY <1>8, ProfilesStay DEF LockDoes
  <2>2. RestTyped
    BY <1>8 DEF LockDoes, ParseType
  <2> QED
    BY <1>3, <1>8, <2>1, <2>2 DEF LockDoes
<1>9. ASSUME NEW c \in AllCalls, BuildDoes(c) PROVE CallsTyped /\ RestTyped /\ StreamsFine
  <2>1. CallsTyped
    BY <1>9, ProfilesStay DEF BuildDoes
  <2>2. ProfileOf(c) \in Profiles
    BY <1>9 DEF BuildDoes, CallTakes, ParseType, CallAt
  <2>3. built[ProfileOf(c)] \in Nat
    BY <2>2 DEF ParseType
  <2>4. RestTyped
    BY <1>9, <2>2, <2>3 DEF BuildDoes, ParseType
  <2> QED
    BY <1>3, <1>9, <2>1, <2>4 DEF BuildDoes
<1>10. ASSUME NEW c \in AllCalls, FailDoes(c) PROVE CallsTyped /\ RestTyped /\ StreamsFine
  <2>1. CallsTyped
    BY <1>10, ProfilesStay DEF FailDoes
  <2>2. RestTyped
    BY <1>10 DEF FailDoes, ParseType
  <2> QED
    BY <1>3, <1>10, <2>1, <2>2 DEF FailDoes
<1>11. ASSUME NEW c \in ParseCalls, PagesDo(c) \/ PutDoes(c) \/ ReadDoes(c)
       PROVE  CallsTyped /\ RestTyped /\ StreamsFine
  <2>1. StreamsFine
    BY <1>11, StreamsTyped DEF PagesDo, PutDoes, ReadDoes
  <2> QED
    BY <1>2, <1>4, <1>11, <2>1 DEF PagesDo, PutDoes, ReadDoes
<1>12. ASSUME NEW c \in ParseCalls, ConvertDone(c) \/ ConvertFails(c)
       PROVE  CallsTyped /\ RestTyped /\ StreamsFine
  <2>1. CallsTyped
    BY <1>12, ParseCallsAreCalls, ConvertDoneEffect, ConvertFailsEffect, ProfilesStay
  <2> QED
    BY <1>2, <1>3, <1>12, <2>1, ConvertDoneEffect, ConvertFailsEffect
<1>13. ASSUME NEW c \in ParseCalls, NEW k \in {"result", "error"}, EndDoes(c, k)
       PROVE  CallsTyped /\ RestTyped /\ StreamsFine
  <2>1. CallsTyped
    BY <1>13, ParseCallsAreCalls, ProfilesStay DEF EndDoes
  <2>2. StreamsFine
    BY <1>13, StreamsTyped DEF EndDoes
  <2> QED
    BY <1>2, <1>13, <2>1, <2>2 DEF EndDoes
<1>14. ASSUME NEW p \in Profiles, EvictDoes(p) PROVE CallsTyped /\ RestTyped /\ StreamsFine
  <2>1. RestTyped
    BY <1>14 DEF EvictDoes, ParseType
  <2> QED
    BY <1>3, <1>4, <1>14, <2>1 DEF EvictDoes
<1> HIDE DEF CallsTyped, RestTyped, StreamsFine
<1> QED
  BY <1>5, <1>6, <1>7, <1>8, <1>9, <1>10, <1>11, <1>12, <1>13, <1>14, ParseStepCases

-----------------------------------------------------------------------------
(* The build under its lock.                                                *)

BuildingHolds(k) == CallAt(k, "building") => builder = k /\ ~ converters[ProfileOf(k)]

\* Calls that go on without building, and streams, leave it alone.
LEMMA BuildUndisturbed ==
  ASSUME BuildInv, UNCHANGED <<converters, builder, built, evicted>>,
         \A k \in AllCalls :
           \/ calls'[k].step # "building"
           \/ calls'[k].step = calls[k].step /\ calls'[k].profile = calls[k].profile
  PROVE  BuildInv'
BY DEF BuildInv, BuiltOnce, CallAt, ProfileOf

LEMMA BuildStep ==
  ASSUME ParseType, BuildInv, [ParseNext]_parse_vars
  PROVE  BuildInv'
<1>1. CASE UNCHANGED parse_vars
  BY <1>1, BuildUndisturbed DEF parse_vars
<1>2. ASSUME NEW c \in AllCalls, NEW p \in Profiles, NEW n \in Nat, StartDoes(c, p, n)
      PROVE  BuildInv'
  BY <1>2, BuildUndisturbed DEF StartDoes
<1>3. ASSUME NEW c \in AllCalls, LookUpDoes(c) PROVE BuildInv'
  BY <1>3, BuildUndisturbed, Outcomes DEF LookUpDoes, CallTakes
<1>4. ASSUME NEW c \in AllCalls, LockDoes(c) PROVE BuildInv'
  <2>1. \A k \in AllCalls : ~ CallAt(k, "building")
    BY <1>4, ParsingAssumption DEF LockDoes, BuildInv
  <2>2. BuiltOnce'
    BY <1>4 DEF LockDoes, BuildInv, BuiltOnce
  <2>3. \A k \in AllCalls :
          (CallAt(k, "building") => builder = k /\ ~ converters[ProfileOf(k)])'
    BY <1>4, <2>1, Outcomes DEF LockDoes, CallTakes, CallAt, ProfileOf
  <2> QED
    BY <2>2, <2>3 DEF BuildInv
<1>5. ASSUME NEW c \in AllCalls, BuildDoes(c) PROVE BuildInv'
  <2>1. calls[c].step = "building" /\ CallAt(c, "building")
    BY <1>5 DEF BuildDoes, CallTakes, CallAt
  <2>2. builder = c /\ ~ converters[ProfileOf(c)] /\ ProfileOf(c) \in Profiles
    BY <2>1 DEF BuildInv, ParseType, CallAt
  <2>3. \A k \in AllCalls : calls'[k].step # "building"
    BY <1>5, <2>2, Outcomes DEF BuildDoes, CallTakes, BuildInv, CallAt
  <2>4. BuiltOnce'
    BY <1>5, <2>2 DEF BuildDoes, BuildInv, BuiltOnce, ParseType
  <2> QED
    BY <2>3, <2>4 DEF BuildInv, CallAt
<1>6. ASSUME NEW c \in AllCalls, FailDoes(c) PROVE BuildInv'
  <2>1. builder = c
    BY <1>6 DEF FailDoes, CallTakes, BuildInv, CallAt
  <2>2. \A k \in AllCalls : calls'[k].step # "building"
    BY <1>6, <2>1, Outcomes DEF FailDoes, CallTakes, BuildInv, CallAt
  <2>3. BuiltOnce'
    BY <1>6 DEF FailDoes, BuildInv, BuiltOnce
  <2> QED
    BY <2>2, <2>3 DEF BuildInv, CallAt
<1>7. ASSUME NEW c \in ParseCalls, PagesDo(c) \/ PutDoes(c) \/ ReadDoes(c) PROVE BuildInv'
  BY <1>7, BuildUndisturbed DEF PagesDo, PutDoes, ReadDoes
<1>8. ASSUME NEW c \in ParseCalls, ConvertDone(c) \/ ConvertFails(c) PROVE BuildInv'
  BY <1>8, ParseCallsAreCalls, ConvertDoneEffect, ConvertFailsEffect, BuildUndisturbed DEF CallTakes
<1>9. ASSUME NEW c \in ParseCalls, NEW k \in {"result", "error"}, EndDoes(c, k) PROVE BuildInv'
  BY <1>9, BuildUndisturbed DEF EndDoes, CallTakes
<1>10. ASSUME NEW p \in Profiles, EvictDoes(p) PROVE BuildInv'
  <2>1. \A k \in AllCalls : ~ CallAt(k, "building")
    BY <1>10, ParsingAssumption DEF EvictDoes, BuildInv
  <2>2. BuiltOnce'
    BY <1>10 DEF EvictDoes, BuildInv, BuiltOnce, ParseType
  <2> QED
    BY <1>10, <2>1, <2>2 DEF EvictDoes, BuildInv, CallAt
<1> QED
  BY <1>1, <1>2, <1>3, <1>4, <1>5, <1>6, <1>7, <1>8, <1>9, <1>10, ParseStepCases

-----------------------------------------------------------------------------
(* The events of a stream.                                                  *)

PageStreamInv(s, step, n) ==
  /\ step # "ended" => OpenPages(Delivery(s), s.scheduled)
  /\ step = "ended" =>
       \E m \in Nat \ {0} :
         ClosedStream(Delivery(s), n, m) /\ m + 1 <= Len(Arrived(s)) /\ Len(s.read) <= m + 1
  /\ step = "draining" => s.scheduled = n

LEMMA PipeIs ==
  \A c \in ParseCalls :
    PipeInv(c) <=> PageStreamInv(streams[c], calls[c].step, calls[c].pages)
BY ParseCallsAreCalls DEF PipeInv, PageStreamInv, CallAt

LEMMA PipeIsNext ==
  \A c \in ParseCalls :
    PipeInv(c)' <=> PageStreamInv(streams'[c], calls'[c].step, calls'[c].pages)
BY ParseCallsAreCalls DEF PipeInv, PageStreamInv, CallAt, Delivery, Arrived

LEMMA ReadSound ==
  ASSUME NEW s \in StreamStates, NEW t \in StreamStates, NEW step, NEW n,
         PageStreamInv(s, step, n), s.queue # <<>>,
         \A i \in 1..Len(s.read) : s.read[i] # Closing("sentinel"),
         StreamIs(t, s.due, s.scheduled, Tail(s.queue), Append(s.read, Head(s.queue)))
  PROVE  PageStreamInv(t, step, n)
<1>1. /\ Arrived(t) = Arrived(s) /\ Delivery(t) = Delivery(s) /\ Len(t.read) = Len(s.read) + 1
      /\ t.scheduled = s.scheduled
  BY ReadKeepsOrder DEF StreamIs
<1>2. CASE step # "ended"
  BY <1>1, <1>2 DEF PageStreamInv
<1>3. CASE step = "ended"
  <2>1. PICK m \in Nat \ {0} :
          ClosedStream(Delivery(s), n, m) /\ m + 1 <= Len(Arrived(s)) /\ Len(s.read) <= m + 1
    BY <1>3 DEF PageStreamInv
  <2>2. Len(s.read) # m + 1
    <3>1. SUFFICES ASSUME Len(s.read) = m + 1 PROVE FALSE
      OBVIOUS
    <3>2. m + 1 \in 1..Len(s.read)
      BY <3>1
    <3>3. s.read[m + 1] = Delivery(s)[m + 1]
      BY <3>2, DeliveryType
    <3> QED
      BY <2>1, <3>2, <3>3 DEF ClosedStream
  <2>3. Len(t.read) <= m + 1
    BY <1>1, <2>1, <2>2, DeliveryType
  <2> QED
    BY <1>1, <1>3, <2>1, <2>3 DEF PageStreamInv
<1> QED
  BY <1>2, <1>3

LEMMA PutSound ==
  ASSUME NEW s \in StreamStates, NEW t \in StreamStates, NEW step, NEW n,
         PageStreamInv(s, step, n), s.due # <<>>,
         StreamIs(t, Tail(s.due), s.scheduled, Append(s.queue, Head(s.due)), s.read)
  PROVE  PageStreamInv(t, step, n)
<1>1. /\ Delivery(t) = Delivery(s) /\ Len(Arrived(t)) = Len(Arrived(s)) + 1
      /\ t.scheduled = s.scheduled /\ t.read = s.read
  BY PutKeepsOrder DEF StreamIs
<1>2. CASE step # "ended"
  BY <1>1, <1>2 DEF PageStreamInv
<1>3. CASE step = "ended"
  <2>1. PICK m \in Nat \ {0} :
          ClosedStream(Delivery(s), n, m) /\ m + 1 <= Len(Arrived(s)) /\ Len(s.read) <= m + 1
    BY <1>3 DEF PageStreamInv
  <2>2. m + 1 <= Len(Arrived(t))
    BY <1>1, <2>1, DeliveryType
  <2> QED
    BY <1>1, <1>3, <2>1, <2>2 DEF PageStreamInv
<1> QED
  BY <1>2, <1>3

LEMMA TickOf ==
  ASSUME NEW n
  PROVE  IsTick(Tick(n)) /\ Tick(n).page = n /\ Tick(n).type = "progress"
BY DEF IsTick, Tick

LEMMA PagesSound ==
  ASSUME NEW s \in StreamStates, NEW t \in StreamStates, NEW n \in Nat, NEW pages,
         OpenPages(Delivery(s), s.scheduled), s.scheduled < n,
         StreamIs(t, Append(s.due, Tick(n)), n, s.queue, s.read)
  PROVE  PageStreamInv(t, "convert", pages)
<1> DEFINE v == Delivery(s)
           w == Delivery(t)
           l == Len(v)
<1>1. /\ Len(w) = l + 1 /\ w[l + 1] = Tick(n)
      /\ \A i \in 1..l : w[i] = v[i]
  BY ScheduleAddsLast
<1>2. l \in Nat /\ s.scheduled \in Nat /\ v \in EventSeqs
  BY DeliveryType, StreamFields
<1>3. OpenPages(v, s.scheduled)
  OBVIOUS
<1> HIDE DEF v, w, l
<1>4. \A i \in 1..l : v[i].page \in Nat
  <2>1. v \in Seq(ParseEvents)
    BY <1>2 DEF EventSeqs
  <2>2. \A i \in 1..l : v[i] \in ParseEvents
    BY <2>1, ElementOfSeq DEF l
  <2> QED
    BY <2>2 DEF ParseEvents
<1>5. ASSUME NEW i \in 1..(l + 1) PROVE IsTick(w[i]) /\ w[i].page <= n
  <2>1. CASE i \in 1..l
    BY <1>1, <1>2, <1>3, <1>4, <2>1 DEF OpenPages, l
  <2>2. CASE i = l + 1
    BY <1>1, <2>2, TickOf
  <2> QED
    BY <1>2, <2>1, <2>2
<1>6. ASSUME NEW i \in 1..(l + 1), NEW j \in 1..(l + 1), i < j PROVE w[i].page < w[j].page
  <2>1. i \in 1..l
    BY <1>2, <1>6
  <2>2. CASE j \in 1..l
    BY <1>1, <1>3, <1>6, <2>1, <2>2 DEF OpenPages, l
  <2>3. CASE j = l + 1
    BY <1>1, <1>2, <1>3, <1>4, <2>1, <2>3, TickOf DEF OpenPages, l
  <2> QED
    BY <1>2, <2>2, <2>3
<1>7. l + 1 > 0 /\ w[l + 1].page = n
  BY <1>1, <1>2, TickOf
<1>8. OpenPages(w, n)
  BY <1>1, <1>5, <1>6, <1>7 DEF OpenPages
<1> QED
  BY <1>8 DEF PageStreamInv, StreamIs, w

LEMMA EndSound ==
  ASSUME NEW s \in StreamStates, NEW t \in StreamStates, NEW k \in {"result", "error"},
         NEW n \in Nat, OpenPages(Delivery(s), s.scheduled),
         k = "result" => s.due = <<>> /\ s.scheduled = n,
         StreamIs(t, s.due, s.scheduled, s.queue \o <<Closing(k), Closing("sentinel")>>, s.read)
  PROVE  PageStreamInv(t, "ended", n)
<1> DEFINE v == Delivery(s)
           w == Delivery(t)
           p == Len(Arrived(s))
           l == Len(v)
<1>1. /\ Len(Arrived(t)) = p + 2 /\ Len(w) = l + 2
      /\ w[p + 1] = Closing(k) /\ w[p + 2] = Closing("sentinel")
      /\ \A i \in 1..p : w[i] = v[i]
      /\ \A i \in (p + 3)..Len(w) : w[i] = v[i - 2] /\ i - 2 \in (p + 1)..l
  BY EndAddsTwo
<1>2. /\ p \in Nat /\ l \in Nat /\ l = p + Len(s.due) /\ Len(s.due) \in Nat
      /\ Len(s.read) \in Nat /\ Len(s.read) <= p /\ t.read = s.read
  <2>1. /\ Len(s.read) \in Nat /\ Len(s.queue) \in Nat /\ Len(s.due) \in Nat
        /\ p = Len(s.read) + Len(s.queue) /\ l = p + Len(s.due)
    BY DeliveryType
  <2>2. t.read = s.read
    BY DEF StreamIs
  <2> HIDE DEF p, l
  <2>3. \A x, y, z \in Nat : x + y \in Nat /\ (x + y) + z \in Nat /\ x <= x + y
    OBVIOUS
  <2>4. p \in Nat /\ l \in Nat /\ Len(s.read) <= p
    <3>1. /\ Len(s.read) + Len(s.queue) \in Nat /\ Len(s.read) <= Len(s.read) + Len(s.queue)
          /\ (Len(s.read) + Len(s.queue)) + Len(s.due) \in Nat
      BY <2>1, <2>3
    <3>2. p = Len(s.read) + Len(s.queue) /\ l = (Len(s.read) + Len(s.queue)) + Len(s.due)
      BY <2>1
    <3> QED
      BY <3>1, <3>2
  <2> QED
    BY <2>1, <2>2, <2>4
<1>3. OpenPages(v, s.scheduled) /\ l = Len(v)
  OBVIOUS
<1>4. k = "result" => l = p /\ s.scheduled = n
  <2>1. k = "result" => Len(s.due) = 0 /\ s.scheduled = n
    OBVIOUS
  <2> QED
    BY <1>2, <2>1
<1> HIDE DEF v, w, p, l
<1>5. p <= l
  BY <1>2
<1>6. ASSUME NEW i \in 1..Len(w), i \notin {p + 1, p + 2} PROVE IsTick(w[i])
  <2>1. CASE i \in 1..p
    BY <1>1, <1>2, <1>3, <1>5, <2>1 DEF OpenPages
  <2>2. CASE i \in (p + 3)..Len(w)
    <3>1. w[i] = v[i - 2] /\ i - 2 \in 1..l
      BY <1>1, <1>2, <2>2
    <3> QED
      BY <1>3, <3>1 DEF OpenPages
  <2> QED
    BY <1>1, <1>2, <1>6, <2>1, <2>2
<1>7. ASSUME NEW i \in 1..Len(w), NEW j \in 1..Len(w), i < j, j < p + 1
      PROVE  w[i].page < w[j].page
  <2>1. i \in 1..p /\ j \in 1..p /\ i \in 1..l /\ j \in 1..l
    BY <1>1, <1>2, <1>5, <1>7
  <2> QED
    BY <1>1, <1>3, <1>7, <2>1 DEF OpenPages
<1>8. ASSUME w[p + 1] = Closing("result"), n > 0
      PROVE  p + 1 > 1 /\ w[(p + 1) - 1] = Tick(n)
  <2>1. k = "result"
    BY <1>1, <1>8 DEF Closing
  <2>2. l = p /\ s.scheduled = n
    BY <1>4, <2>1
  <2>3. l > 0 /\ v[l].page = n
    BY <1>3, <1>8, <2>2 DEF OpenPages
  <2>4. p \in 1..p /\ p \in 1..l /\ (p + 1) - 1 = p
    BY <1>2, <2>2, <2>3
  <2>5. IsTick(v[p])
    BY <1>3, <2>4 DEF OpenPages
  <2>6. w[p] = v[p]
    BY <1>1, <2>4
  <2> QED
    BY <1>2, <2>2, <2>3, <2>4, <2>5, <2>6 DEF IsTick
<1>9. (p + 1) + 1 = p + 2 /\ p + 2 <= Len(w) /\ p + 1 \in Nat \ {0} /\ Len(s.read) <= p + 2
  BY <1>1, <1>2
<1>10. ClosedStream(w, n, p + 1)
  <2>1. w[p + 1] \in {Closing("result"), Closing("error")}
    BY <1>1
  <2> QED
    BY <1>1, <1>6, <1>7, <1>8, <1>9, <2>1 DEF ClosedStream
<1>11. Len(Arrived(t)) = p + 2 /\ Len(t.read) <= p + 2
  BY <1>1, <1>2, <1>9
<1> QED
  BY <1>9, <1>10, <1>11 DEF PageStreamInv, w

-----------------------------------------------------------------------------
(* Every step keeps the streams.                                            *)

LEMMA StreamUndisturbed ==
  ASSUME NEW s, NEW from, NEW to, NEW n, NEW m, PageStreamInv(s, from, n),
         from # "ended", to # "ended", to = "draining" => s.scheduled = m
  PROVE  PageStreamInv(s, to, m)
BY DEF PageStreamInv

LEMMA PipeStep ==
  ASSUME ParseType, [ParseNext]_parse_vars, \A c \in ParseCalls : PipeInv(c)
  PROVE  \A c \in ParseCalls : PipeInv(c)'
<1> DEFINE Before(k) == PageStreamInv(streams[k], calls[k].step, calls[k].pages)
           After(k) == PageStreamInv(streams'[k], calls'[k].step, calls'[k].pages)
<1>1. SUFFICES ASSUME NEW k \in ParseCalls, Before(k) PROVE After(k)
  BY PipeIs, PipeIsNext
<1>2. /\ streams[k] \in StreamStates /\ k \in AllCalls /\ calls[k].pages \in Nat
  BY StreamOf, ParseCallsAreCalls DEF ParseType, CallStates
<1>3. CASE UNCHANGED <<streams, calls>>
  BY <1>1, <1>3
\* A call that goes on without ending, its stream unchanged.
<1>4. ASSUME NEW c \in AllCalls, NEW from, NEW to, CallTakes(c, from, to), UNCHANGED streams,
             from # "ended", to # "ended",
             to = "draining" /\ c \in ParseCalls => streams[c].scheduled = calls[c].pages
      PROVE  After(k)
  <2>1. CASE k = c
    BY <1>1, <1>2, <1>4, <2>1, StreamUndisturbed DEF CallTakes
  <2>2. CASE k # c
    BY <1>1, <1>2, <1>4, <2>2 DEF CallTakes
  <2> QED
    BY <2>1, <2>2
<1>5. ASSUME NEW c \in AllCalls, NEW p \in Profiles, NEW n \in Nat, StartDoes(c, p, n)
      PROVE  After(k)
  <2>1. CASE k = c
    BY <1>1, <1>2, <1>5, <2>1, StreamUndisturbed DEF StartDoes
  <2>2. CASE k # c
    BY <1>1, <1>2, <1>5, <2>2 DEF StartDoes
  <2> QED
    BY <2>1, <2>2
<1>6. ASSUME NEW c \in AllCalls, LookUpDoes(c) \/ LockDoes(c) \/ BuildDoes(c) \/ FailDoes(c)
      PROVE  After(k)
  <2>1. CASE LookUpDoes(c)
    BY <1>4, <2>1, Outcomes DEF LookUpDoes
  <2>2. CASE LockDoes(c)
    BY <1>4, <2>2, Outcomes DEF LockDoes
  <2>3. CASE BuildDoes(c)
    BY <1>4, <2>3, Outcomes DEF BuildDoes
  <2>4. CASE FailDoes(c)
    BY <1>4, <2>4, Outcomes DEF FailDoes
  <2> QED
    BY <1>6, <2>1, <2>2, <2>3, <2>4
<1>7. ASSUME NEW c \in ParseCalls, ConvertDone(c) \/ ConvertFails(c)
      PROVE  After(k)
  BY <1>4, <1>7, ConvertDoneEffect, ConvertFailsEffect, ParseCallsAreCalls
\* One stream moves, and its call stays or ends.
<1>8. ASSUME NEW c \in ParseCalls, NEW d, NEW n, NEW q, NEW r,
             StreamTakes(c, d, n, q, r), k # c, calls'[k].step = calls[k].step,
             calls'[k].pages = calls[k].pages
      PROVE  After(k)
  <2>1. streams'[k] = streams[k]
    BY <1>8, OtherStreamsStay DEF StreamTakes
  <2> QED
    BY <1>1, <1>8, <2>1
<1>9. ASSUME NEW c \in ParseCalls, PagesDo(c) PROVE After(k)
  <2>1. PICK n \in Nat :
          /\ streams[c].scheduled < n
          /\ StreamTakes(c, Append(streams[c].due, Tick(n)), n, streams[c].queue, streams[c].read)
    BY <1>9 DEF PagesDo
  <2>2. CASE k # c
    BY <1>8, <1>9, <2>1, <2>2 DEF PagesDo
  <2>3. CASE k = c
    <3>1. PICK t \in StreamStates :
            /\ StreamIs(t, Append(streams[c].due, Tick(n)), n, streams[c].queue, streams[c].read)
            /\ streams' = [streams EXCEPT ![c] = t]
      BY <2>1 DEF StreamTakes
    <3>2. streams'[k] = t
      BY <2>3, <3>1, OtherStreamsStay
    <3>3. calls[k].step = "convert" /\ calls' = calls
      BY <1>9, <2>3 DEF PagesDo, CallAt
    <3>4. OpenPages(Delivery(streams[k]), streams[k].scheduled)
      BY <1>1, <3>3 DEF PageStreamInv
    <3>5. PageStreamInv(t, "convert", calls[k].pages)
      BY <1>2, <2>1, <2>3, <3>1, <3>4, PagesSound
    <3> QED
      BY <3>2, <3>3, <3>5
  <2> QED
    BY <2>2, <2>3
<1>10. ASSUME NEW c \in ParseCalls, PutDoes(c) PROVE After(k)
  <2>1. CASE k # c
    BY <1>8, <1>10, <2>1 DEF PutDoes
  <2>2. CASE k = c
    <3>1. PICK t \in StreamStates :
            /\ StreamIs(t, Tail(streams[c].due), streams[c].scheduled,
                        Append(streams[c].queue, Head(streams[c].due)), streams[c].read)
            /\ streams' = [streams EXCEPT ![c] = t]
      BY <1>10 DEF PutDoes, StreamTakes
    <3>2. streams'[k] = t
      BY <2>2, <3>1, OtherStreamsStay
    <3>3. streams[k].due # <<>> /\ calls' = calls
      BY <1>10, <2>2 DEF PutDoes
    <3>4. PageStreamInv(t, calls[k].step, calls[k].pages)
      BY <1>1, <1>2, <2>2, <3>1, <3>3, PutSound
    <3> QED
      BY <3>2, <3>3, <3>4
  <2> QED
    BY <2>1, <2>2
<1>11. ASSUME NEW c \in ParseCalls, ReadDoes(c) PROVE After(k)
  <2>1. CASE k # c
    BY <1>8, <1>11, <2>1 DEF ReadDoes
  <2>2. CASE k = c
    <3>1. PICK t \in StreamStates :
            /\ StreamIs(t, streams[c].due, streams[c].scheduled, Tail(streams[c].queue),
                        Append(streams[c].read, Head(streams[c].queue)))
            /\ streams' = [streams EXCEPT ![c] = t]
      BY <1>11 DEF ReadDoes, StreamTakes
    <3>2. streams'[k] = t
      BY <2>2, <3>1, OtherStreamsStay
    <3>3. /\ streams[k].queue # <<>> /\ calls' = calls
          /\ \A i \in 1..Len(streams[k].read) : streams[k].read[i] # Closing("sentinel")
      BY <1>11, <2>2 DEF ReadDoes
    <3>4. PageStreamInv(t, calls[k].step, calls[k].pages)
      BY <1>1, <1>2, <2>2, <3>1, <3>3, ReadSound
    <3> QED
      BY <3>2, <3>3, <3>4
  <2> QED
    BY <2>1, <2>2
<1>12. ASSUME NEW c \in ParseCalls, NEW e \in {"result", "error"}, EndDoes(c, e) PROVE After(k)
  <2>1. CASE k # c
    BY <1>2, <1>8, <1>12, <2>1 DEF EndDoes, CallTakes
  <2>2. CASE k = c
    <3>1. PICK t \in StreamStates :
            /\ StreamIs(t, streams[c].due, streams[c].scheduled,
                        streams[c].queue \o <<Closing(e), Closing("sentinel")>>, streams[c].read)
            /\ streams' = [streams EXCEPT ![c] = t]
      BY <1>12 DEF EndDoes, StreamTakes
    <3>2. streams'[k] = t
      BY <2>2, <3>1, OtherStreamsStay
    <3>3. /\ calls[k].step = IF e = "result" THEN "draining" ELSE "failing"
          /\ calls'[k].step = "ended" /\ calls'[k].pages = calls[k].pages
          /\ e = "result" => streams[k].due = <<>>
      BY <1>2, <1>12, <2>2 DEF EndDoes, CallTakes
    <3>4. /\ OpenPages(Delivery(streams[k]), streams[k].scheduled)
          /\ e = "result" => streams[k].scheduled = calls[k].pages
      BY <1>1, <3>3 DEF PageStreamInv
    <3>5. PageStreamInv(t, "ended", calls[k].pages)
      BY <1>2, <2>2, <3>1, <3>3, <3>4, EndSound
    <3> QED
      BY <3>2, <3>3, <3>5
  <2> QED
    BY <2>1, <2>2
<1>13. CASE UNCHANGED parse_vars
  BY <1>3, <1>13 DEF parse_vars
<1>14. ASSUME NEW p \in Profiles, EvictDoes(p) PROVE After(k)
  BY <1>3, <1>14 DEF EvictDoes
<1> HIDE DEF Before, After
<1> QED
  BY <1>5, <1>6, <1>7, <1>9, <1>10, <1>11, <1>12, <1>13, <1>14, ParseStepCases

LEMMA ParseStarts == ParseInit => ParseInv
<1> SUFFICES ASSUME ParseInit PROVE ParseInv
  OBVIOUS
<1>1. NewCall \in CallStates /\ NewStream \in StreamStates
  BY DEF NewCall, NewStream, CallStates, ParseSteps, StreamStates, EventSeqs
<1>2. ParseType
  BY <1>1 DEF ParseInit, ParseType, NewCall, CallAt
<1>3. BuildInv
  BY DEF ParseInit, BuildInv, BuiltOnce, NewCall, CallAt
<1>4. ASSUME NEW c \in ParseCalls PROVE PipeInv(c)
  <2>1. /\ streams[c].due = <<>> /\ streams[c].queue = <<>> /\ streams[c].read = <<>>
        /\ streams[c].scheduled = 0 /\ calls[c].step = "new"
    BY <1>4, ParseCallsAreCalls DEF ParseInit, NewCall, NewStream
  <2>2. Delivery(streams[c]) \in EventSeqs /\ Len(Delivery(streams[c])) = 0
    <3>1. streams[c] \in StreamStates
      BY <1>2, StreamOf
    <3>2. /\ Len(Delivery(streams[c])) = Len(Arrived(streams[c])) + Len(streams[c].due)
          /\ Len(Arrived(streams[c])) = Len(streams[c].read) + Len(streams[c].queue)
          /\ Delivery(streams[c]) \in EventSeqs
      BY <3>1, DeliveryType
    <3>3. Len(<<>>) = 0
      OBVIOUS
    <3> QED
      BY <2>1, <3>2, <3>3
  <2>3. OpenPages(Delivery(streams[c]), 0)
    BY <2>2 DEF OpenPages
  <2> QED
    BY <2>1, <2>3, ParseCallsAreCalls DEF PipeInv, CallAt
<1> QED
  BY <1>2, <1>3, <1>4 DEF ParseInv

-----------------------------------------------------------------------------
(* What a client reads.                                                     *)

\* A client of an open stream has read ticks in order; of a closed one, ticks in
\* order up to the terminal event, and its sentinel.
LEMMA WhatWasRead ==
  ASSUME ParseInv, NEW c \in ParseCalls
  PROVE  LET r == streams[c].read
             ends == {i \in DOMAIN r : r[i].type \in {"result", "error"}}
         IN /\ \A i \in ends :
                 /\ i = Len(r) \/ (i = Len(r) - 1 /\ r[i + 1] = Closing("sentinel"))
                 /\ (r[i].type = "result" /\ calls[c].pages > 0) =>
                      i > 1 /\ r[i - 1] = Tick(calls[c].pages)
            /\ \A i, j \in DOMAIN r \ ends :
                 (i < j /\ r[j].type = "progress") => r[i].page < r[j].page
<1> DEFINE s == streams[c]
           r == s.read
           w == Delivery(s)
           n == calls[c].pages
           ends == {i \in DOMAIN r : r[i].type \in {"result", "error"}}
<1>1. PageStreamInv(s, calls[c].step, n)
  BY PipeIs DEF ParseInv
<1>2. /\ r \in Seq(ParseEvents) /\ DOMAIN r = 1..Len(r) /\ Len(r) \in Nat
  BY StreamOf DEF ParseInv, EventSeqs
<1>3. \A i \in 1..Len(r) : r[i] = w[i] /\ i \in 1..Len(w)
  BY StreamOf, DeliveryType DEF ParseInv
<1>4. \A e : IsTick(e) => e.type = "progress"
  BY DEF IsTick, Tick
<1> HIDE DEF s, r, w, n
<1>5. CASE calls[c].step # "ended"
  <2>1. OpenPages(w, s.scheduled)
    BY <1>1, <1>5 DEF PageStreamInv, w
  <2>2. \A i \in 1..Len(r) : r[i].type = "progress"
    BY <1>3, <1>4, <2>1 DEF OpenPages
  <2>3. ends = {}
    BY <1>2, <2>2
  <2>4. \A i, j \in DOMAIN r : i < j => r[i].page < r[j].page
    BY <1>2, <1>3, <2>1 DEF OpenPages
  <2> QED
    BY <2>3, <2>4 DEF r, s
<1>6. CASE calls[c].step = "ended"
  <2>1. PICK m \in Nat \ {0} : ClosedStream(w, n, m) /\ Len(r) <= m + 1
    BY <1>1, <1>6 DEF PageStreamInv, w, r
  <2>2. \A i \in 1..Len(r) : i # m => i \notin ends
    <3>1. ASSUME NEW i \in 1..Len(r), i # m, i # m + 1 PROVE r[i].type = "progress"
      BY <1>3, <1>4, <2>1, <3>1 DEF ClosedStream
    <3>2. ASSUME m + 1 \in 1..Len(r) PROVE r[m + 1].type = "sentinel"
      BY <1>3, <2>1, <3>2 DEF ClosedStream, Closing
    <3> QED
      BY <3>1, <3>2
  <2>3. m \in 1..Len(r) => m \in ends
    BY <1>2, <1>3, <2>1 DEF ClosedStream, Closing
  <2>4. ASSUME NEW i \in ends
        PROVE  /\ i = Len(r) \/ (i = Len(r) - 1 /\ r[i + 1] = Closing("sentinel"))
               /\ (r[i].type = "result" /\ n > 0) => i > 1 /\ r[i - 1] = Tick(n)
    <3>1. i = m /\ m \in 1..Len(r)
      BY <1>2, <2>2
    <3>2. Len(r) \in Nat /\ m \in Nat /\ Len(r) <= m + 1
      BY <1>2, <2>1
    <3>3. \A x, y \in Nat : y \in 1..x /\ x <= y + 1 =>
            x = y \/ (y = x - 1 /\ y + 1 = x /\ x \in 1..x)
      OBVIOUS
    <3>4. Len(r) = m \/ (m = Len(r) - 1 /\ m + 1 = Len(r) /\ Len(r) \in 1..Len(r))
      BY <3>1, <3>2, <3>3
    <3>5. ASSUME r[m].type = "result", n > 0 PROVE m > 1 /\ r[m - 1] = Tick(n)
      <4>1. w[m] = Closing("result")
        BY <1>3, <2>1, <3>1, <3>5 DEF ClosedStream, Closing
      <4>2. m > 1 /\ w[m - 1] = Tick(n)
        BY <2>1, <3>5, <4>1 DEF ClosedStream
      <4>3. m - 1 \in 1..Len(r)
        BY <1>2, <3>1, <4>2
      <4> QED
        BY <1>3, <4>2, <4>3
    <3> HIDE DEF ends
    <3>6. i = Len(r) \/ (i = Len(r) - 1 /\ r[i + 1] = Closing("sentinel"))
      <4>1. w[m + 1] = Closing("sentinel")
        BY <2>1 DEF ClosedStream
      <4>2. m + 1 = Len(r) /\ Len(r) \in 1..Len(r) => r[m + 1] = Closing("sentinel")
        BY <1>3, <4>1
      <4> QED
        BY <3>1, <3>4, <4>2
    <3> QED
      BY <3>1, <3>5, <3>6
  <2>5. ASSUME NEW i \in DOMAIN r \ ends, NEW j \in DOMAIN r \ ends, i < j,
               r[j].type = "progress"
        PROVE  r[i].page < r[j].page
    <3>1. i \in 1..Len(r) /\ j \in 1..Len(r) /\ i # m /\ j # m
      BY <1>2, <2>3
    <3>2. j # m + 1
      <4>1. ASSUME j = m + 1 PROVE FALSE
        BY <1>3, <2>1, <2>5, <3>1, <4>1 DEF ClosedStream, Closing
      <4> QED
        BY <4>1
    <3>3. j < m
      BY <1>2, <2>1, <3>1, <3>2
    <3> QED
      BY <1>3, <2>1, <2>5, <3>1, <3>3 DEF ClosedStream
  <2> HIDE DEF ends
  <2>6. /\ \A i \in ends :
             /\ i = Len(r) \/ (i = Len(r) - 1 /\ r[i + 1] = Closing("sentinel"))
             /\ (r[i].type = "result" /\ n > 0) => i > 1 /\ r[i - 1] = Tick(n)
        /\ \A i, j \in DOMAIN r \ ends :
             (i < j /\ r[j].type = "progress") => r[i].page < r[j].page
    BY <2>4, <2>5
  <2> QED
    BY <2>6 DEF r, s, n, ends
<1> QED
  BY <1>5, <1>6

\* The calls that race for a converter share the one that was built: as many were
\* built as were evicted, and one more while one is cached.  And what the client of
\* a conversion reads is in order and whole: its ticks in the order of the pages, its
\* result after the tick of the last page, nothing after the terminal event.
THEOREM ParsingStaysSound == ParseSpec => []ParsingSound
<1>1. ParseInit => ParseInv
  BY ParseStarts
<1>2. ParseInv /\ [ParseNext]_parse_vars => ParseInv'
  <2> SUFFICES ASSUME ParseInv, [ParseNext]_parse_vars PROVE ParseInv'
    OBVIOUS
  <2>1. ParseType /\ BuildInv /\ \A c \in ParseCalls : PipeInv(c)
    BY DEF ParseInv
  <2>2. ParseType'
    BY <2>1, ParseTypeStep
  <2>3. BuildInv'
    BY <2>1, BuildStep
  <2>4. \A c \in ParseCalls : PipeInv(c)'
    BY <2>1, PipeStep
  <2> QED
    BY <2>2, <2>3, <2>4 DEF ParseInv
<1>3. ParseInv => ParsingSound
  <2> SUFFICES ASSUME ParseInv PROVE BuiltOnce /\ ResultAfterPages
    BY DEF ParsingSound
  <2>1. BuiltOnce
    BY DEF ParseInv, BuildInv
  <2>2. ResultAfterPages
    BY WhatWasRead DEF ResultAfterPages
  <2> QED
    BY <2>1, <2>2
<1> QED
  BY <1>1, <1>2, <1>3, PTL DEF ParseSpec

=============================================================================
