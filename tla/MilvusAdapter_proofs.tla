------------------------- MODULE MilvusAdapter_proofs -------------------------
(***************************************************************************)
(* What _using_db does guarantee, for any number of threads, databases and  *)
(* calls: a thread is led astray by another thread's switch, or by a second *)
(* client, and by nothing else; and that the caches, read and invalidated   *)
(* by the same threads, are wrong only where the race is a known one.       *)
(***************************************************************************)
EXTENDS MilvusAdapter, SequenceTheorems, TLAPS

Steps ==
  {"has", "describe", "check", "bind", "build", "askHas", "keepHas", "askShape",
   "keepShape", "forget", "query", "create", "drop", "makeIndex", "dropIndex",
   "tryDropIndex", "noDb", "needDb", "createDb", "listAll", "dropEach", "dropDb"}

\* The thread will make an RPC before it binds again.
Exposed(s) ==
  \E i \in 1..Len(s) : s[i] \in Rpcs /\ \A j \in 1..(i - 1) : s[j] # "bind"

NoBuild(s) == \A i \in 1..Len(s) : s[i] # "build"

ReachType ==
  /\ todo \in [Threads -> Seq(Steps)]
  /\ key \in [Threads -> Keys]
  /\ since \in [Threads -> SUBSET {"switch", "change", "error"}]
  /\ got = [t \in Threads |-> got[t]]
  /\ bound \in Databases /\ dbs \subseteq Databases
  /\ built \in Nat

\* Only the first step may build a client, and a first client is built in the
\* database that is noted; what _bound_db notes is where the only client is.
ConnectionInv ==
  /\ client = None <=> built = 0
  /\ built = 1 => client = bound
  /\ \A t \in Threads :
       /\ \A i \in 2..Len(todo[t]) : todo[t][i] # "build"
       /\ built = 0 /\ At(t, "build") => got[t] = bound

\* A thread that goes on without binding is in its database.
ReachesInv ==
  \A t \in Threads :
    Exposed(todo[t]) /\ built <= 1 /\ "switch" \notin since[t]
      => client = key[t][1]

ReachInv == ReachType /\ ConnectionInv /\ ReachesInv

-----------------------------------------------------------------------------
(* The steps of a call as a sequence.                                      *)

LEMMA TailSteps ==
  ASSUME NEW s \in Seq(Steps), s # <<>>,
         \A i \in 2..Len(s) : s[i] # "build"
  PROVE  /\ Tail(s) \in Seq(Steps)
         /\ NoBuild(Tail(s))
         /\ Head(s) # "bind" /\ Exposed(Tail(s)) => Exposed(s)
<1>1. Tail(s) \in Seq(Steps) /\ Len(s) \in Nat /\ Len(Tail(s)) = Len(s) - 1
  OBVIOUS
<1>2. \A i \in 1..Len(Tail(s)) : Tail(s)[i] = s[i + 1]
  OBVIOUS
<1>3. NoBuild(Tail(s))
  BY <1>1, <1>2 DEF NoBuild
<1>4. ASSUME Head(s) # "bind", Exposed(Tail(s)) PROVE Exposed(s)
  <2>1. PICK i \in 1..Len(Tail(s)) :
          Tail(s)[i] \in Rpcs /\ \A j \in 1..(i - 1) : Tail(s)[j] # "bind"
    BY <1>4 DEF Exposed
  <2>2. i + 1 \in 1..Len(s) /\ s[i + 1] \in Rpcs
    BY <1>1, <1>2, <2>1
  <2>3. \A j \in 1..i : s[j] # "bind"
    <3> SUFFICES ASSUME NEW j \in 1..i PROVE s[j] # "bind"
      OBVIOUS
    <3>1. CASE j = 1
      <4>1. s[1] = Head(s)
        OBVIOUS
      <4> QED
        BY <1>4, <3>1, <4>1
    <3>2. CASE j # 1
      BY <1>1, <1>2, <2>1, <3>2
    <3> QED
      BY <3>1, <3>2
  <2> QED
    BY <2>2, <2>3 DEF Exposed
<1> QED
  BY <1>1, <1>3, <1>4

\* Steps that begin with "bind" expose nothing.
LEMMA BindFirst ==
  ASSUME NEW p \in Seq(Steps), NEW s \in Seq(Steps),
         p # <<>>, Head(p) = "bind", NoBuild(p), NoBuild(s)
  PROVE  p \o s \in Seq(Steps) /\ ~ Exposed(p \o s) /\ NoBuild(p \o s)
<1>1. /\ p \o s \in Seq(Steps)
      /\ Len(p \o s) = Len(p) + Len(s) /\ Len(p) \in Nat \ {0} /\ Len(s) \in Nat
      /\ \A i \in 1..Len(p) : (p \o s)[i] = p[i]
      /\ \A i \in 1..Len(p \o s) : i > Len(p) => (p \o s)[i] = s[i - Len(p)]
  OBVIOUS
<1>2. (p \o s)[1] = "bind"
  BY <1>1
<1>3. ~ Exposed(p \o s)
  <2> SUFFICES ASSUME NEW i \in 1..Len(p \o s), (p \o s)[i] \in Rpcs,
                      \A j \in 1..(i - 1) : (p \o s)[j] # "bind"
               PROVE  FALSE
    BY DEF Exposed
  <2>1. i # 1
    BY <1>2 DEF Rpcs
  <2> QED
    BY <1>1, <1>2, <2>1
<1>4. NoBuild(p \o s)
  <2> SUFFICES ASSUME NEW i \in 1..Len(p \o s) PROVE (p \o s)[i] # "build"
    BY DEF NoBuild
  <2>1. CASE i <= Len(p)
    BY <1>1, <2>1 DEF NoBuild
  <2>2. CASE i > Len(p)
    BY <1>1, <2>2 DEF NoBuild
  <2> QED
    BY <1>1, <2>1, <2>2
<1> QED
  BY <1>1, <1>3, <1>4

\* A step put first that is neither an RPC nor a bind changes nothing.
LEMMA OneMore ==
  ASSUME NEW x \in Steps, NEW s \in Seq(Steps), x \notin Rpcs
  PROVE  /\ <<x>> \o s \in Seq(Steps)
         /\ Len(<<x>> \o s) = Len(s) + 1
         /\ (<<x>> \o s)[1] = x
         /\ \A i \in 1..Len(s) : (<<x>> \o s)[i + 1] = s[i]
         /\ x # "bind" /\ Exposed(<<x>> \o s) => Exposed(s)
<1> DEFINE q == <<x>> \o s
<1>1. /\ q \in Seq(Steps) /\ Len(q) = Len(s) + 1 /\ q[1] = x /\ Len(s) \in Nat
      /\ \A i \in 1..Len(s) : q[i + 1] = s[i]
  OBVIOUS
<1>2. ASSUME x # "bind", Exposed(q) PROVE Exposed(s)
  <2>1. PICK i \in 1..Len(q) : q[i] \in Rpcs /\ \A j \in 1..(i - 1) : q[j] # "bind"
    BY <1>2 DEF Exposed
  <2>2. i - 1 \in 1..Len(s) /\ s[i - 1] \in Rpcs
    BY <1>1, <2>1
  <2>3. \A j \in 1..(i - 2) : s[j] # "bind"
    <3> SUFFICES ASSUME NEW j \in 1..(i - 2) PROVE s[j] # "bind"
      OBVIOUS
    <3>1. j + 1 \in 1..(i - 1) /\ j \in 1..Len(s)
      BY <1>1, <2>1
    <3> QED
      BY <1>1, <2>1, <3>1
  <2> QED
    BY <2>2, <2>3 DEF Exposed
<1> QED
  BY <1>1, <1>2

LEMMA BindHead ==
  ASSUME NEW s \in Seq(Steps), s # <<>>, s[1] = "bind"
  PROVE  ~ Exposed(s)
<1> SUFFICES ASSUME NEW i \in 1..Len(s), s[i] \in Rpcs,
                    \A j \in 1..(i - 1) : s[j] # "bind"
             PROVE  FALSE
  BY DEF Exposed
<1>1. i # 1
  BY DEF Rpcs
<1> QED
  BY <1>1

Harmless(m) == m \in Seq(Steps) /\ ~ Exposed(m) /\ NoBuild(m)

LEMMA MethodSteps == \A m \in Methods : Harmless(m)
<1> USE DEF Harmless, NoBuild
<1>1. Harmless(<<"has">>)
  BY DEF Exposed, Rpcs, Steps
<1>2. Harmless(<<"describe">>)
  BY DEF Exposed, Rpcs, Steps
<1>3. Harmless(<<"noDb", "createDb">>)
  BY DEF Exposed, Rpcs, Steps
<1>4. Harmless(<<"needDb", "bind", "listAll", "dropDb">>)
  BY DEF Exposed, Rpcs, Steps
<1>5. Harmless(<<"bind", "query">>)
  BY DEF Exposed, Rpcs, Steps
<1>6. Harmless(<<"bind", "create", "forget">>)
  BY DEF Exposed, Rpcs, Steps
<1>7. Harmless(<<"bind", "has", "drop", "forget">>)
  BY DEF Exposed, Rpcs, Steps
<1>8. Harmless(<<"bind", "has", "query">>)
  BY DEF Exposed, Rpcs, Steps
<1>9. Harmless(<<"bind", "has", "describe", "check", "query">>)
  <2> DEFINE p == <<"bind", "has", "describe", "check", "query">>
  <2>1. p \in Seq(Steps) /\ p # <<>> /\ p[1] = "bind"
    BY DEF Steps
  <2>2. NoBuild(p)
    OBVIOUS
  <2> HIDE DEF p
  <2>3. Harmless(p)
    BY <2>1, <2>2, BindHead
  <2> QED
    BY <2>3 DEF p
<1>10. Harmless(<<"bind", "has", "describe", "check", "query", "forget">>)
  <2> DEFINE p == <<"bind", "has", "describe", "check", "query", "forget">>
  <2>1. p \in Seq(Steps) /\ p # <<>> /\ p[1] = "bind"
    BY DEF Steps
  <2>2. NoBuild(p)
    OBVIOUS
  <2> HIDE DEF p
  <2>3. Harmless(p)
    BY <2>1, <2>2, BindHead
  <2> QED
    BY <2>3 DEF p
<1>11. Harmless(<<"bind", "has", "describe", "check", "dropIndex", "forget">>)
  <2> DEFINE p == <<"bind", "has", "describe", "check", "dropIndex", "forget">>
  <2>1. p \in Seq(Steps) /\ p # <<>> /\ p[1] = "bind"
    BY DEF Steps
  <2>2. NoBuild(p)
    OBVIOUS
  <2> HIDE DEF p
  <2>3. Harmless(p)
    BY <2>1, <2>2, BindHead
  <2> QED
    BY <2>3 DEF p
<1>12. Harmless(<<"bind", "has", "describe", "check", "tryDropIndex", "makeIndex",
                 "forget">>)
  <2> DEFINE p == <<"bind", "has", "describe", "check", "tryDropIndex", "makeIndex", "forget">>
  <2>1. p \in Seq(Steps) /\ p # <<>> /\ p[1] = "bind"
    BY DEF Steps
  <2>2. NoBuild(p)
    OBVIOUS
  <2> HIDE DEF p
  <2>3. Harmless(p)
    BY <2>1, <2>2, BindHead
  <2> QED
    BY <2>3 DEF p
<1>13. Harmless(<<"needDb">> \o <<"bind", "create", "forget">>)
  <2> DEFINE p == <<"bind", "create", "forget">>
             q == <<"needDb">> \o p
  <2>1. /\ q \in Seq(Steps) /\ Len(q) = Len(p) + 1 /\ q[1] = "needDb"
        /\ \A i \in 1..Len(p) : q[i + 1] = p[i]
        /\ Exposed(q) => Exposed(p)
    <3>1. "needDb" \in Steps \ Rpcs
      BY DEF Rpcs, Steps
    <3> HIDE DEF p
    <3>2. p \in Seq(Steps)
      BY <1>6 DEF p
    <3> QED
      BY <3>1, <3>2, OneMore
  <2>2. p \in Seq(Steps) /\ NoBuild(p) /\ ~ Exposed(p)
    BY <1>6
  <2> HIDE DEF p, q
  <2>3. NoBuild(q)
    <3> SUFFICES ASSUME NEW i \in 1..Len(q) PROVE q[i] # "build"
      OBVIOUS
    <3>1. CASE i = 1
      BY <2>1, <3>1
    <3>2. CASE i # 1
      <4>1. i - 1 \in 1..Len(p) /\ q[(i - 1) + 1] = p[i - 1]
        BY <2>1, <2>2, <3>2
      <4> QED
        BY <2>2, <4>1
    <3> QED
      BY <3>1, <3>2
  <2>4. Harmless(q)
    BY <2>1, <2>2, <2>3
  <2> QED
    BY <2>4 DEF q, p
<1> HIDE DEF Harmless
<1> QED
  BY <1>1, <1>2, <1>3, <1>4, <1>5, <1>6, <1>7, <1>8, <1>9, <1>10, <1>11, <1>12,
     <1>13
  DEF Methods, HasCollection, DescribeCollection, CreateDatabase, DropDatabase,
      ListCollections, StoreCreateCollection, CreateCollection, DropCollection,
      CreateIndex, DropIndex, Upsert, Delete, Count, Get, Browse, Search,
      SearchSparse

-----------------------------------------------------------------------------
(* The invariant.                                                          *)

LEMMA ReachInit == Init => ReachInv
<1> SUFFICES ASSUME Init PROVE ReachInv
  OBVIOUS
<1>1. \A t \in Threads : todo[t] = <<>> /\ Len(todo[t]) = 0
  BY DEF Init
<1>2. PICK c \in Collections : key = [t \in Threads |-> <<Default, c>>]
  BY DEF Init
<1>3. ReachType
  BY <1>2, MilvusAssumption DEF Init, ReachType, Keys
<1>4. ConnectionInv
  BY <1>1, MilvusAssumption DEF Init, ConnectionInv, At
<1>5. ReachesInv
  BY <1>1 DEF ReachesInv, Exposed
<1> QED
  BY <1>3, <1>4, <1>5 DEF ReachInv

\* Thread t goes on with steps s2, and touches neither the client nor what it
\* will do there.
QuietTo(t, s2) ==
  /\ todo' = [todo EXCEPT ![t] = s2] /\ s2 \in Seq(Steps) /\ NoBuild(s2)
  /\ Exposed(s2) => Exposed(todo[t])
  /\ UNCHANGED <<client, bound, built, key>>
  /\ got' = [u \in Threads |-> got'[u]] /\ \A u \in Threads \ {t} : got'[u] = got[u]
  /\ since' \in [Threads -> SUBSET {"switch", "change", "error"}]
  /\ \A u \in Threads : since[u] \subseteq since'[u]
  /\ dbs' \subseteq Databases

LEMMA QuietStep ==
  ASSUME ReachInv, NEW t \in Threads, NEW s2, QuietTo(t, s2)
  PROVE  ReachInv'
<1> USE DEF ReachInv, QuietTo
<1>1. \A u \in Threads : todo'[u] = IF u = t THEN s2 ELSE todo[u]
  BY DEF ReachType
<1>2. ReachType'
  BY DEF ReachType
<1>3. ConnectionInv'
  <2>1. \A u \in Threads : \A i \in 2..Len(todo'[u]) : todo'[u][i] # "build"
    BY <1>1 DEF ConnectionInv, NoBuild
  <2>2. ASSUME NEW u \in Threads, built = 0, At(u, "build")'
        PROVE  got'[u] = bound
    <3>1. CASE u = t
      <4>1. s2 # <<>> /\ s2[1] = "build"
        BY <1>1, <2>2, <3>1 DEF At
      <4> QED
        BY <4>1 DEF NoBuild
    <3>2. CASE u # t
      BY <1>1, <2>2, <3>2 DEF At, ConnectionInv
    <3> QED
      BY <3>1, <3>2
  <2> QED
    BY <2>1, <2>2 DEF ConnectionInv
<1>4. ReachesInv'
  <2> SUFFICES ASSUME NEW u \in Threads, Exposed(todo'[u]), built <= 1,
                      "switch" \notin since'[u]
               PROVE  client = key[u][1]
    BY DEF ReachesInv
  <2>1. Exposed(todo[u])
    BY <1>1
  <2> QED
    BY <2>1 DEF ReachesInv
<1> QED
  BY <1>2, <1>3, <1>4

\* What News does to the others.
LEMMA NewsAdds ==
  ASSUME ReachType, NEW t \in Threads, NEW what \in {"switch", "change", "error"},
         News(t, what)
  PROVE  /\ since' \in [Threads -> SUBSET {"switch", "change", "error"}]
         /\ \A u \in Threads : since[u] \subseteq since'[u]
BY DEF ReachType, News

LEMMA OnwardSteps ==
  ASSUME ReachInv, NEW t \in Threads, todo[t] # <<>>, Head(todo[t]) # "bind"
  PROVE  /\ Tail(todo[t]) \in Seq(Steps) /\ NoBuild(Tail(todo[t]))
         /\ Exposed(Tail(todo[t])) => Exposed(todo[t])
BY TailSteps DEF ReachInv, ReachType, ConnectionInv

LEMMA NoSteps == <<>> \in Seq(Steps) /\ NoBuild(<<>>) /\ ~ Exposed(<<>>)
BY DEF NoBuild, Exposed

LEMMA ForgetSteps ==
  <<"forget">> \in Seq(Steps) /\ NoBuild(<<"forget">>) /\ ~ Exposed(<<"forget">>)
BY DEF Steps, NoBuild, Exposed, Rpcs

Detours == {<<"bind", "askHas", "keepHas">>,
            <<"bind", "has", "askShape", "keepShape">>, <<"dropEach">>}

\* The ways in which a step other than those of the connection goes on.
Moves(t) ==
  \/ Onward(t) \/ Abandon(t) \/ Go(t, <<"forget">>) \/ UNCHANGED todo
  \/ \E p \in Detours : Instead(t, p)

\* What such a step leaves alone.
Undisturbing(t) ==
  /\ UNCHANGED <<client, bound, built, key>>
  /\ got' = [u \in Threads |-> got'[u]] /\ \A u \in Threads \ {t} : got'[u] = got[u]
  /\ since' \in [Threads -> SUBSET {"switch", "change", "error"}]
  /\ \A u \in Threads : since[u] \subseteq since'[u]
  /\ dbs' \subseteq Databases

LEMMA DetourSteps ==
  \A p \in {<<"bind", "askHas", "keepHas">>,
            <<"bind", "has", "askShape", "keepShape">>} :
    p \in Seq(Steps) /\ p # <<>> /\ Head(p) = "bind" /\ NoBuild(p)
<1>1. LET p == <<"bind", "askHas", "keepHas">>
      IN  p \in Seq(Steps) /\ p # <<>> /\ Head(p) = "bind" /\ NoBuild(p)
  BY DEF Steps, NoBuild
<1>2. LET p == <<"bind", "has", "askShape", "keepShape">>
      IN  p \in Seq(Steps) /\ p # <<>> /\ Head(p) = "bind" /\ NoBuild(p)
  BY DEF Steps, NoBuild
<1> QED
  BY <1>1, <1>2

LEMMA QuietMove ==
  ASSUME ReachInv, NEW t \in Threads, Undisturbing(t), Moves(t),
         todo[t] # <<>>, Head(todo[t]) \notin {"bind", "build"}
  PROVE  ReachInv'
<1> USE DEF Undisturbing, Go
<1>1. CASE Onward(t)
  <2>1. QuietTo(t, Tail(todo[t]))
    BY <1>1, OnwardSteps DEF Onward, QuietTo
  <2> QED
    BY <2>1, QuietStep
<1>2. CASE Abandon(t)
  <2>1. QuietTo(t, <<>>)
    BY <1>2, NoSteps DEF Abandon, QuietTo
  <2> QED
    BY <2>1, QuietStep
<1>3. CASE Go(t, <<"forget">>)
  <2>1. QuietTo(t, <<"forget">>)
    BY <1>3, ForgetSteps DEF QuietTo
  <2> QED
    BY <2>1, QuietStep
<1>4. CASE UNCHANGED todo
  <2>1. todo[t] \in Seq(Steps)
    BY DEF ReachInv, ReachType
  <2>2. NoBuild(todo[t])
    <3>1. todo[t][1] # "build"
      BY <2>1
    <3> QED
      BY <2>1, <3>1 DEF NoBuild, ReachInv, ConnectionInv
  <2>3. todo' = [todo EXCEPT ![t] = todo[t]]
    BY <1>4 DEF ReachInv, ReachType
  <2>4. QuietTo(t, todo[t])
    BY <2>1, <2>2, <2>3 DEF QuietTo
  <2> QED
    BY <2>4, QuietStep
<1>5. ASSUME NEW p \in Detours, Instead(t, p) PROVE ReachInv'
  <2> DEFINE rest == Tail(todo[t])
  <2>1. rest \in Seq(Steps) /\ NoBuild(rest) /\ (Exposed(rest) => Exposed(todo[t]))
    BY OnwardSteps
  <2> HIDE DEF rest
  <2>2. p \o rest \in Seq(Steps) /\ NoBuild(p \o rest)
          /\ (Exposed(p \o rest) => Exposed(todo[t]))
    <3>1. CASE p # <<"dropEach">>
      <4>1. p \in Seq(Steps) /\ p # <<>> /\ Head(p) = "bind" /\ NoBuild(p)
        BY <3>1, DetourSteps DEF Detours
      <4> QED
        BY <2>1, <4>1, BindFirst
    <3>2. CASE p = <<"dropEach">>
      <4>1. "dropEach" \in Steps \ Rpcs
        BY DEF Steps, Rpcs
      <4>2. /\ p \o rest \in Seq(Steps) /\ Len(p \o rest) = Len(rest) + 1
            /\ (p \o rest)[1] = "dropEach"
            /\ \A i \in 1..Len(rest) : (p \o rest)[i + 1] = rest[i]
            /\ Exposed(p \o rest) => Exposed(rest)
        BY <2>1, <3>2, <4>1, OneMore
      <4>3. NoBuild(p \o rest)
        <5> SUFFICES ASSUME NEW i \in 1..Len(p \o rest) PROVE (p \o rest)[i] # "build"
          BY DEF NoBuild
        <5>1. CASE i = 1
          BY <4>2, <5>1
        <5>2. CASE i # 1
          <6>1. i - 1 \in 1..Len(rest) /\ (p \o rest)[(i - 1) + 1] = rest[i - 1]
            BY <2>1, <4>2, <5>2
          <6> QED
            BY <2>1, <6>1 DEF NoBuild
        <5> QED
          BY <5>1, <5>2
      <4> QED
        BY <2>1, <4>2, <4>3
    <3> QED
      BY <3>1, <3>2
  <2>3. QuietTo(t, p \o rest)
    BY <1>5, <2>2 DEF Instead, QuietTo, rest
  <2> QED
    BY <2>3, QuietStep
<1> QED
  BY <1>1, <1>2, <1>3, <1>4, <1>5 DEF Moves

\* Every step of a call but those of the connection.
LEMMA CallMoves ==
  ASSUME ReachInv, NEW t \in Threads, Step(t),
         ~ Connect(t), ~ Build(t), ~ Bind(t)
  PROVE  /\ Undisturbing(t) /\ Moves(t)
         /\ todo[t] # <<>> /\ Head(todo[t]) \notin {"bind", "build"}
<1> USE DEF ReachInv, ReachType, Undisturbing, Moves, At, Local, client_vars,
        backend, caches
<1>1. CASE Check(t)
  BY <1>1 DEF Check
<1>2. CASE Has(t)
  <2>1. <<"bind", "askHas", "keepHas">> \in Detours
    BY DEF Detours
  <2>2. Onward(t) \/ Abandon(t) \/ Instead(t, <<"bind", "askHas", "keepHas">>)
    BY <1>2 DEF Has
  <2>3. Moves(t)
    BY <2>1, <2>2
  <2>4. Undisturbing(t) /\ todo[t] # <<>> /\ Head(todo[t]) = "has"
    BY <1>2 DEF Has
  <2> QED
    BY <2>3, <2>4
<1>3. CASE AskHas(t)
  <2>1. /\ since' \in [Threads -> SUBSET {"switch", "change", "error"}]
        /\ \A u \in Threads : since[u] \subseteq since'[u]
    <3>1. UNCHANGED since \/ since' = [since EXCEPT ![t] = @ \cup {"error"}]
      BY <1>3 DEF AskHas
    <3>2. since \in [Threads -> SUBSET {"switch", "change", "error"}]
      OBVIOUS
    <3> HIDE DEF ReachInv, ReachType
    <3> QED
      BY <3>1, <3>2
  <2>2. got' = [u \in Threads |-> got'[u]] /\ \A u \in Threads \ {t} : got'[u] = got[u]
    BY <1>3 DEF AskHas
  <2> QED
    BY <1>3, <2>1, <2>2 DEF AskHas
<1>4. CASE KeepHas(t)
  BY <1>4 DEF KeepHas
<1>5. CASE Describe(t)
  BY <1>5 DEF Describe, Detours
<1>6. CASE AskShape(t)
  BY <1>6 DEF AskShape
<1>7. CASE KeepShape(t)
  BY <1>7 DEF KeepShape
<1>8. CASE Forget(t)
  BY <1>8 DEF Forget
<1>9. CASE Query(t)
  BY <1>9 DEF Query
<1>10. ASSUME NEW shape, Change(t, shape)
       PROVE  /\ Onward(t)
              /\ since' \in [Threads -> SUBSET {"switch", "change", "error"}]
              /\ \A u \in Threads : since[u] \subseteq since'[u]
  BY <1>10, NewsAdds DEF Change
<1>11. ASSUME Fails(t)
       PROVE  (Onward(t) \/ Go(t, <<"forget">>)) /\ UNCHANGED since
  BY <1>11 DEF Fails, Onward
<1>12. CASE Create(t)
  <2>1. CASE Fails(t)
    BY <1>11, <1>12, <2>1 DEF Create
  <2>2. ASSUME NEW shape \in Shapes, Change(t, shape)
        PROVE  /\ Undisturbing(t) /\ Moves(t)
               /\ todo[t] # <<>> /\ Head(todo[t]) \notin {"bind", "build"}
    BY <1>10, <1>12, <2>2 DEF Create
  <2> QED
    BY <1>12, <2>1, <2>2 DEF Create
<1>13. CASE Drop(t)
  BY <1>10, <1>11, <1>13 DEF Drop
<1>14. CASE Reindex(t)
  <2>1. CASE Fails(t)
    BY <1>11, <1>14, <2>1 DEF Reindex
  <2>2. ASSUME NEW shape \in Shapes, Change(t, shape)
        PROVE  /\ Undisturbing(t) /\ Moves(t)
               /\ todo[t] # <<>> /\ Head(todo[t]) \notin {"bind", "build"}
    BY <1>10, <1>14, <2>2 DEF Reindex
  <2> QED
    BY <1>14, <2>1, <2>2 DEF Reindex
<1>15. CASE IndexNotFound(t)
  BY <1>15 DEF IndexNotFound
<1>16. CASE LookForDb(t)
  BY <1>16 DEF LookForDb
<1>17. CASE CreateDb(t)
  BY <1>17 DEF CreateDb, Keys
<1>18. CASE ListAll(t)
  BY <1>18 DEF ListAll, Detours
<1>19. CASE DropEach(t)
  <2>1. \/ UNCHANGED since
        \/ News(t, "change")
    BY <1>19 DEF DropEach
  <2>2. /\ since' \in [Threads -> SUBSET {"switch", "change", "error"}]
        /\ \A u \in Threads : since[u] \subseteq since'[u]
    BY <2>1, NewsAdds
  <2> QED
    BY <1>19, <2>2 DEF DropEach
<1>20. CASE DropDb(t)
  BY <1>20 DEF DropDb
<1> QED
  BY <1>1, <1>2, <1>3, <1>4, <1>5, <1>6, <1>7, <1>8, <1>9, <1>12, <1>13, <1>14,
     <1>15, <1>16, <1>17, <1>18, <1>19, <1>20 DEF Step

LEMMA CallStep ==
  ASSUME ReachInv, NEW t \in Threads, Step(t),
         ~ Connect(t), ~ Build(t), ~ Bind(t)
  PROVE  ReachInv'
BY CallMoves, QuietMove

LEMMA ConnectStep ==
  ASSUME ReachInv, NEW t \in Threads, Connect(t)
  PROVE  ReachInv'
<1> USE DEF ReachInv, ReachType, client_vars, backend, caches, Local
<1> DEFINE s == todo[t]
<1>1. s \in Seq(Steps) /\ s # <<>> /\ Head(s) # "build"
  BY DEF Connect, At
<1>2. NoBuild(s)
  BY <1>1 DEF NoBuild, ConnectionInv
<1>3. "build" \in Steps \ Rpcs
  BY DEF Steps, Rpcs
<1>4. /\ <<"build">> \o s \in Seq(Steps) /\ Len(<<"build">> \o s) = Len(s) + 1
      /\ \A i \in 1..Len(s) : (<<"build">> \o s)[i + 1] = s[i]
      /\ Exposed(<<"build">> \o s) => Exposed(s)
  BY <1>1, <1>3, OneMore
<1>5. /\ todo' = [todo EXCEPT ![t] = <<"build">> \o s]
      /\ got' = [got EXCEPT ![t] = bound]
      /\ UNCHANGED <<client, bound, built, dbs, key, since>>
  BY DEF Connect, Go
<1> HIDE DEF s
<1>6. ReachType'
  <2>1. todo' \in [Threads -> Seq(Steps)]
    BY <1>4, <1>5
  <2>2. got' = [u \in Threads |-> got'[u]]
    BY <1>5
  <2> QED
    BY <1>5, <2>1, <2>2
<1>7. ConnectionInv'
  <2>1. ASSUME NEW u \in Threads, NEW i \in 2..Len(todo'[u])
        PROVE  todo'[u][i] # "build"
    <3>1. CASE u = t
      <4>1. i - 1 \in 1..Len(s) /\ todo'[u][(i - 1) + 1] = s[i - 1]
        BY <1>1, <1>4, <1>5, <3>1
      <4> QED
        BY <1>2, <4>1 DEF NoBuild
    <3>2. CASE u # t
      BY <1>5, <3>2 DEF ConnectionInv
    <3> QED
      BY <3>1, <3>2
  <2>2. ASSUME NEW u \in Threads, built = 0, At(u, "build")'
        PROVE  got'[u] = bound
    BY <1>5, <2>2 DEF ConnectionInv, At
  <2> QED
    BY <1>5, <2>1, <2>2 DEF ConnectionInv
<1>8. ReachesInv'
  BY <1>4, <1>5 DEF ReachesInv, s
<1> QED
  BY <1>6, <1>7, <1>8

LEMMA BuildStep ==
  ASSUME ReachInv, NEW t \in Threads, Build(t)
  PROVE  ReachInv'
<1> USE DEF ReachInv, client_vars, backend, caches, Local, Go
<1>1. /\ todo[t] # <<>> /\ Head(todo[t]) # "bind"
      /\ UNCHANGED <<bound, dbs, key, got>>
  BY DEF Build, At
<1>2. /\ Tail(todo[t]) \in Seq(Steps) /\ NoBuild(Tail(todo[t]))
      /\ Exposed(Tail(todo[t])) => Exposed(todo[t])
  BY <1>1, OnwardSteps
<1>3. CASE UNCHANGED <<client, built, since>> /\ Abandon(t)
  <2>1. QuietTo(t, <<>>)
    BY <1>1, <1>3, NoSteps DEF Abandon, QuietTo, ReachType
  <2> QED
    BY <2>1, QuietStep
<1>4. CASE /\ got[t] \in dbs
           /\ client' = got[t] /\ built' = built + 1
           /\ Onward(t) /\ News(t, "switch")
  <2>1. /\ since' \in [Threads -> SUBSET {"switch", "change", "error"}]
        /\ \A u \in Threads : since[u] \subseteq since'[u]
    BY <1>4, NewsAdds
  <2>2. todo' = [todo EXCEPT ![t] = Tail(todo[t])]
    BY <1>4 DEF Onward
  <2>3. ReachType'
    BY <1>1, <1>2, <1>4, <2>1, <2>2 DEF ReachType
  <2>4. \A u \in Threads : \A i \in 2..Len(todo'[u]) : todo'[u][i] # "build"
    BY <1>2, <2>2 DEF ReachType, ConnectionInv, NoBuild
  <2>5. built' # 0 /\ client' # None
    BY <1>4, MilvusAssumption DEF ReachType
  <2>6. built' = 1 => client' = bound'
    BY <1>1, <1>4 DEF ReachType, ConnectionInv, Build
  <2>7. ConnectionInv'
    BY <2>4, <2>5, <2>6 DEF ConnectionInv
  <2>8. ASSUME NEW u \in Threads, Exposed(todo'[u]), built' <= 1,
               "switch" \notin since'[u]
        PROVE  client' = key'[u][1]
    <3>1. built = 0 /\ client = None
      BY <1>4, <2>8 DEF ReachType, ConnectionInv
    <3>2. Exposed(todo[u])
      BY <1>2, <2>2, <2>8 DEF ReachType
    <3>3. client = key[u][1]
      BY <2>1, <2>8, <3>1, <3>2 DEF ReachesInv
    <3> QED
      BY <3>1, <3>3, MilvusAssumption DEF ReachType, Keys
  <2>9. ReachesInv'
    BY <2>8 DEF ReachesInv
  <2> QED
    BY <2>3, <2>7, <2>9
<1> QED
  BY <1>3, <1>4 DEF Build

LEMMA BindStep ==
  ASSUME ReachInv, NEW t \in Threads, Bind(t)
  PROVE  ReachInv'
<1> USE DEF ReachInv, client_vars, backend, caches, Local, Go
<1> DEFINE d == key[t][1]
<1>1. /\ todo[t] # <<>> /\ Head(todo[t]) = "bind" /\ client # None
      /\ UNCHANGED <<built, dbs, key, got>>
  BY DEF Bind, At
<1>2. Tail(todo[t]) \in Seq(Steps) /\ NoBuild(Tail(todo[t]))
  BY <1>1, TailSteps DEF ReachType, ConnectionInv
<1>3. d \in Databases
  BY DEF ReachType, Keys
<1> HIDE DEF d
<1>4. CASE Abandon(t) /\ UNCHANGED <<client, bound, since>>
  <2>1. QuietTo(t, <<>>)
    BY <1>1, <1>4, NoSteps DEF Abandon, QuietTo, ReachType
  <2> QED
    BY <2>1, QuietStep
<1>5. CASE /\ Onward(t) /\ client' # None /\ bound' \in Databases
           /\ built <= 1 => client' = bound'
           /\ bound' = d
           /\ since' \in [Threads -> SUBSET {"switch", "change", "error"}]
           /\ \A u \in Threads \ {t} :
                /\ since[u] \subseteq since'[u]
                /\ client' # client => "switch" \in since'[u]
  <2>1. todo' = [todo EXCEPT ![t] = Tail(todo[t])]
    BY <1>5 DEF Onward
  <2>2. ReachType'
    BY <1>1, <1>2, <1>5, <2>1 DEF ReachType
  <2>3. \A u \in Threads : \A i \in 2..Len(todo'[u]) : todo'[u][i] # "build"
    BY <1>2, <2>1 DEF ReachType, ConnectionInv, NoBuild
  <2>4. built # 0
    BY <1>1 DEF ConnectionInv
  <2>5. ConnectionInv'
    BY <1>1, <1>5, <2>3, <2>4 DEF ConnectionInv
  <2>6. ASSUME NEW u \in Threads, Exposed(todo'[u]), built <= 1,
               "switch" \notin since'[u]
        PROVE  client' = key[u][1]
    <3>1. CASE u = t
      BY <1>5, <2>6, <3>1 DEF d
    <3>2. CASE u # t
      BY <1>5, <2>1, <2>6, <3>2 DEF ReachType, ReachesInv
    <3> QED
      BY <3>1, <3>2
  <2>7. ReachesInv'
    BY <1>1, <2>6 DEF ReachesInv
  <2> QED
    BY <2>2, <2>5, <2>7
<1>6. built <= 1 => client = bound
  BY <1>1 DEF ReachType, ConnectionInv
<1>7. CASE bound = d /\ Onward(t) /\ since' = [since EXCEPT ![t] = {}]
             /\ UNCHANGED <<client, bound>>
  BY <1>1, <1>3, <1>5, <1>6, <1>7 DEF ReachType
<1>8. CASE /\ bound # d /\ d \in dbs
           /\ client' = d /\ bound' = d /\ Onward(t)
           /\ since' = [u \in Threads |-> IF u = t THEN {} ELSE since[u] \cup {"switch"}]
  BY <1>3, <1>5, <1>8, MilvusAssumption DEF ReachType
<1> QED
  BY <1>4, <1>7, <1>8 DEF Bind, d

LEMMA ReachStep ==
  ASSUME ReachInv, [Next]_vars
  PROVE  ReachInv'
<1>1. ASSUME NEW t \in Threads, Call(t) PROVE ReachInv'
  <2>1. PICK m \in Methods, k \in Keys :
          todo' = [todo EXCEPT ![t] = m] /\ key' = [key EXCEPT ![t] = k]
    BY <1>1 DEF Call
  <2>2. m \in Seq(Steps) /\ ~ Exposed(m) /\ NoBuild(m)
    BY MethodSteps DEF Harmless
  <2>3. /\ since' = [since EXCEPT ![t] = {}]
        /\ UNCHANGED <<client, bound, built, dbs, got>>
    BY <1>1 DEF Call, client_vars, backend
  <2>4. \A u \in Threads : todo'[u] = IF u = t THEN m ELSE todo[u]
    BY <2>1 DEF ReachInv, ReachType
  <2>5. ReachType'
    BY <2>1, <2>2, <2>3 DEF ReachInv, ReachType
  <2>6. ASSUME NEW u \in Threads, NEW i \in 2..Len(todo'[u])
        PROVE  todo'[u][i] # "build"
    BY <2>2, <2>4 DEF ReachInv, ConnectionInv, NoBuild
  <2>7. ASSUME NEW u \in Threads, built = 0, At(u, "build")'
        PROVE  got[u] = bound
    <3>1. CASE u = t
      <4>1. m # <<>> /\ m[1] = "build"
        BY <2>4, <2>7, <3>1 DEF At
      <4> QED
        BY <2>2, <4>1 DEF NoBuild
    <3>2. CASE u # t
      BY <2>4, <2>7, <3>2 DEF At, ReachInv, ConnectionInv
    <3> QED
      BY <3>1, <3>2
  <2>8. ConnectionInv'
    BY <2>3, <2>6, <2>7 DEF ReachInv, ConnectionInv
  <2>9. ReachesInv'
    BY <2>1, <2>2, <2>3, <2>4 DEF ReachInv, ReachType, ReachesInv
  <2> QED
    BY <2>5, <2>8, <2>9 DEF ReachInv
<1>2. ASSUME NEW t \in Threads, Step(t) PROVE ReachInv'
  BY <1>2, CallStep, ConnectStep, BuildStep, BindStep
<1>3. CASE UNCHANGED vars
  BY <1>3
  DEF vars, client_vars, backend, caches, ReachInv, ReachType, ConnectionInv,
      ReachesInv, At
<1> QED
  BY <1>1, <1>2, <1>3 DEF Next

\* The lock of _using_db is enough for a thread that nobody interrupts between
\* its bind and its RPC, while there is one client: its call reaches the
\* database it names, whatever the threads did before.
THEOREM UndisturbedReach == Spec => []UndisturbedCallsReach
<1>1. ReachInv => UndisturbedCallsReach
  <2> SUFFICES ASSUME ReachInv, NEW t \in Threads, NEW step \in Rpcs, At(t, step),
                      built <= 1, "switch" \notin since[t]
               PROVE  client = key[t][1]
    BY DEF UndisturbedCallsReach
  <2>1. todo[t] \in Seq(Steps) /\ todo[t] # <<>> /\ todo[t][1] \in Rpcs
    BY DEF ReachInv, ReachType, At
  <2>2. Exposed(todo[t])
    BY <2>1 DEF Exposed
  <2> QED
    BY <2>2 DEF ReachInv, ReachesInv
<1> QED
  BY <1>1, ReachInit, ReachStep, PTL DEF Spec

-----------------------------------------------------------------------------
(* The caches.                                                             *)

Closing == {"create", "drop", "makeIndex", "dropIndex"}

\* A step that changes a collection is followed by the invalidation and by
\* nothing else, and an answer is kept by the step after the one that asked.
Tidy(s) ==
  \A i \in 1..Len(s) :
    /\ s[i] \in Closing => Len(s) = i + 1 /\ s[i + 1] = "forget"
    /\ s[i] = "tryDropIndex" =>
         Len(s) = i + 2 /\ s[i + 1] = "makeIndex" /\ s[i + 2] = "forget"
    /\ s[i] = "keepHas" /\ i > 1 => s[i - 1] = "askHas"
    /\ s[i] = "keepShape" /\ i > 1 => s[i - 1] = "askShape"

TidyInv == \A t \in Threads : Tidy(todo[t])

CacheType ==
  /\ store \in [Keys -> Shapes \cup {None}]
  /\ hasCache = [k \in Keys |-> hasCache[k]]
  /\ schemaCache = [k \in Keys |-> schemaCache[k]]
  /\ \A k \in Keys : k[1] \notin dbs => store[k] = None

\* An answer that a thread carries to its cache is still right.
CarryInv ==
  \A t \in Threads :
    since[t] = {} /\ built <= 1 =>
      /\ At(t, "keepHas") => got[t] = Truth[key[t]]
      /\ At(t, "keepShape") => got[t] = store[key[t]]

\* Where an entry is wrong and not in doubt, the thread that changed the
\* collection is on its way to the invalidation, and cannot be kept from it.
Changing(k) == \E t \in Threads :
  key[t] = k /\ todo[t] \in {<<"forget">>, <<"makeIndex", "forget">>}

EntryInv ==
  \A k \in Keys :
    /\ hasCache[k] = None \/ <<"has", k>> \in doubt \/ Changing(k)
         \/ hasCache[k] = Truth[k]
    /\ schemaCache[k] = None \/ <<"shape", k>> \in doubt \/ Changing(k)
         \/ schemaCache[k] = store[k]

CacheInv == CacheType /\ TidyInv /\ CarryInv /\ EntryInv

\* What is left of a tidy call is tidy, and begins with the keeping of an answer
\* only where the answer was asked for just before.
LEMMA TidyTail ==
  ASSUME NEW s \in Seq(Steps), s # <<>>, Tidy(s)
  PROVE  /\ Tail(s) \in Seq(Steps) /\ Tidy(Tail(s))
         /\ Tail(s) # <<>> /\ Tail(s)[1] = "keepHas" => Head(s) = "askHas"
         /\ Tail(s) # <<>> /\ Tail(s)[1] = "keepShape" => Head(s) = "askShape"
<1> DEFINE r == Tail(s)
           n == Len(s)
<1>1. /\ r \in Seq(Steps) /\ n \in Nat \ {0} /\ Len(r) = n - 1
      /\ s[1] = Head(s)
  OBVIOUS
<1>2. \A i \in 1..(n - 1) : r[i] = s[i + 1]
  OBVIOUS
<1>3. \A i \in 1..n :
        /\ s[i] \in Closing => n = i + 1 /\ s[i + 1] = "forget"
        /\ s[i] = "tryDropIndex" =>
             n = i + 2 /\ s[i + 1] = "makeIndex" /\ s[i + 2] = "forget"
        /\ s[i] = "keepHas" /\ i > 1 => s[i - 1] = "askHas"
        /\ s[i] = "keepShape" /\ i > 1 => s[i - 1] = "askShape"
  BY DEF Tidy
<1> HIDE DEF r, n
<1>4. Tidy(r)
  <2> SUFFICES ASSUME NEW i \in 1..(n - 1)
               PROVE  /\ r[i] \in Closing => n - 1 = i + 1 /\ r[i + 1] = "forget"
                      /\ r[i] = "tryDropIndex" =>
                           n - 1 = i + 2 /\ r[i + 1] = "makeIndex" /\ r[i + 2] = "forget"
                      /\ r[i] = "keepHas" /\ i > 1 => r[i - 1] = "askHas"
                      /\ r[i] = "keepShape" /\ i > 1 => r[i - 1] = "askShape"
    BY <1>1 DEF Tidy
  <2>1. i + 1 \in 1..n /\ i + 1 > 1 /\ r[i] = s[i + 1]
    BY <1>1, <1>2
  <2>2. i + 1 \in 1..(n - 1) => r[i + 1] = s[(i + 1) + 1]
    BY <1>2
  <2>3. i + 2 \in 1..(n - 1) => r[i + 2] = s[(i + 2) + 1]
    BY <1>2
  <2>4. i > 1 => r[i - 1] = s[(i - 1) + 1]
    <3>1. i > 1 => i - 1 \in 1..(n - 1)
      BY <1>1
    <3> QED
      BY <1>2, <3>1
  <2>5. /\ s[i + 1] \in Closing => n = (i + 1) + 1 /\ s[(i + 1) + 1] = "forget"
        /\ s[i + 1] = "tryDropIndex" =>
             /\ n = (i + 1) + 2
             /\ s[(i + 1) + 1] = "makeIndex" /\ s[(i + 1) + 2] = "forget"
        /\ s[i + 1] = "keepHas" => s[(i + 1) - 1] = "askHas"
        /\ s[i + 1] = "keepShape" => s[(i + 1) - 1] = "askShape"
    BY <1>3, <2>1
  <2>6. (i + 1) - 1 = i /\ (i - 1) + 1 = i /\ (i + 1) + 2 = (i + 2) + 1
    OBVIOUS
  <2>7. ASSUME r[i] \in Closing PROVE n - 1 = i + 1 /\ r[i + 1] = "forget"
    BY <1>1, <2>1, <2>2, <2>5, <2>7
  <2>8. ASSUME r[i] = "tryDropIndex"
        PROVE  n - 1 = i + 2 /\ r[i + 1] = "makeIndex" /\ r[i + 2] = "forget"
    BY <1>1, <2>1, <2>2, <2>3, <2>5, <2>6, <2>8
  <2> QED
    BY <2>1, <2>4, <2>5, <2>6, <2>7, <2>8
<1>5. ASSUME r # <<>>
      PROVE  /\ r[1] = "keepHas" => s[1] = "askHas"
             /\ r[1] = "keepShape" => s[1] = "askShape"
  <2>1. 1 \in 1..(n - 1)
    BY <1>1, <1>5
  <2>2. 2 \in 1..n /\ r[1] = s[2]
    BY <1>1, <1>2, <2>1
  <2>3. /\ s[2] = "keepHas" => s[2 - 1] = "askHas"
        /\ s[2] = "keepShape" => s[2 - 1] = "askShape"
    BY <1>3, <2>2
  <2> QED
    BY <2>2, <2>3
<1> QED
  BY <1>1, <1>4, <1>5 DEF r

\* Steps that change no collection may be put before the others.
LEMMA TidyPrefix ==
  ASSUME NEW p \in Seq(Steps), NEW s \in Seq(Steps), p # <<>>, Tidy(p), Tidy(s),
         \A i \in 1..Len(p) : p[i] \notin Closing \cup {"tryDropIndex"},
         s # <<>> => s[1] \notin {"keepHas", "keepShape"}
  PROVE  p \o s \in Seq(Steps) /\ Tidy(p \o s) /\ p \o s # <<>> /\ (p \o s)[1] = p[1]
<1> DEFINE q == p \o s
<1>1. /\ q \in Seq(Steps)
      /\ Len(q) = Len(p) + Len(s) /\ Len(p) \in Nat \ {0} /\ Len(s) \in Nat
      /\ \A i \in 1..Len(p) : q[i] = p[i]
      /\ \A i \in 1..Len(q) : i > Len(p) => q[i] = s[i - Len(p)]
  OBVIOUS
<1> HIDE DEF q
<1>2. Tidy(q)
  <2> SUFFICES ASSUME NEW i \in 1..Len(q)
               PROVE  /\ q[i] \in Closing => Len(q) = i + 1 /\ q[i + 1] = "forget"
                      /\ q[i] = "tryDropIndex" =>
                           Len(q) = i + 2 /\ q[i + 1] = "makeIndex" /\ q[i + 2] = "forget"
                      /\ q[i] = "keepHas" /\ i > 1 => q[i - 1] = "askHas"
                      /\ q[i] = "keepShape" /\ i > 1 => q[i - 1] = "askShape"
    BY DEF Tidy
  <2>1. CASE i <= Len(p)
    <3>1. i \in 1..Len(p) /\ q[i] = p[i] /\ (i > 1 => q[i - 1] = p[i - 1])
      BY <1>1, <2>1
    <3> QED
      BY <3>1 DEF Tidy
  <2>2. CASE i > Len(p)
    <3> DEFINE k == i - Len(p)
    <3>1. k \in 1..Len(s) /\ q[i] = s[k]
      BY <1>1, <2>2
    <3>2. /\ k + 1 \in 1..Len(s) => q[i + 1] = s[k + 1]
          /\ k + 2 \in 1..Len(s) => q[i + 2] = s[k + 2]
          /\ k > 1 => q[i - 1] = s[k - 1]
      <4>1. \A l \in 1..Len(s) : q[l + Len(p)] = s[l]
        <5> SUFFICES ASSUME NEW l \in 1..Len(s) PROVE q[l + Len(p)] = s[l]
          OBVIOUS
        <5>1. /\ l + Len(p) \in 1..Len(q) /\ l + Len(p) > Len(p)
              /\ (l + Len(p)) - Len(p) = l
          BY <1>1
        <5> QED
          BY <1>1, <5>1
      <4>2. /\ i + 1 = (k + 1) + Len(p) /\ i + 2 = (k + 2) + Len(p)
            /\ i - 1 = (k - 1) + Len(p)
        BY <1>1
      <4>3. k > 1 => k - 1 \in 1..Len(s)
        BY <1>1, <3>1
      <4> QED
        BY <4>1, <4>2, <4>3
    <3>3. i = k + Len(p)
      BY <1>1
    <3> HIDE DEF k
    <3>4. /\ s[k] \in Closing => Len(s) = k + 1 /\ s[k + 1] = "forget"
          /\ s[k] = "tryDropIndex" =>
               Len(s) = k + 2 /\ s[k + 1] = "makeIndex" /\ s[k + 2] = "forget"
          /\ s[k] = "keepHas" /\ k > 1 => s[k - 1] = "askHas"
          /\ s[k] = "keepShape" /\ k > 1 => s[k - 1] = "askShape"
      BY <3>1 DEF Tidy
    <3>5. s[k] \in {"keepHas", "keepShape"} => k > 1
      <4>1. s # <<>>
        BY <3>1
      <4> QED
        BY <3>1, <4>1
    <3>6. k \in Nat /\ Len(p) \in Nat /\ Len(s) \in Nat /\ Len(q) = Len(p) + Len(s)
      BY <1>1, <3>1
    <3>7. ASSUME q[i] \in Closing PROVE Len(q) = i + 1 /\ q[i + 1] = "forget"
      <4>1. Len(s) = k + 1 /\ s[k + 1] = "forget"
        BY <3>1, <3>4, <3>7
      <4> QED
        BY <3>2, <3>3, <3>6, <4>1
    <3>8. ASSUME q[i] = "tryDropIndex"
          PROVE  Len(q) = i + 2 /\ q[i + 1] = "makeIndex" /\ q[i + 2] = "forget"
      <4>1. Len(s) = k + 2 /\ s[k + 1] = "makeIndex" /\ s[k + 2] = "forget"
        BY <3>1, <3>4, <3>8
      <4> QED
        BY <3>2, <3>3, <3>6, <4>1
    <3> QED
      BY <3>1, <3>2, <3>4, <3>5, <3>7, <3>8
  <2> QED
    BY <1>1, <2>1, <2>2
<1>3. q # <<>> /\ q[1] = p[1]
  BY <1>1
<1> QED
  BY <1>1, <1>2, <1>3 DEF q

Opening(m) == m \in Seq(Steps) /\ Tidy(m) /\ (m # <<>> => m[1] \notin {"keepHas", "keepShape"})

LEMMA TidyMethods == \A m \in Methods : Opening(m)
<1> USE DEF Opening, Tidy, Closing, Steps
<1>1. Opening(<<"has">>)
  OBVIOUS
<1>2. Opening(<<"describe">>)
  OBVIOUS
<1>3. Opening(<<"noDb", "createDb">>)
  OBVIOUS
<1>4. Opening(<<"needDb", "bind", "listAll", "dropDb">>)
  OBVIOUS
<1>5. Opening(<<"bind", "query">>)
  OBVIOUS
<1>6. Opening(<<"bind", "create", "forget">>)
  OBVIOUS
<1>7. Opening(<<"bind", "has", "drop", "forget">>)
  OBVIOUS
<1>8. Opening(<<"bind", "has", "query">>)
  OBVIOUS
<1>9. Opening(<<"bind", "has", "describe", "check", "query">>)
  OBVIOUS
<1>10. Opening(<<"bind", "has", "describe", "check", "query", "forget">>)
  OBVIOUS
<1>11. Opening(<<"bind", "has", "describe", "check", "dropIndex", "forget">>)
  OBVIOUS
<1>12. Opening(<<"bind", "has", "describe", "check", "tryDropIndex", "makeIndex",
                 "forget">>)
  OBVIOUS
<1>13. Opening(<<"needDb">> \o <<"bind", "create", "forget">>)
  <2> DEFINE p == <<"needDb">>
             s == <<"bind", "create", "forget">>
  <2>1. /\ p \in Seq(Steps) /\ p # <<>> /\ Tidy(p) /\ p[1] = "needDb"
        /\ \A i \in 1..Len(p) : p[i] \notin Closing \cup {"tryDropIndex"}
    OBVIOUS
  <2>2. s \in Seq(Steps) /\ Tidy(s) /\ s[1] = "bind"
    BY <1>6
  <2> HIDE DEF p, s, Tidy
  <2>3. Opening(p \o s)
    BY <2>1, <2>2, TidyPrefix
  <2> QED
    BY <2>3 DEF p, s
<1> HIDE DEF Opening
<1> QED
  BY <1>1, <1>2, <1>3, <1>4, <1>5, <1>6, <1>7, <1>8, <1>9, <1>10, <1>11, <1>12,
     <1>13
  DEF Methods, HasCollection, DescribeCollection, CreateDatabase, DropDatabase,
      ListCollections, StoreCreateCollection, CreateCollection, DropCollection,
      CreateIndex, DropIndex, Upsert, Delete, Count, Get, Browse, Search,
      SearchSparse

\* Where thread t is once it took a step: its call is as tidy as before, and it
\* does not come to keep an answer unless it has just asked.
Tidied(t) ==
  /\ Tidy(todo'[t])
  /\ At(t, "keepHas")' => At(t, "askHas")
  /\ At(t, "keepShape")' => At(t, "askShape")

LEMMA TidyDetours ==
  \A p \in Detours :
    /\ p \in Seq(Steps) /\ p # <<>> /\ Tidy(p) /\ p[1] \notin {"keepHas", "keepShape"}
    /\ \A i \in 1..Len(p) : p[i] \notin Closing \cup {"tryDropIndex"}
<1> USE DEF Tidy, Closing, Steps
<1>1. LET p == <<"bind", "askHas", "keepHas">>
      IN  /\ p \in Seq(Steps) /\ p # <<>> /\ Tidy(p) /\ p[1] \notin {"keepHas", "keepShape"}
          /\ \A i \in 1..Len(p) : p[i] \notin Closing \cup {"tryDropIndex"}
  OBVIOUS
<1>2. LET p == <<"bind", "has", "askShape", "keepShape">>
      IN  /\ p \in Seq(Steps) /\ p # <<>> /\ Tidy(p) /\ p[1] \notin {"keepHas", "keepShape"}
          /\ \A i \in 1..Len(p) : p[i] \notin Closing \cup {"tryDropIndex"}
  OBVIOUS
<1>3. LET p == <<"dropEach">>
      IN  /\ p \in Seq(Steps) /\ p # <<>> /\ Tidy(p) /\ p[1] \notin {"keepHas", "keepShape"}
          /\ \A i \in 1..Len(p) : p[i] \notin Closing \cup {"tryDropIndex"}
  OBVIOUS
<1> HIDE DEF Tidy
<1> QED
  BY <1>1, <1>2, <1>3 DEF Detours

LEMMA MoveTidies ==
  ASSUME ReachInv, TidyInv, NEW t \in Threads, Moves(t), todo[t] # <<>>,
         Head(todo[t]) \in {"askHas", "askShape", "keepHas", "keepShape"} =>
           Onward(t) \/ Abandon(t)
  PROVE  Tidied(t)
<1>1. todo[t] \in Seq(Steps) /\ Tidy(todo[t]) /\ todo \in [Threads -> Seq(Steps)]
  BY DEF ReachInv, ReachType, TidyInv
<1> DEFINE rest == Tail(todo[t])
<1>2. /\ rest \in Seq(Steps) /\ Tidy(rest)
      /\ rest # <<>> /\ rest[1] = "keepHas" => Head(todo[t]) = "askHas"
      /\ rest # <<>> /\ rest[1] = "keepShape" => Head(todo[t]) = "askShape"
  BY <1>1, TidyTail
<1>3. CASE Onward(t)
  <2>1. todo'[t] = rest
    BY <1>1, <1>3 DEF Onward, Go
  <2> HIDE DEF rest
  <2> QED
    BY <1>2, <2>1 DEF Tidied, At
<1>4. CASE Abandon(t)
  <2>1. todo'[t] = <<>>
    BY <1>1, <1>4 DEF Abandon, Go
  <2>2. Tidy(<<>>)
    BY DEF Tidy
  <2> QED
    BY <2>1, <2>2 DEF Tidied, At
<1>5. CASE Go(t, <<"forget">>)
  <2>1. todo'[t] = <<"forget">>
    BY <1>1, <1>5 DEF Go
  <2>2. Tidy(<<"forget">>)
    BY DEF Tidy, Closing
  <2> QED
    BY <2>1, <2>2 DEF Tidied, At
<1>6. CASE UNCHANGED todo /\ Head(todo[t]) \notin {"keepHas", "keepShape"}
  BY <1>1, <1>6 DEF Tidied, At
<1>7. ASSUME NEW p \in Detours, Instead(t, p),
             Head(todo[t]) \notin {"askHas", "askShape"}
      PROVE  Tidied(t)
  <2>1. todo'[t] = p \o rest
    BY <1>1, <1>7 DEF Instead, Go
  <2> HIDE DEF rest
  <2>2. Tidy(p \o rest) /\ p \o rest # <<>> /\ (p \o rest)[1] = p[1]
    BY <1>2, <1>7, TidyDetours, TidyPrefix
  <2>3. p[1] \notin {"keepHas", "keepShape"}
    BY TidyDetours
  <2>4. Head(p \o rest) = p[1]
    BY <2>2
  <2> QED
    BY <2>1, <2>2, <2>3, <2>4 DEF Tidied, At
<1> QED
  BY <1>3, <1>4, <1>5, <1>6, <1>7 DEF Moves

\* What a step of thread t leaves to the others: an answer one of them carries
\* is spoilt only with its knowledge.
Others(t) ==
  /\ \A u \in Threads \ {t} :
       /\ todo'[u] = todo[u] /\ key'[u] = key[u] /\ got'[u] = got[u]
       /\ since[u] \subseteq since'[u]
       /\ store' # store /\ todo[u] # <<>> => since'[u] # {}
  /\ built' <= 1 => built <= 1

LEMMA CarryStep ==
  ASSUME CarryInv, NEW t \in Threads, Others(t),
         since'[t] = {} /\ built' <= 1 =>
           /\ At(t, "keepHas")' => got'[t] = Truth'[key'[t]]
           /\ At(t, "keepShape")' => got'[t] = store'[key'[t]]
  PROVE  CarryInv'
<1> SUFFICES ASSUME NEW u \in Threads, since'[u] = {}, built' <= 1
             PROVE  /\ At(u, "keepHas")' => got'[u] = Truth'[key'[u]]
                    /\ At(u, "keepShape")' => got'[u] = store'[key'[u]]
  BY DEF CarryInv
<1>1. CASE u = t
  BY <1>1
<1>2. CASE u # t
  <2>1. CASE todo[u] = <<>>
    BY <1>2, <2>1 DEF Others, At
  <2>2. CASE todo[u] # <<>>
    <3>1. since[u] = {} /\ built <= 1 /\ store' = store
      BY <1>2, <2>2 DEF Others
    <3>2. Truth' = Truth
      BY <3>1 DEF Truth
    <3> QED
      BY <1>2, <3>1, <3>2 DEF CarryInv, Others, At
  <2> QED
    BY <2>1, <2>2
<1> QED
  BY <1>1, <1>2

\* Nothing is written to a collection or a cache.
LEMMA EntriesStay ==
  ASSUME EntryInv, NEW t \in Threads, UNCHANGED <<store, hasCache, schemaCache, doubt>>,
         \A u \in Threads \ {t} : todo'[u] = todo[u] /\ key'[u] = key[u],
         \/ todo[t] \notin {<<"forget">>, <<"makeIndex", "forget">>}
         \/ todo'[t] = <<"forget">> /\ key'[t] = key[t]
  PROVE  EntryInv'
<1>1. ASSUME NEW k \in Keys, Changing(k) PROVE Changing(k)'
  <2>1. PICK u \in Threads : /\ key[u] = k
                             /\ todo[u] \in {<<"forget">>, <<"makeIndex", "forget">>}
    BY <1>1 DEF Changing
  <2> QED
    BY <2>1 DEF Changing
<1>2. Truth' = Truth
  BY DEF Truth
<1> QED
  BY <1>1, <1>2 DEF EntryInv

\* A change of collection k by thread t is followed by its invalidation, or
\* puts the entries of k in doubt.
LEMMA EntriesSpoilt ==
  ASSUME EntryInv, CacheType, NEW t \in Threads, NEW k \in Keys,
         UNCHANGED <<hasCache, schemaCache>>, doubt \subseteq doubt',
         \A l \in Keys \ {k} : store'[l] = store[l],
         \A u \in Threads \ {t} : todo'[u] = todo[u] /\ key'[u] = key[u],
         key'[t] = key[t],
         todo[t] \notin {<<"forget">>, <<"makeIndex", "forget">>}
           \/ todo'[t] = <<"forget">>,
         \/ {<<"has", k>>, <<"shape", k>>} \subseteq doubt'
         \/ /\ k = key[t]
            /\ todo'[t] \in {<<"forget">>, <<"makeIndex", "forget">>}
  PROVE  EntryInv'
<1>1. ASSUME NEW l \in Keys, Changing(l) PROVE Changing(l)'
  <2>1. PICK u \in Threads : /\ key[u] = l
                             /\ todo[u] \in {<<"forget">>, <<"makeIndex", "forget">>}
    BY <1>1 DEF Changing
  <2> QED
    BY <2>1 DEF Changing
<1>2. {<<"has", k>>, <<"shape", k>>} \subseteq doubt' \/ Changing(k)'
  BY DEF Changing
<1>3. \A l \in Keys \ {k} : Truth'[l] = Truth[l]
  BY DEF Truth
<1> SUFFICES ASSUME NEW l \in Keys
             PROVE  /\ hasCache'[l] = None \/ <<"has", l>> \in doubt' \/ Changing(l)'
                         \/ hasCache'[l] = Truth'[l]
                    /\ schemaCache'[l] = None \/ <<"shape", l>> \in doubt' \/ Changing(l)'
                         \/ schemaCache'[l] = store'[l]
  BY DEF EntryInv
<1>4. CASE l = k
  BY <1>2, <1>4
<1>5. CASE l # k
  BY <1>1, <1>3, <1>5 DEF EntryInv
<1> QED
  BY <1>4, <1>5

LEMMA CacheInit == Init => CacheInv
<1> SUFFICES ASSUME Init PROVE CacheInv
  OBVIOUS
<1>1. \A t \in Threads : todo[t] = <<>>
  BY DEF Init
<1>2. PICK C \in SUBSET Keys :
        /\ hasCache = [k \in Keys |-> IF k \in C THEN Truth[k] ELSE None]
        /\ schemaCache = [k \in Keys |-> IF k \in C THEN store[k] ELSE None]
  BY DEF Init
<1>3. CacheType
  BY <1>2 DEF Init, CacheType
<1>4. TidyInv
  BY <1>1 DEF TidyInv, Tidy
<1>5. CarryInv
  BY <1>1 DEF CarryInv, At
<1>6. EntryInv
  BY <1>2 DEF EntryInv
<1> QED
  BY <1>3, <1>4, <1>5, <1>6 DEF CacheInv

\* Parts of the invariant that depend on t's own course alone.
LEMMA CourseStep ==
  ASSUME TidyInv, CarryInv, NEW t \in Threads, Tidied(t), Others(t),
         since'[t] = {} /\ built' <= 1 =>
           /\ At(t, "askHas") /\ At(t, "keepHas")' => got'[t] = Truth'[key'[t]]
           /\ At(t, "askShape") /\ At(t, "keepShape")' => got'[t] = store'[key'[t]]
  PROVE  TidyInv' /\ CarryInv'
<1>1. TidyInv'
  BY DEF TidyInv, Tidied, Others
<1>2. CarryInv'
  BY CarryStep DEF Tidied
<1> QED
  BY <1>1, <1>2

\* A thread that asks within its own database, undisturbed, sees the collection
\* its call names.
LEMMA SeenTruly ==
  ASSUME ReachInv, CacheType, NEW t \in Threads,
         At(t, "askHas") \/ At(t, "askShape"), since[t] = {}, built <= 1
  PROVE  Seen(t) = store[key[t]]
<1>1. todo[t] \in Seq(Steps) /\ todo[t] # <<>> /\ todo[t][1] \in Rpcs
  BY DEF ReachInv, ReachType, At, Rpcs
<1>2. Exposed(todo[t])
  BY <1>1 DEF Exposed
<1>3. client = key[t][1]
  BY <1>2 DEF ReachInv, ReachesInv
<1>4. key[t] \in Keys /\ key[t] = <<key[t][1], key[t][2]>>
  BY DEF ReachInv, ReachType, Keys
<1> QED
  BY <1>3, <1>4 DEF Seen, CacheType

\* A step of thread t that writes neither to a collection nor to a cache.
LEMMA IdleStep ==
  ASSUME ReachInv, CacheInv, NEW t \in Threads, Tidied(t), Others(t),
         UNCHANGED <<store, hasCache, schemaCache, doubt>>,
         ~ At(t, "forget") /\ ~ At(t, "makeIndex"),
         \A k \in Keys : k[1] \notin dbs' => store[k] = None,
         since'[t] = {} /\ built' <= 1 =>
           /\ At(t, "askHas") /\ At(t, "keepHas")' => got'[t] = Truth[key'[t]]
           /\ At(t, "askShape") /\ At(t, "keepShape")' => got'[t] = store[key'[t]]
  PROVE  CacheInv'
<1>1. Truth' = Truth
  BY DEF Truth
<1>2. TidyInv' /\ CarryInv'
  BY <1>1, CourseStep DEF CacheInv
<1>3. todo[t] \notin {<<"forget">>, <<"makeIndex", "forget">>}
  BY DEF At
<1>4. EntryInv'
  <2>1. \A u \in Threads \ {t} : todo'[u] = todo[u] /\ key'[u] = key[u]
    BY DEF Others
  <2>2. EntryInv
    BY DEF CacheInv
  <2>3. \/ todo[t] \notin {<<"forget">>, <<"makeIndex", "forget">>}
        \/ todo'[t] = <<"forget">> /\ key'[t] = key[t]
    BY <1>3
  <2>4. UNCHANGED <<store, hasCache, schemaCache, doubt>>
    OBVIOUS
  <2> QED
    BY <2>1, <2>2, <2>3, <2>4, EntriesStay
<1>5. CacheType'
  BY DEF CacheInv, CacheType
<1> QED
  BY <1>2, <1>4, <1>5 DEF CacheInv

LEMMA MoveOthers ==
  ASSUME ReachInv, NEW t \in Threads, Undisturbing(t), Moves(t),
         UNCHANGED store \/ News(t, "change")
  PROVE  Others(t) /\ key'[t] = key[t]
<1>1. \A u \in Threads \ {t} : todo'[u] = todo[u]
  BY DEF Moves, Onward, Abandon, Instead, Go, ReachInv, ReachType
<1>2. \A u \in Threads \ {t} : todo[u] # <<>> /\ News(t, "change") => since'[u] # {}
  BY DEF News
<1> QED
  BY <1>1, <1>2 DEF Others, Undisturbing

\* The steps that write nothing.
LEMMA CacheIdle ==
  ASSUME ReachInv, CacheInv, NEW t \in Threads, Undisturbing(t), Moves(t),
         todo[t] # <<>>,
         \/ Check(t) \/ Has(t) \/ AskHas(t) \/ Describe(t) \/ AskShape(t) \/ Query(t)
         \/ IndexNotFound(t) \/ LookForDb(t) \/ CreateDb(t) \/ ListAll(t) \/ DropDb(t)
  PROVE  CacheInv'
<1> USE DEF client_vars, backend, caches, Local, At
<1>1. CacheType /\ TidyInv /\ CarryInv /\ EntryInv
  BY DEF CacheInv
<1>2. /\ UNCHANGED <<store, hasCache, schemaCache, doubt, key, built>>
      /\ Head(todo[t]) \notin {"forget", "makeIndex", "keepHas", "keepShape"}
  BY DEF Check, Has, AskHas, Describe, AskShape, Query, IndexNotFound, LookForDb,
         CreateDb, ListAll, DropDb
<1>3. Head(todo[t]) \in {"askHas", "askShape"} => Onward(t) \/ Abandon(t)
  BY DEF Check, Has, AskHas, Describe, AskShape, Query, IndexNotFound, LookForDb,
         CreateDb, ListAll, DropDb
<1>4. Tidied(t)
  BY <1>1, <1>2, <1>3, MoveTidies
<1>5. Others(t)
  BY <1>2, MoveOthers
<1>6. ASSUME NEW k \in Keys, k[1] \notin dbs' PROVE store[k] = None
  <2>1. CASE DropDb(t)
    <3>1. CASE k[1] \in dbs
      <4>1. /\ k[1] = key[t][1]
            /\ \A c \in Collections : store[<<key[t][1], c>>] = None
        BY <1>6, <2>1, <3>1 DEF DropDb
      <4>2. k = <<k[1], k[2]>> /\ k[2] \in Collections
        BY DEF Keys
      <4> QED
        BY <4>1, <4>2
    <3> QED
      BY <1>1, <3>1 DEF CacheType
  <2>2. CASE ~ DropDb(t)
    <3>1. dbs \subseteq dbs'
      BY <2>2 DEF Check, Has, AskHas, Describe, AskShape, Query, IndexNotFound, LookForDb,
             CreateDb, ListAll
    <3> QED
      BY <1>1, <1>6, <3>1 DEF CacheType
  <2> QED
    BY <2>1, <2>2
<1>7. ASSUME since'[t] = {}, built' <= 1, At(t, "askHas")
      PROVE  got'[t] = Truth[key'[t]] \/ ~ (At(t, "keepHas")')
  <2>1. AskHas(t)
    BY <1>7 DEF Check, Has, AskHas, Describe, AskShape, Query, IndexNotFound, LookForDb,
         CreateDb, ListAll, DropDb
  <2>2. since[t] = {}
    BY <1>7 DEF Undisturbing
  <2>3. Seen(t) = store[key[t]]
    BY <1>1, <1>2, <1>7, <2>2, SeenTruly
  <2>4. got' = [got EXCEPT ![t] = IF Seen(t) = None THEN "no" ELSE "yes"]
    BY <1>7, <2>1, <2>2 DEF AskHas, ReachInv, ReachType
  <2>5. key[t] \in Keys /\ got = [u \in Threads |-> got[u]]
    BY DEF ReachInv, ReachType
  <2>6. got'[t] = Truth[key[t]]
    BY <2>3, <2>4, <2>5 DEF Truth
  <2> QED
    BY <1>2, <2>6
<1>8. ASSUME since'[t] = {}, built' <= 1, At(t, "askShape")
      PROVE  got'[t] = store[key'[t]] \/ ~ (At(t, "keepShape")')
  <2>1. AskShape(t)
    BY <1>8 DEF Check, Has, AskHas, Describe, AskShape, Query, IndexNotFound, LookForDb,
         CreateDb, ListAll, DropDb
  <2>2. since[t] = {}
    BY <1>8 DEF Undisturbing
  <2>3. Seen(t) = store[key[t]]
    BY <1>1, <1>2, <1>8, <2>2, SeenTruly
  <2>4. CASE Abandon(t)
    BY <2>4 DEF Abandon, Go, ReachInv, ReachType
  <2>5. CASE got' = [got EXCEPT ![t] = Seen(t)]
    BY <1>2, <2>3, <2>5 DEF ReachInv, ReachType
  <2> QED
    BY <1>8, <2>1, <2>2, <2>4, <2>5 DEF AskShape, ReachInv, ReachType
<1> QED
  BY <1>2, <1>4, <1>5, <1>6, <1>7, <1>8, IdleStep

\* What is kept is right, or in doubt.
LEMMA CacheKeep ==
  ASSUME ReachInv, CacheInv, NEW t \in Threads, Undisturbing(t), Moves(t),
         todo[t] # <<>>, KeepHas(t) \/ KeepShape(t)
  PROVE  CacheInv'
<1> USE DEF client_vars, backend, caches, Local
<1>1. CacheType /\ TidyInv /\ CarryInv /\ EntryInv
  BY DEF CacheInv
<1>2. /\ UNCHANGED <<store, dbs, key, built, got, since>>
      /\ Head(todo[t]) \in {"keepHas", "keepShape"} /\ (Onward(t) \/ Abandon(t))
  BY DEF KeepHas, KeepShape, At
<1>3. Tidied(t) /\ Others(t)
  BY <1>1, <1>2, MoveTidies, MoveOthers
<1>4. TidyInv' /\ CarryInv'
  BY <1>1, <1>2, <1>3, CourseStep DEF At
<1>5. key[t] \in Keys
  BY DEF ReachInv, ReachType
<1>6. Truth' = Truth
  BY <1>2 DEF Truth
<1>7. ASSUME NEW k \in Keys, Changing(k) PROVE Changing(k)'
  <2>1. PICK u \in Threads : /\ key[u] = k
                             /\ todo[u] \in {<<"forget">>, <<"makeIndex", "forget">>}
    BY <1>7 DEF Changing
  <2>2. u # t
    BY <1>2, <2>1
  <2> QED
    BY <1>3, <2>1, <2>2 DEF Changing, Others
<1>8. CASE KeepHas(t)
  <2>1. hasCache' = [hasCache EXCEPT ![key[t]] = got[t]] /\ schemaCache' = schemaCache
    BY <1>8 DEF KeepHas
  <2>2. doubt' = IF since[t] # {} \/ built > 1 THEN doubt \cup {<<"has", key[t]>>}
                 ELSE doubt \ {<<"has", key[t]>>}
    BY <1>8 DEF KeepHas, Judge
  <2>3. <<"has", key[t]>> \in doubt' \/ got[t] = Truth[key[t]]
    <3>1. since[t] = {} /\ ~ built > 1 => got[t] = Truth[key[t]]
      <4>1. built \in Nat /\ At(t, "keepHas")
        BY <1>8 DEF KeepHas, ReachInv, ReachType
      <4> QED
        BY <1>1, <4>1 DEF CarryInv
    <3> QED
      BY <2>2, <3>1
  <2>4. \A k \in Keys : /\ k # key[t] /\ <<"has", k>> \in doubt => <<"has", k>> \in doubt'
                        /\ <<"shape", k>> \in doubt => <<"shape", k>> \in doubt'
    BY <2>2
  <2>5. hasCache'[key[t]] = got[t] /\ \A k \in Keys \ {key[t]} : hasCache'[k] = hasCache[k]
    BY <1>1, <1>5, <2>1 DEF CacheType
  <2>6. EntryInv'
    BY <1>1, <1>2, <1>6, <1>7, <2>1, <2>3, <2>4, <2>5 DEF EntryInv
  <2>7. CacheType'
    BY <1>1, <1>2, <2>1 DEF CacheType
  <2> QED
    BY <1>4, <2>6, <2>7 DEF CacheInv
<1>9. CASE KeepShape(t)
  <2>1. schemaCache' = [schemaCache EXCEPT ![key[t]] = got[t]] /\ hasCache' = hasCache
    BY <1>9 DEF KeepShape
  <2>2. doubt' = IF since[t] # {} \/ built > 1 THEN doubt \cup {<<"shape", key[t]>>}
                 ELSE doubt \ {<<"shape", key[t]>>}
    BY <1>9 DEF KeepShape, Judge
  <2>3. <<"shape", key[t]>> \in doubt' \/ got[t] = store[key[t]]
    <3>1. since[t] = {} /\ ~ built > 1 => got[t] = store[key[t]]
      <4>1. built \in Nat /\ At(t, "keepShape")
        BY <1>9 DEF KeepShape, ReachInv, ReachType
      <4> QED
        BY <1>1, <4>1 DEF CarryInv
    <3> QED
      BY <2>2, <3>1
  <2>4. \A k \in Keys : /\ k # key[t] /\ <<"shape", k>> \in doubt => <<"shape", k>> \in doubt'
                        /\ <<"has", k>> \in doubt => <<"has", k>> \in doubt'
    BY <2>2
  <2>5. /\ schemaCache'[key[t]] = got[t]
        /\ \A k \in Keys \ {key[t]} : schemaCache'[k] = schemaCache[k]
    BY <1>1, <1>5, <2>1 DEF CacheType
  <2>6. EntryInv'
    BY <1>1, <1>2, <1>6, <1>7, <2>1, <2>3, <2>4, <2>5 DEF EntryInv
  <2>7. CacheType'
    BY <1>1, <1>2, <2>1 DEF CacheType
  <2> QED
    BY <1>4, <2>6, <2>7 DEF CacheInv
<1> QED
  BY <1>8, <1>9

\* An invalidation leaves no entry to be wrong.
LEMMA CacheForget ==
  ASSUME ReachInv, CacheInv, NEW t \in Threads, Undisturbing(t), Moves(t),
         todo[t] # <<>>, Forget(t)
  PROVE  CacheInv'
<1> USE DEF client_vars, backend, caches, Local
<1>1. CacheType /\ TidyInv /\ CarryInv /\ EntryInv
  BY DEF CacheInv
<1>2. /\ UNCHANGED <<store, dbs, key, built, got, since>>
      /\ Head(todo[t]) = "forget"
  BY DEF Forget, At
<1>3. Tidied(t) /\ Others(t)
  BY <1>1, <1>2, MoveTidies, MoveOthers
<1>4. TidyInv' /\ CarryInv'
  BY <1>1, <1>2, <1>3, CourseStep DEF At
<1>5. key[t] \in Keys
  BY DEF ReachInv, ReachType
<1>6. Truth' = Truth
  BY <1>2 DEF Truth
<1>7. ASSUME NEW k \in Keys \ {key[t]}, Changing(k) PROVE Changing(k)'
  <2>1. PICK u \in Threads : /\ key[u] = k
                             /\ todo[u] \in {<<"forget">>, <<"makeIndex", "forget">>}
    BY <1>7 DEF Changing
  <2> QED
    BY <1>3, <2>1 DEF Changing, Others
<1>8. /\ hasCache' = [hasCache EXCEPT ![key[t]] = None]
      /\ schemaCache' = [schemaCache EXCEPT ![key[t]] = None]
      /\ doubt' = doubt \ {<<"has", key[t]>>, <<"shape", key[t]>>}
  BY DEF Forget
<1>9. /\ hasCache'[key[t]] = None /\ schemaCache'[key[t]] = None
      /\ \A k \in Keys \ {key[t]} :
           hasCache'[k] = hasCache[k] /\ schemaCache'[k] = schemaCache[k]
  BY <1>1, <1>5, <1>8 DEF CacheType
<1>10. \A k \in Keys \ {key[t]} :
         /\ <<"has", k>> \in doubt => <<"has", k>> \in doubt'
         /\ <<"shape", k>> \in doubt => <<"shape", k>> \in doubt'
  BY <1>8
<1>11. EntryInv'
  BY <1>1, <1>2, <1>6, <1>7, <1>9, <1>10 DEF EntryInv
<1>12. CacheType'
  BY <1>1, <1>2, <1>8 DEF CacheType
<1> QED
  BY <1>4, <1>11, <1>12 DEF CacheInv

LEMMA TailIsLast ==
  ASSUME NEW s \in Seq(Steps)
  PROVE  /\ Len(s) = 2 => Tail(s) = <<s[2]>>
         /\ Len(s) = 3 => Tail(s) = <<s[2], s[3]>>
<1>1. ASSUME s # <<>>
      PROVE  /\ Tail(s) \in Seq(Steps) /\ Len(Tail(s)) = Len(s) - 1
             /\ \A i \in 1..Len(Tail(s)) : Tail(s)[i] = s[i + 1]
  BY <1>1, HeadTailProperties
<1>2. ASSUME Len(s) = 2 PROVE Tail(s) = <<s[2]>>
  <2> DEFINE r == <<s[2]>>
             q == Tail(s)
  <2>1. q \in Seq(Steps) /\ Len(q) = 1 /\ \A i \in 1..1 : q[i] = s[i + 1]
    <3>1. s # <<>>
      BY <1>2
    <3> QED
      BY <1>1, <1>2, <3>1
  <2>2. s[2] \in Steps
    BY <1>2
  <2>3. r \in Seq(Steps) /\ Len(r) = 1 /\ r[1] = s[2]
    BY <2>2
  <2> HIDE DEF r, q
  <2>4. q[1] = s[1 + 1] /\ 1 + 1 = 2
    BY <2>1
  <2>5. \A i \in 1..Len(q) : q[i] = r[i]
    BY <2>1, <2>3, <2>4
  <2>6. q = r
    BY <2>1, <2>3, <2>5, SeqEqual
  <2> QED
    BY <2>6 DEF r, q
<1>3. ASSUME Len(s) = 3 PROVE Tail(s) = <<s[2], s[3]>>
  <2> DEFINE r == <<s[2], s[3]>>
             q == Tail(s)
  <2>1. q \in Seq(Steps) /\ Len(q) = 2 /\ \A i \in 1..2 : q[i] = s[i + 1]
    <3>1. s # <<>>
      BY <1>3
    <3> QED
      BY <1>1, <1>3, <3>1
  <2>2. s[2] \in Steps /\ s[3] \in Steps
    BY <1>3
  <2>3. r \in Seq(Steps) /\ Len(r) = 2 /\ r[1] = s[2] /\ r[2] = s[3]
    BY <2>2
  <2> HIDE DEF r, q
  <2>4. q[1] = s[1 + 1] /\ 1 + 1 = 2 /\ q[2] = s[2 + 1] /\ 2 + 1 = 3
    BY <2>1
  <2>5. \A i \in 1..Len(q) : q[i] = r[i]
    BY <2>1, <2>3, <2>4
  <2>6. q = r
    BY <2>1, <2>3, <2>5, SeqEqual
  <2> QED
    BY <2>6 DEF r, q
<1> QED
  BY <1>2, <1>3

\* A change of a collection is followed by its invalidation, whatever comes
\* between, or puts the entries in doubt.
LEMMA CacheChange ==
  ASSUME ReachInv, CacheInv, NEW t \in Threads, Undisturbing(t), Moves(t),
         todo[t] # <<>>, Create(t) \/ Drop(t) \/ Reindex(t)
  PROVE  CacheInv'
<1> USE DEF client_vars, backend, caches, Local
<1>1. CacheType /\ TidyInv /\ CarryInv /\ EntryInv
  BY DEF CacheInv
<1>2. /\ UNCHANGED <<dbs, key, built, got, hasCache, schemaCache>>
      /\ Head(todo[t]) \in Closing \cup {"tryDropIndex"}
  BY DEF Create, Drop, Reindex, At, Closing
<1>3. Fails(t) \/ \E shape \in Shapes \cup {None} : Change(t, shape)
  BY DEF Create, Drop, Reindex
<1>4. Tidied(t)
  BY <1>1, <1>2, MoveTidies DEF Closing
<1>5. /\ todo[t] \in Seq(Steps) /\ Tidy(todo[t]) /\ 1 \in 1..Len(todo[t])
      /\ todo[t][1] = Head(todo[t]) /\ todo \in [Threads -> Seq(Steps)]
      /\ key[t] \in Keys
  BY <1>1 DEF ReachInv, ReachType, TidyInv
<1>6. ASSUME Onward(t) PROVE todo'[t] \in {<<"forget">>, <<"makeIndex", "forget">>}
  <2>1. todo'[t] = Tail(todo[t])
    BY <1>5, <1>6 DEF Onward, Go
  <2>2. CASE Head(todo[t]) \in Closing
    <3>1. Len(todo[t]) = 1 + 1 /\ todo[t][1 + 1] = "forget"
      BY <1>5, <2>2 DEF Tidy
    <3>2. Tail(todo[t]) = <<"forget">>
      BY <1>5, <3>1, TailIsLast
    <3> QED
      BY <2>1, <3>2
  <2>3. CASE Head(todo[t]) = "tryDropIndex"
    <3>1. /\ Len(todo[t]) = 1 + 2
          /\ todo[t][1 + 1] = "makeIndex" /\ todo[t][1 + 2] = "forget"
      BY <1>5, <2>3 DEF Tidy
    <3>2. Tail(todo[t]) = <<"makeIndex", "forget">>
      BY <1>5, <3>1, TailIsLast
    <3> QED
      BY <2>1, <3>2
  <2> QED
    BY <1>2, <2>2, <2>3
<1>7. ASSUME todo[t] \in {<<"forget">>, <<"makeIndex", "forget">>}, Onward(t)
      PROVE  todo'[t] = <<"forget">>
  <2>1. todo[t] = <<"makeIndex", "forget">>
    BY <1>2, <1>7 DEF Closing
  <2>2. todo'[t] = Tail(todo[t])
    BY <1>5, <1>7 DEF Onward, Go
  <2> QED
    BY <2>1, <2>2
<1>8. CASE Fails(t)
  <2>1. UNCHANGED <<store, doubt, since>>
    BY <1>8 DEF Fails
  <2>2. Others(t)
    BY <2>1, MoveOthers
  <2>3. TidyInv' /\ CarryInv'
    BY <1>1, <1>2, <1>4, <2>2, CourseStep DEF At, Closing
  <2>4. \/ todo[t] \notin {<<"forget">>, <<"makeIndex", "forget">>}
        \/ todo'[t] = <<"forget">>
    <3>1. CASE Head(todo[t]) = "tryDropIndex"
      BY <3>1
    <3>2. CASE Head(todo[t]) # "tryDropIndex"
      BY <1>5, <1>8, <3>2 DEF Fails, Go, At
    <3> QED
      BY <3>1, <3>2
  <2>5. EntryInv'
    BY <1>1, <1>2, <2>1, <2>2, <2>4, EntriesStay DEF Others
  <2>6. CacheType'
    BY <1>1, <1>2, <2>1 DEF CacheType
  <2> QED
    BY <2>3, <2>5, <2>6 DEF CacheInv
<1>9. ASSUME NEW shape \in Shapes \cup {None}, Change(t, shape) PROVE CacheInv'
  <2> DEFINE h == Here(t)
  <2>1. /\ client \in dbs /\ store' = [store EXCEPT ![h] = shape]
        /\ doubt' = doubt \cup Unannounced(t, h)
        /\ Onward(t) /\ News(t, "change")
    BY <1>9 DEF Change
  <2>2. h \in Keys /\ h[1] = client
    BY <1>5, <2>1 DEF Here, Keys, ReachInv, ReachType
  <2> HIDE DEF h
  <2>3. Others(t)
    BY <2>1, MoveOthers
  <2>4. TidyInv' /\ CarryInv'
    BY <1>1, <1>2, <1>4, <2>3, CourseStep DEF At, Closing
  <2>5. \A l \in Keys \ {h} : store'[l] = store[l]
    BY <1>1, <2>1 DEF CacheType
  <2>6. \/ {<<"has", h>>, <<"shape", h>>} \subseteq doubt'
        \/ h = key[t] /\ todo'[t] \in {<<"forget">>, <<"makeIndex", "forget">>}
    BY <1>6, <2>1 DEF Unannounced
  <2>7. EntryInv'
    <3>1. doubt \subseteq doubt'
      BY <2>1
    <3>2. \/ todo[t] \notin {<<"forget">>, <<"makeIndex", "forget">>}
          \/ todo'[t] = <<"forget">>
      BY <1>7, <2>1
    <3>3. \A u \in Threads \ {t} : todo'[u] = todo[u] /\ key'[u] = key[u]
      BY <2>3 DEF Others
    <3> QED
      BY <1>1, <1>2, <2>2, <2>5, <2>6, <3>1, <3>2, <3>3, EntriesSpoilt
  <2>8. CacheType'
    <3>1. store' \in [Keys -> Shapes \cup {None}]
      BY <1>1, <2>1 DEF CacheType
    <3>2. \A k \in Keys : k[1] \notin dbs' => store'[k] = None
      BY <1>1, <1>2, <2>1, <2>2, <2>5 DEF CacheType
    <3> QED
      BY <1>1, <1>2, <3>1, <3>2 DEF CacheType
  <2> QED
    BY <2>4, <2>7, <2>8 DEF CacheInv
<1> QED
  BY <1>3, <1>8, <1>9

\* drop_database puts in doubt what it drops.
LEMMA CacheDropEach ==
  ASSUME ReachInv, CacheInv, NEW t \in Threads, Undisturbing(t), Moves(t),
         todo[t] # <<>>, DropEach(t)
  PROVE  CacheInv'
<1> USE DEF client_vars, backend, caches, Local
<1>1. CacheType /\ TidyInv /\ CarryInv /\ EntryInv
  BY DEF CacheInv
<1>2. /\ UNCHANGED <<dbs, key, built, got, hasCache, schemaCache>>
      /\ Head(todo[t]) = "dropEach"
  BY DEF DropEach, At
<1>3. Tidied(t)
  BY <1>1, <1>2, MoveTidies
<1>4. UNCHANGED store \/ News(t, "change")
  BY DEF DropEach
<1>5. Others(t)
  BY <1>4, MoveOthers
<1>6. TidyInv' /\ CarryInv'
  BY <1>1, <1>2, <1>3, <1>5, CourseStep DEF At
<1>7. todo[t] \notin {<<"forget">>, <<"makeIndex", "forget">>}
  BY <1>2
<1>8. CASE UNCHANGED <<store, doubt>>
  <2>1. EntryInv'
    BY <1>1, <1>2, <1>5, <1>7, <1>8, EntriesStay DEF Others
  <2>2. CacheType'
    BY <1>1, <1>2, <1>8 DEF CacheType
  <2> QED
    BY <1>6, <2>1, <2>2 DEF CacheInv
<1>9. CASE ~ UNCHANGED <<store, doubt>>
  <2>1. PICK c \in left[t] :
          /\ client \in dbs /\ store' = [store EXCEPT ![<<client, c>>] = None]
          /\ doubt' = doubt \cup {<<"has", <<client, c>>>>, <<"shape", <<client, c>>>>}
    BY <1>9 DEF DropEach
  <2> DEFINE h == <<client, c>>
  <2>2. \A l \in Keys \ {h} : store'[l] = store[l]
    BY <1>1, <2>1 DEF CacheType
  <2>3. CASE h \in Keys
    <3>1. EntryInv'
      <4>1. \A u \in Threads \ {t} : todo'[u] = todo[u] /\ key'[u] = key[u]
        BY <1>5 DEF Others
      <4>2. doubt \subseteq doubt' /\ {<<"has", h>>, <<"shape", h>>} \subseteq doubt'
        BY <2>1
      <4> HIDE DEF h
      <4> QED
        BY <1>1, <1>2, <1>7, <2>2, <2>3, <4>1, <4>2, EntriesSpoilt
    <3>2. CacheType'
      BY <1>1, <1>2, <2>1, <2>3 DEF CacheType
    <3> QED
      BY <1>6, <3>1, <3>2 DEF CacheInv
  <2>4. CASE h \notin Keys
    <3>1. store' = store
      BY <1>1, <2>1, <2>4 DEF CacheType
    <3>2. EntryInv'
      <4>1. \A k \in Keys : /\ <<"has", k>> \in doubt => <<"has", k>> \in doubt'
                            /\ <<"shape", k>> \in doubt => <<"shape", k>> \in doubt'
        BY <2>1
      <4>2. \A k \in Keys : Changing(k) => Changing(k)'
        BY <1>5, <1>7 DEF Changing, Others
      <4>3. Truth' = Truth
        BY <3>1 DEF Truth
      <4> QED
        BY <1>1, <1>2, <3>1, <4>1, <4>2, <4>3 DEF EntryInv
    <3>3. CacheType'
      BY <1>1, <1>2, <3>1 DEF CacheType
    <3> QED
      BY <1>6, <3>2, <3>3 DEF CacheInv
  <2> QED
    BY <2>3, <2>4
<1> QED
  BY <1>8, <1>9

\* The steps of the connection.
LEMMA CacheConnection ==
  ASSUME ReachInv, CacheInv, NEW t \in Threads, Connect(t) \/ Build(t) \/ Bind(t)
  PROVE  CacheInv'
<1> USE DEF client_vars, backend, caches, Local
<1>1. CacheType /\ TidyInv /\ CarryInv /\ EntryInv
  BY DEF CacheInv
<1>2. /\ UNCHANGED <<store, dbs, hasCache, schemaCache, doubt, key>>
      /\ todo[t] # <<>> /\ Head(todo[t]) \in {"bind", "needDb", "noDb", "build"}
  BY DEF Connect, Build, Bind, At
<1>3. todo[t] \in Seq(Steps) /\ Tidy(todo[t]) /\ todo \in [Threads -> Seq(Steps)]
        /\ built \in Nat /\ since \in [Threads -> SUBSET {"switch", "change", "error"}]
  BY <1>1 DEF ReachInv, ReachType, TidyInv
<1>4. Tidied(t)
  <2>1. CASE Connect(t)
    <3>1. todo'[t] = <<"build">> \o todo[t]
      BY <1>3, <2>1 DEF Connect, Go
    <3> DEFINE p == <<"build">>
    <3>2. /\ p \in Seq(Steps) /\ p # <<>> /\ Tidy(p) /\ p[1] = "build"
          /\ \A i \in 1..Len(p) : p[i] \notin Closing \cup {"tryDropIndex"}
      BY DEF Steps, Tidy, Closing
    <3> HIDE DEF p
    <3>3. todo[t][1] \notin {"keepHas", "keepShape"}
      BY <1>2, <1>3
    <3>6. Tidy(p \o todo[t]) /\ p \o todo[t] # <<>> /\ (p \o todo[t])[1] = p[1]
      BY <1>3, <3>2, <3>3, TidyPrefix
    <3>4. Tidy(todo'[t]) /\ todo'[t] # <<>> /\ todo'[t][1] = "build"
      BY <3>1, <3>2, <3>6 DEF p
    <3>5. Head(todo'[t]) = "build"
      BY <3>4
    <3> QED
      BY <3>4, <3>5 DEF Tidied, At
  <2>2. CASE Build(t) \/ Bind(t)
    <3>1. Onward(t) \/ Abandon(t)
      BY <2>2 DEF Build, Bind
    <3>2. Moves(t)
      BY <3>1 DEF Moves
    <3> QED
      BY <1>1, <1>2, <3>1, <3>2, MoveTidies
  <2> QED
    BY <2>1, <2>2
<1>5. Others(t)
  <2>1. \A u \in Threads \ {t} : todo'[u] = todo[u] /\ key'[u] = key[u] /\ got'[u] = got[u]
    BY <1>2, <1>3 DEF Connect, Build, Bind, Onward, Abandon, Go, ReachInv, ReachType
  <2>2. \A u \in Threads \ {t} : since[u] \subseteq since'[u]
    BY <1>3 DEF Connect, Build, Bind, News
  <2>3. built' = built \/ built' = built + 1
    BY DEF Connect, Build, Bind
  <2> QED
    BY <1>2, <1>3, <2>1, <2>2, <2>3 DEF Others
<1>6. /\ ~ At(t, "forget") /\ ~ At(t, "makeIndex") /\ ~ At(t, "askHas")
      /\ ~ At(t, "askShape")
  BY <1>2 DEF At
<1>7. \A k \in Keys : k[1] \notin dbs' => store[k] = None
  BY <1>1, <1>2 DEF CacheType
<1> QED
  BY <1>2, <1>4, <1>5, <1>6, <1>7, IdleStep

LEMMA CacheNext ==
  ASSUME ReachInv, CacheInv, [Next]_vars
  PROVE  CacheInv'
<1>1. ASSUME NEW t \in Threads, Call(t) PROVE CacheInv'
  <2>1. PICK m \in Methods, k \in Keys :
          todo' = [todo EXCEPT ![t] = m] /\ key' = [key EXCEPT ![t] = k]
    BY <1>1 DEF Call
  <2>2. m \in Seq(Steps) /\ Tidy(m) /\ (m # <<>> => m[1] \notin {"keepHas", "keepShape"})
    BY TidyMethods DEF Opening
  <2>3. /\ since' = [since EXCEPT ![t] = {}] /\ todo[t] = <<>>
        /\ UNCHANGED <<built, dbs, store, got, hasCache, schemaCache, doubt>>
    BY <1>1 DEF Call, client_vars, backend, caches
  <2>4. todo'[t] = m /\ \A u \in Threads \ {t} :
          todo'[u] = todo[u] /\ key'[u] = key[u] /\ since'[u] = since[u]
    BY <2>1, <2>3 DEF ReachInv, ReachType
  <2>5. Tidied(t)
    <3>1. m # <<>> => m[1] = Head(m)
      BY <2>2
    <3> QED
      BY <2>2, <2>4, <3>1 DEF Tidied, At
  <2>6. Others(t)
    BY <2>3, <2>4 DEF Others
  <2>7. \A l \in Keys : l[1] \notin dbs' => store[l] = None
    BY <2>3 DEF CacheInv, CacheType
  <2>8. \A step \in Steps : ~ At(t, step)
    BY <2>3 DEF At
  <2>9. ~ At(t, "forget") /\ ~ At(t, "makeIndex") /\ ~ At(t, "askHas") /\ ~ At(t, "askShape")
    BY <2>8 DEF Steps
  <2> QED
    BY <2>3, <2>5, <2>6, <2>7, <2>9, IdleStep
<1>2. ASSUME NEW t \in Threads, Step(t) PROVE CacheInv'
  <2>1. CASE Connect(t) \/ Build(t) \/ Bind(t)
    BY <2>1, CacheConnection
  <2>2. CASE ~ (Connect(t) \/ Build(t) \/ Bind(t))
    <3>1. Undisturbing(t) /\ Moves(t) /\ todo[t] # <<>>
      BY <1>2, <2>2, CallMoves
    <3> QED
      BY <1>2, <2>2, <3>1, CacheIdle, CacheKeep, CacheForget, CacheChange, CacheDropEach
      DEF Step
  <2> QED
    BY <2>1, <2>2
<1>3. CASE UNCHANGED vars
  <2>1. /\ UNCHANGED <<client, built, dbs, store, hasCache, schemaCache, doubt>>
        /\ UNCHANGED <<todo, key, got, since>>
    BY <1>3 DEF vars, client_vars, backend, caches
  <2>2. Truth' = Truth /\ \A k \in Keys : Changing(k)' = Changing(k)
    BY <2>1 DEF Truth, Changing
  <2>3. EntryInv'
    BY <2>1, <2>2 DEF CacheInv, EntryInv
  <2>4. CarryInv'
    BY <2>1, <2>2 DEF CacheInv, CarryInv, At
  <2>5. CacheType' /\ TidyInv'
    BY <2>1 DEF CacheInv, CacheType, TidyInv
  <2> QED
    BY <2>3, <2>4, <2>5 DEF CacheInv
<1> QED
  BY <1>1, <1>2, <1>3 DEF Next

\* Neither cache outlives what it describes, for any number of threads and calls:
\* an entry that is wrong was read across another thread's step or an error, lost
\* its database, or is about to be dropped by the thread that made it wrong.
THEOREM CachesStayTruthful == Spec => []CachesTruthful
<1>1. ReachInv /\ CacheInv => CachesTruthful
  <2> SUFFICES ASSUME ReachInv, CacheInv PROVE CachesTruthful
    OBVIOUS
  <2>1. ASSUME NEW k \in Keys, Changing(k) PROVE Announcing(k)
    <3>1. PICK t \in Threads : /\ key[t] = k
                               /\ todo[t] \in {<<"forget">>, <<"makeIndex", "forget">>}
      BY <2>1 DEF Changing
    <3>2. CASE todo[t] = <<"forget">>
      <4>1. 1 \in DOMAIN todo[t] /\ todo[t][1] = "forget"
        BY <3>2
      <4> QED
        BY <3>1, <4>1 DEF Announcing
    <3>3. CASE todo[t] = <<"makeIndex", "forget">>
      <4>1. 2 \in DOMAIN todo[t] /\ todo[t][2] = "forget"
        BY <3>3
      <4> QED
        BY <3>1, <4>1 DEF Announcing
    <3> QED
      BY <3>1, <3>2, <3>3
  <2> QED
    BY <2>1 DEF CacheInv, EntryInv, CachesTruthful, HasCacheTruthful, SchemaCacheTruthful
<1> QED
  BY <1>1, ReachInit, ReachStep, CacheInit, CacheNext, PTL DEF Spec

=============================================================================
