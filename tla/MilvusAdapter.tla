---------------------------- MODULE MilvusAdapter ----------------------------
(***************************************************************************)
(* MilvusAdapter: one client object, bound to one database at a time, that *)
(* the threads of the store pool share, and two caches of what the backend *)
(* said about a collection.                                                *)
(*                                                                         *)
(* Each method is the sequence of the steps it takes between two points    *)
(* where another thread may run: taking the lock, or waiting for an RPC.   *)
(* A method that calls another one puts that one's steps before its own.   *)
(* The contents of a collection are its shape: the fields, dimensions and  *)
(* index that describe_collection reports.                                 *)
(***************************************************************************)
EXTENDS Naturals, Sequences

CONSTANTS Threads, Databases, Collections, Shapes,
          Default,      \* the database a new client is in
          None,         \* no client, no collection, no cache entry
          Torn,         \* a description read while an RPC failed
          MaxCalls      \* calls of each thread

ASSUME MilvusAssumption ==
  /\ Default \in Databases
  /\ {None, Torn} \cap (Databases \cup Shapes) = {}
  /\ MaxCalls \in Nat

VARIABLES
  client,   \* the database the session of _client is in, or None
  bound,    \* _bound_db
  dbs,      \* the databases of the backend
  store,    \* store[k]: the shape of collection k there, or None
  hasCache, schemaCache,
  todo,     \* todo[t]: the steps thread t has still to take
  key,      \* key[t]: <<database, collection>> of its call
  got,      \* got[t]: the result it carries to its next step
  left,     \* left[t]: the collections its drop_database has still to drop
  calls,    \* calls[t]: how many calls it has made
  built,    \* how many clients were built
  since,    \* since[t]: what came between its last bind and now
  doubt     \* cache entries that such an event, or an error, may spoil

client_vars == <<client, bound, built>>
backend == <<dbs, store>>
caches == <<hasCache, schemaCache, doubt>>
vars == <<client_vars, backend, caches, todo, key, got, left, calls, since>>

Keys == Databases \X Collections

-----------------------------------------------------------------------------
(* The methods, as the steps they take.  Each connects first if nobody did *)
(* so before; "check" compares the arguments with the description, and the *)
(* call goes on or is refused.  A call refused for its arguments alone has *)
(* taken no step.                                                          *)

HasCollection == <<"has">>

DescribeCollection == <<"describe">>

CreateDatabase == <<"noDb", "createDb">>

DropDatabase == <<"needDb", "bind", "listAll", "dropDb">>

ListCollections == <<"bind", "query">>

CreateCollection == <<"bind", "create", "forget">>

\* MilvusStore looks for the database first.
StoreCreateCollection == <<"needDb">> \o CreateCollection

DropCollection == <<"bind", "has", "drop", "forget">>

\* Mutant: the entries are dropped before the index is replaced.
CreateIndexForgetsFirst ==
  <<"bind", "has", "describe", "check", "forget", "tryDropIndex", "makeIndex">>

\* Whether the old index could be dropped does not matter.
CreateIndex ==
  <<"bind", "has", "describe", "check", "tryDropIndex", "makeIndex", "forget">>

DropIndex == <<"bind", "has", "describe", "check", "dropIndex", "forget">>

Upsert == <<"bind", "has", "describe", "check", "query">>

Delete == <<"bind", "has", "describe", "check", "query", "forget">>

Count == <<"bind", "has", "query">>

Get == <<"bind", "has", "describe", "check", "query">>

Browse == <<"bind", "has", "describe", "check", "query">>

Search == <<"bind", "has", "describe", "check", "query">>

SearchSparse == <<"bind", "has", "describe", "check", "query">>

Methods ==
  { HasCollection, DescribeCollection, CreateDatabase, DropDatabase,
    ListCollections, StoreCreateCollection, DropCollection,
    CreateIndex, DropIndex, Upsert, Delete, Count, Get, Browse, Search,
    SearchSparse }

-----------------------------------------------------------------------------
Truth == [k \in Keys |-> IF store[k] = None THEN "no" ELSE "yes"]

\* A running service: any contents, and caches that are right where they
\* hold anything.  Startup connects, but goes on without a client when the
\* backend is away.
Init ==
  /\ dbs \in {D \in SUBSET Databases : Default \in D}
  /\ store \in {s \in [Keys -> Shapes \cup {None}] :
                  \A k \in Keys : k[1] \notin dbs => s[k] = None}
  /\ client \in dbs \cup {None}
  /\ bound = IF client = None THEN Default ELSE client
  /\ built = IF client = None THEN 0 ELSE 1
  /\ \E C \in SUBSET Keys :
       /\ hasCache = [k \in Keys |-> IF k \in C THEN Truth[k] ELSE None]
       /\ schemaCache = [k \in Keys |-> IF k \in C THEN store[k] ELSE None]
  /\ doubt = {}
  /\ todo = [t \in Threads |-> <<>>]
  /\ key \in {[t \in Threads |-> k] : k \in {<<Default, c>> : c \in Collections}}
  /\ got = [t \in Threads |-> None]
  /\ left = [t \in Threads |-> {}]
  /\ calls = [t \in Threads |-> 0]
  /\ since = [t \in Threads |-> {}]

\* A thread of the pool takes up a call.
Call(t) ==
  /\ todo[t] = <<>> /\ calls[t] < MaxCalls
  /\ calls' = [calls EXCEPT ![t] = @ + 1]
  /\ \E m \in Methods, k \in Keys :
       todo' = [todo EXCEPT ![t] = m] /\ key' = [key EXCEPT ![t] = k]
  /\ since' = [since EXCEPT ![t] = {}]
  /\ UNCHANGED <<client_vars, backend, caches, got, left>>

At(t, step) == todo[t] # <<>> /\ Head(todo[t]) = step
Go(t, steps) == todo' = [todo EXCEPT ![t] = steps]
Onward(t) == Go(t, Tail(todo[t]))
Instead(t, steps) == Go(t, steps \o Tail(todo[t]))
Abandon(t) == Go(t, <<>>)
Local == <<key, left, calls>>

\* What thread t does is news to the calls of the others.
News(t, what) ==
  since' = [u \in Threads |-> IF u = t \/ todo[u] = <<>> THEN since[u]
                              ELSE since[u] \cup {what}]

Check(t) ==
  /\ At(t, "check")
  /\ Onward(t) \/ Abandon(t)
  /\ UNCHANGED <<client_vars, backend, caches, Local, got, since>>

-----------------------------------------------------------------------------
(* The connection.                                                         *)

\* _ensure_connected looks at _client without the lock: the first to look
\* build a client (which then stays, so that looking is no step) ...
Connect(t) ==
  /\ client = None
  /\ At(t, "bind") \/ At(t, "needDb") \/ At(t, "noDb")
  /\ Go(t, <<"build">> \o todo[t])
  /\ got' = [got EXCEPT ![t] = bound]
  /\ UNCHANGED <<client_vars, backend, caches, Local, since>>

\* ... and replaces whatever is there once its own client is built, unless
\* the backend refuses the connection.
Build(t) ==
  /\ At(t, "build")
  /\ \/ /\ got[t] \in dbs
        /\ client' = got[t] /\ built' = built + 1
        /\ Onward(t) /\ News(t, "switch")
     \/ UNCHANGED <<client, built, since>> /\ Abandon(t)
  /\ UNCHANGED <<bound, backend, caches, Local, got>>

\* Mutant: the binding is noted before the switch can fail.
BindNotedFirst(t) ==
  /\ At(t, "bind") /\ client # None
  /\ LET d == key[t][1] IN
     \/ bound = d /\ Onward(t) /\ since' = [since EXCEPT ![t] = {}]
        /\ UNCHANGED <<client, bound>>
     \/ /\ bound # d /\ d \in dbs
        /\ client' = d /\ bound' = d /\ Onward(t)
        /\ since' = [u \in Threads |-> IF u = t THEN {} ELSE since[u] \cup {"switch"}]
     \/ /\ bound # d /\ Abandon(t)
        /\ bound' = d /\ UNCHANGED <<client, since>>
  /\ UNCHANGED <<built, backend, caches, Local, got>>

\* _using_db, all of it under the lock.
Bind(t) ==
  /\ At(t, "bind") /\ client # None
  /\ LET d == key[t][1] IN
     \/ bound = d /\ Onward(t) /\ since' = [since EXCEPT ![t] = {}]
        /\ UNCHANGED <<client, bound>>
     \/ /\ bound # d /\ d \in dbs
        /\ client' = d /\ bound' = d /\ Onward(t)
        /\ since' = [u \in Threads |-> IF u = t THEN {} ELSE since[u] \cup {"switch"}]
     \/ bound # d /\ Abandon(t) /\ UNCHANGED <<client, bound, since>>
  /\ UNCHANGED <<built, backend, caches, Local, got>>

-----------------------------------------------------------------------------
(* The caches.  Every access to them is a step under the lock.             *)

\* What the session sees of the collection thread t asks for.
Seen(t) == IF client \in dbs THEN store[<<client, key[t][2]>>] ELSE None

\* No entry, or its time to live is over: the backend is asked.
Has(t) ==
  /\ At(t, "has")
  /\ \/ hasCache[key[t]] = "yes" /\ Onward(t)
     \/ hasCache[key[t]] = "no" /\ Abandon(t)
     \/ Instead(t, <<"bind", "askHas", "keepHas">>)
  /\ UNCHANGED <<client_vars, backend, caches, Local, got, since>>

\* Any error counts as absence.
AskHas(t) ==
  /\ At(t, "askHas") /\ Onward(t)
  /\ \/ /\ got' = [got EXCEPT ![t] = IF Seen(t) = None THEN "no" ELSE "yes"]
        /\ UNCHANGED since
     \/ /\ got' = [got EXCEPT ![t] = "no"]
        /\ since' = [since EXCEPT ![t] = @ \cup {"error"}]
  /\ UNCHANGED <<client_vars, backend, caches, Local>>

Judge(kind, t) ==
  doubt' = IF since[t] # {} \/ built > 1 THEN doubt \cup {<<kind, key[t]>>}
           ELSE doubt \ {<<kind, key[t]>>}

KeepHas(t) ==
  /\ At(t, "keepHas")
  /\ hasCache' = [hasCache EXCEPT ![key[t]] = got[t]]
  /\ Judge("has", t)
  /\ IF got[t] = "yes" THEN Onward(t) ELSE Abandon(t)
  /\ UNCHANGED <<client_vars, backend, schemaCache, Local, got, since>>

Describe(t) ==
  /\ At(t, "describe")
  /\ \/ schemaCache[key[t]] # None /\ Onward(t)
     \/ Instead(t, <<"bind", "has", "askShape", "keepShape">>)
  /\ UNCHANGED <<client_vars, backend, caches, Local, got, since>>

\* describe_collection raises when the collection is not there or the call
\* fails; a failure to read the indexes or the statistics is swallowed.
AskShape(t) ==
  /\ At(t, "askShape")
  /\ \/ /\ Seen(t) # None /\ Onward(t)
        /\ got' = [got EXCEPT ![t] = Seen(t)] /\ UNCHANGED since
     \/ /\ Seen(t) # None /\ Onward(t)
        /\ got' = [got EXCEPT ![t] = Torn]
        /\ since' = [since EXCEPT ![t] = @ \cup {"error"}]
     \/ Abandon(t) /\ UNCHANGED <<got, since>>
  /\ UNCHANGED <<client_vars, backend, caches, Local>>

KeepShape(t) ==
  /\ At(t, "keepShape") /\ Onward(t)
  /\ schemaCache' = [schemaCache EXCEPT ![key[t]] = got[t]]
  /\ Judge("shape", t)
  /\ UNCHANGED <<client_vars, backend, hasCache, Local, got, since>>

\* _invalidate_collection.
Forget(t) ==
  /\ At(t, "forget") /\ Onward(t)
  /\ hasCache' = [hasCache EXCEPT ![key[t]] = None]
  /\ schemaCache' = [schemaCache EXCEPT ![key[t]] = None]
  /\ doubt' = doubt \ {<<"has", key[t]>>, <<"shape", key[t]>>}
  /\ UNCHANGED <<client_vars, backend, Local, got, since>>

-----------------------------------------------------------------------------
(* The RPCs.  Each acts in the database of the session, whichever that is. *)

Here(t) == <<client, key[t][2]>>

\* Entries of a collection that changed without its own invalidation.
Unannounced(t, k) == IF k = key[t] THEN {} ELSE {<<"has", k>>, <<"shape", k>>}

\* Upsert, delete and the reads leave the shapes alone, and fail or not.
Query(t) ==
  /\ At(t, "query")
  /\ \/ Seen(t) # None /\ Onward(t)
     \/ Abandon(t)
  /\ UNCHANGED <<client_vars, backend, caches, Local, got, since>>

Change(t, shape) ==
  /\ client \in dbs
  /\ store' = [store EXCEPT ![Here(t)] = shape]
  /\ doubt' = doubt \cup Unannounced(t, Here(t))
  /\ Onward(t) /\ News(t, "change")

\* create_collection, drop_collection and the two on the index forget the
\* entries when the RPC failed, too.
Fails(t) ==
  /\ Go(t, IF At(t, "tryDropIndex") THEN Tail(todo[t]) ELSE <<"forget">>)
  /\ UNCHANGED <<store, doubt, since>>

Create(t) ==
  /\ At(t, "create")
  /\ \/ Seen(t) = None /\ \E s \in Shapes : Change(t, s)
     \/ Fails(t)
  /\ UNCHANGED <<client_vars, dbs, hasCache, schemaCache, Local, got>>

Drop(t) ==
  /\ At(t, "drop")
  /\ Change(t, None) \/ Fails(t)
  /\ UNCHANGED <<client_vars, dbs, hasCache, schemaCache, Local, got>>

Reindex(t) ==
  /\ At(t, "makeIndex") \/ At(t, "dropIndex") \/ At(t, "tryDropIndex")
  /\ \/ Seen(t) # None /\ \E s \in Shapes : Change(t, s)
     \/ Fails(t)
  /\ UNCHANGED <<client_vars, dbs, hasCache, schemaCache, Local, got>>

\* drop_index answers "not found" with success, and keeps the entries.
IndexNotFound(t) ==
  /\ At(t, "dropIndex") /\ Abandon(t)
  /\ UNCHANGED <<client_vars, backend, caches, Local, got, since>>

-----------------------------------------------------------------------------
(* Databases.                                                              *)

\* list_databases, then the check of the name.
LookForDb(t) ==
  /\ client # None
  /\ \/ At(t, "needDb") /\ IF key[t][1] \in dbs THEN Onward(t) ELSE Abandon(t)
     \/ At(t, "noDb") /\ IF key[t][1] \in dbs THEN Abandon(t) ELSE Onward(t)
  /\ UNCHANGED <<client_vars, backend, caches, Local, got, since>>

CreateDb(t) ==
  /\ At(t, "createDb") /\ Onward(t)
  /\ dbs' = dbs \cup {key[t][1]}
  /\ UNCHANGED <<client_vars, store, caches, Local, got, since>>

\* drop_database lists the collections of the session and drops each.
ListAll(t) ==
  /\ At(t, "listAll")
  /\ \/ /\ client \in dbs
        /\ left' = [left EXCEPT ![t] = {c \in Collections : store[<<client, c>>] # None}]
        /\ Instead(t, <<"dropEach">>)
     \/ Abandon(t) /\ UNCHANGED left
  /\ UNCHANGED <<client_vars, backend, caches, key, got, calls, since>>

DropEach(t) ==
  /\ At(t, "dropEach")
  /\ \/ /\ left[t] = {} /\ Onward(t)
        /\ UNCHANGED <<store, doubt, left, since>>
     \/ \E c \in left[t] :
          /\ client \in dbs
          /\ store' = [store EXCEPT ![<<client, c>>] = None]
          /\ doubt' = doubt \cup {<<"has", <<client, c>>>>, <<"shape", <<client, c>>>>}
          /\ left' = [left EXCEPT ![t] = @ \ {c}]
          /\ News(t, "change") /\ UNCHANGED todo
     \/ left[t] # {} /\ Abandon(t) /\ UNCHANGED <<store, doubt, left, since>>
  /\ UNCHANGED <<client_vars, dbs, hasCache, schemaCache, key, got, calls>>

\* The backend refuses to drop a database that holds a collection.
DropDb(t) ==
  /\ At(t, "dropDb") /\ Onward(t)
  /\ dbs' = IF \E c \in Collections : store[<<key[t][1], c>>] # None
            THEN dbs ELSE dbs \ ({key[t][1]} \ {Default})
  /\ UNCHANGED <<client_vars, store, caches, Local, got, since>>

-----------------------------------------------------------------------------
Step(t) ==
  \/ Check(t) \/ Connect(t) \/ Build(t) \/ Bind(t)
  \/ Has(t) \/ AskHas(t) \/ KeepHas(t)
  \/ Describe(t) \/ AskShape(t) \/ KeepShape(t) \/ Forget(t)
  \/ Query(t) \/ Create(t) \/ Drop(t) \/ Reindex(t) \/ IndexNotFound(t)
  \/ LookForDb(t) \/ CreateDb(t) \/ ListAll(t) \/ DropEach(t) \/ DropDb(t)

Next == \E t \in Threads : Call(t) \/ Step(t)

Spec == Init /\ [][Next]_vars
FairSpec == Spec /\ \A t \in Threads : WF_vars(Step(t))

-----------------------------------------------------------------------------
(* Properties.                                                             *)

\* A thread that has changed k and not yet dropped its entries.
Announcing(k) == \E t \in Threads :
  key[t] = k /\ "forget" \in {todo[t][i] : i \in DOMAIN todo[t]}

\* What the has cache says is true, unless the entry was read across another
\* thread's step or an error, or its database was dropped: every method that
\* creates or drops a collection invalidates, whether it fails or not.
HasCacheTruthful ==
  \A k \in Keys :
    hasCache[k] = None \/ <<"has", k>> \in doubt \/ Announcing(k)
    \/ hasCache[k] = Truth[k]

\* The description every write is checked against is that of the collection,
\* under the same conditions: also after a drop and a new creation.
SchemaCacheTruthful ==
  \A k \in Keys :
    schemaCache[k] = None \/ <<"shape", k>> \in doubt \/ Announcing(k)
    \/ schemaCache[k] = store[k]

\* Neither cache outlives what it describes.
CachesTruthful == HasCacheTruthful /\ SchemaCacheTruthful

Rpcs == {"askHas", "askShape", "query", "create", "drop", "makeIndex",
         "dropIndex", "tryDropIndex", "listAll"}

\* An RPC acts in the database its call names unless another thread switched
\* the session in between, or two threads built the client at once.
UndisturbedCallsReach ==
  \A t \in Threads :
    (\E step \in Rpcs : At(t, step)) /\ built <= 1 /\ "switch" \notin since[t]
      => client = key[t][1]

\* "concurrent FastAPI worker threads must not stomp on each other": a call
\* drops collections of the database it names and of no other.
DropsStayInDatabase ==
  [][\A t \in Threads, k \in Keys :
       store[k] # None /\ store'[k] = None
         /\ <<todo[t], left[t]>> # <<todo'[t], left'[t]>>
       => k[1] = key[t][1]]_vars
=============================================================================
