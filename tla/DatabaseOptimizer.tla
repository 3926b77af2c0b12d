--------------------------- MODULE DatabaseOptimizer ---------------------------
(***************************************************************************)
(* core/blockchain/DatabaseOptimizer.ts: the connections, the indexes and the *)
(* query cache.  A query is a record [tables, words, operations]: what its    *)
(* text mentions.  Indexing, optimisation, metrics and sharding are on and    *)
(* compression too, as the constructor has them; pooling may be switched.     *)
(***************************************************************************)
EXTENDS Integers, FiniteSets, Maps

CONSTANTS
    DBQueries, Parameters,
    DBIndexes,      \* [name, table, columns]
    DefaultIndexes, \* those createDefaultIndexes makes
    PoolSize, MaxConnections,
    CallIds,        \* bound: queries under way at once
    MaxMade,        \* bound: connections made
    MaxIndexCalls,  \* bound: index calls made
    MaxRecorded     \* bound: metrics recorded

VARIABLES
    pooling,        \* config.enableConnectionPooling
    connectionPool, \* connection -> busy
    made,           \* connections made so far
    indexes,
    indexCalls,     \* pending timers of createIndex and dropIndex: number -> [op, index]
    queryCache,     \* query -> [parameters, indexes] of the result kept
    inFlight,       \* executeQuery awaited: call -> [query, parameters, connection, indexes]
    metrics,        \* [kept, total]: entries of queryMetrics, stats.totalQueries
    optimized       \* [running, done]: optimize under way, the indexes it has been through

dbVars == <<pooling, connectionPool, made, indexes, indexCalls, queryCache, inFlight, metrics, optimized>>

Init ==
    /\ pooling = TRUE
    /\ connectionPool = [c \in 1..PoolSize |-> FALSE] /\ made = PoolSize
    /\ indexes = DefaultIndexes /\ indexCalls = Empty
    /\ queryCache = Empty /\ inFlight = Empty
    /\ metrics = [kept |-> 0, total |-> 0]
    /\ optimized = [running |-> FALSE, done |-> {}]

\* recordQueryMetrics
Record == metrics' = [kept |-> metrics.kept + 1, total |-> metrics.total + 1]

\* extractTables and getApplicableIndexes.
ApplicableIndexes(q) == {i \in indexes : i.table \in q.tables /\ i.columns \cap q.words # {}}

Free == {c \in DOMAIN connectionPool : ~connectionPool[c]}

\* Mutant of GetConnection: a connection added to the pool is not marked busy.
GetConnectionUnmarked(c) ==
    IF pooling /\ Free # {}
    THEN c = Min(Free) /\ connectionPool' = [connectionPool EXCEPT ![c] = TRUE] /\ UNCHANGED made
    ELSE /\ c = made + 1 /\ made' = c
         /\ connectionPool' = IF pooling THEN Put(connectionPool, c, FALSE) ELSE connectionPool

\* getConnection: a free one of the pool, or a new one, which joins the pool
\* only when there is one.
GetConnection(c) ==
    IF pooling /\ Free # {}
    THEN c = Min(Free) /\ connectionPool' = [connectionPool EXCEPT ![c] = TRUE] /\ UNCHANGED made
    ELSE /\ c = made + 1 /\ made' = c
         /\ connectionPool' = IF pooling THEN Put(connectionPool, c, TRUE) ELSE connectionPool

\* It throws instead.
NoConnection == pooling /\ Free = {} /\ Cardinality(DOMAIN connectionPool) >= MaxConnections

\* releaseConnection: nothing at all when pooling is off by then; a connection
\* the pool no longer has is freed to no effect.
Release(c) ==
    connectionPool' = IF pooling /\ c \in DOMAIN connectionPool
                      THEN [connectionPool EXCEPT ![c] = FALSE] ELSE connectionPool

\* executeQuery up to its await: a result kept under the text of the query, with
\* whatever parameters it was asked, or a connection, or an error.
ExecuteQuery(call, q, p) ==
    /\ call \notin DOMAIN inFlight /\ metrics.total + Cardinality(DOMAIN inFlight) < MaxRecorded
    /\ IF q \in DOMAIN queryCache \/ NoConnection
       THEN Record /\ UNCHANGED <<connectionPool, made, inFlight>>
       ELSE \E c \in 1..MaxMade :
             /\ GetConnection(c)
             /\ inFlight' = Put(inFlight, call, [query |-> q, parameters |-> p, connection |-> c,
                                                 indexes |-> ApplicableIndexes(q)])
             /\ UNCHANGED metrics
    /\ UNCHANGED <<pooling, indexes, indexCalls, queryCache, optimized>>

\* The rest of executeQuery; shouldCacheQuery keeps what has a `select' in it.
QueryDone(call) ==
    /\ call \in DOMAIN inFlight
    /\ LET f == inFlight[call]
       IN  /\ queryCache' = IF "SELECT" \in f.query.operations
                            THEN Put(queryCache, f.query, [parameters |-> f.parameters, indexes |-> f.indexes])
                            ELSE queryCache
           /\ Release(f.connection)
    /\ Record /\ inFlight' = Drop(inFlight, {call})
    /\ UNCHANGED <<pooling, made, indexes, indexCalls, optimized>>

-----------------------------------------------------------------------------
\* createIndex takes 100 ms, dropIndex 50: no call overtakes one that was made
\* before it and takes no longer.
CallIndex(op, i) ==
    /\ Cardinality(DOMAIN indexCalls) < MaxIndexCalls
    /\ LET n == IF indexCalls = Empty THEN 1 ELSE Max(DOMAIN indexCalls) + 1
       IN  indexCalls' = Put(indexCalls, n, [op |-> op, index |-> i])
    /\ UNCHANGED <<pooling, connectionPool, made, indexes, queryCache, inFlight, metrics, optimized>>

Overtaken(n) == \E m \in DOMAIN indexCalls : m < n /\ (indexCalls[m].op = "drop" \/ indexCalls[n].op = "create")

\* The timer fires.  An index dropped and made again is a new one to optimize.
IndexCallDone(n) ==
    /\ n \in DOMAIN indexCalls /\ ~Overtaken(n)
    /\ LET c == indexCalls[n] IN
       IF c.op = "create" THEN indexes' = indexes \cup {c.index} /\ UNCHANGED optimized
       ELSE indexes' = indexes \ {c.index} /\ optimized' = [optimized EXCEPT !.done = @ \ {c.index}]
    /\ indexCalls' = Drop(indexCalls, {n})
    /\ UNCHANGED <<pooling, connectionPool, made, queryCache, inFlight, metrics>>

\* optimize: one index after the other, from the live map, and then the two
\* tables and the slow queries, from which nothing is kept.
Optimize ==
    /\ \/ ~optimized.running /\ optimized' = [optimized EXCEPT !.running = TRUE]
       \/ \E i \in indexes \ optimized.done : optimized.running /\ optimized' = [optimized EXCEPT !.done = @ \cup {i}]
       \/ optimized.running /\ indexes = optimized.done /\ optimized' = [running |-> FALSE, done |-> {}]
    /\ UNCHANGED <<pooling, connectionPool, made, indexes, indexCalls, queryCache, inFlight, metrics>>

-----------------------------------------------------------------------------
ClearQueryCache ==
    /\ queryCache' = Empty
    /\ UNCHANGED <<pooling, connectionPool, made, indexes, indexCalls, inFlight, metrics, optimized>>

\* updateConfig, of the one switch that matters to what is under way.
SwitchPooling ==
    /\ pooling' = ~pooling
    /\ UNCHANGED <<connectionPool, made, indexes, indexCalls, queryCache, inFlight, metrics, optimized>>

\* stop: the pool and the cache are dropped; what is awaited goes on, and
\* nothing refuses a query afterwards.
StopDatabase ==
    /\ connectionPool' = Empty /\ queryCache' = Empty
    /\ metrics' = [metrics EXCEPT !.kept = 0]
    /\ UNCHANGED <<pooling, made, indexes, indexCalls, inFlight, optimized>>

Next ==
    \/ \E call \in CallIds, q \in DBQueries, p \in Parameters : ExecuteQuery(call, q, p)
    \/ \E call \in CallIds : QueryDone(call)
    \/ \E i \in DBIndexes, op \in {"create", "drop"} : CallIndex(op, i)
    \/ \E n \in DOMAIN indexCalls : IndexCallDone(n)
    \/ Optimize \/ ClearQueryCache \/ SwitchPooling \/ StopDatabase

Spec == Init /\ [][Next]_dbVars

-----------------------------------------------------------------------------
TypeOK ==
    /\ pooling \in BOOLEAN /\ IsMap(connectionPool, 1..MaxMade, BOOLEAN) /\ made \in PoolSize..MaxMade
    /\ indexes \subseteq DBIndexes
    /\ IsMap(queryCache, DBQueries, [parameters : Parameters, indexes : SUBSET DBIndexes])
    /\ DOMAIN inFlight \subseteq CallIds /\ metrics.kept \in 0..metrics.total
    /\ optimized \in [running : BOOLEAN, done : SUBSET indexes]

\* Two queries never share a connection, whatever is switched, stopped and
\* started while they run, and one of the pool is busy for as long as a query
\* runs on it; the pool never outgrows its limit.
ConnectionsExclusive ==
    /\ Cardinality(DOMAIN connectionPool) <= MaxConnections
    /\ \A a \in DOMAIN inFlight :
        /\ inFlight[a].connection \in DOMAIN connectionPool => connectionPool[inFlight[a].connection]
        /\ \A b \in DOMAIN inFlight \ {a} : inFlight[a].connection # inFlight[b].connection

\* Only reading queries have a result kept, and the plan kept with it names
\* indexes over the query's own tables.
CacheReads ==
    \A q \in DOMAIN queryCache : "SELECT" \in q.operations /\ \A i \in queryCache[q].indexes : i.table \in q.tables
=============================================================================
