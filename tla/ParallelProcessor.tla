--------------------------- MODULE ParallelProcessor ---------------------------
(***************************************************************************)
(* core/blockchain/ParallelProcessor.ts: a queue of tasks and a pool of       *)
(* workers.  An attempt at a task holds on to the record of the worker it      *)
(* began with, which a restart may meanwhile have replaced in the pool.  The   *)
(* load balancer's choice among idle workers is any choice.                    *)
(***************************************************************************)
EXTENDS Integers, Sequences, FiniteSets, Maps

CONSTANTS
    Workers,     \* maxWorkers of them
    Priorities,
    MaxRetries,  \* config.maxRetries
    MaxTasks,    \* bound: tasks submitted
    MaxRestarts  \* bound: workers restarted

VARIABLES
    tasks,    \* processingTasks: sequence of [status, priority, retries]
    queue,    \* taskQueue
    pool,     \* `workers': worker -> its record's place in workerRecords
    workerRecords, \* sequence of worker records [status, task], 0 for no task
    attempts, \* running executions: set of [task, record]
    retryTimers \* retry delays that have not ended

processorVars == <<tasks, queue, pool, workerRecords, attempts, retryTimers>>

IdleRecord == [status |-> "IDLE", task |-> 0]
Finished == {"COMPLETED", "FAILED"}

Init ==
    /\ tasks = <<>> /\ queue = <<>> /\ attempts = {} /\ retryTimers = 0
    /\ workerRecords = [i \in 1..Cardinality(Workers) |-> IdleRecord]
    /\ pool = CHOOSE f \in [Workers -> DOMAIN workerRecords] : \A v, w \in Workers : f[v] = f[w] => v = w

-----------------------------------------------------------------------------
\* processNextTask, with which every handler ends, on what that handler leaves
\* of tasks (t), queue (q), workerRecords (r) and attempts (a).
ProcessNextTask(t, q, r, a) ==
    LET idle == {w \in DOMAIN pool : r[pool[w]].status = "IDLE"}
    IN  IF q = <<>> \/ idle = {}
        THEN tasks' = t /\ queue' = q /\ workerRecords' = r /\ attempts' = a
        ELSE \E w \in idle :
            /\ tasks' = [t EXCEPT ![q[1]].status = "PROCESSING"]
            /\ queue' = Tail(q)
            /\ workerRecords' = [r EXCEPT ![pool[w]] = [status |-> "BUSY", task |-> q[1]]]
            /\ attempts' = a \cup {[task |-> q[1], record |-> pool[w]]}

\* The queue sorted by priority, equal ones in their order.
Before(t, q, i, j) ==
    \/ t[q[i]].priority > t[q[j]].priority
    \/ t[q[i]].priority = t[q[j]].priority /\ i < j
Rank(t, q, i) == 1 + Cardinality({j \in DOMAIN q : Before(t, q, j, i)})
Sorted(t, q) == [r \in DOMAIN q |-> q[CHOOSE i \in DOMAIN q : Rank(t, q, i) = r]]

\* processTask
ProcessTask(p) ==
    LET t == Append(tasks, [status |-> "PENDING", priority |-> p, retries |-> 0])
    IN  /\ Len(tasks) < MaxTasks
        /\ ProcessNextTask(t, Sorted(t, Append(queue, Len(t))), workerRecords, attempts)
        /\ UNCHANGED <<pool, retryTimers>>

\* handleTaskSuccess
TaskSuccess(a) ==
    /\ a \in attempts
    /\ ProcessNextTask([tasks EXCEPT ![a.task].status = "COMPLETED"], queue,
                       [workerRecords EXCEPT ![a.record] = IdleRecord], attempts \ {a})
    /\ UNCHANGED <<pool, retryTimers>>

\* handleTaskError: before the last retry the task goes to the head of the
\* queue, to be taken at once if a worker is idle, while the worker that failed
\* stays BUSY with it.
TaskError(a) ==
    LET t == [tasks EXCEPT ![a.task].retries = @ + 1]
    IN  /\ a \in attempts
        /\ IF t[a.task].retries < MaxRetries
           THEN /\ ProcessNextTask([t EXCEPT ![a.task].status = "PENDING"], <<a.task>> \o queue,
                                   workerRecords, attempts \ {a})
                /\ retryTimers' = retryTimers + 1
           ELSE /\ ProcessNextTask([t EXCEPT ![a.task].status = "FAILED"], queue,
                                   [workerRecords EXCEPT ![a.record] = IdleRecord], attempts \ {a})
                /\ UNCHANGED retryTimers
        /\ UNCHANGED pool

\* The end of a retry delay.
RetryDelayEnds ==
    /\ retryTimers > 0 /\ retryTimers' = retryTimers - 1
    /\ ProcessNextTask(tasks, queue, workerRecords, attempts)
    /\ UNCHANGED pool

\* performHealthCheck and restartWorker: a BUSY worker whose task bears a time
\* old enough, the time spent in the queue included, gets a new record; the
\* attempt goes on with the old one, and nothing takes up the queue.
RestartWorker(w) ==
    /\ w \in DOMAIN pool /\ workerRecords[pool[w]].status = "BUSY"
    /\ Len(workerRecords) < Cardinality(Workers) + MaxRestarts
    /\ workerRecords' = Append(workerRecords, IdleRecord)
    /\ pool' = [pool EXCEPT ![w] = Len(workerRecords')]
    /\ UNCHANGED <<tasks, queue, attempts, retryTimers>>

\* stop: the attempts and the retry delays run on.
Stop ==
    /\ pool # Empty
    /\ pool' = Empty /\ queue' = <<>>
    /\ UNCHANGED <<tasks, workerRecords, attempts, retryTimers>>

Next ==
    \/ \E p \in Priorities : ProcessTask(p)
    \/ \E a \in attempts : TaskSuccess(a) \/ TaskError(a)
    \/ RetryDelayEnds
    \/ \E w \in Workers : RestartWorker(w)
    \/ Stop

Spec == Init /\ [][Next]_processorVars

-----------------------------------------------------------------------------
TypeOK ==
    /\ tasks \in Seq([status : {"PENDING", "PROCESSING"} \cup Finished, priority : Priorities,
                      retries : 0..MaxRetries])
    /\ queue \in Seq(DOMAIN tasks)
    /\ IsMap(pool, Workers, DOMAIN workerRecords)
    /\ \A i \in DOMAIN workerRecords : workerRecords[i].status \in {"IDLE", "BUSY"} /\ workerRecords[i].task \in 0..Len(tasks)
    /\ attempts \subseteq [task : DOMAIN tasks, record : DOMAIN workerRecords]
    /\ retryTimers \in 0..(MaxTasks * MaxRetries)

\* A task is in one place only, however often workers fail and are replaced:
\* once in the queue while it waits, in one attempt while it runs, in neither
\* when it has ended; and no worker record runs two attempts.
EachTaskOnce ==
    /\ \A i, j \in DOMAIN queue : queue[i] = queue[j] => i = j
    /\ \A a, b \in attempts : a.task = b.task \/ a.record = b.record => a = b
    /\ \A t \in DOMAIN tasks :
        /\ t \in ToSet(queue) => tasks[t].status = "PENDING"
        /\ (\E a \in attempts : a.task = t) <=> tasks[t].status = "PROCESSING"

\* While it is not stopped, no waiting task is forgotten: it is in the queue.
WaitingIsQueued ==
    pool # Empty => \A t \in DOMAIN tasks : tasks[t].status = "PENDING" => t \in ToSet(queue)

\* A task that ended stays ended.
FinishedForGood ==
    [][\A t \in DOMAIN tasks : tasks[t].status \in Finished => tasks'[t].status = tasks[t].status]_processorVars
=============================================================================
