----------------------------- MODULE TaskManager -----------------------------
(***************************************************************************)
(* The task system of the DirectFB core: Task.cpp, TaskManager.cpp,        *)
(* SurfaceTask.cpp and DisplayTask.cpp under src/src/core, driven the way  *)
(* Renderer.cpp flushes rendering tasks, GenefxEngine.cpp runs them and    *)
(* layer regions flip.  Four kinds of threads interleave:                  *)
(*  - client threads flush rendering tasks (a master, one slave per        *)
(*    further tile), discard them, or flip a region (a display task);      *)
(*  - the Task Manager thread pulls tasks from its FIFO, sets up their     *)
(*    dependencies, emits them, and shuts finished tasks down;             *)
(*  - engine threads execute emitted rendering tasks, in order and one at  *)
(*    a time per queue (the promise of SerialQueues);                      *)
(*  - pool threads execute display tasks in no particular order; one stays *)
(*    RUNNING, on the screen, until the next one has replaced it.          *)
(*                                                                         *)
(* The manager's nested calls (notifyAll -> handleNotify -> checkEmit ->   *)
(* emit -> notifyAll ...) are the stack "calls": each step below handles   *)
(* its top frame, so the other threads run between any two calls.          *)
(* There is one layer region; it stays enabled, the driver calls of a      *)
(* display task succeed, and the manager is not shut down.                 *)
(***************************************************************************)
EXTENDS Integers, Sequences, FiniteSets, Functions

CONSTANTS
    Tasks,          \* Task objects; an address is never reused
    Allocs,         \* CoreSurfaceAllocation objects
    Accessors,      \* CoreSurfaceAccessorID values (CPU, GPU, layer, ...)
    Master,         \* Master[t]: Task::master, NULL for a master task
    Tile,           \* Tile[t]: tile_number of a GenefxTask, 0 for a master
    Display,        \* the DisplayTasks
    Workloads,      \* for each workload, the accesses clients may give to a task
    InitFlags,      \* InitFlags[t]: flags t has when it is flushed
    TsEmit,         \* TsEmit[t]: Task::ts_emit, 0 when t is not timed
    NULL

Masters == {t \in Tasks : Master[t] = NULL}

SlavesOf(m) == {s \in Tasks : Master[s] = m}

(* A master and its slaves, one per tile. *)
Group(m) == {m} \cup SlavesOf(m)

Tiles == {Tile[t] : t \in Tasks}

(* SurfaceTask::accessor and ::accesses: the written allocation and the    *)
(* read ones.  A display task writes nothing.                              *)
AccessSets == [accessor : Accessors, dst : Allocs \cup {NULL}, srcs : SUBSET Allocs]

NoAccess == [accessor |-> NULL, dst |-> NULL, srcs |-> {}]

ASSUME TaskAssumption ==
    /\ NULL \notin Tasks \cup Allocs \cup Accessors
    /\ Master \in [Tasks -> Tasks \cup {NULL}]
    /\ \A t \in Tasks : Master[t] # NULL => Master[t] \in Masters
    /\ Tile \in [Tasks -> Nat]
    /\ \A t \in Masters : Tile[t] = 0
    /\ \A m \in Masters : \A t, u \in Group(m) : t # u => Tile[t] # Tile[u]
    /\ Display \subseteq {t \in Masters : SlavesOf(t) = {}}

ASSUME FiniteAssumption == IsFiniteSet(Tasks) /\ IsFiniteSet(Allocs)

(* Only display tasks are timed or notify on emit; only rendering tasks    *)
(* follow readers or writers (Renderer::flushTask).                        *)
ASSUME FlagAssumption ==
    /\ Workloads \subseteq [Masters -> SUBSET AccessSets]
    /\ \A w \in Workloads : \A m \in Masters : \A c \in w[m] : m \in Display <=> c.dst = NULL
    /\ InitFlags \in [Tasks -> SUBSET {"EMITNOTIFIES", "FOLLOW_READER", "FOLLOW_WRITER"}]
    /\ \A t \in Tasks : "EMITNOTIFIES" \in InitFlags[t] => t \in Display
    /\ TsEmit \in [Tasks -> Nat]
    /\ \A t \in Tasks : TsEmit[t] # 0 => t \in Display

(* When accesses are ordered.  A FOLLOW task waits for the start of        *)
(* another task and not for its end.  Nothing follows writers; the copy of *)
(* a back buffer to the front (back_to_front_copy) follows the readers of  *)
(* the front buffer, which have to be display tasks that notify on emit.   *)
(* The tiles depend on the destination and on the cores of the accessor    *)
(* only (Renderer::Setup), so tasks of one accessor share their queues.    *)
Orderly(w) ==
    \A m, n \in Masters : \A c \in w[m], d \in w[n] :
        /\ "FOLLOW_WRITER" \notin InitFlags[m]
        /\ "FOLLOW_READER" \in InitFlags[m] /\ c.dst \in d.srcs => "EMITNOTIFIES" \in InitFlags[n]
        /\ c.dst # NULL /\ c.dst = d.dst /\ c.accessor = d.accessor =>
              {Tile[t] : t \in Group(m)} = {Tile[t] : t \in Group(n)}

OrderlyWorkloads == \A w \in Workloads : Orderly(w)

(* Tiles of one task are not ordered: what they read, they do not render.  *)
TilesApart(w) == \A m \in Masters : \A c \in w[m] : c.dst \in c.srcs => SlavesOf(m) = {}

TilesAreApart == \A w \in Workloads : TilesApart(w)

VARIABLES
    workload,       \* what the clients do, chosen once
    state,          \* Task::state; NONE before the constructor, INVALID after
    refs,           \* Task::refs
    block_count,    \* Task::block_count
    slaves,         \* Task::slaves
    notifies,       \* the entries of every Task::notifies vector
    access,         \* access[m]: accessor and accesses of the SurfaceTask m
    invalidate,     \* <<t, a>>: CSAF_CACHE_INVALIDATE on t's access to a
    flush,          \* tasks with CSAF_CACHE_FLUSH on their write access
    write_task,     \* CoreSurfaceAllocation::write_task
    read_tasks,     \* CoreSurfaceAllocation::read_tasks
    invalidated,    \* CoreSurfaceAllocation::invalidated
    fifo,           \* TaskManager::fifo
    phase,          \* managerLoop(): about to pull, or to handleTimedEmits()
    calls,          \* the manager's call stack, top frame last
    waiting,        \* tasks with TASK_FLAG_WAITING_TIMED_EMIT
    timed_emits,    \* TaskManager::timed_emits
    pull_timeout,   \* TaskManager::pull_timeout
    now,            \* the monotonic clock
    queue,          \* queue[k]: emitted tasks of engine queue k, in order
    executing,      \* rendering tasks whose Run() is in progress
    dirty,          \* dirty[a]: accessor with unflushed writes to a, or NULL
    stale,          \* stale[a]: accessors whose cache of a is out of date
    pool,           \* display tasks pushed to TaskManager::threads
    display_tasks,  \* CoreLayerRegion::display_tasks
    display_task,   \* CoreLayer::display_task, the last one set up
    prev_task,      \* CoreLayer::prev_task, the one on the screen
    order           \* history: the masters in the order of their Flush()

taskVars    == <<state, refs, block_count, slaves, notifies, access>>
allocVars   == <<invalidate, flush, write_task, read_tasks, invalidated>>
mgrVars     == <<fifo, phase, calls>>
timeVars    == <<waiting, timed_emits, pull_timeout, now>>
engineVars  == <<queue, executing, dirty, stale>>
displayVars == <<pool, display_tasks, display_task, prev_task>>
clientVars  == <<workload, order>>
vars == <<taskVars, allocVars, mgrVars, timeVars, engineVars, displayVars, clientVars>>

TaskStates == {"NONE", "NEW", "FLUSHED", "READY", "RUNNING", "DONE", "FINISH",
               "DEAD", "INVALID"}

(* An element of from->notifies: "to" waits until "from" reaches state     *)
(* "on"; "via" is the allocation it waits for, NULL for the layer.         *)
Notifies == [from : Tasks, to : Tasks, on : {"RUNNING", "FINISH"},
             via : Allocs \cup {NULL}]

Frames == [op : {"checkEmit", "timedEmit", "notifyRunning", "notifyFinish", "shutdown"},
           task : Tasks]

(* Accessor and GenefxTask::qid: the destination allocation and the tile. *)
Keys == Accessors \X Allocs \X Tiles

TypeOK ==
    /\ workload \in Workloads
    /\ state \in [Tasks -> TaskStates]
    /\ refs \in [Tasks -> 0..2]
    /\ block_count \in [Tasks -> Nat]
    /\ slaves \in [Tasks -> Nat]
    /\ notifies \in SUBSET Notifies
    /\ access \in [Tasks -> AccessSets \cup {NoAccess}]
    /\ invalidate \in SUBSET (Tasks \X Allocs)
    /\ flush \in SUBSET Tasks
    /\ write_task \in [Allocs -> Tasks \cup {NULL}]
    /\ read_tasks \in [Allocs -> SUBSET Tasks]
    /\ invalidated \in [Allocs -> SUBSET Accessors]
    /\ fifo \in Seq(Tasks)
    /\ phase \in {"pull", "timed"}
    /\ calls \in Seq(Frames)
    /\ waiting \in SUBSET Tasks
    /\ timed_emits \in SUBSET Tasks
    /\ pull_timeout \in Nat
    /\ now \in Nat
    /\ queue \in [Keys -> Seq(Tasks)]
    /\ executing \in SUBSET Tasks
    /\ dirty \in [Allocs -> Accessors \cup {NULL}]
    /\ stale \in [Allocs -> SUBSET Accessors]
    /\ pool \in SUBSET Tasks
    /\ display_tasks \in SUBSET Tasks
    /\ display_task \in Tasks \cup {NULL}
    /\ prev_task \in Tasks \cup {NULL}
    /\ order \in Seq(Tasks)

Init ==
    /\ workload \in Workloads
    /\ state = [t \in Tasks |-> "NONE"]
    /\ refs = [t \in Tasks |-> 0]
    /\ block_count = [t \in Tasks |-> 0]
    /\ slaves = [t \in Tasks |-> 0]
    /\ notifies = {}
    /\ access = [t \in Tasks |-> NoAccess]
    /\ invalidate = {}
    /\ flush = {}
    /\ write_task = [a \in Allocs |-> NULL]
    /\ read_tasks = [a \in Allocs |-> {}]
    /\ invalidated = [a \in Allocs |-> {}]
    /\ fifo = << >>
    /\ phase = "pull"
    /\ calls = << >>
    /\ waiting = {}
    /\ timed_emits = {}
    /\ pull_timeout = 0
    /\ now = 0
    /\ queue = [k \in Keys |-> << >>]
    /\ executing = {}
    /\ dirty = [a \in Allocs |-> NULL]
    /\ stale = [a \in Allocs |-> {}]
    /\ pool = {}
    /\ display_tasks = {}
    /\ display_task = NULL
    /\ prev_task = NULL
    /\ order = << >>

Root(t) == IF Master[t] = NULL THEN t ELSE Master[t]

Acc(t) == access[Root(t)].accessor

Dst(t) == access[Root(t)].dst

Key(t) == <<Acc(t), Dst(t), Tile[t]>>

Accessed(t) == access[Root(t)].srcs \cup ({Dst(t)} \ {NULL})

-----------------------------------------------------------------------------
(* Client threads *)

(* Renderer::bindEngine() creates the tasks of all tiles and makes 1..n-1  *)
(* slaves of 0, update() adds the accesses, and flushTask() hands the      *)
(* master over; only this thread knows the tasks before.  A region's flip  *)
(* generates a display task, whose Flush() takes a reference and enters it *)
(* on the region's list.                                                   *)
Flush(m, c) ==
    /\ state[m] = "NONE"
    /\ state' = [t \in Tasks |-> IF t = m THEN "FLUSHED"
                                 ELSE IF t \in SlavesOf(m) THEN "NEW" ELSE state[t]]
    /\ refs' = [t \in Tasks |-> IF t \notin Group(m) THEN refs[t]
                                ELSE IF t \in Display THEN 2 ELSE 1]
    /\ slaves' = [slaves EXCEPT ![m] = Cardinality(SlavesOf(m))]
    /\ access' = [access EXCEPT ![m] = c]
    /\ display_tasks' = display_tasks \cup ({m} \cap Display)
    /\ fifo' = Append(fifo, m)
    /\ order' = Append(order, m)
    /\ UNCHANGED <<workload, block_count, notifies, allocVars, phase, calls, timeVars,
                   engineVars, pool, display_task, prev_task>>

(* Renderer::flushTask() with discard: each tile's task loses its only     *)
(* reference, becomes DEAD and is handed over, the master last.            *)
Discard(m) ==
    /\ state[m] = "NONE" /\ workload[m] # {}
    /\ m \notin Display
    /\ state' = [t \in Tasks |-> IF t \in Group(m) THEN "DEAD" ELSE state[t]]
    /\ \E s \in [1..Cardinality(SlavesOf(m)) -> SlavesOf(m)] :
          /\ \A i, j \in DOMAIN s : i < j => Tile[s[i]] > Tile[s[j]]
          /\ fifo' = fifo \o s \o <<m>>
    /\ UNCHANGED <<refs, block_count, slaves, notifies, access, allocVars, phase,
                   calls, timeVars, engineVars, displayVars, clientVars>>

-----------------------------------------------------------------------------
(* Task Manager thread: handleTask() *)

Top == calls[Len(calls)]

Below == SubSeq(calls, 1, Len(calls) - 1)

Frame(o, t) == [op |-> o, task |-> t]

(* The tasks that SurfaceTask::Setup() and DisplayTask::Setup() call       *)
(* AddNotify() on: before a write, the readers of the allocation, or its   *)
(* last writer when there are none; before a read, the last writer; for a  *)
(* display task also the one set up before it.  Tasks of the same accessor *)
(* and qid follow each other.                                              *)
SameAccessor(u, t) == Acc(u) = Acc(t)      \* mutated form of SameQueue

SameQueue(u, t) == Acc(u) = Acc(t) /\ Dst(u) = Dst(t)

Dependency(u, t, flag, a) ==
    [from |-> u, follow |-> SameQueue(u, t) \/ flag \in InitFlags[t], via |-> a]

Writer(a) == {write_task[a]} \ {NULL}

Dependencies(t) ==
    {Dependency(u, t, "FOLLOW_READER", Dst(t)) :
        u \in IF Dst(t) = NULL THEN {} ELSE read_tasks[Dst(t)]}
    \cup
    (UNION {{Dependency(u, t, "FOLLOW_WRITER", a) : u \in Writer(a)} :
        a \in {b \in Accessed(t) : b = Dst(t) => read_tasks[b] = {}}})
    \cup
    {[from |-> u, follow |-> TRUE, via |-> NULL] :
        u \in IF t \in Display THEN {display_task} \ {NULL} ELSE {}}

(* Mutated forms of AddsNotify: a master that is done while its slaves     *)
(* still run is taken for finished; every task is taken for EMITNOTIFIES.  *)
AddsNotifyIgnoringSlaves(d) ==
    /\ ~ (d.follow /\ state[d.from] \in {"RUNNING", "DONE", "FINISH"})
    /\ ~ (state[d.from] \in {"RUNNING", "DONE"} /\ "EMITNOTIFIES" \in InitFlags[d.from])
    /\ state[d.from] # "FINISH"

(* The early returns of Task::AddNotify(). *)
AddsNotify(d) ==
    /\ ~ (d.follow /\ state[d.from] \in {"RUNNING", "DONE", "FINISH"})
    /\ ~ (state[d.from] \in {"RUNNING", "DONE"} /\ "EMITNOTIFIES" \in InitFlags[d.from])
    /\ ~ (state[d.from] = "FINISH" /\ slaves[d.from] = 0)

(* TaskManager::pullTask() returns a task unless the emit time is reached. *)
Pull ==
    /\ calls = << >> /\ phase = "pull" /\ fifo # << >>
    /\ pull_timeout # 0 => now < pull_timeout
    /\ fifo' = Tail(fifo)

(* "if the last write task still exists from same accessor, clear its      *)
(* flush flags": that task of the allocation t writes, if no task has read *)
(* the allocation since.                                                   *)
SupersededDespiteReaders(t) ==      \* mutated form of Superseded
    {u \in Tasks : Dst(t) # NULL /\ u \in Writer(Dst(t)) /\ Acc(u) = Acc(t)}

Superseded(t) ==
    {u \in Tasks : /\ Dst(t) # NULL
                   /\ u \in Writer(Dst(t))
                   /\ read_tasks[Dst(t)] = {}
                   /\ Acc(u) = Acc(t)}

(* A timed task is parked in timed_emits, a std::set ordered by ts_emit    *)
(* that does not insert a second task of the same time.                    *)
Park(t) ==
    /\ waiting' = waiting \cup {t}
    /\ timed_emits' = IF \E u \in timed_emits : TsEmit[u] = TsEmit[t]
                        THEN timed_emits ELSE timed_emits \cup {t}
    /\ pull_timeout' = IF pull_timeout = 0 \/ TsEmit[t] < pull_timeout
                         THEN TsEmit[t] ELSE pull_timeout

(* FLUSHED: Setup() records the task as the last writer of what it writes  *)
(* and as a reader of what it reads, moves the cache maintenance flags,    *)
(* and blocks the task on its dependencies.  A task whose time has not     *)
(* come is parked, any other is emitted unless it is blocked.              *)
SetupTask ==
    /\ Pull
    /\ state[Head(fifo)] = "FLUSHED"
    /\ LET t == Head(fifo)
           d == Dst(t)
           blocking == {x \in Dependencies(t) : AddsNotify(x)}
       IN  /\ notifies' = notifies \cup
                {[from |-> x.from, to |-> t, via |-> x.via,
                  on |-> IF x.follow THEN "RUNNING" ELSE "FINISH"] : x \in blocking}
           /\ block_count' = [block_count EXCEPT ![t] = @ + Cardinality(blocking)]
           /\ write_task' = [a \in Allocs |-> IF a = d THEN t ELSE write_task[a]]
           /\ read_tasks' = [a \in Allocs |->
                (IF a = d THEN {} ELSE read_tasks[a])
                    \cup (IF a \in access[t].srcs THEN {t} ELSE {})]
           /\ invalidate' = invalidate \cup
                {<<t, a>> : a \in {b \in Accessed(t) : Acc(t) \notin invalidated[b]}}
           /\ invalidated' = [a \in Allocs |->
                IF a \notin Accessed(t) THEN invalidated[a]
                ELSE (IF a = d THEN {} ELSE invalidated[a]) \cup {Acc(t)}]
           /\ flush' = (flush \ Superseded(t)) \cup (IF d = NULL THEN {} ELSE {t})
           /\ display_task' = IF t \in Display THEN t ELSE display_task
           /\ state' = [state EXCEPT ![t] = "READY"]
           /\ IF TsEmit[t] > now
                THEN Park(t) /\ calls' = calls
                ELSE /\ calls' = <<Frame("checkEmit", t)>>
                     /\ UNCHANGED <<waiting, timed_emits, pull_timeout>>
    /\ phase' = "timed"
    /\ UNCHANGED <<refs, slaves, access, now, engineVars, pool, display_tasks, prev_task, clientVars>>

(* Task::slaves of the master after one of its group has finished. *)
SlavesLeft(t) == IF t = Root(t) THEN slaves[t] ELSE slaves[Root(t)] - 1

(* The last task of a group to finish shuts the master down. *)
LastSlave(t) == SlavesLeft(t) = 0                   \* mutated forms of LastOfGroup

LastAsMaster(t) == SlavesLeft(t) = 0 /\ t = Root(t)

LastOfGroup(t) == SlavesLeft(t) = 0 /\ (t = Root(t) \/ state[Root(t)] = "FINISH")

(* DONE: Task::finish(), up to the shutdown. *)
Finish ==
    /\ Pull
    /\ state[Head(fifo)] = "DONE"
    /\ LET t == Head(fifo)
           m == Root(t)
       IN  /\ state' = [state EXCEPT ![t] = "FINISH"]
           /\ slaves' = [slaves EXCEPT ![m] = SlavesLeft(t)]
           /\ calls' = IF LastOfGroup(t)
                         THEN <<Frame("shutdown", m), Frame("notifyFinish", m)>>
                         ELSE << >>
    /\ phase' = "timed"
    /\ UNCHANGED <<refs, block_count, notifies, access, allocVars, timeVars,
                   engineVars, displayVars, clientVars>>

(* DEAD: delete. *)
Delete ==
    /\ Pull
    /\ state[Head(fifo)] = "DEAD"
    /\ state' = [state EXCEPT ![Head(fifo)] = "INVALID"]
    /\ phase' = "timed"
    /\ UNCHANGED <<refs, block_count, slaves, notifies, access, allocVars, calls,
                   timeVars, engineVars, displayVars, clientVars>>

(* pullTask() returns NULL at the emit time of the first timed task. *)
PullTimeout ==
    /\ calls = << >> /\ phase = "pull"
    /\ pull_timeout # 0 /\ now >= pull_timeout
    /\ phase' = "timed"
    /\ UNCHANGED <<taskVars, allocVars, fifo, calls, timeVars, engineVars, displayVars, clientVars>>

(* TaskManager::handleTimedEmits(): reads the clock once, then handles the *)
(* tasks whose time has come, the earliest first.                          *)
HandleTimedEmits ==
    LET expired == {t \in timed_emits : TsEmit[t] <= now}
        later == {TsEmit[t] : t \in timed_emits \ expired}
    IN  /\ calls = << >> /\ phase = "timed"
        /\ \E s \in [1..Cardinality(expired) -> expired] :
             /\ \A i, j \in DOMAIN s : i < j => TsEmit[s[i]] > TsEmit[s[j]]
             /\ calls' = [i \in DOMAIN s |-> Frame("timedEmit", s[i])]
        /\ timed_emits' = timed_emits \ expired
        /\ pull_timeout' \in IF later = {} THEN {0}
                             ELSE {ts \in later : \A x \in later : ts <= x}
        /\ phase' = "pull"
        /\ UNCHANGED <<taskVars, allocVars, fifo, waiting, now, engineVars, displayVars, clientVars>>

TimedEmit ==
    /\ calls # << >> /\ Top.op = "timedEmit"
    /\ waiting' = waiting \ {Top.task}
    /\ calls' = Append(Below, Frame("checkEmit", Top.task))
    /\ UNCHANGED <<taskVars, allocVars, fifo, phase, timed_emits, pull_timeout, now,
                   engineVars, displayVars, clientVars>>

-----------------------------------------------------------------------------
(* Task Manager thread: the calls nested in handleTask() *)

(* Task::checkEmit() calls emit() unless the task is still blocked, waits  *)
(* for its time, or is not READY any more.  emit() pushes the task and its *)
(* slaves to their queues and notifies those that follow it; a task with   *)
(* EMITNOTIFIES notifies everyone.                                         *)
MayEmitBlocked(t) == state[t] = "READY" /\ t \notin waiting   \* mutated form of MayEmit

MayEmit(t) == state[t] = "READY" /\ block_count[t] = 0 /\ t \notin waiting

Emit ==
    /\ calls # << >> /\ Top.op = "checkEmit"
    /\ MayEmit(Top.task)
    /\ LET m == Top.task
           pushed == Group(m)
       IN  /\ state' = [t \in Tasks |-> IF t \in pushed THEN "RUNNING" ELSE state[t]]
           /\ IF m \in Display
                THEN pool' = pool \cup {m} /\ queue' = queue
                ELSE /\ pool' = pool
                     /\ queue' = [k \in Keys |->
                          IF \E t \in pushed : Key(t) = k
                            THEN Append(queue[k], CHOOSE t \in pushed : Key(t) = k)
                            ELSE queue[k]]
           /\ calls' = Below
                \o (IF "EMITNOTIFIES" \in InitFlags[m] THEN <<Frame("notifyFinish", m)>>
                                                      ELSE << >>)
                \o <<Frame("notifyRunning", m)>>
    /\ UNCHANGED <<refs, block_count, slaves, notifies, access, allocVars, fifo, phase,
                   timeVars, executing, dirty, stale, display_tasks, display_task,
                   prev_task, clientVars>>

KeepBlocked ==
    /\ calls # << >> /\ Top.op = "checkEmit"
    /\ ~ MayEmit(Top.task)
    /\ calls' = Below
    /\ UNCHANGED <<taskVars, allocVars, fifo, phase, timeVars, engineVars, displayVars, clientVars>>

(* Task::notifyAll(): each matching entry is erased and its task handled   *)
(* by Task::handleNotify(), whose last notification calls checkEmit().     *)
Pending ==
    {n \in notifies :
        /\ n.from = Top.task
        /\ \/ Top.op = "notifyRunning" /\ n.on = "RUNNING"
           \/ Top.op = "notifyFinish" /\ n.on = "FINISH"}

Notify ==
    /\ calls # << >>
    /\ \E n \in Pending :
         /\ notifies' = notifies \ {n}
         /\ IF state[n.to] = "READY"
              THEN /\ block_count' = [block_count EXCEPT ![n.to] = @ - 1]
                   /\ calls' = IF block_count[n.to] = 1
                                 THEN Append(calls, Frame("checkEmit", n.to)) ELSE calls
              ELSE UNCHANGED <<block_count, calls>>
    /\ UNCHANGED <<state, refs, slaves, access, allocVars, fifo, phase, timeVars,
                   engineVars, displayVars, clientVars>>

NotifyReturn ==
    /\ calls # << >> /\ Top.op \in {"notifyRunning", "notifyFinish"}
    /\ Pending = {}
    /\ calls' = Below
    /\ UNCHANGED <<taskVars, allocVars, fifo, phase, timeVars, engineVars, displayVars, clientVars>>

(* SurfaceTask::Finalise() and DisplayTask::Finalise(): the task leaves    *)
(* the allocations it accessed and the layer.                              *)
FinaliseKeepsReader(m) ==           \* mutated forms of Finalise
    /\ write_task' = [a \in Allocs |-> IF write_task[a] = m THEN NULL ELSE write_task[a]]
    /\ display_task' = IF display_task = m THEN NULL ELSE display_task
    /\ invalidate' = {x \in invalidate : x[1] # m}
    /\ flush' = flush \ {m}
    /\ UNCHANGED read_tasks

Finalise(m) ==
    /\ write_task' = [a \in Allocs |-> IF write_task[a] = m THEN NULL ELSE write_task[a]]
    /\ read_tasks' = [a \in Allocs |-> read_tasks[a] \ {m}]
    /\ invalidate' = {x \in invalidate : x[1] # m}
    /\ flush' = flush \ {m}
    /\ display_task' = IF display_task = m THEN NULL ELSE display_task

(* The end of Task::finish(): Finalise(), then Release() of the slaves and *)
(* of the master; a task without references is deleted.                    *)
Shutdown ==
    /\ calls # << >> /\ Top.op = "shutdown"
    /\ Finalise(Top.task)
    /\ refs' = [t \in Tasks |-> IF t \in Group(Top.task) THEN refs[t] - 1 ELSE refs[t]]
    /\ state' = [t \in Tasks |-> IF t \in Group(Top.task) /\ refs[t] = 1 THEN "INVALID"
                                 ELSE state[t]]
    /\ calls' = Below
    /\ UNCHANGED <<block_count, slaves, notifies, access, invalidated, fifo, phase,
                   timeVars, engineVars, pool, display_tasks, prev_task, clientVars>>

-----------------------------------------------------------------------------
(* Engine threads, pool threads and the region *)

(* GenefxTask::Run() starts with CacheInvalidate() ... *)
Start(t) ==
    /\ \E k \in Keys : queue[k] # << >> /\ Head(queue[k]) = t
    /\ t \notin executing
    /\ executing' = executing \cup {t}
    /\ stale' = [a \in Allocs |-> IF <<Root(t), a>> \in invalidate
                                    THEN stale[a] \ {Acc(t)} ELSE stale[a]]
    /\ UNCHANGED <<taskVars, allocVars, mgrVars, timeVars, queue, dirty, displayVars, clientVars>>

(* ... and ends with CacheFlush() and Done(). *)
Complete(t) ==
    /\ t \in executing
    /\ executing' = executing \ {t}
    /\ queue' = [queue EXCEPT ![Key(t)] = Tail(@)]
    /\ dirty' = [dirty EXCEPT ![Dst(t)] = IF Root(t) \in flush THEN NULL ELSE Acc(t)]
    /\ stale' = [stale EXCEPT ![Dst(t)] = Accessors \ {Acc(t)}]
    /\ state' = [state EXCEPT ![t] = "DONE"]
    /\ fifo' = Append(fifo, t)
    /\ UNCHANGED <<refs, block_count, slaves, notifies, access, allocVars, phase, calls,
                   timeVars, displayVars, clientVars>>

(* Task_Done() of the display task on the screen. *)
DonePrevious ==
    IF prev_task # NULL
      THEN /\ state' = [state EXCEPT ![prev_task] = "DONE"]
           /\ fifo' = Append(fifo, prev_task)
      ELSE UNCHANGED <<state, fifo>>

(* DisplayTask::Run() under the region lock: leave the region's list,      *)
(* invalidate, flip, drop the reference of Flush(), and call Done() on the *)
(* display task that was on the screen before.                             *)
DisplayRun(t) ==
    /\ t \in pool
    /\ pool' = pool \ {t}
    /\ display_tasks' = display_tasks \ {t}
    /\ refs' = [refs EXCEPT ![t] = @ - 1]
    /\ stale' = [a \in Allocs |-> IF <<t, a>> \in invalidate
                                    THEN stale[a] \ {Acc(t)} ELSE stale[a]]
    /\ DonePrevious
    /\ prev_task' = t
    /\ UNCHANGED <<block_count, slaves, notifies, access, allocVars, phase, calls,
                   timeVars, queue, executing, dirty, display_task, clientVars>>

(* dfb_layer_region_unrealize(), called with an empty list of pending      *)
(* display tasks: the screen is given up.                                  *)
Unrealize ==
    /\ display_tasks = {}
    /\ prev_task # NULL
    /\ DonePrevious
    /\ prev_task' = NULL
    /\ UNCHANGED <<refs, block_count, slaves, notifies, access, allocVars, phase, calls,
                   timeVars, engineVars, pool, display_tasks, display_task, clientVars>>

(* The clock is only compared with the emit times of the workload. *)
Tick ==
    /\ \E t \in Display : workload[t] # {} /\ now < TsEmit[t]
    /\ now' = now + 1
    /\ UNCHANGED <<taskVars, allocVars, mgrVars, waiting, timed_emits, pull_timeout,
                   engineVars, displayVars, clientVars>>

-----------------------------------------------------------------------------
Client ==
    \/ \E m \in Masters : \E c \in workload[m] : Flush(m, c)
    \/ \E m \in Masters : Discard(m)
    \/ Unrealize

Manager ==
    \/ SetupTask \/ Finish \/ Delete \/ PullTimeout \/ HandleTimedEmits
    \/ TimedEmit \/ Emit \/ KeepBlocked \/ Notify \/ NotifyReturn \/ Shutdown

Engine == \E t \in Tasks : Start(t) \/ Complete(t)

Pool == \E t \in Tasks : DisplayRun(t)

Next ==
    \/ Client
    \/ Manager
    \/ Engine
    \/ Pool
    \/ Tick

Spec == Init /\ [][Next]_vars

(* The manager, engine and pool threads run until they block, every Run()  *)
(* returns, and the clock advances; nothing makes a client do anything.    *)
Fairness == WF_vars(Manager) /\ WF_vars(Engine) /\ WF_vars(Pool) /\ WF_vars(Tick)

FairSpec == Spec /\ Fairness

-----------------------------------------------------------------------------
(* Properties *)

Live(t) == state[t] \notin {"NONE", "INVALID"}

(* A task is emitted when block_count reaches 0, so the counter must never *)
(* differ from the notifications still on their way, whichever of the      *)
(* early returns of AddNotify() were taken; only a READY task is blocked.  *)
BlockCountMatches ==
    \A t \in Tasks :
        /\ block_count[t] = Cardinality({n \in notifies : n.to = t})
        /\ block_count[t] > 0 => state[t] = "READY"

(* Every pointer the manager, the allocations, the layer and the queues    *)
(* keep leads to a task that has not been deleted, a deleted task has left *)
(* no notification behind (the D_ASSERT of ~Task()), and a slave outlives  *)
(* neither its master nor the accesses its Run() gets from the master.     *)
NoDanglingTask ==
    LET Set(x) == {x} \ {NULL}
    IN  /\ \A a \in Allocs : \A t \in Set(write_task[a]) \cup read_tasks[a] : Live(t)
        /\ \A n \in notifies : Live(n.from) /\ Live(n.to)
        /\ \A i \in DOMAIN fifo : state[fifo[i]] \in {"FLUSHED", "DONE", "DEAD"}
        /\ \A i, j \in DOMAIN fifo : i # j => fifo[i] # fifo[j]
        /\ \A i \in DOMAIN calls : Live(calls[i].task)
        /\ \A k \in Keys : \A t \in Range(queue[k]) :
              state[t] = "RUNNING" /\ Live(Root(t)) /\ refs[Root(t)] > 0
        /\ \A t \in timed_emits \cup waiting : state[t] = "READY"
        /\ \A t \in display_tasks \cup pool \cup Set(display_task) \cup Set(prev_task) :
              Live(t) /\ refs[t] > 0

(* What an accessor wrote has been flushed from its cache before a task of *)
(* another accessor is emitted, although Setup() takes the flush flag away *)
(* from a task whose successor on the same accessor will flush.            *)
FlushedBeforeForeignAccess ==
    \A t \in executing \cup {d \in pool : "EMITNOTIFIES" \notin InitFlags[d]} :
        \A a \in Accessed(t) : dirty[a] \in {NULL, Acc(t)}

(* The bits of CoreSurfaceAllocation::invalidated are "accessors which     *)
(* have already invalidated their cache for this allocation"               *)
(* (surface_allocation.h:111): no task accesses an allocation that its     *)
(* accessor still has outdated data of in the cache.                       *)
CoherentAccess ==
    \A t \in executing : \A a \in Accessed(t) : Acc(t) \notin stale[a]

(* "Waiting on timed_emits list" (Task.h:206): a task with the flag is on  *)
(* that list, or handleTimedEmits() is about to clear the flag; otherwise  *)
(* nothing would ever emit it.  (Of two tasks with the same time, the list *)
(* takes only one.)                                                        *)
WaitingIsOnList ==
    (\A t, u \in Display : TsEmit[t] = TsEmit[u] /\ TsEmit[t] # 0 => t = u) =>
        \A t \in waiting :
            t \in timed_emits \/ \E i \in DOMAIN calls : calls[i] = Frame("timedEmit", t)

(* The manager's lists and everybody's pointers agree with the states of   *)
(* the tasks.                                                              *)
Consistent == TypeOK /\ NoDanglingTask /\ WaitingIsOnList

(* No dependency is forgotten and nobody waits in a circle: provided the   *)
(* screen is given up again and again, every flushed task is emitted,      *)
(* executed, shut down and deleted (a task is flushed once and stays       *)
(* deleted).                                                               *)
EveryFlushedTaskEnds ==
    []<>(prev_task = NULL) =>
        []<>(\A m \in Range(order) : \A t \in Group(m) : state[t] = "INVALID")

(* Refinement: a rendering task runs while an engine executes it; a        *)
(* display task from its emission until another one is on the screen.      *)
Running == executing \cup pool \cup ({prev_task} \ {NULL})

Ordered == INSTANCE AccessOrder WITH
    Unprotected <- {t \in Tasks : "EMITNOTIFIES" \in InitFlags[t]},
    running <- Running,
    ended <- {t \in Tasks \ Running :
                Root(t) \in Range(order) /\ state[t] \in {"DONE", "FINISH", "INVALID"}}

(* The task system implements AccessOrder: conflicting tasks of any two    *)
(* clients are executed in flush order and never overlap, and a buffer on  *)
(* the screen is not rendered to before another one has replaced it.       *)
ImplementsAccessOrder == Ordered!Spec
=============================================================================
