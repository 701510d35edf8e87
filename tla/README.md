# Verification of the DirectFB core

TLA+ models of the concurrent parts of DirectFB, checked with TLC on small
instances and, where stated, proved with TLAPS for every instance. All paths
below are relative to the repository; modules and configurations are in this
directory. `PROJECT.json` lists the runs, the source lines behind every
definition, the hazards and the findings.

## 1. The system

DirectFB is a graphics library: clients render to *surfaces*, show surfaces on
hardware *layers* and open *windows* on a layer. Its core runs in one or
several processes that share memory and locks through *Fusion*.

| Part | State | Operations | Interaction | Hard behaviour | Module |
|---|---|---|---|---|---|
| Task system (`src/core/Task*.cpp`, `SurfaceTask.cpp`, `DisplayTask.cpp`) | task states, block counts, notifications, readers and last writer of each allocation, timed tasks | flush, set up, emit, run, done, finish, release | clients push tasks to the manager's FIFO, the manager to engines and pools, those return them through the same FIFO | all of it is concurrent; order exists only through notifications | `TaskManager`, `AccessOrder` |
| Thread pool (`TaskThreadsQ.cpp`) | FIFO, chain of `next` pointers per queue | push, finalise, task loop | between manager thread and runners | unlocked reads of `next` and of flags | `TaskThreadsQ`, `SerialQueues` |
| Lock tasks (`CoreSurface_real.cpp`) | pushed, timeout | flush, wait, run, done | CPU locks of clients through the manager | a timeout racing the task | `LockTask` |
| Surfaces (`surface*.c`, `CoreSurface_real.cpp`) | buffers, allocations with serials, pools, flip counters | lock, read, write, update, displace, deallocate | tasks access allocations, regions display them | updates between pools, displacement by other surfaces, CPU against GPU | `SurfaceBuffer` |
| Layers (`layer*.c`) | contexts, regions (enabled, active, realized, frozen), hardware | enable, activate, configure, flip, realize, unrealize | display tasks run under the region lock | state changes between the wait for pending tasks and the lock; failing drivers | `LayerRegion` |
| Fusion objects (`lib/fusion/ref.c`, `object.c`) | counters, hash of each pool | ref, unref, create, get, watch, destroy | used by everything above | a counter at zero against a new reference | `FusionObject` |
| Fusion calls (`lib/fusion/call.c`, `fusion.c`) | buffers of packed calls | execute, dispatch, answer | every object call goes through it | buffers switched and freed between callers and dispatcher, throttling | `FusionDispatcher`, `CallQueue` |
| Fusion reactors (`lib/fusion/reactor.c`) | list of reactions | attach, dispatch, detach | events from objects to interfaces | detaching during a dispatch | `Reactor` |
| Event buffers (`src/input/idirectfbinputbuffer.c`) | queue, statistics, feeding thread | post, get, wait, wake up, reset, pipe mode, release | from reactors to the application | several sleepers on one condition, a full socket | `EventBuffer` |
| Renderer, window manager, input core, libdirect, Voodoo, shared memory, start and shutdown, drivers | - | - | - | - | section 5 |

The task system comes first: it is the part in which every rendering, every
CPU access and every flip meets (when the option `task-manager` is on,
`src/misc/conf.c:189`). `SurfaceBuffer` is the other half, the synchronisation
used when that option is off. The Fusion modules describe the single
application build (`#else` parts of `FUSION_BUILD_MULTI`), in which all of the
code is in the repository; the multi application build rests on a kernel
device.

What makes the system correct:

* tasks that access the same allocation, one of them writing, are executed in
  the order in which they were flushed and never overlap; a displayed buffer is
  not rendered to; every flushed task is eventually executed and deleted, and
  nobody follows a pointer to a deleted one;
* tasks of one queue (`qid`) are executed one at a time in push order;
* an allocation that counts as up to date holds what was last written, and what
  was written survives displacement; locks of CPU and GPU wait for each other;
  locked memory is not freed;
* flags, hardware and displayed task of a region agree, display tasks run in a
  region that is visible with their surface, and end once;
* an object is not destroyed while somebody has a reference, and is destroyed
  once nobody has;
* calls are delivered once each and in order, and answered; reactions that are
  attached are called, others are not; events are delivered once each, in
  order, and wake who waits for them.

## 2. Modules

| Module | What it is | Source |
|---|---|---|
| `TaskThreadsQ` | the queueing thread pool, each access to shared data of `taskLoop()` a step of its own | `TaskThreadsQ.cpp`, `Task.cpp` (groups) |
| `SerialQueues` | what the pool promises: one serial queue per qid | - |
| `TaskManager` | tasks, manager thread, dependencies of surface tasks, display tasks, engines | `Task.cpp`, `TaskManager.cpp`, `SurfaceTask.cpp`, `DisplayTask.cpp`, boundary of `Renderer.cpp`, `GenefxEngine.cpp`, `layer_region.c` |
| `AccessOrder` | what the task system promises about allocations | - |
| `LockTask` | CPU locks through the task manager, with their timeout | `CoreSurface_real.cpp` |
| `SurfaceBuffer` | one surface buffer, its allocations in several pools, clients, GPU, displacement | `surface_buffer.c`, `surface_allocation.cpp`, `surface_pool.c`, `surface.c`, `CoreSurface_real.cpp`, fbdev's `surfacemanager.c` |
| `LayerRegion` | one region with its driver, display tasks and pool threads | `layer_region.c`, `layer_context.c`, `CoreLayerRegion_real.cpp`, `DisplayTask.cpp`, `Task.h` |
| `FusionObject` | reference counters, object pools, the watcher | `ref.c`, `object.c`, `call.c` |
| `FusionDispatcher` | callers, buffers and the dispatcher thread | `fusion.c`, `call.c`, `reactor.c` (messages) |
| `CallQueue` | what the dispatcher promises: a queue | - |
| `Reactor` | one reactor: owners against the walking thread | `reactor.c`, `fusion.c`, `list.h`, `idirectfbwindow.c` |
| `EventBuffer` | one event buffer | `idirectfbinputbuffer.c` |
| `TaskThreadsQProofs`, `TaskManagerProofs`, `SurfaceProofs`, `LayerRegionProofs`, `FusionObjectProofs`, `FusionDispatcherProofs`, `ReactorProofs`, `EventBufferProofs` | proofs, section 4 | - |
| `MC*` | instances for TLC | - |

How they fit together: `TaskThreadsQ` implements `SerialQueues`;
`TaskManager` uses that promise for its engines (actions `Start` and
`Complete`, one sequence per accessor and qid) and implements `AccessOrder`,
from which `Ordered!Exclusive` follows for the tasks: proved, section 4. `LayerRegion` uses the order in
which `TaskManager` emits display tasks and adds what a region may do
meanwhile. `FusionDispatcher` implements `CallQueue`, and the queue of watcher
calls in `FusionObject` and of messages in `Reactor` is what it promises.

Most modules have a variable `setup` (in `TaskManager`: `workload`), chosen in
`Init` and constant afterwards. It says which operations the application uses
and how the driver behaves, so that one run covers several kinds of program
whose combination would be too large. A property that only some programs may
rely on has the condition on `setup` in its statement, with a comment.

### TaskThreadsQ

A `GenefxTask` has `qid = destination allocation << 32 | tile`. The map
`queues` holds the last task pushed on each queue. `Push` (manager thread)
chains the task to that one through `next`, or gives it to the runners if the
queue is idle. A runner pulls a task (`Pull`), reads `next` without a lock
(`ReadNext`), sets `TASK_FLAG_LAST_IN_QUEUE` if it was NULL (`SetLastInQueue`),
runs the task, whose last act is `Done()` (`RunDone`), and pushes the successor
it had read (`PushNext`), by which time its own task may be deleted.
`Finalise` (manager thread) resumes or erases the queue of a flagged task.
The manager pushes a master and its slaves without another group in between
(`Task::emit`) and finalises a group only when all of it is done
(`Task::finish`); `Turn`, `MasterFirst` and `GroupDone` say so. `order` is a
history variable for the refinement.

### TaskManager

Each `Task` field is a function on `Tasks`; `notifies` is the union of the
notification vectors. `Flush(m, c)` is the whole client side of a task:
creation, slaves, accesses, `Flush()`; before that only the client's thread
knows the task. `Discard(m)` releases the tiles of an unflushed task.

The manager's handlers call each other recursively
(`notifyAll -> handleNotify -> checkEmit -> emit -> notifyAll`). The variable
`calls` is this call stack, and each manager action handles its top frame, so
that engines and clients take steps between any two calls:

| Action | Code |
|---|---|
| `SetupTask` | `handleTask`, FLUSHED: `DisplayTask::Setup`, `SurfaceTask::Setup`, then park a timed task or `checkEmit` |
| `Emit`, `KeepBlocked` | `checkEmit` and `emit` |
| `Notify`, `NotifyReturn` | one turn and the end of `notifyAll`, with `handleNotify` |
| `Finish`, `Shutdown` | `finish`: up to the notifications, and after them |
| `Delete` | `handleTask`, DEAD |
| `PullTimeout`, `HandleTimedEmits`, `TimedEmit` | the timed branch of `pullTask`, `handleTimedEmits` |
| `Start`, `Complete` | `GenefxTask::Run` with `CacheInvalidate`, `CacheFlush`, `Done` |
| `DisplayRun`, `Unrealize` | `DisplayTask::Run`, `dfb_layer_region_unrealize` |

`dirty[a]` and `stale[a]` describe the caches: which accessor has written `a`
without flushing, and which accessors hold outdated data of `a`.

Abstractions: a task has one written allocation (none for a display task) and
a set of read ones, as the renderer and the display tasks produce them; the
elements of a notification vector are visited in any order; a queue of an
engine is a sequence executed by an ideal serial executor.

### LockTask

A client flushes a lock task and waits for `pushed` or 20 seconds. `Expire`
(the timeout) and `GiveUp` (the client has the mutex again) are two steps, with
`Run()` of the manager possible in between. Each side then decides from
`pushed` and `timeout` whether it calls `Done()`.

### SurfaceBuffer

`buf` is the buffer with its allocations, under the surface lock: every
operation that holds it is one step. The buffer's vector of allocations is the
set `allocs` with the order `before`; a loop through the vector that stops at
the first, or remembers the last, allocation of some kind is `First`, or
`Latest`, of those. Decoupling several allocations one after the other is one
operator on the set of them (`Decouple`). Serials only matter by being equal to the
buffer's, so `current` is the set of allocations for which they are. `latest`
is not in the code: the allocations that really hold what was last written.
`PreLock` stands for `PreLockBuffer()`, `PreLockBuffer2()`, `PreReadBuffer()`
and `PreWriteBuffer()`, which differ in how they choose an allocation
(`Choice`) and in whether they map it (`Maps`): choose or allocate, update
(`Update`: copy, increase the serial, give up volatile allocations, zap all
others if `thrifty-surface-buffers` is set), prelock, manage interlocks.
Memory is used after the lock has been given back: by the CPU (`Use`), or by
the GPU until `GpuDone`. `MuckOut` marks an allocation for displacement by
another surface, with no more than the pool's lock; `Displace` gets the surface
lock at some later time, backs up and decouples. With `setup.faults` transfers
and prelocks fail. A transfer takes no part in the interlocks, in the code as in
the model: it reads what the GPU or a client is writing, after which the content
is "spoiled".

### LayerRegion

`region` is what the region lock protects, with the driver's view of it
(`hardware`), the displayed task and how often each task ended. Functions that
wait for an empty list of display tasks do so in a step before they take the
lock (`WaitEmpty`); `dfb_layer_context_set_configuration()` looks again under
it (`Recheck`). `PullTask`, `Run` and `LoopDone` are the pool threads.
`broken` records which assumptions of `DisplayTask::Run()` and which assertions
of the region's functions (that it is configured, that there is no task manager)
were found violated; the model goes on, as a build without assertions does.
`dfb_layer_context_set_configuration()` may fail halfway: it clears `CONFIGURED`,
and when the (re)allocation of the surface fails it returns without setting it
again ("Allocation" in `setup.failing`).

### FusionObject, FusionDispatcher, Reactor, EventBuffer

`FusionObject` has a stack of frames per thread, because dropping a reference
on the dispatcher thread calls the watcher, whose destructor drops references
to other objects, inside the call. Each step between two lock operations is an
action. A call of the watcher carries its pool as context; when that pool has
been freed, `UseFreedPool` takes the dispatcher to "wild", where the model says
no more of it. `FusionDispatcher` has the caller's steps in
`_fusion_event_dispatcher_process()` (throttle, write, wait, sign off) and the
dispatcher's in `event_dispatcher_loop()`, with the buffers, their positions
and their counters of pending and waiting calls. The caller reads its answer in a
step after the one in which it signs off (`Leave`, `Result`). A call may be longer
than a buffer; it is then written past the end, and no action follows (`Intact`). `Reactor` walks with
`direct_list_foreach_safe()`: `elem` is the current reaction and `temp` the
remembered next one. `EventBuffer` has one action per method, two for the
methods that wait, and the steps of the feeding thread.

## 3. Runs

Every run has `CHECK_DEADLOCK FALSE`: tasks, calls and events are used up, so a
behaviour legitimately stops when all of them are done.

| Run | Instance | States | Shows |
|---|---|---|---|
| `serial_queues` | 2 runners, 2 queues, two master+slave groups on both queues, one more task | 43,130 | one task at a time per queue in push order, no deleted task followed, `Finalise()`'s assertions, the pool drains, refinement of `SerialQueues` |
| `render` | 3 tasks, CPU and GPU, 2 allocations, any destination and source | 91,223 | no dangling task, flush before foreign access, refinement of `AccessOrder` |
| `workloads` | two tiled groups and a third task; render, display, display, render with times; front-only display with EMITNOTIFIES and FOLLOW_READER | 182,274 | the same, block counts match, timed tasks are not lost, every flushed task ends |
| `readers` | one writer on the GPU, two readers on the CPU | - | violation, section 6 |
| `lock_task` | 3 clients, 2 locks each | 6,859 | no task ends twice, every wait returns |
| `buffers` | 2 clients, 3 pools, 3 allocations, 4 calls; plain, thrifty, failing | 2.8 million | serials tell the truth, nothing written is lost, locked memory stays, locks wait for each other |
| `region` | without the task manager; one caller; two callers with a context; failing driver and allocations without and with `RemoveRegion()` | 120,848 | flags, hardware and displayed task agree, `Run()`'s assumptions, tasks end once, calls return, assertions where they hold |
| `objects` | parent and child in two pools, 2 threads that look either up, and the dispatcher | 77,380 | no destruction while held, exact counters, unreferenced objects are freed |
| `dispatch` | all kinds of calls; 3 throttled callers; a dispatcher that is stopped; calls longer than a buffer | 190,634 | refinement of `CallQueue`, buffers kept until the sign-off, every caller goes on |
| `answers` | 2 callers, one with answers, buffers that are replaced | - | violation, section 6 |
| `reactor` | 3 reactions, 3 messages; every kind of application (`AllSetups`) | 95,124 | nobody called after detaching, nobody skipped, memory kept, detaching returns |
| `events` | 2 readers, 3 events, socket of 1; three kinds of application, writes that fail in two | 77,366 | each event once and in order, nobody sleeps on events, statistics, release returns |

`Consistent` in a module is the conjunction of its type invariant and the
invariants that relate its variables to each other; each part is a named
definition with a comment of its own. `Progress` and `LocksInterlock` are
conjunctions of named parts likewise.

Bounds. Three conflicting tasks are needed for a dependency that skips one
(write, read, write); four for a chain through the screen; two tiles for a
group that is half done; two groups on the same two queues for a circular wait
in the pool; two runners for two tasks of a queue at once. Three allocations
are one in each pool, so that an update may pass over an outdated one, and four
calls let two clients write, read elsewhere, write again and read. A buffer of
the dispatcher holds two calls without data or one with data, so that both the
change of buffers in the middle and the exact fit happen, and is one unit too
short for the longest data. Three reactions are
a first, a last and one between. Symmetry is used only in runs without
liveness properties. Tasks are never reused: an address can return in the
program only after the deletion that `NoDanglingTask` is about.

Fairness. The manager, the runners, the engines, the pools, the dispatcher and
the feeding thread run until they block, `Run()` returns and the clock
advances: weak fairness of each. Clients in the middle of a call go on; nothing
makes anyone begin one. In `FusionObject` a thread that waits for a mutex that
is free again and again obtains it (strong fairness), as fair mutexes do. In
`LockTask` the manager is not fair: that is what the timeout is for. In
`EventBuffer` somebody goes on reading the descriptor, without which a full
socket blocks the feeding thread for good. `EveryFlushedTaskEnds` is
conditional on the screen being given up again and again, because the last
displayed task legitimately stays. The fairness of `Start(t)` is what
`EveryPushedTaskRuns` shows of the real pool, where in turn weak fairness of
`Finalise` and of pushing the slaves of a pushed master is what the manager
thread does in one go.

## 4. Proofs

Every module below proves its theorems for all values of the constants that
satisfy the named assumptions. The bounds of section 3 (`MaxEvents`, `MaxCalls`
...) are constants of any size there. Few of the properties are inductive; each
module defines an inductive invariant `IInv` of named parts, and has one lemma
per action (`PostInv`, `GetStep` ...) with a step for each part that the action
disturbs. Facts about sequences, sets and the operators of the model are lemmas
at the head of the module (`...Facts`), and what an action leaves alone is
shown once (`...Stay`).

| Module | Theorem | Property | Assumptions |
|---|---|---|---|
| `TaskThreadsQProofs` | `TypeCorrect`, `QueuesAreSerial`, `PoolKeepsNoDeadTask`, `FinaliseAssertsHold`, `PoolIsSerialQueues` | `TypeOK`, `SerialPerQid`, `NoDanglingTask`, `FinaliseAsserts`, `ImplementsSerialQueues` | `QidAssumption`, `NullAssumption` |
| `TaskManagerProofs` | `TaskManagerIsConsistent`, `BlockCountsMatch` | `Consistent`, `BlockCountMatches` | `TaskAssumption`, `FiniteAssumption`, `FlagAssumption` |
| `TaskManagerProofs` | `AlwaysOrdered`, `FlushesInTime` | `FlushedBeforeForeignAccess` | the same, and `OrderlyWorkloads` |
| `TaskManagerProofs` | `KeepsAccessOrder`, `ConflictsNeverOverlap` | `ImplementsAccessOrder`, `Ordered!Exclusive` | the same, and `TilesAreApart` |
| `SurfaceProofs` | `BufferIsConsistent`, `SerialsTellTheTruth`, `NothingWrittenIsLost`, `LocksWaitForEachOther` | `Consistent`, `UpToDateIsLatest`, `ContentIsKept`, `LocksInterlock` | `PoolAssumption`, `SetupAssumption`, `NullAssumption` |
| `SurfaceProofs`, of `LockTask` | `LockTaskEndsOnce` | `Consistent` | `MaxLocks` is a number |
| `LayerRegionProofs` | `RegionIsConsistent`, `TasksEndOnce`, `AssumptionsOfRunHold` | `Consistent`, `DoneOnce`, `RunsAsAssumed` | `RegionAssumption` |
| `FusionObjectProofs` | `ObjectsAreConsistent`, `HeldIsNeverDestroyed` | `Consistent`, `NeverDestroyedWhileHeld` | all of the module |
| `FusionDispatcherProofs` | `DispatcherIsConsistent`, `BufferIsKept` | `Consistent`, `BufferKeptForCaller` | `SetupAssumption`, `SizeAssumption`, `LimitAssumption`, `NobodyAssumption` |
| `ReactorProofs` | `ReactorIsConsistent`, `NeverCalledWhenDetached`, `MessageReachesEveryReaction` | `Consistent`, `DetachedIsNotCalled`, `NobodyIsSkipped` | `ReactorAssumption` |
| `EventBufferProofs` | `EventBufferIsConsistent`, `SleepersHaveNoEvents`, `EventsAreDeliveredOnce` | `Consistent`, `NobodySleepsOnEvents`, `DeliveredOnce` | `EventBufferAssumption` |

**TaskThreadsQ.** Each queue has at most one *token*. It is an entry of the
fifo, a runner from `Pull` to the end of `Run()`, a runner about to push the
successor it has read, or a finished task with the flag that waits for
`Finalise()` (`OneToken`). An erased queue has none, so `Push` may create one
(`ErasedQueueIsIdle`). Behind the token, the chain of `next` pointers holds the
tasks that have not been handed to a runner (`BehindToken`, `Chain`), and the
flag of a task tells which of runner and manager will resume the queue
(`RunnerState`, `LastState`). The group conditions (`Turn`, `GroupDone`) are
not needed for safety: they only restrict the manager, and the theorems hold
without them; `EveryPushedTaskRuns` does not.

The refinement of `SerialQueues` adds what the history `order` says
(`OrderInv`): the `next` pointers link neighbours of the order, except where
the queue had been erased and everything before is deleted; and every task
before the token, or before one that has returned, has returned itself
(`Before`). So the task that a runner is about to run is the first of its queue
that has not started. The tasks that wait are what is `Behind` the last one
started; that there is such a position is kept as an invariant (`Divided`)
rather than proved by induction over the sequence. `Push`, the step into
`Run()` (`ReadNext` or `SetLastInQueue`) and `RunDone` are the steps of
`SerialQueues`, all others stutter.

**TaskManager.** Master and slaves of a group go through the same phases: not
flushed, waiting, emitted, gone (`Groups`). Each place that refers to a task
(the FIFO, the call stack of the manager, the queues of the engines, the
screen, readers and writers of an allocation, the notification vectors) does so
in certain phases only (`References`, `Queues`, `Screen`, `Used`, `Stack`). The
last step of `finish()`, which deletes the group, comes after the one that
empties the master's notifications, and nothing else reaches a task in between:
that gives `NoDanglingTask`. A block count is the number of notifications that
name the task, and a task that is named is `READY` (`Waits`): the loop of
`notifyAll()` erases an entry in the step that counts down, and
`handleNotify()` cannot find the task in another state. A task that waits for
its time is on the manager's list, or about to be handled (`Timed`).

The order of accesses needs a second invariant, `OInv`, over the history
`order` of the flushed masters. `m` *precedes* `n` at an allocation when it was
flushed before `n`, both access it, and one of them or a task between them
writes it. The manager sets tasks up in that order (`FifoOrder`), and what an
allocation records, its last writer and the readers since, stands for every
access before that is not over (`Records`): a writer clears the readers, but it
waits for them. So an emitted task has seen everything that precedes it end, or
stands behind it in the same queue, and one that is still blocked has a
notification on its way from such a task or from one that comes after it
(`Blocked`). The early returns of `AddNotify()` are where this could break, and
so is a task that is notified by the middle one of three: that is why `Blocked`
speaks of the tasks behind the notifier and not of the notifier. Queues are not
overtaken (`QueueOrder`), and a notification is sent when what it tells is true
(`ProperCalls`). `FlushesInTime` adds that a writer without its flush flag has
a successor in the same queue with no access of another accessor between
(`Caches`). In the refinement `Flush`, the start and end of `Run()`, the emit of
a display task and the call of `Done()` on the displayed one are the steps of
`AccessOrder`; all others stutter.

These theorems have hypotheses of their own, defined in `TaskManager` and
checked by TLC for all its instances (`OrderlyInstances`). Two the code
guarantees: nobody passes `CGSCFF_FOLLOW_WRITER` (`Renderer.cpp:3142` only tests
it), and tasks of one accessor and destination have the same tiles, which
depend on the size of the destination and the cores of the engine
(`Renderer.h:207`, `Renderer.cpp:3035`). Two it leaves to its clients, and
without them the statements are false: a task with FOLLOW_READER, the copy of
the back to the front buffer (`util.cpp:477`), waits for readers of the front
buffer to start and not to end, so these have to be display tasks that notify
on emit; and a tiled task that reads its own destination is not ordered with
the other tiles (`TilesAreApart`, only for the refinement). Section 6 lists
both.

**SurfaceBuffer.** An operation is a composition of operators from buffers to
buffers (`Allocate`, `Synchronize`, `MarkWritten`, `Decouple`, `Zap`,
`Interlock`); what each needs and keeps is proved first, for any buffer that is
`Sound`. `ContentIsKept` and `UpToDateIsLatest` are not inductive, because an
update copies from `buffer->written` and then trusts the serial: while the
content is known, `written` is one of the allocations with the current serial
and all of those hold the content (`Content`), and somebody who holds a lock
for writing is the only one with that serial (`Writers`). The interlocks of
locks (transfers take no part in them) rest on the flags of an allocation: unfinished work of the GPU, and lines of the texture
cache that are out of date, are announced in `accessed` (`Flags`), and the flags
of a lock stay while it is held (`LockFlags`), although `manage_interlocks()`
clears others. An allocation being displaced stays in its pool, which has a
backup (`Displacement`).

**LockTask.** A client is in the loop of its wait, or the manager has not run
the task, only while nobody has ended it; a client that leaves with a lock finds
`pushed` and has not set `timeout` (`NotEndedYet`).

**LayerRegion.** The functions that change the locked state
(`dfb_layer_region_realize()`, `set_region()` and so on) are operators from
records to records, and what each needs and returns is proved first. The steps
then rest on one fact about the waits: while a display task is in the list,
nobody who switches the region off or changes its surface is past
`TaskList_WaitEmpty()`, either because there is one caller or because
`dfb_layer_context_set_configuration()` looks at the list again under the lock.
What the functions assert is proved where the reasons for its failing are absent
(`AssertionsHold`): a region that has a configuration keeps `CONFIGURED` unless
an allocation or `SetRegion()` may fail (`MayLoseConfigured`), and with the task
manager a region whose changes are all frozen, as those of a layer context are,
is realized and set up by display tasks alone (`LeftToTasks`), because a region
that is not frozen is already realized and a realized one has its surface.

**FusionObject.** The counter of an object is exactly `Cardinality(Held(o)) +
Cardinality(Links(o))`: references of threads and links from other objects
(`Books`). To keep that over the destructors that run inside an unref, the
stacks of the threads are shown to be of one shape (`StacksNest`, `FramesFit`):
a destructor about to drop a link stands directly above the
`fusion_object_destroy()` of its object, and no object is ended by two frames
(`EndedOnce`). With the counter exact, the watcher that finds 0 under the locks
of the pool and of the counter knows that no thread holds a reference, and the pool lock keeps the
object from being found while it is taken out of the pool. All of this is said
of executions in which no call of the watcher has used a freed pool (`Wild`);
nothing in the code prevents that (section 6), and afterwards any memory may be
anything.

**FusionDispatcher.** `sync_calls` of a buffer counts the callers between
posting a call to it and leaving it; `pending` counts the calls not read and
the one being processed (`Counts`). Only the last buffer of the list can be
written to, the dispatcher reads the first, and it waits only when the list is
one buffer that it has read to the end (`Lists`, `DispatcherState`). A buffer
that is freed has both counters at 0, so nobody waits in it; who has signed off
and not read the answer is not counted, and `BufferIsKept` does not speak of
such callers (run `answers`). A buffer that is written past its end holds that
one call alone (`Within`), since a call that does not fit behind others goes to
a new buffer.

**Reactor.** The link the walking thread is at is in the list and `temp` is the
one behind it, so taking out the current reaction, or nothing, leads to the
next (`AtLink`). The reactor's lock keeps everyone else off the list; only a
reaction that detaches another one from inside its call disturbs a walk, and
never one in which reactions answer RS_REMOVE.

**EventBuffer.** The places an event can be in (fetched, read, in the
descriptor, in the hand of the feeding thread, in the queue, dropped by
`Reset()`, release or a write that fails) partition the ids that were posted (`Partition`); each
place holds its ids in rising order, and what is ahead of the queue on either
way out is older than what is in it (`Order`).

The assumptions say that names differ and that bounds are numbers. Those with
more to say:

* `FiniteAssumption` (`TaskManager`, `FusionObject`): finitely many tasks,
  allocations, threads, objects, as in memory. The counts are cardinalities.
* `TaskAssumption`, `FlagAssumption`: slaves belong to a master and have tiles
  of their own, only display tasks are timed or notify on emit, as
  `Renderer.cpp` and `layer_region.c` construct them.
* `SizeAssumption`: a buffer has room for the header of a call. Nothing is
  assumed of the data (section 6).
* `ChildAssumption`: an object links to at most one other. The model's bound,
  not the code's.

What attempts at a proof have changed in the models. Each is a case the first
formulation of a property, or the first choice of instances, had overlooked.

* `NoUseAfterFree` (`Reactor`) needs `~setup.nested`: a reaction that detaches
  the one behind it leaves `temp` at a reaction that is no longer attached. The
  run now covers all of `AllSetups`.
* `DisplayedWhileRealized` (`LayerRegion`) needs `"realized" \notin
  region.broken`: section 6. TLC found the same case once the run had a setup
  for it.
* `WaitingIsOnList` (`TaskManager`) needs distinct times: section 6.
* `ImplementsAccessOrder` (`TaskManager`) needs the two conditions on clients
  above, which the workloads of the runs had met without saying so.

Only model-checked:

* the liveness properties (`EveryPushedTaskRuns`, `EveryFlushedTaskEnds`,
  `Progress`, `CallsReturn`, `TasksEndOrStay`, `UnreferencedIsFreed`,
  `DetachReturns`, `WaitReturns`): fairness and ENABLED are out of the prover's
  reach;
* `DeliversInOrder` (the refinement of `CallQueue`): the abstract queue is the
  concatenation of the buffers, a fold whose value for every list of buffers is
  an induction over data.

## 5. Not modelled

In the modelled parts: a `Setup` hook that fails, `Push()` returning an error
or `DFB_BUSY` (no implementation in the repository does), stereo,
acknowledgement of frames, stopping the pools and the manager, `SyncAll`
(debug builds only), logging; copying flips and vsync waits of a region;
preallocated surfaces, pool bridges and flips of a surface; a decoupling of an
allocation that overlaps with a displacement (one step in `SurfaceBuffer`);
drivers with `WaitSerial()` (they wait for an idle engine in the model);
channels of a reactor, and reactions that wait for somebody: one that waits for
a lock its detacher holds would block both, and `DetachReturns` assumes there is
none; short writes to the descriptor of an event buffer; the exit of the
dispatcher when `world->refs` is 0, which never happens, as `fusion_enter()` sets
it to 1 and nothing in this build changes it; access lists and owners of objects. `FOLLOW_WRITER` is
in the code and the model, but no caller passes it, and the runs do not either.

Whole parts: the renderer and the software engine beyond their use of tasks,
the window manager (focus, grabs, stacking), the input core, libdirect's
containers, Voodoo, the shared memory heap, core start and shutdown. Pixel
processing, drivers, media providers, tools and generated call stubs, which are
most of the repository's lines, are out of scope: they have no state of their
own that outlives a call, or it is the hardware's.

## 6. Findings and known limits

* `readers`: `invalidated` is set when a task is set up, not when it has
  invalidated the cache, so another reader of the accessor on another queue may
  run before (`SurfaceTask.cpp:171`, `surface_allocation.h:111`).
* `answers`: a synchronous caller signs off its buffer (`fusion.c:3490`) before
  it reads `ret_val` or `ret_length` in it (`call.c:1634`, `:1675`, `:1727`); in
  between the dispatcher may free the buffer (`fusion.c:3400`).

Where a property of section 3 has a condition, the code behaves differently
outside it. These are the cases, all of them within the models unless marked
with (-):

* Task manager: `timed_emits` is a `std::set` ordered by time alone, so the
  second of two tasks with the same time is flagged as waiting, not inserted
  and never emitted (`TaskManager.cpp:277`); the workloads have distinct times.
  A tiled task that reads its own destination follows the previous tiled writer
  by the master's qid and may read tiles that are not finished
  (`SurfaceTask.cpp:213`); the workloads have no such task. A copy to the front
  buffer may overlap with a rendering task that still reads it
  (`util.cpp:477`); in the workloads only display tasks do.
* `LockTask`: when `Run()` sets `pushed` between the timeout and the client's
  getting the mutex, neither side calls `Done()`, and the allocation stays
  locked (`CoreSurface_real.cpp:256`).
* `SurfaceBuffer`: after a failed transfer the serial of the target counts as
  up to date (`surface_allocation.cpp:622`), a prelock that fails after an
  update for writing loses what was written before (`CoreSurface_real.cpp:376`),
  and a copy made while a client or the GPU writes is not the latest: content
  "spoiled". Transfers do not wait for the GPU: `dfb_surface_allocation_update()`
  locks, reads and writes the allocations without `manage_interlocks()`
  (`surface_allocation.cpp:632`, `surface_pool.c:1426`, `:1442`), so the backup of
  a displaced allocation that the GPU is drawing into may be copied too early;
  only then is the GPU waited for and the memory freed. `LocksInterlock` is about
  locks and decoupled allocations. The destructor frees memory that was decoupled
  under a lock without waiting for the GPU (`surface_allocation.cpp:97`).
* `LayerRegion`: flips of another thread between the wait of a caller and its
  lock (`FlipsWhereWaited`); a task whose `Run()` fails ends twice
  (`DisplayTask.cpp:521`, `Task.h:398`); a failing `AddRegion()` or
  `SetRegion()` leaves a region that is not frozen and not realized or not up
  to date, and after a failed `AddRegion()` of a driver that has
  `RemoveRegion()` the next display task puts its buffer on a region the
  hardware does not have (`DisplayedWhileRealized`); several pool threads may
  display frames out of order (`Task.h:392`).
  Two assertions of `layer_region.c` fail (`AssertionsHold` has the conditions
  under which they do not). `dfb_layer_context_set_configuration()` clears
  `CONFIGURED` and does not set it again when the (re)allocation of the surface
  fails (`layer_context.c:762`, `:779`), nor does the next call, which fails the
  assertion at `layer_region.c:954` (and `dfb_layer_region_realize()` the one at
  `:1458`). With the task manager, changing the configuration or the surface of
  a realized region that is not frozen, as `move_window()` of the default window
  manager does (`default.c:2123`), calls `dfb_layer_region_set()` (`:1060`),
  which asserts that there is no task manager (`:1381`).
* `FusionObject`: `fusion_object_get()` returns `DR_OK` and no object for an
  unknown id (`object.c:484`); a last unref on the dispatcher thread unlocks a
  mutex in memory that it has freed (`ref.c:1704`); the locks of pool and
  counter are taken in both orders, by a lookup and by a last unref on the
  dispatcher, which ends in a deadlock that `UnreferencedIsFreed` excepts
  (`LockInversion`; `ref.c:1702`, `object.c:484`).
  `fusion_object_pool_destroy()` calls `fusion_sync()` to wait for pending
  messages (`object.c:265`), but that is empty in this build (`fusion.c:3900`): a
  call of the watcher that is still queued when the pool is freed locks and
  searches freed memory (`object.c:87`, `:164`). The model has this as
  `UseFreedPool`, and the properties hold until then (`Wild`).
* `FusionDispatcher`: waits are not repeated, so a spurious wakeup (-) would be
  taken for a call (`fusion.c:3287`); after `fusion_kill()` queued calls are
  not answered. A call whose data and header are longer than a buffer is written
  past the end of a new one (`fusion.c:3447`, `:3470`): `FUSION_CALL_MAX_LENGTH`
  is the size of a buffer, without the header (`fusion_internal.h:112`, `:119`).
  `WritesFit` says that this is the only overrun, and the model ends there.
* `Reactor`: a reaction that detaches its successor in the list lets it be
  called all the same (`fusion.c:3360`); an interface that learns from
  RS_REMOVE that its object is gone may be freed, or detach again, before the
  dispatcher has removed the reaction (`idirectfbwindow.c:121`, `:1576`).
* `EventBuffer`: the feeding thread ignores what `write()` returns, so an event
  that it fails to write is lost (`idirectfbinputbuffer.c:1150`): `DeliveredOnce`
  counts it as dropped. `Reset()` leaves the statistics (`idirectfbinputbuffer.c:328`);
  `WakeUp()` before a waiting thread has the mutex is lost (`:408`).

## 7. Plan

1. Proofs: the order of deliveries in `FusionDispatcher`, with numbered calls
   in place of the concatenation.
2. Flips and frame acknowledgement of a surface; the renderer's throttle.
3. Default window manager (focus and grabs), key state of an input device.
4. FIFO and hash of libdirect as refinements of queue and map.
5. Composition of `TaskManager` with `TaskThreadsQ` in place of the ideal
   queues, and of `SurfaceBuffer` with `LockTask`.
