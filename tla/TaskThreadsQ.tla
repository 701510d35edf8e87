---------------------------- MODULE TaskThreadsQ ----------------------------
(***************************************************************************)
(* The queueing thread pool of the software renderer,                      *)
(* src/src/core/TaskThreadsQ.cpp, as GenefxTask uses it.                   *)
(*                                                                         *)
(* Two kinds of threads share the state:                                   *)
(*  - the Task Manager thread calls Push() when a task is emitted and      *)
(*    Finalise() when the finished task is shut down; only this thread     *)
(*    touches the map "queues" and writes Task::next;                      *)
(*  - the runner threads execute taskLoop(): they pull a task, read its    *)
(*    "next" pointer without any lock, run it, and push the next task.     *)
(* A runner that reads next = NULL sets TASK_FLAG_LAST_IN_QUEUE and leaves *)
(* it to Finalise() to resume the queue.                                   *)
(***************************************************************************)
EXTENDS Naturals, Sequences, FiniteSets

CONSTANTS
    Tasks,          \* GenefxTask objects (each is pushed at most once)
    Qids,           \* values of Task::qid
    Qid,            \* Qid[t]: GenefxTask::qid, fixed before Push()
    Master,         \* Master[t]: Task::master, NULL for a master task
    Runners,        \* runner threads of the pool
    NULL

ASSUME QidAssumption == Qid \in [Tasks -> Qids]
ASSUME NullAssumption == NULL \notin Tasks
ASSUME MasterAssumption == Master \in [Tasks -> Tasks \cup {NULL}]

VARIABLES
    state,          \* Task::state as far as this pool sees it
    next,           \* Task::next
    last_in_queue,  \* tasks with TASK_FLAG_LAST_IN_QUEUE
    queues,         \* queues[qid]: last task pushed, NULL when erased
    fifo,           \* FIFO<Task*> the runners pull from
    pc,             \* pc[r]: where runner r is in taskLoop()
    task,           \* task[r]: local variable "task" of taskLoop()
    next_local,     \* next_local[r]: local variable "next" of taskLoop()
    order           \* history: order[q] is the sequence of pushes on q

vars == <<state, next, last_in_queue, queues, fifo, pc, task, next_local, order>>

(* READY: not yet emitted.  RUNNING: emit() called Push().  DONE: Run()    *)
(* returned the task with Done().  DEAD: finalised, released and deleted.  *)
States == {"READY", "RUNNING", "DONE", "DEAD"}

Locations == {"pull", "next", "flag", "run", "push"}

TypeOK ==
    /\ state \in [Tasks -> States]
    /\ next \in [Tasks -> Tasks \cup {NULL}]
    /\ last_in_queue \in SUBSET Tasks
    /\ queues \in [Qids -> Tasks \cup {NULL}]
    /\ fifo \in Seq(Tasks)
    /\ pc \in [Runners -> Locations]
    /\ task \in [Runners -> Tasks \cup {NULL}]
    /\ next_local \in [Runners -> Tasks \cup {NULL}]
    /\ order \in [Qids -> Seq(Tasks)]

Init ==
    /\ state = [t \in Tasks |-> "READY"]
    /\ next = [t \in Tasks |-> NULL]
    /\ last_in_queue = {}
    /\ queues = [q \in Qids |-> NULL]
    /\ fifo = << >>
    /\ pc = [r \in Runners |-> "pull"]
    /\ task = [r \in Runners |-> NULL]
    /\ next_local = [r \in Runners |-> NULL]
    /\ order = [q \in Qids |-> << >>]

-----------------------------------------------------------------------------
(* Task Manager thread *)

(* A master and its slaves, one per tile of the destination. *)
Root(t) == IF Master[t] = NULL THEN t ELSE Master[t]

Group(t) == {u \in Tasks : Root(u) = Root(t)}

(* Some tasks of t's group are in state s and some are not. *)
Partly(t, s) == \E u, v \in Group(t) : state[u] = s /\ state[v] # s

(* Task::emit() pushes a master and its slaves in one go, Task::finish()   *)
(* finalises them in one go: the manager is not in the middle of either    *)
(* for another group.                                                      *)
AtAnyTime(t) == TRUE                \* mutated form of Turn

Turn(t) == \A u \in Tasks \ Group(t) : ~ Partly(u, "READY") /\ ~ Partly(u, "DEAD")

MasterFirst(t, s) == Master[t] # NULL => state[Master[t]] # s

(* Mutated form of Push: chaining does not move the tail of the queue. *)
PushWithoutTail(t) ==
    LET q == Qid[t]
        last == queues[q]
    IN  /\ state[t] = "READY" /\ Turn(t) /\ MasterFirst(t, "READY")
        /\ state' = [state EXCEPT ![t] = "RUNNING"]
        /\ order' = [order EXCEPT ![q] = Append(@, t)]
        /\ IF last # NULL
             THEN /\ next' = [next EXCEPT ![last] = t]
                  /\ UNCHANGED <<fifo, queues>>
             ELSE /\ fifo' = Append(fifo, t)
                  /\ queues' = [queues EXCEPT ![q] = t]
                  /\ next' = next
        /\ UNCHANGED <<last_in_queue, pc, task, next_local>>

(* Mutated form of Push: a task goes to the runners although its queue is  *)
(* busy, as TaskThreads (without the Q) does.                              *)
PushUnqueued(t) ==
    /\ state[t] = "READY" /\ Turn(t) /\ MasterFirst(t, "READY")
    /\ state' = [state EXCEPT ![t] = "RUNNING"]
    /\ order' = [order EXCEPT ![Qid[t]] = Append(@, t)]
    /\ fifo' = Append(fifo, t)
    /\ UNCHANGED <<next, queues, last_in_queue, pc, task, next_local>>

(* Task::emit() sets RUNNING and GenefxTask::Push() calls                  *)
(* TaskThreadsQ::Push(): chain the task to the last one of its queue, or   *)
(* hand it to the runners when the queue is empty.                         *)
Push(t) ==
    LET q == Qid[t]
        last == queues[q]
    IN  /\ state[t] = "READY" /\ Turn(t) /\ MasterFirst(t, "READY")
        /\ state' = [state EXCEPT ![t] = "RUNNING"]
        /\ queues' = [queues EXCEPT ![q] = t]
        /\ order' = [order EXCEPT ![q] = Append(@, t)]
        /\ IF last # NULL
             THEN /\ next' = [next EXCEPT ![last] = t]
                  /\ fifo' = fifo
             ELSE /\ fifo' = Append(fifo, t)
                  /\ next' = next
        /\ UNCHANGED <<last_in_queue, pc, task, next_local>>

(* Task::finish() shuts a group down when its last task has returned, the  *)
(* master first.                                                           *)
GroupDone(t) ==
    /\ \A u \in Group(t) : state[u] \in {"DONE", "DEAD"}
    /\ MasterFirst(t, "DONE")

(* Mutated form of Finalise: the queue is resumed but never erased. *)
FinaliseKeepsQueue(t) ==
    /\ state[t] = "DONE" /\ Turn(t) /\ GroupDone(t)
    /\ state' = [state EXCEPT ![t] = "DEAD"]
    /\ fifo' = IF t \in last_in_queue /\ next[t] # NULL
                 THEN Append(fifo, next[t]) ELSE fifo
    /\ UNCHANGED <<next, last_in_queue, queues, pc, task, next_local, order>>

(* Mutated form of Finalise: the queue is resumed without looking whether  *)
(* a task was appended.                                                    *)
FinaliseUnchecked(t) ==
    /\ state[t] = "DONE" /\ Turn(t) /\ GroupDone(t)
    /\ state' = [state EXCEPT ![t] = "DEAD"]
    /\ fifo' = IF t \in last_in_queue THEN Append(fifo, next[t]) ELSE fifo
    /\ UNCHANGED <<next, last_in_queue, queues, pc, task, next_local, order>>

(* Task::finish() of a group runs GenefxTask::Finalise() for each task,    *)
(* which calls TaskThreadsQ::Finalise(), and releases the task.            *)
Finalise(t) ==
    LET q == Qid[t]
    IN  /\ state[t] = "DONE" /\ Turn(t) /\ GroupDone(t)
        /\ state' = [state EXCEPT ![t] = "DEAD"]
        /\ IF t \in last_in_queue
             THEN IF next[t] # NULL
                    THEN /\ fifo' = Append(fifo, next[t])
                         /\ queues' = queues
                    ELSE /\ queues' = [queues EXCEPT ![q] = NULL]
                         /\ fifo' = fifo
             ELSE UNCHANGED <<fifo, queues>>
        /\ UNCHANGED <<next, last_in_queue, pc, task, next_local, order>>

-----------------------------------------------------------------------------
(* Runner threads: TaskThreadsQ::taskLoop() *)

Pull(r) ==
    /\ pc[r] = "pull"
    /\ fifo # << >>
    /\ task' = [task EXCEPT ![r] = Head(fifo)]
    /\ fifo' = Tail(fifo)
    /\ pc' = [pc EXCEPT ![r] = "next"]
    /\ UNCHANGED <<state, next, last_in_queue, queues, next_local, order>>

(* next = task->next, read while the manager may be appending. *)
ReadNext(r) ==
    /\ pc[r] = "next"
    /\ next_local' = [next_local EXCEPT ![r] = next[task[r]]]
    /\ pc' = [pc EXCEPT ![r] = IF next[task[r]] = NULL THEN "flag" ELSE "run"]
    /\ UNCHANGED <<state, next, last_in_queue, queues, fifo, task, order>>

(* if (!next) D_FLAGS_SET( task->flags, TASK_FLAG_LAST_IN_QUEUE ) *)
SetLastInQueue(r) ==
    /\ pc[r] = "flag"
    /\ last_in_queue' = last_in_queue \cup {task[r]}
    /\ pc' = [pc EXCEPT ![r] = "run"]
    /\ UNCHANGED <<state, next, queues, fifo, task, next_local, order>>

(* Run() ends with Done(), which returns the task to the manager. *)
RunDone(r) ==
    /\ pc[r] = "run"
    /\ state' = [state EXCEPT ![task[r]] = "DONE"]
    /\ pc' = [pc EXCEPT ![r] = "push"]
    /\ UNCHANGED <<next, last_in_queue, queues, fifo, task, next_local, order>>

(* Mutated form of PushNext: the pointer is read again after Run(). *)
PushNextReread(r) ==
    /\ pc[r] = "push"
    /\ fifo' = IF next[task[r]] # NULL THEN Append(fifo, next[task[r]]) ELSE fifo
    /\ pc' = [pc EXCEPT ![r] = "pull"]
    /\ task' = [task EXCEPT ![r] = NULL]
    /\ next_local' = [next_local EXCEPT ![r] = NULL]
    /\ UNCHANGED <<state, next, last_in_queue, queues, order>>

(* if (next) thiz->fifo.push( next ), then the next turn of the loop. *)
PushNext(r) ==
    /\ pc[r] = "push"
    /\ fifo' = IF next_local[r] # NULL THEN Append(fifo, next_local[r]) ELSE fifo
    /\ pc' = [pc EXCEPT ![r] = "pull"]
    /\ task' = [task EXCEPT ![r] = NULL]
    /\ next_local' = [next_local EXCEPT ![r] = NULL]
    /\ UNCHANGED <<state, next, last_in_queue, queues, order>>

Runner(r) ==
    Pull(r) \/ ReadNext(r) \/ SetLastInQueue(r) \/ RunDone(r) \/ PushNext(r)

Next ==
    \/ \E t \in Tasks : Push(t) \/ Finalise(t)
    \/ \E r \in Runners : Runner(r)

(* The manager thread and the runner threads are never stopped while tasks *)
(* are in flight; nothing forces a client to produce another master.       *)
Fairness ==
    /\ \A r \in Runners : WF_vars(Runner(r))
    /\ WF_vars(\E t \in Tasks : Finalise(t) \/ (Master[t] # NULL /\ Push(t)))

Spec == Init /\ [][Next]_vars

FairSpec == Spec /\ Fairness

-----------------------------------------------------------------------------
(* Properties *)

(* "The second one takes care that Tasks with the same qid are not run at  *)
(* the same time" (ChangeLog:4841): two runners inside Run() always work   *)
(* on tasks of different queues, whatever the manager appends meanwhile.   *)
SerialPerQid ==
    \A r, s \in Runners :
        r # s /\ pc[r] = "run" /\ pc[s] = "run" => Qid[task[r]] # Qid[task[s]]

(* Nothing the pool still follows leads to a deleted task: not the tail    *)
(* pointer Push() appends to, not an entry of the fifo, not the successor  *)
(* a runner is going to push after Run() (its own task may be gone).       *)
NoDanglingTask ==
    /\ \A q \in Qids : queues[q] # NULL => state[queues[q]] # "DEAD"
    /\ \A i \in DOMAIN fifo : state[fifo[i]] = "RUNNING"
    /\ \A r \in Runners :
         /\ pc[r] \in {"next", "flag", "run"} => state[task[r]] = "RUNNING"
         /\ next_local[r] # NULL => state[next_local[r]] = "RUNNING"

(* The D_ASSERTs of Finalise() (TaskThreadsQ.cpp:170, 177 and 183): when a *)
(* task is shut down, its queue still ends in it exactly when it is the    *)
(* one flagged last and nothing was appended behind it.                    *)
FinaliseAsserts ==
    \A t \in Tasks :
        state[t] = "DONE" =>
            (queues[Qid[t]] = t <=> t \in last_in_queue /\ next[t] = NULL)

(* No queue is forgotten and no two groups wait for each other: the pool   *)
(* drains, so every pushed task is run and returned to the manager, also   *)
(* when it was appended to a task flagged last, whose Finalise() waits for *)
(* the other queues of its group.                                          *)
EveryPushedTaskRuns ==
    (\E t \in Tasks : state[t] = "RUNNING") ~> (\A t \in Tasks : state[t] # "RUNNING")

(* Refinement: the pool behaves as one serial queue per qid.               *)
Completed == {t \in Tasks : state[t] \in {"DONE", "DEAD"}}

InRun == {task[r] : r \in {s \in Runners : pc[s] = "run"}}

(* The elements of sequence s behind the last one that is in set S *)
Behind(s, S) ==
    LET last == CHOOSE n \in 0 .. Len(s) :
                    /\ n > 0 => s[n] \in S
                    /\ \A i \in n + 1 .. Len(s) : s[i] \notin S
    IN  SubSeq(s, last + 1, Len(s))

Serial == INSTANCE SerialQueues WITH
    waiting   <- [q \in Qids |-> Behind(order[q], Completed \cup InRun)],
    running   <- InRun,
    completed <- Completed

(* TaskThreadsQ implements SerialQueues: tasks of a queue start in the     *)
(* order of the Push() calls and only when their predecessor is done.      *)
ImplementsSerialQueues == Serial!Spec
=============================================================================
