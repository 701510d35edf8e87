---------------------------- MODULE SerialQueues ----------------------------
(***************************************************************************)
(* What TaskThreadsQ (src/src/core/TaskThreadsQ.cpp) promises its users:   *)
(* tasks carry a queue id, tasks of one queue run one at a time and in the *)
(* order in which they were pushed, tasks of different queues are          *)
(* independent.  There are no runners, no "next" pointers and no flags     *)
(* here; TaskThreadsQ is shown to implement this module.                   *)
(***************************************************************************)
EXTENDS Naturals, Sequences

CONSTANTS
    Tasks,          \* Task objects
    Qids,           \* values of Task::qid
    Qid             \* Qid[t] is the queue id of task t

VARIABLES
    waiting,        \* waiting[q]: tasks pushed on q that have not started
    running,        \* tasks whose Run() is in progress
    completed       \* tasks whose Run() has ended

vars == <<waiting, running, completed>>

Init ==
    /\ waiting = [q \in Qids |-> << >>]
    /\ running = {}
    /\ completed = {}

(* The task manager hands a task over. *)
Push(t) ==
    /\ t \notin running \cup completed
    /\ LET queue == waiting[Qid[t]] IN \A i \in DOMAIN queue : queue[i] # t
    /\ waiting' = [waiting EXCEPT ![Qid[t]] = Append(@, t)]
    /\ UNCHANGED <<running, completed>>

(* The oldest waiting task of a queue starts, once the queue is idle. *)
Start(t) ==
    /\ waiting[Qid[t]] # << >>
    /\ t = Head(waiting[Qid[t]])
    /\ \A u \in running : Qid[u] # Qid[t]
    /\ waiting' = [waiting EXCEPT ![Qid[t]] = Tail(@)]
    /\ running' = running \cup {t}
    /\ UNCHANGED completed

Complete(t) ==
    /\ t \in running
    /\ running' = running \ {t}
    /\ completed' = completed \cup {t}
    /\ UNCHANGED waiting

Next == \E t \in Tasks : Push(t) \/ Start(t) \/ Complete(t)

Spec == Init /\ [][Next]_vars
=============================================================================
