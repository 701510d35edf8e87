------------------------------ MODULE LockTask ------------------------------
(***************************************************************************)
(* CPU locks with the task manager: class LockTask and its use in          *)
(* ISurface_Real::PreLockBuffer(), src/src/core/CoreSurface_real.cpp.      *)
(*                                                                         *)
(* A client flushes a LockTask and waits until the manager thread, which   *)
(* emits it behind all tasks it depends on, has run it; then the client    *)
(* ends the task with Done().  After 20 s the client goes on without it    *)
(* and leaves it to Run() to call Done().  pushed and timeout are written  *)
(* under a mutex; pthread_cond_timedwait() gives up first and gets the     *)
(* mutex back later.                                                       *)
(***************************************************************************)
EXTENDS Naturals, FiniteSets

CONSTANTS
    Clients,        \* threads that lock surfaces
    MaxLocks        \* bound on the LockTasks of each client

ASSUME BoundAssumption == MaxLocks \in Nat

VARIABLES
    pc,             \* pc[c]: where client c is in PreLockBuffer()
    pushed,         \* clients whose task has run
    timeout,        \* clients whose task has "timeout"
    runs,           \* clients whose flushed task the manager has still to run
    done,           \* done[c]: calls of Done() on the current task of c
    locks           \* locks[c]: tasks made by c

vars == <<pc, pushed, timeout, runs, done, locks>>

TypeOK ==
    /\ pc \in [Clients -> {"idle", "wait", "expired", "locked", "leave"}]
    /\ pushed \in SUBSET Clients /\ timeout \in SUBSET Clients
    /\ runs \in SUBSET Clients
    /\ done \in [Clients -> 0..2]
    /\ locks \in [Clients -> 0..MaxLocks]

Init ==
    /\ pc = [c \in Clients |-> "idle"]
    /\ pushed = {} /\ timeout = {} /\ runs = {}
    /\ done = [c \in Clients |-> 0]
    /\ locks = [c \in Clients |-> 0]

(* PreLockBuffer(): new LockTask(), AddAccess(), Flush().  The previous    *)
(* task of the client has ended.                                           *)
Flush(c) ==
    /\ pc[c] = "idle" /\ locks[c] < MaxLocks
    /\ locks[c] > 0 => done[c] > 0
    /\ pc' = [pc EXCEPT ![c] = "wait"]
    /\ pushed' = pushed \ {c} /\ timeout' = timeout \ {c}
    /\ runs' = runs \cup {c}
    /\ done' = [done EXCEPT ![c] = 0]
    /\ locks' = [locks EXCEPT ![c] = @ + 1]

(* Wait(): leaves the loop, pushed is set. *)
Pushed(c) ==
    /\ pc[c] = "wait" /\ c \in pushed
    /\ pc' = [pc EXCEPT ![c] = "leave"]
    /\ UNCHANGED <<pushed, timeout, runs, done, locks>>

(* Wait(): the time is over, but the mutex has still to be obtained. *)
Expire(c) ==
    /\ pc[c] = "wait" /\ c \notin pushed
    /\ pc' = [pc EXCEPT ![c] = "expired"]
    /\ UNCHANGED <<pushed, timeout, runs, done, locks>>

(* Mutated form of GiveUp: the loop goes on waiting. *)
WaitOn(c) ==
    /\ pc[c] = "expired"
    /\ pc' = [pc EXCEPT ![c] = "wait"]
    /\ UNCHANGED <<pushed, timeout, runs, done, locks>>

(* Wait(): DR_TIMEOUT, the loop is left whatever pushed is by now. *)
GiveUp(c) ==
    /\ pc[c] = "expired"
    /\ timeout' = timeout \cup {c}
    /\ pc' = [pc EXCEPT ![c] = "idle"]
    /\ UNCHANGED <<pushed, runs, done, locks>>

(* PreLockBuffer(): "if (task->Wait()) task->Done();" *)
ClientDone(c) ==
    /\ pc[c] = "leave"
    /\ done' = [done EXCEPT ![c] = @ + 1]
    /\ pc' = [pc EXCEPT ![c] = "idle"]
    /\ UNCHANGED <<pushed, timeout, runs, locks>>

(* Mutated form of RunEnds: Run() always calls Done(). *)
RunAlwaysEnds(c) == TRUE

RunEnds(c) == c \in timeout

(* Run(), in the manager thread, when all tasks before it have ended. *)
Run(c) ==
    /\ c \in runs
    /\ runs' = runs \ {c}
    /\ pushed' = pushed \cup {c}
    /\ done' = IF RunEnds(c) THEN [done EXCEPT ![c] = @ + 1] ELSE done
    /\ UNCHANGED <<pc, timeout, locks>>

Client(c) == Pushed(c) \/ Expire(c) \/ GiveUp(c) \/ ClientDone(c)

Next == \E c \in Clients : Flush(c) \/ Client(c) \/ Run(c)

Spec == Init /\ [][Next]_vars

(* Clients run on (and time passes); the manager need not get to the task: *)
(* that is what the timeout is for.                                        *)
ClientFairness == \A c \in Clients : WF_vars(Client(c))

FairSpec == Spec /\ ClientFairness

-----------------------------------------------------------------------------
(* Client and manager never both end a task: Done() queues the task as     *)
(* finished, a second call would release it twice.                         *)
DoneOnce == \A c \in Clients : done[c] <= 1

(* A client never waits for ever for a lock, even if the manager never     *)
(* gets to its task.                                                       *)
WaitReturns == \A c \in Clients : pc[c] = "wait" ~> pc[c] = "idle"

(* The task is in one piece whoever comes first: Run(), or the client      *)
(* whose wait has timed out.                                               *)
Consistent == TypeOK /\ DoneOnce
=============================================================================
