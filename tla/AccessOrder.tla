----------------------------- MODULE AccessOrder -----------------------------
(***************************************************************************)
(* What the task system promises about surface allocations, without        *)
(* states, notifications, FIFOs or threads: tasks that access the same     *)
(* allocation, one of them writing, run in the order in which they were    *)
(* flushed, each after the other has ended; tasks that do not conflict run *)
(* in any order.  TaskManager is shown to implement this module.           *)
(***************************************************************************)
EXTENDS Naturals, Sequences

CONSTANTS
    Tasks,          \* Task objects, masters and slaves
    Allocs,         \* CoreSurfaceAllocation objects
    Accessors,      \* CoreSurfaceAccessorID values
    Master,         \* Master[t]: Task::master, NULL for a master task
    Tile,           \* Tile[t]: the tile t renders
    Unprotected,    \* display tasks that nobody waits for (EMITNOTIFIES)
    NULL

VARIABLES
    order,          \* the masters in the order in which they were flushed
    access,         \* access[m]: accessor, written and read allocations of m
    running,        \* tasks being executed, or on the screen
    ended           \* tasks whose execution is over

vars == <<order, access, running, ended>>

Root(t) == IF Master[t] = NULL THEN t ELSE Master[t]

Acc(t) == access[Root(t)].accessor

Dst(t) == access[Root(t)].dst

Srcs(t) == access[Root(t)].srcs

Writes(t, a) == a = Dst(t)

Touches(t, a) == a = Dst(t) \/ a \in Srcs(t)

(* Tasks of one accessor that write different tiles of an allocation and   *)
(* do not read it are independent: the reason for one qid per tile.        *)
DisjointTiles(t, u) ==
    /\ Acc(t) = Acc(u) /\ Dst(t) = Dst(u) /\ Tile[t] # Tile[u]
    /\ \A a \in Allocs : ~ (a \in Srcs(t) /\ Writes(u, a)) /\ ~ (a \in Srcs(u) /\ Writes(t, a))

Conflict(t, u) ==
    /\ \E a \in Allocs : \/ Writes(t, a) /\ Touches(u, a)
                         \/ Touches(t, a) /\ Writes(u, a)
    /\ ~ DisjointTiles(t, u)

FlushedBefore(t, u) ==
    \E i, j \in DOMAIN order : i < j /\ order[i] = Root(t) /\ order[j] = Root(u)

AccessSets ==
    [accessor : Accessors, dst : Allocs \cup {NULL}, srcs : SUBSET Allocs]

NoAccess == [accessor |-> NULL, dst |-> NULL, srcs |-> {}]

Init ==
    /\ order = << >>
    /\ access = [t \in Tasks |-> NoAccess]
    /\ running = {}
    /\ ended = {}

Flush(m, c) ==
    /\ \A i \in DOMAIN order : order[i] # m
    /\ order' = Append(order, m)
    /\ access' = [access EXCEPT ![m] = c]
    /\ UNCHANGED <<running, ended>>

Start(t) ==
    /\ \E i \in DOMAIN order : order[i] = Root(t)
    /\ t \notin running \cup ended
    /\ \A u \in Tasks \ Unprotected :
         FlushedBefore(u, t) /\ Conflict(u, t) => u \in ended
    /\ running' = running \cup {t}
    /\ UNCHANGED <<order, access, ended>>

End(t) ==
    /\ t \in running
    /\ running' = running \ {t}
    /\ ended' = ended \cup {t}
    /\ UNCHANGED <<order, access>>

Next ==
    \/ \E m \in Tasks : \E c \in AccessSets : Master[m] = NULL /\ Flush(m, c)
    \/ \E t \in Tasks : Start(t) \/ End(t)

Spec == Init /\ [][Next]_vars

-----------------------------------------------------------------------------
(* What a user of surfaces relies on: two tasks of different masters that  *)
(* are being executed never conflict.  Proved of TaskManager.              *)
Exclusive ==
    \A t, u \in running \ Unprotected : Root(t) # Root(u) => ~ Conflict(t, u)
=============================================================================
