-------------------------- MODULE TaskManagerProofs --------------------------
(***************************************************************************)
(* Proofs about the task system for any finite set of tasks and any        *)
(* workload: block counts match the notifications on their way, no pointer *)
(* leads to a deleted task, no timed task is forgotten, and conflicting    *)
(* accesses are executed in the order in which they were flushed.          *)
(*                                                                         *)
(* The argument: master and slaves of a group go through the same phases   *)
(* (not flushed, waiting, emitted, gone).  Each place that refers to a     *)
(* task (fifo, call stack, queues, screen, allocations, notifications)     *)
(* does so in certain phases only, and the last step of finish(), which    *)
(* deletes the group, comes after the step that empties the notifications  *)
(* of the master, when every task of the group has finished.  That is      *)
(* IInv; the order of the accesses rests on it and on OInv, further down.  *)
(***************************************************************************)
EXTENDS TaskManager, SequenceTheorems, FiniteSetTheorems, TLAPS

Emitted == {"RUNNING", "DONE", "FINISH"}

(* What never leads to another task *)
Types ==
    /\ workload \in Workloads
    /\ state \in [Tasks -> TaskStates]
    /\ slaves \in [Tasks -> Nat]
    /\ access \in [Tasks -> AccessSets \cup {NoAccess}]
    /\ flush \in SUBSET Tasks
    /\ invalidate \in SUBSET (Tasks \X Allocs)
    /\ invalidated \in [Allocs -> SUBSET Accessors]
    /\ phase \in {"pull", "timed"}
    /\ pull_timeout \in Nat /\ now \in Nat
    /\ dirty \in [Allocs -> Accessors \cup {NULL}]
    /\ stale \in [Allocs -> SUBSET Accessors]
    /\ order \in Seq(Tasks)

Unfinished(m) == {s \in SlavesOf(m) : state[s] # "FINISH"}

(* Master and slaves go through the same phases; Task::slaves counts those *)
(* that have not finished.                                                 *)
Groups ==
    /\ \A m \in Masters :
          /\ state[m] # "NEW"
          /\ state[m] \in {"FLUSHED", "READY"} \cup Emitted =>
                /\ slaves[m] = Cardinality(Unfinished(m))
                /\ access[m] \in AccessSets
                /\ m \in Display <=> access[m].dst = NULL
    /\ \A s \in Tasks \ Masters :
          /\ state[s] \notin {"FLUSHED", "READY"}
          /\ state[s] = "NONE" <=> state[Master[s]] = "NONE"
          /\ state[s] = "NEW" <=> state[Master[s]] \in {"FLUSHED", "READY"}
          /\ state[s] \in Emitted <=> state[Master[s]] \in Emitted

(* A display task has a reference of its region until DisplayTask::Run(). *)
References ==
    /\ display_tasks \subseteq Display
    /\ \A t \in Display : state[t] \in {"FLUSHED", "READY"} => t \in display_tasks
    /\ \A t \in display_tasks : state[t] \in {"FLUSHED", "READY", "RUNNING"}
    /\ refs = [t \in Tasks |-> IF state[t] \in {"NONE", "DEAD", "INVALID"} THEN 0
                               ELSE IF t \in display_tasks THEN 2 ELSE 1]

(* The notifications t waits for *)
Blocking(t) == {n \in notifies : n.to = t}

(* Only tasks that are READY wait, and for tasks that are not deleted.     *)
(* Those who wait for an emission have been or will be handled by the      *)
(* notifyAll() of emit(), and finish() notifies before it deletes.         *)
Waits ==
    /\ notifies \in SUBSET Notifies
    /\ \A n \in notifies :
          /\ state[n.to] = "READY"
          /\ n.from \in Masters /\ state[n.from] \in {"READY"} \cup Emitted
          /\ n.on = "RUNNING" =>
                \/ state[n.from] = "READY"
                \/ \E i \in DOMAIN calls : calls[i] = Frame("notifyRunning", n.from)
          /\ Len(calls) = 1 /\ calls[1] = Frame("shutdown", n.from) => n.on = "RUNNING"
    /\ block_count \in [Tasks -> Nat]
    /\ \A t \in Tasks : IsFiniteSet(Blocking(t)) /\ block_count[t] = Cardinality(Blocking(t))

Incoming ==
    /\ fifo \in Seq(Tasks)
    /\ \A i \in DOMAIN fifo : state[fifo[i]] \in {"FLUSHED", "DONE", "DEAD"}
    /\ \A i, j \in DOMAIN fifo : fifo[i] = fifo[j] => i = j

(* The shutdown of a finished group is the outermost call, and the         *)
(* notification of those who wait for it the next one.                     *)
Stack ==
    /\ calls \in Seq(Frames)
    /\ \A i \in DOMAIN calls :
          /\ calls[i].task \in Masters /\ Live(calls[i].task)
          /\ calls[i].op = "timedEmit" => calls[i].task \notin timed_emits
          /\ calls[i].op = "shutdown" =>
                /\ i = 1
                /\ \A t \in Group(calls[1].task) : state[t] = "FINISH"
                /\ Len(calls) > 1 => calls[2] = Frame("notifyFinish", calls[1].task)

Timed ==
    /\ waiting \in SUBSET Display /\ timed_emits \subseteq waiting
    /\ \A t \in waiting : state[t] = "READY" /\ TsEmit[t] # 0
    /\ WaitingIsOnList

Queues ==
    /\ queue \in [Keys -> Seq(Tasks)]
    /\ \A k \in Keys : \A i \in DOMAIN queue[k] :
          /\ state[queue[k][i]] = "RUNNING"
          /\ Root(queue[k][i]) \notin Display
          /\ Key(queue[k][i]) = k
    /\ \A k \in Keys : \A i, j \in DOMAIN queue[k] : queue[k][i] = queue[k][j] => i = j
    /\ executing \in SUBSET Tasks
    /\ \A t \in executing : Key(t) \in Keys /\ 1 \in DOMAIN queue[Key(t)] /\ queue[Key(t)][1] = t

Screen ==
    /\ pool \subseteq display_tasks
    /\ \A t \in pool : state[t] = "RUNNING"
    /\ prev_task \in Display \cup {NULL}
    /\ prev_task # NULL => state[prev_task] = "RUNNING" /\ prev_task \notin display_tasks
    /\ display_task \in Display \cup {NULL}
    /\ display_task # NULL => state[display_task] \in {"READY"} \cup Emitted

(* Allocations *)
Used ==
    /\ write_task \in [Allocs -> Masters \cup {NULL}]
    /\ read_tasks \in [Allocs -> SUBSET Masters]
    /\ \A a \in Allocs :
          /\ write_task[a] # NULL => state[write_task[a]] \in {"READY"} \cup Emitted
          /\ \A t \in read_tasks[a] : state[t] \in {"READY"} \cup Emitted

IInv == /\ Types /\ Groups /\ References /\ Waits /\ Incoming /\ Stack /\ Timed
        /\ Queues /\ Screen /\ Used

-----------------------------------------------------------------------------
(* Facts about sequences and groups *)

LEMMA Appended ==
    ASSUME NEW S, NEW s \in Seq(S), NEW e \in S
    PROVE  /\ Append(s, e) \in Seq(S) /\ Len(s) \in Nat
           /\ Len(Append(s, e)) = Len(s) + 1 /\ DOMAIN s = 1..Len(s)
           /\ DOMAIN Append(s, e) = 1..Len(s) + 1
           /\ \A i \in 1..Len(s) : Append(s, e)[i] = s[i]
           /\ Append(s, e)[Len(s) + 1] = e
<1>1. /\ Append(s, e) \in Seq(S) /\ Len(Append(s, e)) = Len(s) + 1
      /\ \A i \in 1..Len(s) : Append(s, e)[i] = s[i]
      /\ Append(s, e)[Len(s) + 1] = e
  BY AppendProperties
<1>2. Len(s) \in Nat /\ DOMAIN s = 1..Len(s)
  BY LenProperties
<1>3. DOMAIN Append(s, e) = 1..Len(s) + 1
  BY <1>1, LenProperties
<1> QED
  BY <1>1, <1>2, <1>3

LEMMA HeadAndTail ==
    ASSUME NEW S, NEW s \in Seq(S), s # << >>
    PROVE  /\ Len(s) \in Nat /\ Len(s) > 0 /\ DOMAIN s = 1..Len(s)
           /\ Head(s) = s[1] /\ s[1] \in S
           /\ Tail(s) \in Seq(S) /\ DOMAIN Tail(s) = 1..Len(s) - 1
           /\ \A i \in 1..Len(s) - 1 : Tail(s)[i] = s[i + 1]
<1>1. /\ Len(s) \in Nat /\ Len(s) > 0 /\ Head(s) = s[1]
      /\ Tail(s) \in Seq(S) /\ Len(Tail(s)) = Len(s) - 1
      /\ \A i \in 1..Len(s) - 1 : Tail(s)[i] = s[i + 1]
  BY HeadTailProperties, EmptySeq
<1>2. DOMAIN s = 1..Len(s) /\ DOMAIN Tail(s) = 1..Len(s) - 1
  BY <1>1, LenProperties
<1>3. s[1] \in S
  BY <1>1, ElementOfSeq
<1> QED
  BY <1>1, <1>2, <1>3

(* The stack without its top frame *)
LEMMA BelowFacts ==
    ASSUME calls \in Seq(Frames), calls # << >>
    PROVE  /\ Len(calls) \in Nat /\ Len(calls) > 0 /\ DOMAIN calls = 1..Len(calls)
           /\ Top = calls[Len(calls)] /\ Top \in Frames
           /\ Below \in Seq(Frames) /\ Len(Below) = Len(calls) - 1
           /\ DOMAIN Below = 1..Len(calls) - 1
           /\ \A i \in 1..Len(calls) - 1 : Below[i] = calls[i]
<1> DEFINE n == Len(calls)
<1>1. n \in Nat /\ n > 0 /\ DOMAIN calls = 1..n
  BY EmptySeq, LenProperties
<1>2. \A i \in 1..n : calls[i] \in Frames
  BY <1>1, ElementOfSeq
<1> HIDE DEF n
<1>3. n - 1 \in Int /\ (IF 1 <= n - 1 THEN n - 1 - 1 + 1 ELSE 0) = n - 1 /\ n - 1 - 1 + 1 = n - 1
  BY <1>1
<1>4. \A i \in 1..n - 1 : calls[i] \in Frames
  BY <1>1, <1>2
<1>5. /\ Below \in Seq(Frames)
      /\ Len(Below) = (IF 1 <= n - 1 THEN n - 1 - 1 + 1 ELSE 0)
      /\ \A i \in 1..n - 1 - 1 + 1 : Below[i] = calls[1 + i - 1]
  BY <1>1, <1>3, <1>4, SubSeqProperties DEF Below, n
<1>6. Len(Below) = n - 1 /\ \A i \in 1..n - 1 : Below[i] = calls[i]
  BY <1>1, <1>3, <1>5
<1>7. DOMAIN Below = 1..n - 1
  BY <1>5, <1>6, LenProperties
<1>8. n \in 1..n
  BY <1>1
<1>9. calls[n] \in Frames
  BY <1>2, <1>8
<1> QED
  BY <1>1, <1>5, <1>6, <1>7, <1>9 DEF Top, n

(* The stack with another top frame *)
LEMMA Replaced ==
    ASSUME calls \in Seq(Frames), calls # << >>, NEW e \in Frames
    PROVE  /\ Append(Below, e) \in Seq(Frames) /\ Len(Append(Below, e)) = Len(calls)
           /\ DOMAIN Append(Below, e) = 1..Len(calls)
           /\ \A i \in 1..Len(calls) - 1 : Append(Below, e)[i] = calls[i]
           /\ Append(Below, e)[Len(calls)] = e
<1>1. /\ Len(calls) \in Nat /\ Below \in Seq(Frames) /\ Len(Below) = Len(calls) - 1
      /\ \A i \in 1..Len(calls) - 1 : Below[i] = calls[i]
  BY BelowFacts
<1>2. Len(Below) + 1 = Len(calls)
  BY <1>1
<1>3. /\ Append(Below, e) \in Seq(Frames)
      /\ Len(Append(Below, e)) = Len(Below) + 1
      /\ DOMAIN Append(Below, e) = 1..Len(Below) + 1
      /\ \A i \in 1..Len(Below) : Append(Below, e)[i] = Below[i]
      /\ Append(Below, e)[Len(Below) + 1] = e
  BY <1>1, Appended
<1> QED
  BY <1>1, <1>2, <1>3

LEMMA GroupFacts ==
    /\ NULL \notin Tasks /\ NULL \notin Allocs /\ NULL \notin Accessors
    /\ Masters \subseteq Tasks /\ Display \subseteq Masters
    /\ \A t \in Tasks : Root(t) \in Masters
    /\ \A m \in Masters : Root(m) = m /\ m \in Group(m) /\ Group(m) \subseteq Tasks
    /\ \A s \in Tasks \ Masters : Root(s) = Master[s] /\ s # Master[s]
    /\ \A m \in Masters : \A t \in Tasks : t \in Group(m) <=> Root(t) = m
    /\ \A m \in Masters : \A t \in Tasks : t \in SlavesOf(m) <=> Root(t) = m /\ t # m
    /\ \A m \in Masters : m \notin SlavesOf(m) /\ SlavesOf(m) \subseteq Tasks \ Masters
    /\ \A m \in Display : Group(m) = {m}
<1>1. /\ NULL \notin Tasks /\ NULL \notin Allocs /\ NULL \notin Accessors
      /\ Master \in [Tasks -> Tasks \cup {NULL}]
      /\ \A t \in Tasks : Master[t] # NULL => Master[t] \in Masters
      /\ Display \subseteq {t \in Masters : SlavesOf(t) = {}}
  BY TaskAssumption
<1>2. Masters \subseteq Tasks /\ Display \subseteq Masters
  BY <1>1 DEF Masters
<1>3. \A m \in Masters : Root(m) = m /\ m \in Tasks /\ Master[m] = NULL
  BY DEF Masters, Root
<1>4. \A s \in Tasks \ Masters : Root(s) = Master[s] /\ s # Master[s] /\ Master[s] \in Masters
  BY <1>1 DEF Masters, Root
<1>5. \A m \in Masters : \A t \in Tasks :
         /\ (t \in SlavesOf(m) <=> Root(t) = m /\ t # m)
         /\ (t \in Group(m) <=> Root(t) = m)
  <2> SUFFICES ASSUME NEW m \in Masters, NEW t \in Tasks
               PROVE  /\ (t \in SlavesOf(m) <=> Root(t) = m /\ t # m)
                      /\ (t \in Group(m) <=> Root(t) = m)
    OBVIOUS
  <2>1. CASE t \in Masters
    BY <1>1, <1>3, <2>1 DEF SlavesOf, Group
  <2>2. CASE t \notin Masters
    BY <1>3, <1>4, <2>2 DEF SlavesOf, Group
  <2> QED
    BY <2>1, <2>2
<1>6. \A m \in Masters : SlavesOf(m) \subseteq Tasks /\ Group(m) \subseteq Tasks /\ m \in Group(m)
  BY <1>3 DEF SlavesOf, Group
<1>7. \A m \in Masters : m \notin SlavesOf(m) /\ SlavesOf(m) \subseteq Tasks \ Masters
  BY <1>3, <1>5, <1>6
<1>8. \A m \in Display : Group(m) = {m}
  BY <1>1 DEF Group
<1> QED
  BY <1>1, <1>2, <1>3, <1>4, <1>5, <1>6, <1>7, <1>8

LEMMA TileFacts ==
    /\ Tile \in [Tasks -> Nat]
    /\ \A m \in Masters : \A t, u \in Group(m) : t # u => Tile[t] # Tile[u]
  BY TaskAssumption

LEMMA FiniteGroups == \A m \in Masters : IsFiniteSet(SlavesOf(m))
<1>1. \A m \in Masters : SlavesOf(m) \in SUBSET Tasks
  BY DEF SlavesOf
<1> QED
  BY <1>1, FiniteAssumption, FS_Subset

LEMMA WorkloadFacts ==
    ASSUME workload \in Workloads, NEW m \in Masters, NEW c \in workload[m]
    PROVE  c \in AccessSets /\ (m \in Display <=> c.dst = NULL)
  BY FlagAssumption

-----------------------------------------------------------------------------
(* Steps that leave a part alone *)

(* What a step that does not flush, emit, finish or delete a group does to *)
(* the states of tasks                                                     *)
Moves ==
    \A t \in Tasks :
        \/ state'[t] = state[t]
        \/ state[t] = "FLUSHED" /\ state'[t] = "READY"
        \/ state[t] = "RUNNING" /\ state'[t] = "DONE"
        \/ state[t] = "DEAD" /\ state'[t] = "INVALID"

LEMMA GroupsStay ==
    ASSUME IInv, UNCHANGED <<slaves, access>>, Moves PROVE Groups'
<1>1. \A m \in Masters : m \in Tasks
  BY GroupFacts
<1>2. \A s \in Tasks \ Masters : Master[s] \in Tasks
  BY GroupFacts
<1>3. \A m \in Masters : Unfinished(m)' = Unfinished(m)
  <2> SUFFICES ASSUME NEW m \in Masters, NEW s \in SlavesOf(m)
               PROVE  state'[s] = "FINISH" <=> state[s] = "FINISH"
    BY DEF Unfinished
  <2>1. s \in Tasks
    BY GroupFacts
  <2> QED
    BY <2>1 DEF Moves
<1>4. \A m \in Masters :
         /\ state'[m] # "NEW"
         /\ state'[m] \in {"FLUSHED", "READY"} \cup Emitted
               => state[m] \in {"FLUSHED", "READY"} \cup Emitted
  BY <1>1 DEF Moves, IInv, Groups, Emitted
<1>5. \A s \in Tasks :
         /\ (state'[s] = "NONE" <=> state[s] = "NONE")
         /\ (state'[s] = "NEW" <=> state[s] = "NEW")
         /\ (state'[s] \in Emitted <=> state[s] \in Emitted)
         /\ (state'[s] \in {"FLUSHED", "READY"} <=> state[s] \in {"FLUSHED", "READY"})
  BY DEF Moves, Emitted
<1> QED
  BY <1>2, <1>3, <1>4, <1>5 DEF IInv, Groups

LEMMA ReferencesStay ==
    ASSUME IInv, UNCHANGED <<refs, display_tasks>>,
           \A t \in Tasks : state'[t] \in {"NONE", "DEAD", "INVALID"}
                                <=> state[t] \in {"NONE", "DEAD", "INVALID"},
           \A t \in Display : \/ state'[t] = state[t]
                              \/ state[t] = "FLUSHED" /\ state'[t] = "READY"
                              \/ state[t] = "DEAD"
    PROVE  References'
<1>1. \A t \in Display : t \in Tasks
  BY GroupFacts
<1>2. \A t \in Display : state'[t] \in {"FLUSHED", "READY"} => state[t] \in {"FLUSHED", "READY"}
  BY <1>1
<1> QED
  BY <1>1, <1>2 DEF IInv, References

LEMMA WaitsStay ==
    ASSUME IInv, UNCHANGED <<notifies, block_count, calls>>,
           \A t \in Tasks : state[t] = "READY" => state'[t] = "READY",
           \A t \in Tasks : state[t] \in Emitted => state'[t] \in Emitted
    PROVE  Waits'
<1>1. \A n \in notifies : n.to \in Tasks /\ n.from \in Tasks
  BY DEF IInv, Waits, Notifies
<1>2. \A t \in Tasks : Blocking(t)' = Blocking(t)
  BY DEF Blocking
<1> QED
  BY <1>1, <1>2 DEF IInv, Waits

LEMMA IncomingStays ==
    ASSUME IInv, fifo' = fifo,
           \A t \in Tasks : state[t] \in {"FLUSHED", "DONE", "DEAD"} => state'[t] = state[t]
    PROVE  Incoming'
<1>1. \A i \in DOMAIN fifo : fifo[i] \in Tasks
  BY LenProperties, ElementOfSeq DEF IInv, Incoming
<1> QED
  BY <1>1 DEF IInv, Incoming

LEMMA StackStays ==
    ASSUME IInv, UNCHANGED <<calls, timed_emits>>,
           \A t \in Tasks : state[t] \notin {"NONE", "INVALID"} =>
               state'[t] \notin {"NONE", "INVALID"},
           \A t \in Tasks : state[t] = "FINISH" => state'[t] = "FINISH"
    PROVE  Stack'
<1>1. \A i \in DOMAIN calls : calls[i].task \in Masters
  BY DEF IInv, Stack
<1>2. \A i \in DOMAIN calls : Group(calls[i].task) \subseteq Tasks /\ calls[i].task \in Tasks
  BY <1>1, GroupFacts
<1>3. \A i \in DOMAIN calls : i = 1 => calls[1].task \in Masters
  BY <1>1
<1> QED
  BY <1>1, <1>2 DEF IInv, Stack, Live

LEMMA TimedStays ==
    ASSUME IInv, UNCHANGED <<waiting, timed_emits, calls>>,
           \A t \in Tasks : state[t] = "READY" /\ t \in waiting => state'[t] = "READY"
    PROVE  Timed'
<1>1. Display \subseteq Tasks
  BY GroupFacts
<1> QED
  BY <1>1 DEF IInv, Timed, WaitingIsOnList

LEMMA QueuesStay ==
    ASSUME IInv, UNCHANGED <<queue, executing>>,
           \A t \in Tasks : state[t] = "RUNNING" /\ Root(t) \notin Display =>
               state'[t] = "RUNNING" /\ access'[Root(t)] = access[Root(t)]
    PROVE  Queues'
<1>1. \A k \in Keys : \A i \in DOMAIN queue[k] :
         /\ queue[k][i] \in Tasks /\ state[queue[k][i]] = "RUNNING"
         /\ Root(queue[k][i]) \notin Display
  BY LenProperties, ElementOfSeq DEF IInv, Queues
<1>2. \A t : access'[Root(t)] = access[Root(t)] => Key(t)' = Key(t)
  BY DEF Key, Acc, Dst
<1>3. \A k \in Keys : \A i \in DOMAIN queue[k] :
         /\ state'[queue[k][i]] = "RUNNING" /\ Key(queue[k][i])' = Key(queue[k][i])
  BY <1>1, <1>2
<1>4. \A t \in executing : Key(t)' = Key(t)
  BY <1>3 DEF IInv, Queues
<1> QED
  BY <1>1, <1>3, <1>4 DEF IInv, Queues

LEMMA ScreenStays ==
    ASSUME IInv, UNCHANGED <<pool, display_tasks, prev_task, display_task>>,
           \A t \in Tasks : state[t] = "RUNNING" /\ t \in Display => state'[t] = "RUNNING",
           \A t \in Tasks : state[t] \in {"READY"} \cup Emitted =>
               state'[t] \in {"READY"} \cup Emitted
    PROVE  Screen'
<1>1. Display \subseteq Tasks /\ pool \subseteq Display
  BY GroupFacts DEF IInv, Screen, References
<1> QED
  BY <1>1 DEF IInv, Screen

LEMMA UsedStay ==
    ASSUME IInv, UNCHANGED <<write_task, read_tasks>>,
           \A t \in Tasks : state[t] \in {"READY"} \cup Emitted =>
               state'[t] \in {"READY"} \cup Emitted
    PROVE  Used'
<1>1. Masters \subseteq Tasks
  BY GroupFacts
<1>2. \A a \in Allocs : /\ write_task[a] # NULL => write_task[a] \in Tasks
                        /\ read_tasks[a] \subseteq Tasks
  BY <1>1 DEF IInv, Used
<1> QED
  BY <1>2 DEF IInv, Used

-----------------------------------------------------------------------------
(* The initial states, and steps that change no task's state *)

LEMMA InitInv == Init => IInv
<1> SUFFICES ASSUME Init PROVE IInv
  OBVIOUS
<1>1. << >> \in Seq(Tasks) /\ << >> \in Seq(Frames) /\ DOMAIN << >> = {}
  OBVIOUS
<1>2. \A t \in Masters : t \in Tasks
  BY GroupFacts
<1>3. \A s \in Tasks \ Masters : Master[s] \in Tasks
  BY GroupFacts
<1>4. Types
  BY <1>1 DEF Init, Types, TaskStates
<1>5. Groups
  BY <1>2, <1>3 DEF Init, Groups, Emitted
<1>6. References
  BY GroupFacts DEF Init, References
<1>7. Waits
  <2>1. \A t \in Tasks : Blocking(t) = {}
    BY DEF Init, Blocking
  <2> QED
    BY <2>1, FS_EmptySet DEF Init, Waits
<1>8. Incoming /\ Stack /\ Queues
  BY <1>1 DEF Init, Incoming, Stack, Queues
<1>9. Timed /\ Screen /\ Used
  BY DEF Init, Timed, WaitingIsOnList, Screen, Used
<1> QED
  BY <1>4, <1>5, <1>6, <1>7, <1>8, <1>9 DEF IInv

LEMMA NoMoves == ASSUME state' = state PROVE Moves
  BY DEF Moves

LEMMA PullTimeoutInv == IInv /\ PullTimeout => IInv'
<1> SUFFICES ASSUME IInv, PullTimeout PROVE IInv'
  OBVIOUS
<1>1. /\ phase' = "timed"
      /\ UNCHANGED <<state, refs, block_count, slaves, notifies, access, invalidate, flush,
                     write_task, read_tasks, invalidated, fifo, calls, waiting, timed_emits,
                     pull_timeout, now, queue, executing, dirty, stale, pool, display_tasks,
                     display_task, prev_task, workload, order>>
  BY DEF PullTimeout, taskVars, allocVars, timeVars, engineVars, displayVars, clientVars
<1>2. Types'
  BY <1>1 DEF IInv, Types
<1>3. Groups' /\ References' /\ Waits' /\ Incoming' /\ Stack'
  BY <1>1, NoMoves, GroupsStay, ReferencesStay, WaitsStay, IncomingStays, StackStays
<1>4. Timed' /\ Queues' /\ Screen' /\ Used'
  BY <1>1, TimedStays, QueuesStay, ScreenStays, UsedStay
<1> QED
  BY <1>2, <1>3, <1>4 DEF IInv

LEMMA TickInv == IInv /\ Tick => IInv'
<1> SUFFICES ASSUME IInv, Tick PROVE IInv'
  OBVIOUS
<1>1. /\ now' = now + 1
      /\ UNCHANGED <<state, refs, block_count, slaves, notifies, access, invalidate, flush,
                     write_task, read_tasks, invalidated, fifo, phase, calls, waiting,
                     timed_emits, pull_timeout, queue, executing, dirty, stale, pool,
                     display_tasks, display_task, prev_task, workload, order>>
  BY DEF Tick, taskVars, allocVars, mgrVars, engineVars, displayVars, clientVars
<1>2. Types'
  BY <1>1 DEF IInv, Types
<1>3. Groups' /\ References' /\ Waits' /\ Incoming' /\ Stack'
  BY <1>1, NoMoves, GroupsStay, ReferencesStay, WaitsStay, IncomingStays, StackStays
<1>4. Timed' /\ Queues' /\ Screen' /\ Used'
  BY <1>1, TimedStays, QueuesStay, ScreenStays, UsedStay
<1> QED
  BY <1>2, <1>3, <1>4 DEF IInv

LEMMA StartInv == ASSUME IInv, NEW t \in Tasks, Start(t) PROVE IInv'
<1>1. /\ executing' = executing \cup {t}
      /\ stale' = [a \in Allocs |-> IF <<Root(t), a>> \in invalidate
                                      THEN stale[a] \ {Acc(t)} ELSE stale[a]]
      /\ UNCHANGED <<state, refs, block_count, slaves, notifies, access, invalidate, flush,
                     write_task, read_tasks, invalidated, fifo, phase, calls, waiting,
                     timed_emits, pull_timeout, now, queue, dirty, pool,
                     display_tasks, display_task, prev_task, workload, order>>
  BY DEF Start, taskVars, allocVars, mgrVars, timeVars, displayVars, clientVars
<1>2. Types'
  <2>1. stale' \in [Allocs -> SUBSET Accessors]
    BY <1>1 DEF IInv, Types
  <2> QED
    BY <1>1, <2>1 DEF IInv, Types
<1>3. Groups' /\ References' /\ Waits' /\ Incoming' /\ Stack'
  BY <1>1, NoMoves, GroupsStay, ReferencesStay, WaitsStay, IncomingStays, StackStays
<1>4. Timed' /\ Screen' /\ Used'
  BY <1>1, TimedStays, ScreenStays, UsedStay
<1>5. Queues'
  <2>1. PICK k \in Keys : queue[k] # << >> /\ Head(queue[k]) = t
    BY DEF Start
  <2>2. 1 \in DOMAIN queue[k] /\ queue[k][1] = t
    BY <2>1, HeadAndTail DEF IInv, Queues
  <2>3. Key(t) = k
    BY <2>2 DEF IInv, Queues
  <2>4. \A u : Key(u)' = Key(u)
    BY <1>1 DEF Key, Acc, Dst
  <2> QED
    BY <1>1, <2>2, <2>3, <2>4 DEF IInv, Queues
<1> QED
  BY <1>2, <1>3, <1>4, <1>5 DEF IInv

(* A call returns. *)
LEMMA Pop ==
    ASSUME IInv, calls # << >>, calls' = Below,
           UNCHANGED <<state, notifies, block_count, waiting, timed_emits>>,
           Top.op \in {"checkEmit", "notifyRunning", "notifyFinish"},
           Top.op \in {"notifyRunning", "notifyFinish"} => Pending = {}
    PROVE  Waits' /\ Stack' /\ Timed'
<1> DEFINE n == Len(calls)
<1>1. /\ n \in Nat /\ n > 0 /\ DOMAIN calls = 1..n /\ Top = calls[n]
      /\ calls' \in Seq(Frames) /\ Len(calls') = n - 1 /\ DOMAIN calls' = 1..n - 1
      /\ \A i \in 1..n - 1 : calls'[i] = calls[i]
  BY BelowFacts DEF IInv, Stack
<1> HIDE DEF n
<1>5. n \in Nat /\ Len(calls') \in Nat /\ n = Len(calls') + 1
  BY <1>1
<1>6. Len(calls') = 1 => n = 2
  BY <1>5
<1>2. Waits'
  <2>1. \A x \in notifies : x \notin Pending \/ Top.op = "checkEmit"
    OBVIOUS
  <2>2. ASSUME NEW x \in notifies, x.on = "RUNNING", state[x.from] # "READY"
        PROVE  \E i \in DOMAIN calls' : calls'[i] = Frame("notifyRunning", x.from)
    <3>1. PICK i \in DOMAIN calls : calls[i] = Frame("notifyRunning", x.from)
      BY <2>2 DEF IInv, Waits
    <3>2. i # n
      BY <1>1, <2>1, <2>2, <3>1 DEF Pending, Frame
    <3>3. i \in 1..n - 1
      BY <1>1, <3>1, <3>2
    <3> QED
      BY <1>1, <3>1, <3>3
  <2>3. ASSUME NEW x \in notifies, Len(calls') = 1, calls'[1] = Frame("shutdown", x.from)
        PROVE  x.on = "RUNNING"
    <3>0. n = 2
      BY <1>6, <2>3
    <3>1. n = 2 /\ 1 \in DOMAIN calls /\ calls[1] = Frame("shutdown", x.from)
      BY <1>1, <2>3, <3>0
    <3>2. calls[1].op = "shutdown" /\ calls[1].task = x.from
      BY <3>1 DEF Frame
    <3>3. Top = Frame("notifyFinish", x.from)
      BY <1>1, <3>1, <3>2 DEF IInv, Stack, n
    <3>4. x.on \in {"RUNNING", "FINISH"}
      BY DEF IInv, Waits, Notifies
    <3> QED
      BY <2>1, <3>3, <3>4 DEF Pending, Frame
  <2>4. \A t \in Tasks : Blocking(t)' = Blocking(t)
    BY DEF Blocking
  <2> QED
    BY <2>2, <2>3, <2>4 DEF IInv, Waits
<1>3. Stack'
  <2>1. \A i \in DOMAIN calls' : i \in DOMAIN calls /\ calls'[i] = calls[i]
    BY <1>1
  <2>2. 1 \in DOMAIN calls' => calls'[1] = calls[1]
    BY <2>1
  <2>3. Len(calls') > 1 => calls'[2] = calls[2] /\ Len(calls) > 1
    BY <1>1 DEF n
  <2> QED
    BY <1>1, <2>1, <2>2, <2>3 DEF IInv, Stack, Live
<1>4. Timed'
  <2>1. ASSUME NEW i \in DOMAIN calls, calls[i].op = "timedEmit"
        PROVE  i \in DOMAIN calls' /\ calls'[i] = calls[i]
    BY <1>1, <2>1
  <2>2. \A t : Frame("timedEmit", t).op = "timedEmit"
    BY DEF Frame
  <2> QED
    BY <2>1, <2>2 DEF IInv, Timed, WaitingIsOnList
<1> QED
  BY <1>2, <1>3, <1>4

LEMMA KeepBlockedInv == IInv /\ KeepBlocked => IInv'
<1> SUFFICES ASSUME IInv, KeepBlocked PROVE IInv'
  OBVIOUS
<1>1. /\ calls # << >> /\ Top.op = "checkEmit" /\ calls' = Below
      /\ UNCHANGED <<state, refs, block_count, slaves, notifies, access, invalidate, flush,
                     write_task, read_tasks, invalidated, fifo, phase, waiting,
                     timed_emits, pull_timeout, now, queue, executing, dirty, stale, pool,
                     display_tasks, display_task, prev_task, workload, order>>
  BY DEF KeepBlocked, taskVars, allocVars, timeVars, engineVars, displayVars, clientVars
<1>2. Types'
  BY <1>1 DEF IInv, Types
<1>3. Groups' /\ References' /\ Incoming'
  BY <1>1, NoMoves, GroupsStay, ReferencesStay, IncomingStays
<1>4. Queues' /\ Screen' /\ Used'
  BY <1>1, QueuesStay, ScreenStays, UsedStay
<1>5. Waits' /\ Stack' /\ Timed'
  BY <1>1, Pop
<1> QED
  BY <1>2, <1>3, <1>4, <1>5 DEF IInv

LEMMA NotifyReturnInv == IInv /\ NotifyReturn => IInv'
<1> SUFFICES ASSUME IInv, NotifyReturn PROVE IInv'
  OBVIOUS
<1>1. /\ calls # << >> /\ Top.op \in {"notifyRunning", "notifyFinish"} /\ Pending = {}
      /\ calls' = Below
      /\ UNCHANGED <<state, refs, block_count, slaves, notifies, access, invalidate, flush,
                     write_task, read_tasks, invalidated, fifo, phase, waiting,
                     timed_emits, pull_timeout, now, queue, executing, dirty, stale, pool,
                     display_tasks, display_task, prev_task, workload, order>>
  BY DEF NotifyReturn, taskVars, allocVars, timeVars, engineVars, displayVars, clientVars
<1>2. Types'
  BY <1>1 DEF IInv, Types
<1>3. Groups' /\ References' /\ Incoming'
  BY <1>1, NoMoves, GroupsStay, ReferencesStay, IncomingStays
<1>4. Queues' /\ Screen' /\ Used'
  BY <1>1, QueuesStay, ScreenStays, UsedStay
<1>5. Waits' /\ Stack' /\ Timed'
  BY <1>1, Pop
<1> QED
  BY <1>2, <1>3, <1>4, <1>5 DEF IInv

LEMMA TimedEmitInv == IInv /\ TimedEmit => IInv'
<1> SUFFICES ASSUME IInv, TimedEmit PROVE IInv'
  OBVIOUS
<1> DEFINE n == Len(calls)
           m == Top.task
<1>1. /\ calls # << >> /\ Top.op = "timedEmit" /\ waiting' = waiting \ {m}
      /\ calls' = Append(Below, Frame("checkEmit", m))
      /\ UNCHANGED <<state, refs, block_count, slaves, notifies, access, invalidate, flush,
                     write_task, read_tasks, invalidated, fifo, phase,
                     timed_emits, pull_timeout, now, queue, executing, dirty, stale, pool,
                     display_tasks, display_task, prev_task, workload, order>>
  BY DEF TimedEmit, taskVars, allocVars, engineVars, displayVars, clientVars
<1>2. Types'
  BY <1>1 DEF IInv, Types
<1>3. Groups' /\ References' /\ Incoming'
  BY <1>1, NoMoves, GroupsStay, ReferencesStay, IncomingStays
<1>4. Queues' /\ Screen' /\ Used'
  BY <1>1, QueuesStay, ScreenStays, UsedStay
<1>5. /\ n \in Nat /\ n > 0 /\ DOMAIN calls = 1..n /\ Top = calls[n]
      /\ Below \in Seq(Frames) /\ Len(Below) = n - 1
      /\ \A i \in 1..n - 1 : Below[i] = calls[i]
  BY <1>1, BelowFacts DEF IInv, Stack
<1>6. /\ m \in Masters /\ m \in Tasks /\ Live(m) /\ m \notin timed_emits
      /\ Frame("checkEmit", m) \in Frames
  BY <1>1, <1>5, GroupFacts DEF IInv, Stack, Frames, Frame
<1>7. /\ calls' \in Seq(Frames) /\ Len(calls') = n /\ DOMAIN calls' = 1..n
      /\ \A i \in 1..n - 1 : calls'[i] = calls[i]
      /\ calls'[n] = Frame("checkEmit", m)
  BY <1>1, <1>5, <1>6, Replaced DEF IInv, Stack
<1> HIDE DEF n, m
<1>8. Waits'
  <2>1. ASSUME NEW x \in notifies, x.on = "RUNNING", state[x.from] # "READY"
        PROVE  \E i \in DOMAIN calls' : calls'[i] = Frame("notifyRunning", x.from)
    <3>1. PICK i \in DOMAIN calls : calls[i] = Frame("notifyRunning", x.from)
      BY <2>1 DEF IInv, Waits
    <3>2. i # n
      BY <1>1, <1>5, <3>1 DEF Frame
    <3>3. i \in 1..n - 1
      BY <1>5, <3>1, <3>2
    <3> QED
      BY <1>5, <1>7, <3>1, <3>3
  <2>2. Len(calls') = 1 => calls'[1].op = "checkEmit"
    BY <1>7 DEF Frame
  <2>3. \A t : Frame("shutdown", t).op = "shutdown"
    BY DEF Frame
  <2>4. \A t \in Tasks : Blocking(t)' = Blocking(t)
    BY <1>1 DEF Blocking
  <2> QED
    BY <1>1, <2>1, <2>2, <2>3, <2>4 DEF IInv, Waits
<1>9. Stack'
  <2>1. Frame("checkEmit", m).op = "checkEmit" /\ Frame("checkEmit", m).task = m
    BY DEF Frame
  <2>2. \A i \in DOMAIN calls' : \/ i \in DOMAIN calls /\ i # n /\ calls'[i] = calls[i]
                                 \/ i = n
    BY <1>5, <1>7
  <2>3. ASSUME NEW i \in DOMAIN calls', calls'[i].op = "shutdown"
        PROVE  /\ i = 1 /\ calls'[1] = calls[1]
               /\ \A t \in Group(calls[1].task) : state[t] = "FINISH"
               /\ Len(calls') > 1 => calls'[2] = Frame("notifyFinish", calls[1].task)
    <3>1. i \in DOMAIN calls /\ i # n /\ calls'[i] = calls[i]
      BY <1>7, <2>1, <2>2, <2>3
    <3>2. /\ i = 1 /\ \A t \in Group(calls[1].task) : state[t] = "FINISH"
          /\ Len(calls) > 1 => calls[2] = Frame("notifyFinish", calls[1].task)
      BY <2>3, <3>1 DEF IInv, Stack
    <3>3. n > 1
      BY <1>5, <3>1, <3>2
    <3>4. calls[2] = Frame("notifyFinish", calls[1].task) /\ calls[2].op = "notifyFinish"
      BY <3>2, <3>3 DEF n, Frame
    <3>5. n # 2
      BY <1>1, <1>5, <3>4
    <3>6. calls'[2] = calls[2]
      BY <1>5, <1>7, <3>3, <3>5
    <3> QED
      BY <3>1, <3>2, <3>4, <3>6
  <2>4. \A i \in DOMAIN calls' : /\ calls'[i].task \in Masters /\ Live(calls'[i].task)
                                 /\ calls'[i].op = "timedEmit" => calls'[i].task \notin timed_emits
    BY <1>6, <1>7, <2>1, <2>2 DEF IInv, Stack
  <2>5. \A t : Live(t)' = Live(t)
    BY <1>1 DEF Live
  <2> QED
    BY <1>1, <1>7, <2>3, <2>4, <2>5 DEF Stack
<1>10. Timed'
  <2>1. ASSUME NEW t \in waiting', NEW i \in DOMAIN calls, calls[i] = Frame("timedEmit", t)
        PROVE  i \in DOMAIN calls' /\ calls'[i] = Frame("timedEmit", t)
    <3>1. i # n
      BY <1>1, <1>5, <2>1 DEF Frame, m
    <3> QED
      BY <1>5, <1>7, <2>1, <3>1
  <2> QED
    BY <1>1, <1>6, <2>1 DEF IInv, Timed, WaitingIsOnList
<1> QED
  BY <1>2, <1>3, <1>4, <1>8, <1>9, <1>10 DEF IInv

LEMMA HandleTimedEmitsInv == IInv /\ HandleTimedEmits => IInv'
<1> SUFFICES ASSUME IInv, HandleTimedEmits PROVE IInv'
  OBVIOUS
<1> DEFINE expired == {t \in timed_emits : TsEmit[t] <= now}
           later == {TsEmit[t] : t \in timed_emits \ expired}
           n == Cardinality(expired)
<1>1. /\ calls = << >> /\ timed_emits' = timed_emits \ expired /\ phase' = "pull"
      /\ pull_timeout' \in IF later = {} THEN {0}
                           ELSE {ts \in later : \A x \in later : ts <= x}
      /\ UNCHANGED <<state, refs, block_count, slaves, notifies, access, invalidate, flush,
                     write_task, read_tasks, invalidated, fifo, waiting,
                     now, queue, executing, dirty, stale, pool,
                     display_tasks, display_task, prev_task, workload, order>>
  BY DEF HandleTimedEmits, taskVars, allocVars, engineVars, displayVars, clientVars
<1>2. PICK s \in [1..n -> expired] :
         /\ \A i, j \in DOMAIN s : i < j => TsEmit[s[i]] > TsEmit[s[j]]
         /\ calls' = [i \in DOMAIN s |-> Frame("timedEmit", s[i])]
  BY DEF HandleTimedEmits
<1>3. TsEmit \in [Tasks -> Nat]
  BY FlagAssumption
<1>4. expired \subseteq timed_emits /\ timed_emits \subseteq Display /\ Display \subseteq Tasks
      /\ Display \subseteq Masters
  BY GroupFacts DEF IInv, Timed
<1>5. IsFiniteSet(expired) /\ n \in Nat
  BY <1>4, FiniteAssumption, FS_Subset, FS_CardinalityType
<1> HIDE DEF expired, n
<1>6. \A i \in 1..n : s[i] \in expired /\ s[i] \in Tasks
  BY <1>2, <1>4
<1>7. /\ calls' \in [1..n -> Frames] /\ DOMAIN calls' = 1..n
      /\ \A i \in 1..n : calls'[i] = Frame("timedEmit", s[i])
  BY <1>2, <1>6 DEF Frame, Frames
<1>8. calls' \in Seq(Frames)
  BY <1>5, <1>7, SeqDef
<1>9. \A i \in 1..n : calls'[i].op = "timedEmit" /\ calls'[i].task = s[i]
  BY <1>7 DEF Frame
<1>10. Types'
  <2>1. pull_timeout' \in Nat
    <3>1. \A x \in later : x \in Nat
      BY <1>3, <1>4
    <3> HIDE DEF later
    <3> QED
      BY <1>1, <3>1
  <2> QED
    BY <1>1, <2>1 DEF IInv, Types
<1>11. Groups' /\ References' /\ Incoming'
  BY <1>1, NoMoves, GroupsStay, ReferencesStay, IncomingStays
<1>12. Queues' /\ Screen' /\ Used'
  BY <1>1, QueuesStay, ScreenStays, UsedStay
<1>13. Waits'
  <2>1. DOMAIN calls = {}
    BY <1>1
  <2>2. \A t \in Tasks : Blocking(t)' = Blocking(t)
    BY <1>1 DEF Blocking
  <2>3. ASSUME NEW x \in notifies', Len(calls') = 1, calls'[1] = Frame("shutdown", x.from)
        PROVE  FALSE
    <3>1. DOMAIN calls' = 1..Len(calls')
      BY <1>8, LenProperties
    <3>2. 1 \in DOMAIN calls'
      BY <2>3, <3>1
    <3>3. 1 \in 1..n
      BY <1>7, <3>2
    <3> QED
      BY <1>9, <2>3, <3>3 DEF Frame
  <2> QED
    BY <1>1, <2>1, <2>2, <2>3 DEF IInv, Waits
<1>14. Stack'
  <2>1. \A t : Live(t)' = Live(t)
    BY <1>1 DEF Live
  <2>2. \A t \in expired : Live(t) /\ t \in Masters /\ t \notin timed_emits'
    BY <1>1, <1>4 DEF IInv, Timed, Live
  <2> QED
    BY <1>6, <1>7, <1>8, <1>9, <2>1, <2>2 DEF Stack
<1>15. Timed'
  <2>1. ASSUME NEW t \in expired PROVE \E i \in DOMAIN calls' : calls'[i] = Frame("timedEmit", t)
    <3>1. \A i, j \in 1..n : s[i] = s[j] => i = j
      <4> SUFFICES ASSUME NEW i \in 1..n, NEW j \in 1..n, s[i] = s[j], i # j PROVE FALSE
        OBVIOUS
      <4>1. TsEmit[s[i]] \in Nat /\ TsEmit[s[j]] = TsEmit[s[i]]
        BY <1>3, <1>6
      <4>2. i < j \/ j < i
        BY <1>5
      <4> QED
        BY <1>2, <4>1, <4>2
    <3>2. s \in Injection(1..n, expired)
      BY <1>2, <3>1 DEF Injection, IsInjective
    <3>3. Cardinality(1..n) = n
      BY <1>5, FS_Interval
    <3>4. s \in Surjection(1..n, expired)
      BY <1>5, <3>2, <3>3, FS_Injection DEF n
    <3>5. PICK i \in 1..n : s[i] = t
      BY <3>4 DEF Surjection
    <3> QED
      BY <1>7, <3>5
  <2>2. WaitingIsOnList'
    BY <1>1, <2>1 DEF IInv, Timed, WaitingIsOnList
  <2> QED
    BY <1>1, <2>2 DEF IInv, Timed
<1> QED
  BY <1>10, <1>11, <1>12, <1>13, <1>14, <1>15 DEF IInv

LEMMA NotifyInv == IInv /\ Notify => IInv'
<1> SUFFICES ASSUME IInv, Notify PROVE IInv'
  OBVIOUS
<1> DEFINE n == Len(calls)
<1>1. calls # << >>
  BY DEF Notify
<1>2. PICK x \in Pending :
         /\ notifies' = notifies \ {x}
         /\ IF state[x.to] = "READY"
              THEN /\ block_count' = [block_count EXCEPT ![x.to] = @ - 1]
                   /\ calls' = IF block_count[x.to] = 1
                                 THEN Append(calls, Frame("checkEmit", x.to)) ELSE calls
              ELSE UNCHANGED <<block_count, calls>>
  BY DEF Notify
<1>3. UNCHANGED <<state, refs, slaves, access, invalidate, flush, write_task, read_tasks,
                  invalidated, fifo, phase, waiting, timed_emits, pull_timeout, now, queue,
                  executing, dirty, stale, pool, display_tasks, display_task, prev_task,
                  workload, order>>
  BY DEF Notify, allocVars, timeVars, engineVars, displayVars, clientVars
<1>4. /\ x \in notifies /\ x \in Notifies /\ x.to \in Tasks /\ state[x.to] = "READY"
      /\ Top.op \in {"notifyRunning", "notifyFinish"}
  BY <1>2 DEF Pending, IInv, Waits, Notifies
<1>5. /\ block_count' = [block_count EXCEPT ![x.to] = @ - 1]
      /\ calls' = IF block_count[x.to] = 1 THEN Append(calls, Frame("checkEmit", x.to)) ELSE calls
  BY <1>2, <1>4
<1>6. /\ calls \in Seq(Frames) /\ n \in Nat /\ n > 0 /\ DOMAIN calls = 1..n /\ Top = calls[n]
  BY <1>1, BelowFacts DEF IInv, Stack
<1>7. /\ x.to \in Masters /\ Live(x.to)
      /\ Frame("checkEmit", x.to) \in Frames
  BY <1>4 DEF IInv, Groups, Live, Frame, Frames
<1>8. /\ calls' \in Seq(Frames) /\ DOMAIN calls' = 1..Len(calls') /\ Len(calls') \in Nat
      /\ Len(calls') >= n
      /\ \A i \in 1..n : calls'[i] = calls[i]
      /\ \A i \in DOMAIN calls' : i \in 1..n \/ calls'[i] = Frame("checkEmit", x.to)
  <2>1. CASE block_count[x.to] = 1
    <3> DEFINE c == Append(calls, Frame("checkEmit", x.to))
    <3>1. calls' = c
      BY <1>5, <2>1
    <3>2. /\ c \in Seq(Frames) /\ Len(c) = n + 1 /\ DOMAIN c = 1..n + 1
          /\ \A i \in 1..n : c[i] = calls[i]
          /\ c[n + 1] = Frame("checkEmit", x.to)
      BY <1>6, <1>7, Appended
    <3> HIDE DEF c, n
    <3>3. /\ n + 1 \in Nat /\ n + 1 >= n /\ \A i \in 1..n + 1 : i \in 1..n \/ i = n + 1
      BY <1>6
    <3>4. Len(c) \in Nat /\ Len(c) >= n /\ DOMAIN c = 1..Len(c)
      BY <3>2, <3>3
    <3> QED
      BY <3>1, <3>2, <3>3, <3>4
  <2>2. CASE block_count[x.to] # 1
    <3>1. calls' = calls
      BY <1>5, <2>2
    <3> QED
      BY <1>6, <3>1
  <2> QED
    BY <2>1, <2>2
<1> HIDE DEF n
<1>9. Types'
  BY <1>3 DEF IInv, Types
<1>10. Groups' /\ References' /\ Incoming'
  BY <1>3, NoMoves, GroupsStay, ReferencesStay, IncomingStays
<1>11. Queues' /\ Screen' /\ Used'
  BY <1>3, QueuesStay, ScreenStays, UsedStay
<1>12. Waits'
  <2>1. ASSUME NEW y \in notifies', y.on = "RUNNING", state[y.from] # "READY"
        PROVE  \E i \in DOMAIN calls' : calls'[i] = Frame("notifyRunning", y.from)
    <3>1. y \in notifies
      BY <1>2
    <3>2. PICK i \in DOMAIN calls : calls[i] = Frame("notifyRunning", y.from)
      BY <2>1, <3>1 DEF IInv, Waits
    <3>3. i \in DOMAIN calls' /\ calls'[i] = calls[i]
      BY <1>6, <1>8, <3>2
    <3> QED
      BY <3>2, <3>3
  <2>2. ASSUME NEW y \in notifies', Len(calls') = 1, calls'[1] = Frame("shutdown", y.from)
        PROVE  y.on = "RUNNING"
    <3>1. y \in notifies
      BY <1>2
    <3>2. Len(calls') >= n
      BY <1>8
    <3>3. n = 1
      BY <1>6, <2>2, <3>2
    <3>4. calls[1] = Frame("shutdown", y.from)
      BY <1>6, <1>8, <2>2, <3>3
    <3> QED
      BY <3>1, <3>3, <3>4 DEF IInv, Waits, n
  <2>3. \A y \in notifies' : y \in notifies
    BY <1>2
  <2>4. ASSUME NEW t \in Tasks
        PROVE  /\ IsFiniteSet(Blocking(t)') /\ block_count'[t] \in Nat
               /\ block_count'[t] = Cardinality(Blocking(t)')
    <3>1. IsFiniteSet(Blocking(t)) /\ block_count[t] = Cardinality(Blocking(t))
      BY DEF IInv, Waits
    <3>2. CASE t = x.to
      <4>1. Blocking(t)' = Blocking(t) \ {x} /\ x \in Blocking(t)
        BY <1>2, <1>4, <3>2 DEF Blocking
      <4>2. IsFiniteSet(Blocking(t)') /\ Cardinality(Blocking(t)') = Cardinality(Blocking(t)) - 1
        BY <3>1, <4>1, FS_RemoveElement
      <4>3. Cardinality(Blocking(t)') \in Nat
        BY <4>2, FS_CardinalityType
      <4>4. block_count'[t] = block_count[t] - 1
        BY <1>5, <3>2 DEF IInv, Waits
      <4> QED
        BY <3>1, <4>2, <4>3, <4>4
    <3>3. CASE t # x.to
      <4>1. Blocking(t)' = Blocking(t)
        BY <1>2, <3>3 DEF Blocking
      <4>2. block_count'[t] = block_count[t] /\ block_count[t] \in Nat
        BY <1>5, <3>3 DEF IInv, Waits
      <4> QED
        BY <3>1, <4>1, <4>2
    <3> QED
      BY <3>2, <3>3
  <2>5. block_count' \in [Tasks -> Nat]
    BY <1>5, <2>4 DEF IInv, Waits
  <2> QED
    BY <1>3, <2>1, <2>2, <2>3, <2>4, <2>5 DEF IInv, Waits
<1>13. Stack'
  <2>1. Frame("checkEmit", x.to).op = "checkEmit" /\ Frame("checkEmit", x.to).task = x.to
    BY DEF Frame
  <2>2. ASSUME NEW i \in DOMAIN calls', calls'[i].op = "shutdown"
        PROVE  /\ i = 1 /\ calls'[1] = calls[1]
               /\ \A t \in Group(calls[1].task) : state[t] = "FINISH"
               /\ calls'[2] = Frame("notifyFinish", calls[1].task)
    <3>1. i \in 1..n /\ calls'[i] = calls[i]
      BY <1>8, <2>1, <2>2
    <3>2. /\ i = 1 /\ \A t \in Group(calls[1].task) : state[t] = "FINISH"
          /\ Len(calls) > 1 => calls[2] = Frame("notifyFinish", calls[1].task)
      BY <1>6, <2>2, <3>1 DEF IInv, Stack
    <3>3. n # 1
      BY <1>4, <1>6, <2>2, <3>1, <3>2
    <3>4. calls'[2] = calls[2] /\ n > 1
      BY <1>6, <1>8, <3>3
    <3> QED
      BY <3>1, <3>2, <3>4 DEF n
  <2>3. \A i \in DOMAIN calls' : /\ calls'[i].task \in Masters /\ Live(calls'[i].task)
                                 /\ calls'[i].op = "timedEmit" => calls'[i].task \notin timed_emits
    BY <1>6, <1>7, <1>8, <2>1 DEF IInv, Stack
  <2>4. \A t : Live(t)' = Live(t)
    BY <1>3 DEF Live
  <2> QED
    BY <1>3, <1>8, <2>2, <2>3, <2>4 DEF Stack
<1>14. Timed'
  <2>1. \A i \in DOMAIN calls : i \in DOMAIN calls' /\ calls'[i] = calls[i]
    BY <1>6, <1>8
  <2> QED
    BY <1>3, <2>1 DEF IInv, Timed, WaitingIsOnList
<1> QED
  BY <1>9, <1>10, <1>11, <1>12, <1>13, <1>14 DEF IInv

-----------------------------------------------------------------------------
(* handleTask() *)

LEMMA Pulled ==
    ASSUME IInv, Pull
    PROVE  /\ Head(fifo) \in Tasks /\ Head(fifo) = fifo[1] /\ 1 \in DOMAIN fifo
           /\ calls = << >> /\ fifo' \in Seq(Tasks)
           /\ \A i \in DOMAIN fifo' :
                 /\ fifo'[i] \in Tasks /\ fifo'[i] # Head(fifo)
                 /\ state[fifo'[i]] \in {"FLUSHED", "DONE", "DEAD"}
           /\ \A i, j \in DOMAIN fifo' : fifo'[i] = fifo'[j] => i = j
<1>1. /\ Len(fifo) \in Nat /\ Len(fifo) > 0 /\ DOMAIN fifo = 1..Len(fifo)
      /\ Head(fifo) = fifo[1] /\ fifo[1] \in Tasks
      /\ fifo' \in Seq(Tasks) /\ DOMAIN fifo' = 1..Len(fifo) - 1
      /\ \A i \in 1..Len(fifo) - 1 : fifo'[i] = fifo[i + 1]
  BY HeadAndTail DEF IInv, Incoming, Pull
<1> DEFINE n == Len(fifo)
<1>2. \A i \in 1..n : fifo[i] \in Tasks
  BY ElementOfSeq DEF IInv, Incoming
<1> HIDE DEF n
<1>3. \A i \in 1..n - 1 : i + 1 \in 1..n /\ i + 1 # 1 /\ 1 \in 1..n
  BY <1>1 DEF n
<1>4. \A i \in DOMAIN fifo' : i + 1 \in DOMAIN fifo /\ fifo'[i] = fifo[i + 1] /\ i + 1 # 1
  BY <1>1, <1>3 DEF n
<1>5. \A i, j \in DOMAIN fifo' : i + 1 = j + 1 => i = j
  BY <1>1
<1>6. 1 \in DOMAIN fifo
  BY <1>1
<1>7. \A i \in DOMAIN fifo' : fifo'[i] \in Tasks
  BY <1>1, <1>2, <1>4 DEF n
<1>8. calls = << >>
  BY DEF Pull
<1> QED
  BY <1>1, <1>4, <1>5, <1>6, <1>7, <1>8 DEF IInv, Incoming

LEMMA DeleteInv == IInv /\ Delete => IInv'
<1> SUFFICES ASSUME IInv, Delete PROVE IInv'
  OBVIOUS
<1> DEFINE t == Head(fifo)
<1>1. /\ Pull /\ state[t] = "DEAD" /\ state' = [state EXCEPT ![t] = "INVALID"]
      /\ phase' = "timed"
      /\ UNCHANGED <<refs, block_count, slaves, notifies, access, invalidate, flush,
                     write_task, read_tasks, invalidated, calls, waiting,
                     timed_emits, pull_timeout, now, queue, executing, dirty, stale, pool,
                     display_tasks, display_task, prev_task, workload, order>>
  BY DEF Delete, allocVars, timeVars, engineVars, displayVars, clientVars
<1>2. /\ t \in Tasks /\ calls = << >> /\ fifo' \in Seq(Tasks)
      /\ \A i \in DOMAIN fifo' :
            fifo'[i] \in Tasks /\ fifo'[i] # t /\ state[fifo'[i]] \in {"FLUSHED", "DONE", "DEAD"}
      /\ \A i, j \in DOMAIN fifo' : fifo'[i] = fifo'[j] => i = j
  BY <1>1, Pulled
<1> HIDE DEF t
<1>3. /\ \A u \in Tasks : u # t => state'[u] = state[u]
      /\ state'[t] = "INVALID" /\ state' \in [Tasks -> TaskStates]
  BY <1>1, <1>2 DEF IInv, Types, TaskStates
<1>4. Types'
  BY <1>1, <1>3 DEF IInv, Types
<1>5. Groups'
  <2>1. Moves
    BY <1>1, <1>3 DEF Moves
  <2> QED
    BY <1>1, <2>1, GroupsStay
<1>6. References'
  <2>1. Display \subseteq Tasks
    BY GroupFacts
  <2> QED
    BY <1>1, <1>3, <2>1, ReferencesStay
<1>7. Waits' /\ Timed' /\ Queues' /\ Screen' /\ Used'
  <2>1. \A u \in Tasks : state[u] # "DEAD" => state'[u] = state[u]
    BY <1>1, <1>3
  <2>2. \A u \in Tasks : state[u] \in {"READY"} \cup Emitted => state'[u] \in {"READY"} \cup Emitted
    BY <2>1 DEF Emitted
  <2>3. Waits'
    BY <1>1, <2>1, WaitsStay DEF Emitted
  <2>4. Timed' /\ Queues'
    BY <1>1, <2>1, TimedStays, QueuesStay
  <2> QED
    BY <1>1, <2>1, <2>2, <2>3, <2>4, ScreenStays, UsedStay
<1>8. Incoming'
  BY <1>2, <1>3 DEF Incoming
<1>9. Stack'
  <2>1. DOMAIN calls' = {}
    BY <1>1, <1>2
  <2> QED
    BY <1>1, <2>1 DEF IInv, Stack
<1> QED
  BY <1>4, <1>5, <1>6, <1>7, <1>8, <1>9 DEF IInv

LEMMA FinishInv == IInv /\ Finish => IInv'
<1> SUFFICES ASSUME IInv, Finish PROVE IInv'
  OBVIOUS
<1>0. PICK t \in Tasks, m \in Masters : t = Head(fifo) /\ m = Root(t)
  BY Pulled, GroupFacts DEF Finish
<1> DEFINE last == LastOfGroup(t)
<1>1. /\ Pull /\ state[t] = "DONE" /\ state' = [state EXCEPT ![t] = "FINISH"]
      /\ slaves' = [slaves EXCEPT ![m] = SlavesLeft(t)]
      /\ calls' = IF last THEN <<Frame("shutdown", m), Frame("notifyFinish", m)>> ELSE << >>
      /\ phase' = "timed"
      /\ UNCHANGED <<refs, block_count, notifies, access, invalidate, flush,
                     write_task, read_tasks, invalidated, waiting,
                     timed_emits, pull_timeout, now, queue, executing, dirty, stale, pool,
                     display_tasks, display_task, prev_task, workload, order>>
  BY <1>0 DEF Finish, allocVars, timeVars, engineVars, displayVars, clientVars
<1>2. /\ t \in Tasks /\ calls = << >> /\ fifo' \in Seq(Tasks)
      /\ \A i \in DOMAIN fifo' :
            fifo'[i] \in Tasks /\ fifo'[i] # t /\ state[fifo'[i]] \in {"FLUSHED", "DONE", "DEAD"}
      /\ \A i, j \in DOMAIN fifo' : fifo'[i] = fifo'[j] => i = j
  BY <1>0, <1>1, Pulled
<1>3. m \in Masters /\ m \in Tasks /\ (t \in Masters => t = m) /\ (t \notin Masters => m = Master[t])
  BY <1>0, <1>2, GroupFacts
<1>4. state[m] \in Emitted
  BY <1>1, <1>2, <1>3 DEF IInv, Groups, Emitted
<1>5. SlavesLeft(t) = IF t = m THEN slaves[m] ELSE slaves[m] - 1
  BY <1>0 DEF SlavesLeft
<1>6. /\ \A u \in Tasks : u # t => state'[u] = state[u]
      /\ state'[t] = "FINISH" /\ state' \in [Tasks -> TaskStates]
  BY <1>1, <1>2 DEF IInv, Types, TaskStates
<1>7. /\ SlavesLeft(t) \in Nat /\ SlavesLeft(t) = Cardinality(Unfinished(m)')
      /\ IsFiniteSet(Unfinished(m)')
  <2>1. IsFiniteSet(Unfinished(m)) /\ slaves[m] = Cardinality(Unfinished(m))
    <3>1. Unfinished(m) \in SUBSET SlavesOf(m) /\ IsFiniteSet(SlavesOf(m))
      BY <1>3, FiniteGroups DEF Unfinished
    <3>2. slaves[m] = Cardinality(Unfinished(m))
      BY <1>3, <1>4 DEF IInv, Groups
    <3> QED
      BY <3>1, <3>2, FS_Subset
  <2>2. \A s \in SlavesOf(m) : s \in Tasks
    BY <1>3, GroupFacts
  <2>3. CASE t = m
    <3>1. t \notin SlavesOf(m)
      BY <1>3, <2>3, GroupFacts
    <3>2. Unfinished(m)' = Unfinished(m)
      BY <1>6, <2>2, <3>1 DEF Unfinished
    <3> QED
      BY <1>5, <2>1, <2>3, <3>2, FS_CardinalityType
  <2>4. CASE t # m
    <3>1. t \in SlavesOf(m)
      BY <1>0, <1>2, <1>3, <2>4, GroupFacts
    <3>2. Unfinished(m)' = Unfinished(m) \ {t} /\ t \in Unfinished(m)
      BY <1>1, <1>6, <2>2, <3>1 DEF Unfinished
    <3>3. /\ IsFiniteSet(Unfinished(m)')
          /\ Cardinality(Unfinished(m)') = Cardinality(Unfinished(m)) - 1
      BY <2>1, <3>2, FS_RemoveElement
    <3>4. Cardinality(Unfinished(m)') \in Nat
      BY <3>3, FS_CardinalityType
    <3> QED
      BY <1>5, <2>1, <2>4, <3>3, <3>4
  <2> QED
    BY <2>3, <2>4
<1> HIDE DEF last
<1>8. Types'
  BY <1>1, <1>3, <1>6, <1>7 DEF IInv, Types
<1>9. Groups'
  <2>1. \A u \in Tasks :
           /\ (state'[u] = "NONE" <=> state[u] = "NONE")
           /\ (state'[u] = "NEW" <=> state[u] = "NEW")
           /\ (state'[u] \in Emitted <=> state[u] \in Emitted)
           /\ (state'[u] \in {"FLUSHED", "READY"} <=> state[u] \in {"FLUSHED", "READY"})
    BY <1>1, <1>6 DEF Emitted
  <2>2. ASSUME NEW x \in Masters, x # m
        PROVE  Unfinished(x)' = Unfinished(x) /\ slaves'[x] = slaves[x]
    <3>1. x \in Tasks /\ \A s \in SlavesOf(x) : s \in Tasks /\ s # t
      BY <1>0, <1>2, <2>2, GroupFacts
    <3>2. slaves'[x] = slaves[x]
      BY <1>1, <2>2, <3>1 DEF IInv, Types
    <3> QED
      BY <1>6, <3>1, <3>2 DEF Unfinished
  <2>3. slaves'[m] = Cardinality(Unfinished(m)')
    BY <1>1, <1>3, <1>7 DEF IInv, Types
  <2>4. \A x \in Masters : x \in Tasks
    BY GroupFacts
  <2>5. \A s \in Tasks \ Masters : Master[s] \in Tasks
    BY GroupFacts
  <2>6. ASSUME NEW x \in Masters
        PROVE  /\ state'[x] # "NEW"
               /\ state'[x] \in {"FLUSHED", "READY"} \cup Emitted =>
                     /\ slaves'[x] = Cardinality(Unfinished(x)')
                     /\ access'[x] \in AccessSets
                     /\ x \in Display <=> access'[x].dst = NULL
    <3>1. state[x] # "NEW" /\ x \in Tasks
      BY <2>4 DEF IInv, Groups
    <3>2. state'[x] \in {"FLUSHED", "READY"} \cup Emitted =>
             /\ slaves[x] = Cardinality(Unfinished(x))
             /\ access[x] \in AccessSets
             /\ x \in Display <=> access[x].dst = NULL
      BY <2>1, <3>1 DEF IInv, Groups
    <3> QED
      BY <1>1, <2>1, <2>2, <2>3, <3>1, <3>2
  <2> QED
    BY <2>1, <2>5, <2>6 DEF IInv, Groups
<1>10. References'
  <2>1. Display \subseteq Tasks
    BY GroupFacts
  <2>2. \A u \in Tasks : state'[u] \in {"NONE", "DEAD", "INVALID"}
                            <=> state[u] \in {"NONE", "DEAD", "INVALID"}
    BY <1>1, <1>6
  <2>3. \A u \in Display : state'[u] \in {"FLUSHED", "READY"} => state[u] \in {"FLUSHED", "READY"}
    BY <1>6, <2>1
  <2>4. \A u \in display_tasks : u # t /\ u \in Tasks
    BY <1>1, <2>1 DEF IInv, References
  <2> QED
    BY <1>1, <1>6, <2>2, <2>3, <2>4 DEF IInv, References
<1>11. Incoming'
  BY <1>2, <1>6 DEF Incoming
<1>12. Len(calls') # 1 /\ calls' \in Seq(Frames)
  <2>1. Frame("shutdown", m) \in Frames /\ Frame("notifyFinish", m) \in Frames
    BY <1>3 DEF Frame, Frames
  <2>2. CASE last
    <3> DEFINE e == Frame("shutdown", m)
               f == Frame("notifyFinish", m)
    <3> HIDE DEF e, f
    <3>1. e \in Frames /\ f \in Frames
      BY <2>1 DEF e, f
    <3>2. <<e, f>> \in Seq(Frames) /\ Len(<<e, f>>) = 2
      BY <3>1
    <3>3. calls' = <<e, f>>
      BY <1>1, <2>2 DEF e, f
    <3> QED
      BY <3>2, <3>3
  <2>3. CASE ~ last
    <3>1. << >> \in Seq(Frames) /\ Len(<< >>) = 0
      OBVIOUS
    <3> QED
      BY <1>1, <2>3, <3>1
  <2> QED
    BY <2>2, <2>3
<1>13. Waits'
  <2>1. DOMAIN calls = {}
    BY <1>2
  <2>2. \A u \in Tasks : Blocking(u)' = Blocking(u)
    BY <1>1 DEF Blocking
  <2>3. ASSUME NEW x \in notifies
        PROVE  /\ state'[x.to] = "READY" /\ state[x.from] \in {"READY"} \cup Emitted
               /\ x.from \in Masters /\ state'[x.from] \in {"READY"} \cup Emitted
               /\ x.on = "RUNNING" => state'[x.from] = "READY"
    <3>1. /\ state[x.to] = "READY" /\ state[x.from] \in {"READY"} \cup Emitted
          /\ x.from \in Masters /\ x.from \in Tasks /\ x.to \in Tasks
          /\ x.on = "RUNNING" => state[x.from] = "READY"
      BY <2>1 DEF IInv, Waits, Notifies
    <3> QED
      BY <1>1, <1>6, <3>1 DEF Emitted
  <2> QED
    BY <1>1, <1>12, <2>2, <2>3 DEF IInv, Waits
<1>14. Stack'
  <2>1. CASE ~ last
    BY <1>1, <1>12, <2>1 DEF Stack
  <2>2. CASE last
    <3>1. \A u \in Group(m) : state'[u] = "FINISH"
      <4>1. SlavesLeft(t) = 0 /\ (t = m \/ state[m] = "FINISH")
        BY <1>0, <2>2 DEF last, LastOfGroup
      <4>2. Unfinished(m)' = {}
        BY <1>7, <4>1, FS_EmptySet
      <4>3. \A u \in SlavesOf(m) : state'[u] = "FINISH"
        BY <4>2 DEF Unfinished
      <4>4. state'[m] = "FINISH"
        BY <1>3, <1>6, <4>1
      <4> QED
        BY <4>3, <4>4 DEF Group
    <3>2. /\ calls' = <<Frame("shutdown", m), Frame("notifyFinish", m)>>
          /\ DOMAIN calls' = {1, 2} /\ calls'[1] = Frame("shutdown", m)
          /\ calls'[2] = Frame("notifyFinish", m)
      BY <1>1, <2>2
    <3>3. \A o : Frame(o, m).op = o /\ Frame(o, m).task = m
      BY DEF Frame
    <3>4. state'[m] = "FINISH"
      BY <3>1 DEF Group
    <3>5. \A i \in DOMAIN calls' :
             /\ calls'[i].task \in Masters /\ state'[calls'[i].task] = "FINISH"
             /\ calls'[i].op # "timedEmit"
             /\ calls'[i].op = "shutdown" => i = 1
      <4> SUFFICES ASSUME NEW i \in {1, 2}
                   PROVE  /\ calls'[i].task \in Masters /\ state'[calls'[i].task] = "FINISH"
                          /\ calls'[i].op # "timedEmit"
                          /\ calls'[i].op = "shutdown" => i = 1
        BY <3>2
      <4>1. CASE i = 1
        BY <1>3, <3>2, <3>3, <3>4, <4>1
      <4>2. CASE i = 2
        BY <1>3, <3>2, <3>3, <3>4, <4>2
      <4> QED
        BY <4>1, <4>2
    <3> QED
      BY <1>12, <3>1, <3>2, <3>3, <3>5 DEF Stack, Live
  <2> QED
    BY <2>1, <2>2
<1>15. Timed'
  <2>1. DOMAIN calls = {} /\ Display \subseteq Tasks
    BY <1>2, GroupFacts
  <2>2. \A u \in waiting : state'[u] = "READY"
    BY <1>1, <1>6, <2>1 DEF IInv, Timed
  <2> QED
    BY <1>1, <2>1, <2>2 DEF IInv, Timed, WaitingIsOnList
<1>16. Queues' /\ Screen' /\ Used'
  <2>1. \A u \in Tasks : state[u] # "DONE" => state'[u] = state[u]
    BY <1>1, <1>6
  <2>2. \A u \in Tasks : state[u] \in {"READY"} \cup Emitted => state'[u] \in {"READY"} \cup Emitted
    BY <1>6 DEF Emitted
  <2> QED
    BY <1>1, <2>1, <2>2, QueuesStay, ScreenStays, UsedStay
<1> QED
  BY <1>8, <1>9, <1>10, <1>11, <1>13, <1>14, <1>15, <1>16 DEF IInv

(* What a task that Setup() is called for can depend on *)
LEMMA DependencyFacts ==
    ASSUME IInv, NEW t \in Masters, access[t] \in AccessSets
    PROVE  /\ IsFiniteSet(Dependencies(t))
           /\ \A x \in Dependencies(t) :
                 /\ x \in [from : Tasks, follow : BOOLEAN, via : Allocs \cup {NULL}]
                 /\ x.from \in Masters /\ state[x.from] \in {"READY"} \cup Emitted
<1>1. /\ Root(t) = t /\ t \in Tasks /\ Accessed(t) \subseteq Allocs /\ Dst(t) \in Allocs \cup {NULL}
      /\ Masters \subseteq Tasks /\ Display \subseteq Masters
  BY GroupFacts DEF Accessed, Dst, AccessSets
<1>2. ASSUME NEW x \in Dependencies(t)
      PROVE  /\ x \in [from : Tasks, follow : BOOLEAN, via : Allocs \cup {NULL}]
             /\ x.from \in Masters /\ state[x.from] \in {"READY"} \cup Emitted
  <2>1. \/ \E u \in IF Dst(t) = NULL THEN {} ELSE read_tasks[Dst(t)] :
              x = Dependency(u, t, "FOLLOW_READER", Dst(t))
        \/ \E a \in Accessed(t) : \E u \in Writer(a) : x = Dependency(u, t, "FOLLOW_WRITER", a)
        \/ \E u \in IF t \in Display THEN {display_task} \ {NULL} ELSE {} :
              x = [from |-> u, follow |-> TRUE, via |-> NULL]
    <3> DEFINE A == {Dependency(u, t, "FOLLOW_READER", Dst(t)) :
                        u \in IF Dst(t) = NULL THEN {} ELSE read_tasks[Dst(t)]}
               W(a) == {Dependency(u, t, "FOLLOW_WRITER", a) : u \in Writer(a)}
               B == UNION {W(a) : a \in {b \in Accessed(t) : b = Dst(t) => read_tasks[b] = {}}}
               C == {[from |-> u, follow |-> TRUE, via |-> NULL] :
                        u \in IF t \in Display THEN {display_task} \ {NULL} ELSE {}}
    <3>1. x \in A \/ x \in B \/ x \in C
      BY <1>2 DEF Dependencies
    <3>2. x \in B => \E a \in Accessed(t) : x \in W(a)
      OBVIOUS
    <3> HIDE DEF B
    <3> QED
      BY <3>1, <3>2
  <2>2. CASE \E u \in IF Dst(t) = NULL THEN {} ELSE read_tasks[Dst(t)] :
                x = Dependency(u, t, "FOLLOW_READER", Dst(t))
    <3>1. PICK u \in read_tasks[Dst(t)] : Dst(t) \in Allocs /\
              x = Dependency(u, t, "FOLLOW_READER", Dst(t))
      BY <1>1, <2>2
    <3>2. u \in Masters /\ state[u] \in {"READY"} \cup Emitted
      BY <3>1 DEF IInv, Used
    <3> DEFINE f == SameQueue(u, t) \/ "FOLLOW_READER" \in InitFlags[t]
    <3>3. f \in BOOLEAN
      OBVIOUS
    <3>4. x = [from |-> u, follow |-> f, via |-> Dst(t)]
      BY <3>1 DEF Dependency
    <3> HIDE DEF f
    <3> QED
      BY <1>1, <3>1, <3>2, <3>3, <3>4
  <2>3. CASE \E a \in Accessed(t) : \E u \in Writer(a) : x = Dependency(u, t, "FOLLOW_WRITER", a)
    <3>0. PICK a \in Accessed(t) : \E u \in Writer(a) : x = Dependency(u, t, "FOLLOW_WRITER", a)
      BY <2>3
    <3>1. PICK u \in Writer(a) : x = Dependency(u, t, "FOLLOW_WRITER", a)
      BY <3>0
    <3>2. u \in Masters /\ state[u] \in {"READY"} \cup Emitted /\ a \in Allocs
      BY <1>1, <3>1 DEF IInv, Used, Writer
    <3> DEFINE f == SameQueue(u, t) \/ "FOLLOW_WRITER" \in InitFlags[t]
    <3>3. f \in BOOLEAN
      OBVIOUS
    <3>4. x = [from |-> u, follow |-> f, via |-> a]
      BY <3>1 DEF Dependency
    <3> HIDE DEF f
    <3> QED
      BY <1>1, <3>2, <3>3, <3>4
  <2>4. CASE \E u \in IF t \in Display THEN {display_task} \ {NULL} ELSE {} :
                x = [from |-> u, follow |-> TRUE, via |-> NULL]
    <3>1. display_task # NULL /\ x = [from |-> display_task, follow |-> TRUE, via |-> NULL]
      BY <2>4
    <3>2. display_task \in Masters /\ state[display_task] \in {"READY"} \cup Emitted
      BY <1>1, <3>1 DEF IInv, Screen
    <3> QED
      BY <1>1, <3>1, <3>2
  <2> QED
    BY <2>1, <2>2, <2>3, <2>4
<1>3. IsFiniteSet(Dependencies(t))
  <2> DEFINE P == Tasks \X (BOOLEAN \X (Allocs \cup {NULL}))
             R == [from : Tasks, follow : BOOLEAN, via : Allocs \cup {NULL}]
             F == [r \in R |-> <<r.from, <<r.follow, r.via>>>>]
  <2>1. IsFiniteSet(BOOLEAN)
    <3>1. BOOLEAN = ({} \cup {TRUE}) \cup {FALSE}
      OBVIOUS
    <3> QED
      BY <3>1, FS_EmptySet, FS_AddElement
  <2>2. IsFiniteSet(P)
    BY <2>1, FiniteAssumption, FS_AddElement, FS_Product
  <2>3. F \in [R -> P]
    OBVIOUS
  <2>4. \A r, s \in R : F[r] = F[s] => r = s
    <3> SUFFICES ASSUME NEW r \in R, NEW s \in R, F[r] = F[s] PROVE r = s
      OBVIOUS
    <3>1. r.from = s.from /\ r.follow = s.follow /\ r.via = s.via
      OBVIOUS
    <3> QED
      BY <3>1
  <2>5. F \in Injection(R, P)
    BY <2>3, <2>4 DEF Injection, IsInjective
  <2> HIDE DEF F, P
  <2>6. IsFiniteSet(R)
    BY <2>2, <2>5, FS_Injection
  <2>7. Dependencies(t) \in SUBSET R
    BY <1>2
  <2> HIDE DEF R
  <2> QED
    BY <2>6, <2>7, FS_Subset
<1> QED
  BY <1>2, <1>3

LEMMA SetupTaskInv == IInv /\ SetupTask => IInv'
<1> SUFFICES ASSUME IInv, SetupTask PROVE IInv'
  OBVIOUS
<1>0. PICK t \in Tasks : t = Head(fifo)
  BY Pulled DEF SetupTask
<1> DEFINE d == Dst(t)
           blocking == {x \in Dependencies(t) : AddsNotify(x)}
           Note(x) == [from |-> x.from, to |-> t, via |-> x.via,
                       on |-> IF x.follow THEN "RUNNING" ELSE "FINISH"]
           added == {Note(x) : x \in blocking}
<1>1. /\ Pull /\ state[t] = "FLUSHED" /\ state' = [state EXCEPT ![t] = "READY"]
      /\ notifies' = notifies \cup added
      /\ block_count' = [block_count EXCEPT ![t] = @ + Cardinality(blocking)]
      /\ phase' = "timed"
      /\ UNCHANGED <<refs, slaves, access, now, queue, executing, dirty, stale, pool,
                     display_tasks, prev_task, workload, order>>
  BY <1>0 DEF SetupTask, engineVars, clientVars
<1>2. /\ write_task' = [a \in Allocs |-> IF a = d THEN t ELSE write_task[a]]
      /\ read_tasks' = [a \in Allocs |->
           (IF a = d THEN {} ELSE read_tasks[a])
               \cup (IF a \in access[t].srcs THEN {t} ELSE {})]
      /\ invalidate' = invalidate \cup
           {<<t, a>> : a \in {b \in Accessed(t) : Acc(t) \notin invalidated[b]}}
      /\ invalidated' = [a \in Allocs |->
           IF a \notin Accessed(t) THEN invalidated[a]
           ELSE (IF a = d THEN {} ELSE invalidated[a]) \cup {Acc(t)}]
      /\ flush' = (flush \ Superseded(t)) \cup (IF d = NULL THEN {} ELSE {t})
      /\ display_task' = IF t \in Display THEN t ELSE display_task
  BY <1>0 DEF SetupTask
<1>3. IF TsEmit[t] > now
        THEN Park(t) /\ calls' = calls
        ELSE /\ calls' = <<Frame("checkEmit", t)>>
             /\ UNCHANGED <<waiting, timed_emits, pull_timeout>>
  BY <1>0 DEF SetupTask
<1>4. /\ calls = << >> /\ DOMAIN calls = {} /\ fifo' \in Seq(Tasks)
      /\ \A i \in DOMAIN fifo' :
            fifo'[i] \in Tasks /\ fifo'[i] # t /\ state[fifo'[i]] \in {"FLUSHED", "DONE", "DEAD"}
      /\ \A i, j \in DOMAIN fifo' : fifo'[i] = fifo'[j] => i = j
  BY <1>0, <1>1, Pulled
<1>5. t \in Masters
  BY <1>1 DEF IInv, Groups
<1>6. access[t] \in AccessSets
  BY <1>1, <1>5 DEF IInv, Groups
<1>7. /\ IsFiniteSet(blocking)
      /\ \A x \in blocking :
            /\ x \in [from : Tasks, follow : BOOLEAN, via : Allocs \cup {NULL}]
            /\ x.from \in Masters /\ state[x.from] \in {"READY"} \cup Emitted
            /\ AddsNotify(x)
  <2>1. blocking \in SUBSET Dependencies(t)
    OBVIOUS
  <2> QED
    BY <1>5, <1>6, <2>1, DependencyFacts, FS_Subset
<1>8. /\ d \in Allocs \cup {NULL} /\ Accessed(t) \subseteq Allocs /\ Acc(t) \in Accessors
      /\ TsEmit \in [Tasks -> Nat] /\ (TsEmit[t] # 0 => t \in Display)
      /\ Display \subseteq Masters /\ Masters \subseteq Tasks
  BY <1>5, <1>6, GroupFacts, FlagAssumption DEF Accessed, Dst, Acc, AccessSets
<1> HIDE DEF d, blocking, Note, added
<1>9. /\ \A u \in Tasks : u # t => state'[u] = state[u]
      /\ state'[t] = "READY" /\ state' \in [Tasks -> TaskStates]
  BY <1>1 DEF IInv, Types, TaskStates
<1>10. Types'
  <2>1. flush' \in SUBSET Tasks /\ invalidate' \in SUBSET (Tasks \X Allocs)
    <3>1. \A a \in Accessed(t) : <<t, a>> \in Tasks \X Allocs
      BY <1>8
    <3> QED
      BY <1>2, <3>1 DEF IInv, Types
  <2>2. invalidated' \in [Allocs -> SUBSET Accessors]
    BY <1>2, <1>8 DEF IInv, Types
  <2>3. pull_timeout' \in Nat
    BY <1>3, <1>8 DEF IInv, Types, Park
  <2> QED
    BY <1>1, <1>9, <2>1, <2>2, <2>3 DEF IInv, Types
<1>11. Groups'
  <2>1. Moves
    BY <1>1, <1>9 DEF Moves
  <2> QED
    BY <1>1, <2>1, GroupsStay
<1>12. References'
  <2>1. \A u \in Display : u \in Tasks
    BY <1>8
  <2> QED
    BY <1>1, <1>9, <2>1, ReferencesStay
<1>13. Incoming'
  BY <1>4, <1>9 DEF Incoming
<1>14. /\ calls' \in Seq(Frames) /\ DOMAIN calls' \subseteq {1}
       /\ \A i \in DOMAIN calls' : calls'[i] = Frame("checkEmit", t)
  <2>1. CASE TsEmit[t] > now
    <3>1. calls' = calls
      BY <1>3, <2>1
    <3> QED
      BY <1>4, <3>1 DEF IInv, Stack
  <2>2. CASE ~ (TsEmit[t] > now)
    <3> DEFINE e == Frame("checkEmit", t)
    <3>1. e \in Frames
      BY DEF Frame, Frames
    <3>2. calls' = <<e>>
      BY <1>3, <2>2
    <3> HIDE DEF e
    <3>3. <<e>> \in Seq(Frames) /\ DOMAIN <<e>> = {1} /\ <<e>>[1] = e
      BY <3>1
    <3> QED
      BY <3>2, <3>3 DEF e
  <2> QED
    BY <2>1, <2>2
<1>15. Stack'
  <2>1. Frame("checkEmit", t).op = "checkEmit" /\ Frame("checkEmit", t).task = t
    BY DEF Frame
  <2> QED
    BY <1>5, <1>9, <1>14, <2>1 DEF Stack, Live
<1>16. Timed'
  <2>1. CASE TsEmit[t] > now
    <3>1. /\ waiting' = waiting \cup {t} /\ calls' = calls
          /\ timed_emits' = IF \E u \in timed_emits : TsEmit[u] = TsEmit[t]
                              THEN timed_emits ELSE timed_emits \cup {t}
      BY <1>3, <2>1 DEF Park
    <3>2. TsEmit[t] # 0 /\ t \in Display
      BY <1>8, <2>1 DEF IInv, Types
    <3>3. \A u \in waiting : u \in Display /\ u \in Tasks /\ state'[u] = "READY" /\ TsEmit[u] # 0
      BY <1>8, <1>9 DEF IInv, Timed
    <3>4. waiting' \in SUBSET Display /\ timed_emits' \subseteq waiting'
      BY <3>1, <3>2, <3>3 DEF IInv, Timed
    <3>5. ASSUME \A x, y \in Display : TsEmit[x] = TsEmit[y] /\ TsEmit[x] # 0 => x = y
          PROVE  \A u \in waiting' : u \in timed_emits'
      <4>1. \A u \in waiting : u \in timed_emits
        BY <1>4, <3>5 DEF IInv, Timed, WaitingIsOnList
      <4>2. t \in timed_emits'
        BY <3>1, <3>2, <3>3, <3>5 DEF IInv, Timed
      <4> QED
        BY <3>1, <4>1, <4>2
    <3> QED
      BY <1>9, <3>1, <3>2, <3>3, <3>4, <3>5 DEF Timed, WaitingIsOnList
  <2>2. CASE ~ (TsEmit[t] > now)
    <3>1. waiting' = waiting /\ timed_emits' = timed_emits
      BY <1>3, <2>2
    <3>2. \A u \in waiting : state'[u] = "READY"
      BY <1>8, <1>9 DEF IInv, Timed
    <3> QED
      BY <1>4, <3>1, <3>2 DEF IInv, Timed, WaitingIsOnList
  <2> QED
    BY <2>1, <2>2
<1>17. Queues'
  <2>1. \A u \in Tasks : state[u] = "RUNNING" => state'[u] = "RUNNING"
    BY <1>1, <1>9
  <2> QED
    BY <1>1, <2>1, QueuesStay
<1>18. \A u \in Tasks : state[u] \in {"READY"} \cup Emitted =>
          state'[u] = state[u] /\ state'[u] \in {"READY"} \cup Emitted
  BY <1>1, <1>9 DEF Emitted
<1>19. Screen'
  <2>1. /\ pool \subseteq Display /\ \A u \in pool : state'[u] = "RUNNING"
    BY <1>8, <1>18 DEF IInv, Screen, References, Emitted
  <2>2. prev_task # NULL => state'[prev_task] = "RUNNING"
    BY <1>8, <1>18 DEF IInv, Screen, Emitted
  <2>3. /\ display_task' \in Display \cup {NULL}
        /\ display_task' # NULL => state'[display_task'] \in {"READY"} \cup Emitted
    BY <1>2, <1>8, <1>9, <1>18 DEF IInv, Screen
  <2> QED
    BY <1>1, <2>1, <2>2, <2>3 DEF IInv, Screen
<1>20. Used'
  <2>1. write_task' \in [Allocs -> Masters \cup {NULL}] /\ read_tasks' \in [Allocs -> SUBSET Masters]
    BY <1>2, <1>5 DEF IInv, Used
  <2>2. ASSUME NEW a \in Allocs
        PROVE  /\ write_task'[a] # NULL => state'[write_task'[a]] \in {"READY"} \cup Emitted
               /\ \A u \in read_tasks'[a] : state'[u] \in {"READY"} \cup Emitted
    <3>1. /\ write_task'[a] = t \/ write_task'[a] = write_task[a]
          /\ \A u \in read_tasks'[a] : u = t \/ u \in read_tasks[a]
      BY <1>2
    <3>2. /\ write_task[a] # NULL => state'[write_task[a]] \in {"READY"} \cup Emitted
          /\ \A u \in read_tasks[a] : state'[u] \in {"READY"} \cup Emitted
      BY <1>8, <1>18 DEF IInv, Used
    <3> QED
      BY <1>9, <3>1, <3>2
  <2> QED
    BY <2>1, <2>2 DEF Used
<1>21. Waits'
  <2>1. \A x \in blocking :
           /\ Note(x) \in Notifies /\ Note(x).to = t /\ Note(x).from = x.from
           /\ Note(x).via = x.via
           /\ (Note(x).on = "RUNNING" <=> x.follow)
    <3> SUFFICES ASSUME NEW x \in blocking
                 PROVE  /\ Note(x) \in Notifies /\ Note(x).to = t /\ Note(x).from = x.from
                        /\ Note(x).via = x.via
                        /\ (Note(x).on = "RUNNING" <=> x.follow)
      OBVIOUS
    <3>1. x.from \in Tasks /\ x.follow \in BOOLEAN /\ x.via \in Allocs \cup {NULL}
      BY <1>7
    <3> QED
      BY <3>1 DEF Note, Notifies
  <2>2. \A y \in added : \E x \in blocking : y = Note(x)
    BY DEF added
  <2>3. ASSUME NEW y \in notifies'
        PROVE  /\ y \in Notifies /\ state'[y.to] = "READY"
               /\ y.from \in Masters /\ state'[y.from] \in {"READY"} \cup Emitted
               /\ y.on = "RUNNING" => state'[y.from] = "READY"
    <3>1. CASE y \in notifies
      <4>1. /\ y \in Notifies /\ y.to \in Tasks /\ y.from \in Tasks /\ state[y.to] = "READY"
            /\ y.from \in Masters /\ state[y.from] \in {"READY"} \cup Emitted
            /\ y.on = "RUNNING" => state[y.from] = "READY"
        BY <1>4, <3>1 DEF IInv, Waits, Notifies
      <4> QED
        BY <1>18, <4>1
    <3>2. CASE y \in added
      <4>1. PICK x \in blocking : y = Note(x)
        BY <2>2, <3>2
      <4>2. /\ y \in Notifies /\ y.to = t /\ y.from = x.from /\ (y.on = "RUNNING" <=> x.follow)
            /\ x.from \in Masters /\ x.from \in Tasks /\ state[x.from] \in {"READY"} \cup Emitted
            /\ AddsNotify(x)
        BY <1>7, <1>8, <2>1, <4>1
      <4>3. x.follow => state[x.from] = "READY"
        BY <4>2 DEF AddsNotify, Emitted
      <4> QED
        BY <1>9, <1>18, <4>2, <4>3
    <3> QED
      BY <1>1, <3>1, <3>2
  <2>4. ASSUME NEW u \in Tasks
        PROVE  /\ IsFiniteSet(Blocking(u)') /\ block_count'[u] \in Nat
               /\ block_count'[u] = Cardinality(Blocking(u)')
    <3>1. /\ IsFiniteSet(Blocking(u)) /\ block_count[u] = Cardinality(Blocking(u))
          /\ block_count[u] \in Nat
      BY DEF IInv, Waits
    <3>2. CASE u # t
      <4>1. Blocking(u)' = Blocking(u)
        BY <1>1, <2>1, <2>2, <3>2 DEF Blocking
      <4>2. block_count'[u] = block_count[u]
        BY <1>1, <3>2 DEF IInv, Waits
      <4> QED
        BY <3>1, <4>1, <4>2
    <3>3. CASE u = t
      <4>1. Blocking(u) = {}
        BY <1>1, <3>3 DEF IInv, Waits, Blocking
      <4>2. block_count[u] = 0
        BY <3>1, <4>1, FS_EmptySet
      <4>3. Blocking(u)' = added
        BY <1>1, <2>1, <2>2, <3>3, <4>1 DEF Blocking
      <4>4. IsFiniteSet(added) /\ Cardinality(added) = Cardinality(blocking)
        <5> DEFINE F == [x \in blocking |-> Note(x)]
        <5>1. F \in [blocking -> added] /\ \A y \in added : \E x \in blocking : F[x] = y
          BY DEF added
        <5>2. \A x, y \in blocking : F[x] = F[y] => x = y
          <6> SUFFICES ASSUME NEW x \in blocking, NEW y \in blocking, Note(x) = Note(y)
                       PROVE  x = y
            OBVIOUS
          <6>1. x.from = y.from /\ x.via = y.via /\ (x.follow <=> y.follow)
            BY <2>1
          <6>2. x.follow \in BOOLEAN /\ y.follow \in BOOLEAN
            BY <1>7
          <6>3. x.follow = y.follow
            BY <6>1, <6>2
          <6> QED
            BY <1>7, <6>1, <6>3
        <5>3. F \in Bijection(blocking, added)
          BY <5>1, <5>2 DEF Bijection, Injection, IsInjective, Surjection
        <5> HIDE DEF F
        <5>4. ExistsBijection(blocking, added)
          BY <5>3 DEF ExistsBijection
        <5> QED
          BY <1>7, <5>4, FS_Bijection
      <4>5. block_count'[u] = Cardinality(blocking) /\ Cardinality(blocking) \in Nat
        BY <1>1, <1>7, <3>3, <4>2, FS_CardinalityType DEF IInv, Waits
      <4> QED
        BY <4>3, <4>4, <4>5
    <3> QED
      BY <3>2, <3>3
  <2>5. block_count' \in [Tasks -> Nat]
    BY <1>1, <2>4 DEF IInv, Waits
  <2>6. ASSUME Len(calls') = 1, NEW y \in notifies', calls'[1] = Frame("shutdown", y.from)
        PROVE  FALSE
    <3>1. 1 \in DOMAIN calls'
      BY <1>14, <2>6, LenProperties
    <3> QED
      BY <1>14, <2>6, <3>1 DEF Frame
  <2> QED
    BY <2>3, <2>4, <2>5, <2>6 DEF Waits
<1> QED
  BY <1>10, <1>11, <1>12, <1>13, <1>15, <1>16, <1>17, <1>19, <1>20, <1>21 DEF IInv

-----------------------------------------------------------------------------
(* emit() and the shutdown of a group *)

LEMMA EmitInv == IInv /\ Emit => IInv'
<1> SUFFICES ASSUME IInv, Emit PROVE IInv'
  OBVIOUS
<1> DEFINE n == Len(calls)
<1>1. /\ calls # << >> /\ calls \in Seq(Frames) /\ n \in Nat /\ n > 0 /\ DOMAIN calls = 1..n
      /\ Top = calls[n] /\ Below \in Seq(Frames) /\ Len(Below) = n - 1
      /\ \A i \in 1..n - 1 : Below[i] = calls[i]
  BY BelowFacts DEF Emit, IInv, Stack
<1>2. PICK m \in Masters : m = Top.task
  BY <1>1 DEF IInv, Stack
<1>3. /\ Top.op = "checkEmit" /\ state[m] = "READY" /\ block_count[m] = 0 /\ m \notin waiting
      /\ state' = [t \in Tasks |-> IF t \in Group(m) THEN "RUNNING" ELSE state[t]]
      /\ UNCHANGED <<refs, block_count, slaves, notifies, access, invalidate, flush,
                     write_task, read_tasks, invalidated, fifo, phase, waiting,
                     timed_emits, pull_timeout, now, executing, dirty, stale,
                     display_tasks, display_task, prev_task, workload, order>>
  BY <1>2 DEF Emit, MayEmit, allocVars, timeVars, clientVars
<1>4. IF m \in Display
        THEN pool' = pool \cup {m} /\ queue' = queue
        ELSE /\ pool' = pool
             /\ queue' = [k \in Keys |->
                  IF \E t \in Group(m) : Key(t) = k
                    THEN Append(queue[k], CHOOSE t \in Group(m) : Key(t) = k)
                    ELSE queue[k]]
  BY <1>2 DEF Emit
<1>5. calls' = Below
        \o (IF "EMITNOTIFIES" \in InitFlags[m] THEN <<Frame("notifyFinish", m)>> ELSE << >>)
        \o <<Frame("notifyRunning", m)>>
  BY <1>2 DEF Emit
<1>6. /\ \A u \in Tasks : u \in Group(m) <=> Root(u) = m
      /\ \A u \in Masters : u \in Tasks /\ (u \in Group(m) <=> u = m)
      /\ \A u \in Tasks \ Masters : Master[u] \in Masters /\ (u \in Group(m) <=> Master[u] = m)
      /\ Group(m) \subseteq Tasks /\ Display \subseteq Masters
      /\ \A u \in Group(m) : u \in Masters => u = m
  BY GroupFacts
<1>7. /\ \A u \in Group(m) : state[u] \in {"READY", "NEW"} /\ state'[u] = "RUNNING"
      /\ \A u \in Tasks : u \notin Group(m) => state'[u] = state[u]
      /\ state' \in [Tasks -> TaskStates]
  BY <1>3, <1>6 DEF IInv, Types, Groups, TaskStates
<1>8. \A u \in Tasks : state[u] \notin {"READY", "NEW"} => state'[u] = state[u]
  BY <1>7
<1>9. /\ calls' \in Seq(Frames) /\ DOMAIN calls' = 1..Len(calls')
      /\ Len(calls') \in Nat /\ Len(calls') >= n
      /\ \A i \in 1..n - 1 : calls'[i] = calls[i]
      /\ \A i \in DOMAIN calls' : \/ i \in 1..n - 1
                                  \/ calls'[i] = Frame("notifyRunning", m)
                                  \/ calls'[i] = Frame("notifyFinish", m)
      /\ \E i \in DOMAIN calls' : calls'[i] = Frame("notifyRunning", m)
  <2> DEFINE e == Frame("notifyRunning", m)
             f == Frame("notifyFinish", m)
  <2>1. e \in Frames /\ f \in Frames
    BY <1>6 DEF Frame, Frames
  <2>2. calls' = Below \o (IF "EMITNOTIFIES" \in InitFlags[m] THEN <<f>> ELSE << >>) \o <<e>>
    BY <1>5
  <2> HIDE DEF e, f, n
  <2>3. CASE "EMITNOTIFIES" \notin InitFlags[m]
    <3>1. calls' = Append(Below, e)
      <4>1. Below \o << >> = Below
        BY <1>1, ConcatEmptySeq
      <4>2. Below \o <<e>> = Append(Below, e)
        BY <1>1, <2>1, AppendIsConcat
      <4>3. calls' = Below \o << >> \o <<e>>
        BY <2>2, <2>3
      <4> QED
        BY <4>1, <4>2, <4>3
    <3>2. /\ calls' \in Seq(Frames) /\ Len(calls') = n
          /\ DOMAIN calls' = 1..n
          /\ \A i \in 1..n - 1 : calls'[i] = calls[i]
          /\ calls'[n] = e
      BY <1>1, <2>1, <3>1, Replaced DEF n
    <3>3. \A i \in 1..n : i \in 1..n - 1 \/ i = n
      BY <1>1
    <3>4. n \in 1..n /\ n >= n
      BY <1>1
    <3> QED
      BY <1>1, <3>2, <3>3, <3>4 DEF e
  <2>4. CASE "EMITNOTIFIES" \in InitFlags[m]
    <3> DEFINE b == Append(Below, f)
    <3>1. /\ b \in Seq(Frames) /\ Len(b) = n /\ DOMAIN b = 1..n
          /\ \A i \in 1..n - 1 : b[i] = calls[i]
          /\ b[n] = f
      BY <1>1, <2>1, Replaced DEF n
    <3>2. calls' = Append(b, e)
      <4>1. Below \o <<f>> = b
        BY <1>1, <2>1, AppendIsConcat
      <4>2. b \o <<e>> = Append(b, e)
        BY <2>1, <3>1, AppendIsConcat
      <4>3. calls' = Below \o <<f>> \o <<e>>
        BY <2>2, <2>4
      <4> QED
        BY <4>1, <4>2, <4>3
    <3> HIDE DEF b
    <3>3. /\ calls' \in Seq(Frames) /\ Len(calls') = n + 1
          /\ DOMAIN calls' = 1..n + 1
          /\ \A i \in 1..n : calls'[i] = b[i]
          /\ calls'[n + 1] = e
      BY <2>1, <3>1, <3>2, Appended
    <3>4. /\ \A i \in 1..n - 1 : i \in 1..n
          /\ \A i \in 1..n + 1 : i \in 1..n - 1 \/ i = n \/ i = n + 1
          /\ n \in 1..n /\ n + 1 \in 1..n + 1 /\ n + 1 >= n /\ n + 1 \in Nat
      BY <1>1
    <3>5. \A i \in 1..n - 1 : calls'[i] = calls[i]
      BY <3>1, <3>3, <3>4
    <3>6. calls'[n] = f
      BY <3>1, <3>3, <3>4
    <3> QED
      BY <3>3, <3>4, <3>5, <3>6 DEF e, f
  <2> QED
    BY <2>3, <2>4
<1>10. \A o : Frame(o, m).op = o /\ Frame(o, m).task = m
  BY DEF Frame
<1> HIDE DEF n
<1>11. Types'
  BY <1>3, <1>7 DEF IInv, Types
<1>12. Groups'
  <2>1. \A x \in Masters : Unfinished(x)' = Unfinished(x)
    <3>1. \A x \in Masters : \A s \in SlavesOf(x) : s \in Tasks
      BY GroupFacts
    <3>2. \A s \in Tasks : state'[s] = "FINISH" <=> state[s] = "FINISH"
      BY <1>7
    <3> QED
      BY <3>1, <3>2 DEF Unfinished
  <2>2. ASSUME NEW x \in Masters
        PROVE  /\ state'[x] # "NEW"
               /\ state'[x] \in {"FLUSHED", "READY"} \cup Emitted =>
                     state[x] \in {"FLUSHED", "READY"} \cup Emitted
    BY <1>3, <1>6, <1>7 DEF IInv, Groups
  <2>3. ASSUME NEW s \in Tasks \ Masters
        PROVE  /\ state'[s] \notin {"FLUSHED", "READY"}
               /\ state'[s] = "NONE" <=> state'[Master[s]] = "NONE"
               /\ state'[s] = "NEW" <=> state'[Master[s]] \in {"FLUSHED", "READY"}
               /\ state'[s] \in Emitted <=> state'[Master[s]] \in Emitted
    <3>1. CASE s \in Group(m)
      BY <1>2, <1>6, <1>7, <3>1, GroupFacts DEF Emitted
    <3>2. CASE s \notin Group(m)
      <4>1. Master[s] \in Tasks /\ Master[s] \notin Group(m)
        BY <1>6, <3>2
      <4> QED
        BY <1>7, <3>2, <4>1 DEF IInv, Groups
    <3> QED
      BY <3>1, <3>2
  <2> QED
    BY <1>3, <2>1, <2>2, <2>3 DEF IInv, Groups
<1>13. References'
  <2>1. \A u \in Tasks : state'[u] \in {"NONE", "DEAD", "INVALID"}
                            <=> state[u] \in {"NONE", "DEAD", "INVALID"}
    BY <1>7
  <2>2. \A u \in Display : state'[u] \in {"FLUSHED", "READY"} => state[u] \in {"FLUSHED", "READY"}
    BY <1>6, <1>7
  <2>3. \A u \in display_tasks : state'[u] \in {"FLUSHED", "READY", "RUNNING"}
    BY <1>6, <1>7 DEF IInv, References
  <2> QED
    BY <1>3, <2>1, <2>2, <2>3 DEF IInv, References
<1>14. Incoming'
  BY <1>3, <1>8, IncomingStays
<1>15. Waits'
  <2>1. \A u \in Tasks : Blocking(u)' = Blocking(u)
    BY <1>3 DEF Blocking
  <2>2. Blocking(m) = {}
    BY <1>3, <1>6, FS_EmptySet DEF IInv, Waits
  <2>3. ASSUME NEW x \in notifies
        PROVE  /\ state'[x.to] = "READY" /\ x.from \in Masters
               /\ state'[x.from] \in {"READY"} \cup Emitted
               /\ x.on = "RUNNING" =>
                     \/ state'[x.from] = "READY"
                     \/ \E i \in DOMAIN calls' : calls'[i] = Frame("notifyRunning", x.from)
    <3>1. /\ x.to \in Tasks /\ state[x.to] = "READY" /\ x.from \in Masters /\ x.from \in Tasks
          /\ state[x.from] \in {"READY"} \cup Emitted
          /\ x.on = "RUNNING" =>
                \/ state[x.from] = "READY"
                \/ \E i \in DOMAIN calls : calls[i] = Frame("notifyRunning", x.from)
      BY DEF IInv, Waits, Notifies
    <3>2. x.to \in Masters /\ x.to # m
      BY <2>2, <3>1 DEF IInv, Groups, Blocking
    <3>3. state'[x.to] = "READY"
      BY <1>6, <1>7, <3>1, <3>2
    <3>4. CASE x.from = m
      BY <1>6, <1>7, <1>9, <3>1, <3>3, <3>4 DEF Emitted
    <3>5. CASE x.from # m
      <4>1. state'[x.from] = state[x.from]
        BY <1>6, <1>7, <3>1, <3>5
      <4>2. ASSUME NEW i \in DOMAIN calls, calls[i] = Frame("notifyRunning", x.from)
            PROVE  i \in DOMAIN calls' /\ calls'[i] = Frame("notifyRunning", x.from)
        <5>1. i # n
          BY <1>1, <1>3, <4>2 DEF Frame
        <5>2. i \in 1..n - 1
          BY <1>1, <5>1
        <5> QED
          BY <1>1, <1>9, <4>2, <5>2
      <4> QED
        BY <3>1, <3>3, <4>1, <4>2
    <3> QED
      BY <3>4, <3>5
  <2>4. ASSUME Len(calls') = 1, NEW x \in notifies, calls'[1] = Frame("shutdown", x.from)
        PROVE  FALSE
    <3>1. Len(calls') >= n
      BY <1>9
    <3>2. n = 1
      BY <1>1, <2>4, <3>1
    <3>3. 1 \in DOMAIN calls' /\ 1 \notin 1..n - 1
      BY <1>9, <2>4, <3>2
    <3> QED
      BY <1>9, <2>4, <3>3 DEF Frame
  <2> QED
    BY <1>3, <2>1, <2>3, <2>4 DEF IInv, Waits
<1>16. Stack'
  <2>1. ASSUME NEW i \in DOMAIN calls', calls'[i].op = "shutdown"
        PROVE  /\ i = 1 /\ calls'[1] = calls[1]
               /\ \A t \in Group(calls[1].task) : state'[t] = "FINISH"
               /\ calls'[2] = Frame("notifyFinish", calls[1].task)
    <3>1. i \in 1..n - 1 /\ calls'[i] = calls[i]
      BY <1>9, <1>10, <2>1
    <3>2. i \in DOMAIN calls /\ n > 1
      BY <1>1, <3>1
    <3>3. /\ i = 1 /\ \A t \in Group(calls[1].task) : state[t] = "FINISH"
          /\ Len(calls) > 1 => calls[2] = Frame("notifyFinish", calls[1].task)
          /\ calls[1].task \in Masters
      BY <2>1, <3>1, <3>2 DEF IInv, Stack
    <3>4. calls[2] = Frame("notifyFinish", calls[1].task) /\ calls[2].op = "notifyFinish"
      BY <3>2, <3>3 DEF n, Frame
    <3>5. n # 2
      BY <1>1, <1>3, <3>4
    <3>6. calls'[2] = calls[2]
      BY <1>1, <1>9, <3>2, <3>5
    <3>7. Group(calls[1].task) \subseteq Tasks
      BY <3>3, GroupFacts
    <3> QED
      BY <1>8, <3>1, <3>3, <3>4, <3>6, <3>7
  <2>2. ASSUME NEW i \in DOMAIN calls'
        PROVE  /\ calls'[i].task \in Masters
               /\ state'[calls'[i].task] \notin {"NONE", "INVALID"}
               /\ calls'[i].op = "timedEmit" => calls'[i].task \notin timed_emits
    <3>1. CASE i \in 1..n - 1
      <4>1. i \in DOMAIN calls /\ calls'[i] = calls[i]
        BY <1>1, <1>9, <3>1
      <4>2. /\ calls[i].task \in Masters /\ calls[i].task \in Tasks
            /\ state[calls[i].task] \notin {"NONE", "INVALID"}
            /\ calls[i].op = "timedEmit" => calls[i].task \notin timed_emits
        BY <1>6, <4>1 DEF IInv, Stack, Live
      <4> QED
        BY <1>7, <4>1, <4>2
    <3>2. CASE i \notin 1..n - 1
      <4>1. calls'[i].task = m /\ calls'[i].op # "timedEmit"
        BY <1>9, <1>10, <3>2
      <4>2. state'[m] = "RUNNING"
        BY <1>6, <1>7
      <4> QED
        BY <4>1, <4>2
    <3> QED
      BY <3>1, <3>2
  <2> QED
    BY <1>3, <1>9, <2>1, <2>2 DEF Stack, Live
<1>17. Timed'
  <2>1. \A u \in waiting : state'[u] = "READY"
    <3> SUFFICES ASSUME NEW u \in waiting PROVE state'[u] = "READY"
      OBVIOUS
    <3>1. u \in Display /\ state[u] = "READY" /\ u # m
      BY <1>3 DEF IInv, Timed
    <3> QED
      BY <1>6, <1>7, <3>1
  <2>2. ASSUME NEW t, NEW i \in DOMAIN calls, calls[i] = Frame("timedEmit", t)
        PROVE  i \in DOMAIN calls' /\ calls'[i] = Frame("timedEmit", t)
    <3>1. i # n
      BY <1>1, <1>3, <2>2 DEF Frame
    <3>2. i \in 1..n - 1
      BY <1>1, <3>1
    <3> QED
      BY <1>1, <1>9, <2>2, <3>2
  <2> QED
    BY <1>3, <2>1, <2>2 DEF IInv, Timed, WaitingIsOnList
<1>18. Queues'
  <2>1. \A u : Key(u)' = Key(u)
    BY <1>3 DEF Key, Acc, Dst
  <2>2. CASE m \in Display
    BY <1>3, <1>4, <1>8, <2>2, QueuesStay
  <2>3. CASE m \notin Display
    <3>1. queue' = [k \in Keys |->
                  IF \E t \in Group(m) : Key(t) = k
                    THEN Append(queue[k], CHOOSE t \in Group(m) : Key(t) = k)
                    ELSE queue[k]]
      BY <1>4, <2>3
    <3>2. ASSUME NEW k \in Keys
          PROVE  /\ queue'[k] \in Seq(Tasks)
                 /\ \A i \in DOMAIN queue'[k] :
                       /\ state'[queue'[k][i]] = "RUNNING"
                       /\ Root(queue'[k][i]) \notin Display
                       /\ Key(queue'[k][i]) = k
                 /\ \A i, j \in DOMAIN queue'[k] : queue'[k][i] = queue'[k][j] => i = j
                 /\ \A i \in DOMAIN queue[k] : i \in DOMAIN queue'[k] /\ queue'[k][i] = queue[k][i]
      <4>1. /\ queue[k] \in Seq(Tasks)
            /\ \A i \in DOMAIN queue[k] : /\ state[queue[k][i]] = "RUNNING"
                                          /\ Root(queue[k][i]) \notin Display
                                          /\ Key(queue[k][i]) = k
            /\ \A i, j \in DOMAIN queue[k] : queue[k][i] = queue[k][j] => i = j
        BY DEF IInv, Queues
      <4>2. \A i \in DOMAIN queue[k] : queue[k][i] \in Tasks /\ state'[queue[k][i]] = "RUNNING"
        BY <1>8, <4>1, LenProperties, ElementOfSeq
      <4>3. CASE \E t \in Group(m) : Key(t) = k
        <5>1. PICK e \in Group(m) : Key(e) = k /\ queue'[k] = Append(queue[k], e)
          BY <3>1, <4>3
        <5>2. e \in Tasks /\ Root(e) = m /\ state[e] # "RUNNING" /\ state'[e] = "RUNNING"
          BY <1>6, <1>7
        <5> DEFINE q == queue[k]
                   l == Len(q)
                   r == queue'[k]
        <5>3. /\ r \in Seq(Tasks) /\ l \in Nat /\ DOMAIN q = 1..l /\ DOMAIN r = 1..l + 1
              /\ \A i \in 1..l : r[i] = q[i]
              /\ r[l + 1] = e
          BY <4>1, <5>1, <5>2, Appended
        <5>4. \A i \in DOMAIN q : q[i] # e
          BY <4>1, <5>2
        <5> HIDE DEF l
        <5>5. \A i \in 1..l + 1 : i \in 1..l \/ i = l + 1
          BY <5>3
        <5>6. \A i \in 1..l : i \in 1..l + 1
          BY <5>3
        <5>7. /\ \A i \in DOMAIN q : state'[q[i]] = "RUNNING" /\ Root(q[i]) \notin Display /\ Key(q[i]) = k
              /\ \A i, j \in DOMAIN q : q[i] = q[j] => i = j
          BY <4>1, <4>2
        <5> HIDE DEF q, r
        <5>8. \A i \in DOMAIN r : state'[r[i]] = "RUNNING" /\ Root(r[i]) \notin Display /\ Key(r[i]) = k
          BY <2>3, <5>1, <5>2, <5>3, <5>5, <5>7
        <5>9. \A i, j \in DOMAIN r : r[i] = r[j] => i = j
          BY <5>3, <5>4, <5>5, <5>7
        <5>10. \A i \in DOMAIN q : i \in DOMAIN r /\ r[i] = q[i]
          BY <5>3, <5>6
        <5> QED
          BY <5>3, <5>8, <5>9, <5>10 DEF q, r
      <4>4. CASE ~ \E t \in Group(m) : Key(t) = k
        <5>1. queue'[k] = queue[k]
          BY <3>1, <4>4
        <5> QED
          BY <4>1, <4>2, <5>1
      <4> QED
        BY <4>3, <4>4
    <3>3. queue' \in [Keys -> Seq(Tasks)]
      BY <3>1, <3>2
    <3>4. \A t \in executing' :
             Key(t) \in Keys /\ 1 \in DOMAIN queue'[Key(t)] /\ queue'[Key(t)][1] = t
      BY <1>3, <3>2 DEF IInv, Queues
    <3>5. executing' \in SUBSET Tasks
      BY <1>3 DEF IInv, Queues
    <3> QED
      BY <2>1, <3>2, <3>3, <3>4, <3>5 DEF Queues
  <2> QED
    BY <2>2, <2>3
<1>19. \A u \in Tasks : state[u] \in {"READY"} \cup Emitted => state'[u] \in {"READY"} \cup Emitted
  BY <1>7 DEF Emitted
<1>20. Screen'
  <2>1. \A u \in Display : u \in Tasks
    BY <1>6
  <2>2. \A u \in pool : u \in Display /\ state'[u] = "RUNNING"
    BY <1>8, <2>1 DEF IInv, Screen, References
  <2>3. prev_task # NULL => state'[prev_task] = "RUNNING"
    BY <1>8, <2>1 DEF IInv, Screen
  <2>4. display_task # NULL => state'[display_task] \in {"READY"} \cup Emitted
    BY <1>19, <2>1 DEF IInv, Screen
  <2>5. m \in Display => m \in display_tasks /\ state'[m] = "RUNNING"
    BY <1>3, <1>6, <1>7 DEF IInv, References
  <2>6. pool' \subseteq display_tasks /\ \A u \in pool' : state'[u] = "RUNNING"
    BY <1>4, <2>2, <2>5 DEF IInv, Screen
  <2> QED
    BY <1>3, <2>3, <2>4, <2>6 DEF IInv, Screen
<1>21. Used'
  BY <1>3, <1>19, UsedStay
<1> QED
  BY <1>11, <1>12, <1>13, <1>14, <1>15, <1>16, <1>17, <1>18, <1>20, <1>21 DEF IInv

LEMMA ShutdownInv == IInv /\ Shutdown => IInv'
<1> SUFFICES ASSUME IInv, Shutdown PROVE IInv'
  OBVIOUS
<1>1. /\ calls # << >> /\ calls \in Seq(Frames) /\ Len(calls) \in Nat /\ Len(calls) > 0
      /\ DOMAIN calls = 1..Len(calls)
      /\ Top = calls[Len(calls)] /\ Below \in Seq(Frames) /\ Len(Below) = Len(calls) - 1
      /\ DOMAIN Below = 1..Len(calls) - 1
  BY BelowFacts DEF Shutdown, IInv, Stack
<1>2. PICK m \in Masters : m = Top.task
  BY <1>1 DEF IInv, Stack
<1>3. /\ Top.op = "shutdown" /\ calls' = Below
      /\ refs' = [t \in Tasks |-> IF t \in Group(m) THEN refs[t] - 1 ELSE refs[t]]
      /\ state' = [t \in Tasks |-> IF t \in Group(m) /\ refs[t] = 1 THEN "INVALID"
                                   ELSE state[t]]
      /\ write_task' = [a \in Allocs |-> IF write_task[a] = m THEN NULL ELSE write_task[a]]
      /\ read_tasks' = [a \in Allocs |-> read_tasks[a] \ {m}]
      /\ invalidate' = {x \in invalidate : x[1] # m}
      /\ flush' = flush \ {m}
      /\ display_task' = IF display_task = m THEN NULL ELSE display_task
      /\ UNCHANGED <<block_count, slaves, notifies, access, invalidated, fifo, phase,
                     waiting, timed_emits, pull_timeout, now, queue, executing, dirty, stale,
                     pool, display_tasks, prev_task, workload, order>>
  BY <1>2 DEF Shutdown, Finalise, timeVars, engineVars, clientVars
<1>4. Len(calls) = 1 /\ calls[1] = Top /\ \A t \in Group(m) : state[t] = "FINISH"
  BY <1>1, <1>2, <1>3 DEF IInv, Stack
<1>5. calls[1] = Frame("shutdown", m)
  <2>1. Top \in Frames
    BY <1>1, BelowFacts
  <2>2. Top = [op |-> Top.op, task |-> Top.task]
    BY <2>1 DEF Frames
  <2> QED
    BY <1>2, <1>3, <1>4, <2>2 DEF Frame
<1>6. DOMAIN calls' = {} /\ DOMAIN calls = {1} /\ Len(calls') = 0 /\ calls' \in Seq(Frames)
  BY <1>1, <1>3, <1>4
<1>7. /\ \A u \in Tasks : u \in Group(m) <=> Root(u) = m
      /\ \A u \in Masters : u \in Tasks /\ (u \in Group(m) <=> u = m)
      /\ \A u \in Tasks \ Masters : Master[u] \in Masters /\ Master[u] \in Tasks
                                    /\ (u \in Group(m) <=> Master[u] = m)
      /\ Group(m) \subseteq Tasks /\ Display \subseteq Masters /\ m \in Group(m)
  BY GroupFacts
<1>8. /\ \A u \in Group(m) : state[u] = "FINISH" /\ refs[u] = 1 /\ state'[u] = "INVALID"
      /\ \A u \in Tasks : u \notin Group(m) => state'[u] = state[u]
      /\ state' \in [Tasks -> TaskStates]
  <2>1. \A u \in Group(m) : u \in Tasks /\ state[u] = "FINISH" /\ refs[u] = 1
    BY <1>4, <1>7 DEF IInv, References
  <2> QED
    BY <1>3, <2>1 DEF IInv, Types, TaskStates
<1>9. \A u \in Tasks : state[u] # "FINISH" => state'[u] = state[u]
  BY <1>8
<1>10. Types'
  BY <1>3, <1>8 DEF IInv, Types
<1>11. Groups'
  <2>1. ASSUME NEW x \in Masters, x # m PROVE Unfinished(x)' = Unfinished(x)
    <3>1. \A s \in SlavesOf(x) : s \in Tasks /\ s \notin Group(m)
      BY <1>7, <2>1, GroupFacts
    <3> QED
      BY <1>8, <3>1 DEF Unfinished
  <2>2. ASSUME NEW x \in Masters
        PROVE  /\ state'[x] # "NEW"
               /\ state'[x] \in {"FLUSHED", "READY"} \cup Emitted =>
                     x # m /\ state[x] \in {"FLUSHED", "READY"} \cup Emitted
    BY <1>7, <1>8 DEF IInv, Groups, Emitted
  <2>3. ASSUME NEW s \in Tasks \ Masters
        PROVE  /\ state'[s] \notin {"FLUSHED", "READY"}
               /\ state'[s] = "NONE" <=> state'[Master[s]] = "NONE"
               /\ state'[s] = "NEW" <=> state'[Master[s]] \in {"FLUSHED", "READY"}
               /\ state'[s] \in Emitted <=> state'[Master[s]] \in Emitted
    <3>1. CASE s \in Group(m)
      <4>1. state'[s] = "INVALID" /\ state'[Master[s]] = "INVALID"
        BY <1>7, <1>8, <3>1
      <4> QED
        BY <4>1 DEF Emitted
    <3>2. CASE s \notin Group(m)
      <4>1. Master[s] \in Tasks /\ Master[s] \notin Group(m)
        BY <1>7, <3>2
      <4> QED
        BY <1>8, <3>2, <4>1 DEF IInv, Groups
    <3> QED
      BY <3>1, <3>2
  <2>4. ASSUME NEW x \in Masters, state'[x] \in {"FLUSHED", "READY"} \cup Emitted
        PROVE  /\ slaves'[x] = Cardinality(Unfinished(x)')
               /\ access'[x] \in AccessSets
               /\ x \in Display <=> access'[x].dst = NULL
    <3>1. x # m /\ state[x] \in {"FLUSHED", "READY"} \cup Emitted
      BY <2>2, <2>4
    <3>2. /\ slaves[x] = Cardinality(Unfinished(x))
          /\ access[x] \in AccessSets
          /\ x \in Display <=> access[x].dst = NULL
      BY <3>1 DEF IInv, Groups
    <3> QED
      BY <1>3, <2>1, <3>1, <3>2
  <2> QED
    BY <2>2, <2>3, <2>4 DEF Groups
<1>12. References'
  <2>1. \A u \in Display : u \in Tasks /\ state'[u] \in {"FLUSHED", "READY"} =>
            state[u] \in {"FLUSHED", "READY"}
    BY <1>8
  <2>2. \A u \in display_tasks : u \in Tasks /\ state'[u] \in {"FLUSHED", "READY", "RUNNING"}
    BY <1>7, <1>9 DEF IInv, References
  <2>3. \A u \in Tasks : refs'[u] = IF state'[u] \in {"NONE", "DEAD", "INVALID"} THEN 0
                                    ELSE IF u \in display_tasks THEN 2 ELSE 1
    <3> SUFFICES ASSUME NEW u \in Tasks
                 PROVE  refs'[u] = IF state'[u] \in {"NONE", "DEAD", "INVALID"} THEN 0
                                   ELSE IF u \in display_tasks THEN 2 ELSE 1
      OBVIOUS
    <3>1. CASE u \in Group(m)
      BY <1>3, <1>8, <3>1
    <3>2. CASE u \notin Group(m)
      BY <1>3, <1>8, <3>2 DEF IInv, References
    <3> QED
      BY <3>1, <3>2
  <2> QED
    BY <1>3, <1>7, <2>1, <2>2, <2>3 DEF IInv, References
<1>13. Incoming'
  BY <1>3, <1>9, IncomingStays
<1>14. Waits'
  <2>1. \A u \in Tasks : Blocking(u)' = Blocking(u)
    BY <1>3 DEF Blocking
  <2>2. ASSUME NEW x \in notifies
        PROVE  /\ state'[x.to] = "READY" /\ x.from \in Masters
               /\ state'[x.from] \in {"READY"} \cup Emitted
               /\ x.on = "RUNNING" => state'[x.from] = "READY"
    <3>1. /\ x.to \in Tasks /\ state[x.to] = "READY" /\ x.from \in Masters /\ x.from \in Tasks
          /\ state[x.from] \in {"READY"} \cup Emitted
          /\ x.on = "RUNNING" =>
                \/ state[x.from] = "READY"
                \/ \E i \in DOMAIN calls : calls[i] = Frame("notifyRunning", x.from)
          /\ (x.from = m => x.on = "RUNNING")
      BY <1>4, <1>5 DEF IInv, Waits, Notifies
    <3>2. \A i \in DOMAIN calls : calls[i] # Frame("notifyRunning", x.from)
      BY <1>5, <1>6 DEF Frame
    <3>3. x.on = "RUNNING" => state[x.from] = "READY"
      BY <3>1, <3>2
    <3>4. x.from # m
      BY <1>7, <1>8, <3>1, <3>3
    <3> QED
      BY <1>7, <1>8, <1>9, <3>1, <3>3, <3>4
  <2> QED
    BY <1>3, <1>6, <2>1, <2>2 DEF IInv, Waits
<1>15. Stack'
  BY <1>6 DEF Stack
<1>16. Timed'
  <2>1. \A u \in waiting : state'[u] = "READY"
    BY <1>7, <1>9 DEF IInv, Timed
  <2>2. \A t : \A i \in DOMAIN calls : calls[i] # Frame("timedEmit", t)
    BY <1>5, <1>6 DEF Frame
  <2> QED
    BY <1>3, <2>1, <2>2 DEF IInv, Timed, WaitingIsOnList
<1>17. Queues'
  BY <1>3, <1>9, QueuesStay
<1>18. \A u \in Masters : u # m => state'[u] = state[u]
  BY <1>7, <1>8
<1>19. Screen'
  <2>1. \A u \in pool : u \in Tasks /\ state'[u] = "RUNNING"
    BY <1>7, <1>9 DEF IInv, Screen, References
  <2>2. prev_task # NULL => state'[prev_task] = "RUNNING"
    BY <1>7, <1>9 DEF IInv, Screen
  <2>3. /\ display_task' \in Display \cup {NULL}
        /\ display_task' # NULL => state'[display_task'] \in {"READY"} \cup Emitted
    BY <1>3, <1>7, <1>18 DEF IInv, Screen
  <2> QED
    BY <1>3, <2>1, <2>2, <2>3 DEF IInv, Screen
<1>20. Used'
  <2>1. write_task' \in [Allocs -> Masters \cup {NULL}] /\ read_tasks' \in [Allocs -> SUBSET Masters]
    BY <1>3 DEF IInv, Used
  <2>2. ASSUME NEW a \in Allocs
        PROVE  /\ write_task'[a] # NULL => state'[write_task'[a]] \in {"READY"} \cup Emitted
               /\ \A u \in read_tasks'[a] : state'[u] \in {"READY"} \cup Emitted
    <3>1. /\ write_task'[a] # NULL => write_task'[a] # m /\ write_task'[a] = write_task[a]
          /\ \A u \in read_tasks'[a] : u # m /\ u \in read_tasks[a]
      BY <1>3
    <3> QED
      BY <1>18, <3>1 DEF IInv, Used
  <2> QED
    BY <2>1, <2>2 DEF Used
<1> QED
  BY <1>10, <1>11, <1>12, <1>13, <1>14, <1>15, <1>16, <1>17, <1>19, <1>20 DEF IInv

-----------------------------------------------------------------------------
(* Task::Done() *)

LEMMA DoneFacts ==
    ASSUME IInv, NEW t \in Tasks, state[t] = "RUNNING",
           state' = [state EXCEPT ![t] = "DONE"], fifo' = Append(fifo, t),
           UNCHANGED <<slaves, access, notifies, block_count, calls, waiting, timed_emits,
                       write_task, read_tasks>>
    PROVE  /\ state' \in [Tasks -> TaskStates] /\ state'[t] = "DONE"
           /\ \A u \in Tasks : u # t => state'[u] = state[u]
           /\ \A u \in Tasks : state[u] \in {"READY"} \cup Emitted =>
                  state'[u] \in {"READY"} \cup Emitted
           /\ Groups' /\ Waits' /\ Incoming' /\ Stack' /\ Timed' /\ Used'
<1>1. /\ state' \in [Tasks -> TaskStates] /\ state'[t] = "DONE"
      /\ \A u \in Tasks : u # t => state'[u] = state[u]
  BY DEF IInv, Types, TaskStates
<1>2. \A u \in Tasks : state[u] # "RUNNING" => state'[u] = state[u]
  BY <1>1
<1>3. /\ \A u \in Tasks : state[u] \in Emitted => state'[u] \in Emitted
      /\ \A u \in Tasks : state[u] \in {"READY"} \cup Emitted =>
             state'[u] \in {"READY"} \cup Emitted
  BY <1>1 DEF Emitted
<1>4. Groups'
  <2>1. Moves
    BY <1>1 DEF Moves
  <2> QED
    BY <2>1, GroupsStay
<1>5. Waits' /\ Timed' /\ Used'
  <2>1. Waits'
    BY <1>2, <1>3, WaitsStay
  <2>2. Timed'
    BY <1>2, TimedStays
  <2>3. Used'
    BY <1>3, UsedStay
  <2> QED
    BY <2>1, <2>2, <2>3
<1>6. Stack'
  <2>1. \A u \in Tasks : state[u] \notin {"NONE", "INVALID"} => state'[u] \notin {"NONE", "INVALID"}
    BY <1>1
  <2>2. \A u \in Tasks : state[u] = "FINISH" => state'[u] = "FINISH"
    BY <1>2
  <2> QED
    BY <2>1, <2>2, StackStays
<1>7. Incoming'
  <2> DEFINE l == Len(fifo)
             r == fifo'
  <2>1. /\ r \in Seq(Tasks) /\ l \in Nat /\ DOMAIN fifo = 1..l /\ DOMAIN r = 1..l + 1
        /\ \A i \in 1..l : r[i] = fifo[i]
        /\ r[l + 1] = t
    BY Appended DEF IInv, Incoming
  <2> HIDE DEF l, r
  <2>2. \A i \in 1..l + 1 : i \in 1..l \/ i = l + 1
    BY <2>1
  <2>3. /\ \A i \in 1..l : state'[fifo[i]] \in {"FLUSHED", "DONE", "DEAD"} /\ fifo[i] # t
        /\ \A i, j \in 1..l : fifo[i] = fifo[j] => i = j
    <3>1. /\ \A i \in 1..l : state[fifo[i]] \in {"FLUSHED", "DONE", "DEAD"}
          /\ \A i, j \in 1..l : fifo[i] = fifo[j] => i = j
      BY <2>1 DEF IInv, Incoming
    <3>2. \A i \in 1..l : fifo[i] \in Tasks
      BY ElementOfSeq DEF l, IInv, Incoming
    <3> QED
      BY <1>1, <3>1, <3>2
  <2>4. \A i \in DOMAIN r : state'[r[i]] \in {"FLUSHED", "DONE", "DEAD"}
    BY <1>1, <2>1, <2>2, <2>3
  <2>5. \A i, j \in DOMAIN r : r[i] = r[j] => i = j
    BY <2>1, <2>2, <2>3
  <2> QED
    BY <2>1, <2>4, <2>5 DEF Incoming, r
<1> QED
  BY <1>1, <1>3, <1>4, <1>5, <1>6, <1>7

LEMMA CompleteInv == ASSUME IInv, NEW t \in Tasks, Complete(t) PROVE IInv'
<1> DEFINE k == Key(t)
<1>1. /\ executing' = executing \ {t} /\ queue' = [queue EXCEPT ![k] = Tail(@)]
      /\ dirty' = [dirty EXCEPT ![Dst(t)] = IF Root(t) \in flush THEN NULL ELSE Acc(t)]
      /\ stale' = [stale EXCEPT ![Dst(t)] = Accessors \ {Acc(t)}]
      /\ state' = [state EXCEPT ![t] = "DONE"] /\ fifo' = Append(fifo, t)
      /\ t \in executing
      /\ UNCHANGED <<refs, block_count, slaves, notifies, access, invalidate, flush,
                     write_task, read_tasks, invalidated, phase, calls, waiting,
                     timed_emits, pull_timeout, now, pool, display_tasks,
                     display_task, prev_task, workload, order>>
  BY DEF Complete, allocVars, timeVars, displayVars, clientVars
<1>2. /\ k \in Keys /\ 1 \in DOMAIN queue[k] /\ queue[k][1] = t /\ queue[k] \in Seq(Tasks)
      /\ state[t] = "RUNNING" /\ Root(t) \notin Display
  BY <1>1 DEF IInv, Queues
<1>3. Acc(t) \in Accessors /\ Dst(t) \in Allocs
  BY <1>2 DEF Keys, Key
<1>4. /\ state' \in [Tasks -> TaskStates] /\ state'[t] = "DONE"
      /\ \A u \in Tasks : u # t => state'[u] = state[u]
      /\ \A u \in Tasks : state[u] \in {"READY"} \cup Emitted =>
             state'[u] \in {"READY"} \cup Emitted
      /\ Groups' /\ Waits' /\ Incoming' /\ Stack' /\ Timed' /\ Used'
  BY <1>1, <1>2, DoneFacts
<1>5. t \notin Display /\ Display \subseteq Tasks
  BY <1>2, GroupFacts
<1> HIDE DEF k
<1>6. Types'
  <2>1. dirty' \in [Allocs -> Accessors \cup {NULL}] /\ stale' \in [Allocs -> SUBSET Accessors]
    BY <1>1, <1>3 DEF IInv, Types
  <2> QED
    BY <1>1, <1>4, <2>1 DEF IInv, Types
<1>7. References'
  <2>1. \A u \in Tasks : state'[u] \in {"NONE", "DEAD", "INVALID"}
                            <=> state[u] \in {"NONE", "DEAD", "INVALID"}
    BY <1>2, <1>4
  <2>2. \A u \in Display : state'[u] = state[u]
    BY <1>4, <1>5
  <2> QED
    BY <1>1, <2>1, <2>2, ReferencesStay
<1>8. Screen'
  <2>1. \A u \in Tasks : state[u] = "RUNNING" /\ u \in Display => state'[u] = "RUNNING"
    BY <1>4, <1>5
  <2> QED
    BY <1>1, <1>4, <2>1, ScreenStays
<1>9. Queues'
  <2>1. \A u : Key(u)' = Key(u)
    BY <1>1 DEF Key, Acc, Dst
  <2>2. ASSUME NEW x \in Keys
        PROVE  /\ queue'[x] \in Seq(Tasks)
               /\ \A i \in DOMAIN queue'[x] :
                     /\ state'[queue'[x][i]] = "RUNNING"
                     /\ Root(queue'[x][i]) \notin Display
                     /\ Key(queue'[x][i]) = x
               /\ \A i, j \in DOMAIN queue'[x] : queue'[x][i] = queue'[x][j] => i = j
    <3>1. /\ queue[x] \in Seq(Tasks)
          /\ \A i \in DOMAIN queue[x] : /\ state[queue[x][i]] = "RUNNING"
                                        /\ Root(queue[x][i]) \notin Display
                                        /\ Key(queue[x][i]) = x
          /\ \A i, j \in DOMAIN queue[x] : queue[x][i] = queue[x][j] => i = j
      BY DEF IInv, Queues
    <3>2. \A i \in DOMAIN queue[x] : queue[x][i] \in Tasks
      BY <3>1, LenProperties, ElementOfSeq
    <3>3. CASE x = k
      <4> DEFINE q == queue[k]
                 n == Len(q)
                 r == queue'[k]
      <4>1. r = Tail(q) /\ q # << >>
        BY <1>1, <1>2 DEF IInv, Queues
      <4>2. /\ n \in Nat /\ n > 0 /\ DOMAIN q = 1..n /\ r \in Seq(Tasks) /\ DOMAIN r = 1..n - 1
            /\ \A i \in 1..n - 1 : r[i] = q[i + 1]
        BY <1>2, <4>1, HeadAndTail
      <4>3. /\ \A i \in DOMAIN q : /\ q[i] \in Tasks /\ state[q[i]] = "RUNNING"
                                   /\ Root(q[i]) \notin Display /\ Key(q[i]) = k
            /\ \A i, j \in DOMAIN q : q[i] = q[j] => i = j
            /\ 1 \in DOMAIN q /\ q[1] = t
        BY <1>2, <3>1, <3>2, <3>3
      <4> HIDE DEF n, q, r
      <4>4. \A i \in DOMAIN r : i + 1 \in DOMAIN q /\ i + 1 # 1 /\ r[i] = q[i + 1]
        BY <4>2
      <4>5. \A i \in DOMAIN r : /\ state'[r[i]] = "RUNNING" /\ Root(r[i]) \notin Display
                               /\ Key(r[i]) = k
        BY <1>4, <4>3, <4>4
      <4>6. \A i, j \in DOMAIN r : r[i] = r[j] => i + 1 = j + 1
        BY <4>3, <4>4
      <4>7. \A i, j \in DOMAIN r : i + 1 = j + 1 => i = j
        BY <4>2
      <4> QED
        BY <3>3, <4>2, <4>5, <4>6, <4>7 DEF r
    <3>4. CASE x # k
      <4>1. queue'[x] = queue[x]
        BY <1>1, <3>4 DEF IInv, Queues
      <4>2. \A i \in DOMAIN queue[x] : queue[x][i] # t
        BY <3>1, <3>4 DEF k
      <4> QED
        BY <1>4, <3>1, <3>2, <4>1, <4>2
    <3> QED
      BY <3>3, <3>4
  <2>3. queue' \in [Keys -> Seq(Tasks)]
    BY <1>1, <2>2 DEF IInv, Queues
  <2>4. ASSUME NEW u \in executing'
        PROVE  Key(u) \in Keys /\ 1 \in DOMAIN queue'[Key(u)] /\ queue'[Key(u)][1] = u
    <3>1. u # t /\ Key(u) \in Keys /\ 1 \in DOMAIN queue[Key(u)] /\ queue[Key(u)][1] = u
      BY <1>1 DEF IInv, Queues
    <3>2. Key(u) # k
      BY <1>2, <3>1
    <3>3. queue'[Key(u)] = queue[Key(u)]
      BY <1>1, <3>1, <3>2 DEF IInv, Queues
    <3> QED
      BY <3>1, <3>3
  <2>5. executing' \in SUBSET Tasks
    BY <1>1 DEF IInv, Queues
  <2> QED
    BY <2>1, <2>2, <2>3, <2>4, <2>5 DEF Queues
<1> QED
  BY <1>4, <1>6, <1>7, <1>8, <1>9 DEF IInv

LEMMA PreviousFacts ==
    ASSUME IInv, DonePrevious,
           UNCHANGED <<slaves, access, notifies, block_count, calls, waiting, timed_emits,
                       write_task, read_tasks, queue, executing>>
    PROVE  /\ state' \in [Tasks -> TaskStates]
           /\ prev_task # NULL => state[prev_task] = "RUNNING" /\ state'[prev_task] = "DONE"
           /\ \A u \in Tasks : u # prev_task => state'[u] = state[u]
           /\ \A u \in Tasks : state[u] \in {"READY"} \cup Emitted =>
                  state'[u] \in {"READY"} \cup Emitted
           /\ Groups' /\ Waits' /\ Incoming' /\ Stack' /\ Timed' /\ Used' /\ Queues'
<1>1. prev_task \in Display \cup {NULL} /\ (prev_task # NULL => state[prev_task] = "RUNNING")
  BY DEF IInv, Screen
<1>2. Display \subseteq Masters /\ Masters \subseteq Tasks /\ NULL \notin Tasks
  BY GroupFacts
<1>3. CASE prev_task # NULL
  <2>1. prev_task \in Tasks /\ state[prev_task] = "RUNNING" /\ prev_task \in Display
    BY <1>1, <1>2, <1>3
  <2>2. state' = [state EXCEPT ![prev_task] = "DONE"] /\ fifo' = Append(fifo, prev_task)
    BY <1>3 DEF DonePrevious
  <2>3. /\ state' \in [Tasks -> TaskStates] /\ state'[prev_task] = "DONE"
        /\ \A u \in Tasks : u # prev_task => state'[u] = state[u]
        /\ \A u \in Tasks : state[u] \in {"READY"} \cup Emitted =>
               state'[u] \in {"READY"} \cup Emitted
        /\ Groups' /\ Waits' /\ Incoming' /\ Stack' /\ Timed' /\ Used'
    BY <2>1, <2>2, DoneFacts
  <2>4. Root(prev_task) = prev_task
    BY <1>2, <2>1, GroupFacts
  <2>5. Queues'
    <3>1. \A u \in Tasks : state[u] = "RUNNING" /\ Root(u) \notin Display => state'[u] = "RUNNING"
      BY <2>1, <2>3, <2>4
    <3> QED
      BY <3>1, QueuesStay
  <2> QED
    BY <2>1, <2>3, <2>5
<1>4. CASE prev_task = NULL
  <2>1. state' = state /\ fifo' = fifo
    BY <1>4 DEF DonePrevious
  <2>2. Groups' /\ Waits' /\ Incoming' /\ Stack' /\ Timed' /\ Used' /\ Queues'
    BY <2>1, NoMoves, GroupsStay, WaitsStay, IncomingStays, StackStays, TimedStays, UsedStay,
       QueuesStay
  <2> QED
    BY <1>4, <2>1, <2>2 DEF IInv, Types
<1> QED
  BY <1>3, <1>4

LEMMA DisplayRunInv == ASSUME IInv, NEW t \in Tasks, DisplayRun(t) PROVE IInv'
<1>1. /\ t \in pool /\ pool' = pool \ {t} /\ display_tasks' = display_tasks \ {t}
      /\ refs' = [refs EXCEPT ![t] = @ - 1]
      /\ stale' = [a \in Allocs |-> IF <<t, a>> \in invalidate
                                      THEN stale[a] \ {Acc(t)} ELSE stale[a]]
      /\ DonePrevious /\ prev_task' = t
      /\ UNCHANGED <<block_count, slaves, notifies, access, invalidate, flush,
                     write_task, read_tasks, invalidated, phase, calls, waiting,
                     timed_emits, pull_timeout, now, queue, executing, dirty,
                     display_task, workload, order>>
  BY DEF DisplayRun, allocVars, timeVars, clientVars
<1>2. /\ state' \in [Tasks -> TaskStates]
      /\ prev_task # NULL => state[prev_task] = "RUNNING" /\ state'[prev_task] = "DONE"
      /\ \A u \in Tasks : u # prev_task => state'[u] = state[u]
      /\ \A u \in Tasks : state[u] \in {"READY"} \cup Emitted =>
             state'[u] \in {"READY"} \cup Emitted
      /\ Groups' /\ Waits' /\ Incoming' /\ Stack' /\ Timed' /\ Used' /\ Queues'
  BY <1>1, PreviousFacts
<1>3. /\ t \in display_tasks /\ t \in Display /\ state[t] = "RUNNING"
      /\ prev_task # NULL => prev_task \notin display_tasks
      /\ Display \subseteq Tasks /\ display_tasks \subseteq Display /\ NULL \notin Tasks
  BY <1>1, GroupFacts DEF IInv, Screen, References
<1>4. t # prev_task /\ \A u \in display_tasks : u \in Tasks /\ state'[u] = state[u]
  BY <1>2, <1>3
<1>5. Types'
  BY <1>1, <1>2 DEF IInv, Types
<1>6. References'
  <2>1. \A u \in Tasks : state'[u] \in {"NONE", "DEAD", "INVALID"}
                            <=> state[u] \in {"NONE", "DEAD", "INVALID"}
    BY <1>2, <1>3
  <2>2. ASSUME NEW u \in Tasks
        PROVE  refs'[u] = IF state'[u] \in {"NONE", "DEAD", "INVALID"} THEN 0
                          ELSE IF u \in display_tasks' THEN 2 ELSE 1
    <3>1. refs[u] = IF state'[u] \in {"NONE", "DEAD", "INVALID"} THEN 0
                    ELSE IF u \in display_tasks THEN 2 ELSE 1
      BY <2>1 DEF IInv, References
    <3>2. CASE u = t
      <4>1. refs[t] = 2 /\ state'[t] = "RUNNING"
        BY <1>3, <1>4, <3>1, <3>2
      <4>2. refs'[t] = refs[t] - 1
        BY <1>1 DEF IInv, References
      <4> QED
        BY <1>1, <3>2, <4>1, <4>2
    <3>3. CASE u # t
      <4>1. refs'[u] = refs[u]
        BY <1>1, <3>3 DEF IInv, References
      <4> QED
        BY <1>1, <3>1, <3>3, <4>1
    <3> QED
      BY <3>2, <3>3
  <2>3. refs' = [u \in Tasks |-> refs'[u]]
    BY <1>1 DEF IInv, References
  <2>4. refs' = [u \in Tasks |-> IF state'[u] \in {"NONE", "DEAD", "INVALID"} THEN 0
                                 ELSE IF u \in display_tasks' THEN 2 ELSE 1]
    BY <2>2, <2>3
  <2>5. \A u \in Display : state'[u] \in {"FLUSHED", "READY"} => u \in display_tasks'
    <3> SUFFICES ASSUME NEW u \in Display, state'[u] \in {"FLUSHED", "READY"}
                 PROVE  u \in display_tasks'
      OBVIOUS
    <3>1. u # prev_task
      BY <1>2, <1>3
    <3>2. state[u] = state'[u]
      BY <1>2, <1>3, <3>1
    <3>3. u \in display_tasks /\ u # t
      BY <1>3, <3>2 DEF IInv, References
    <3> QED
      BY <1>1, <3>3
  <2>6. /\ display_tasks' \subseteq Display
        /\ \A u \in display_tasks' : state'[u] \in {"FLUSHED", "READY", "RUNNING"}
    BY <1>1, <1>4 DEF IInv, References
  <2> QED
    BY <2>4, <2>5, <2>6 DEF References
<1>7. Screen'
  <2>1. pool' \subseteq display_tasks' /\ \A u \in pool' : state'[u] = "RUNNING"
    BY <1>1, <1>4 DEF IInv, Screen
  <2>2. /\ prev_task' \in Display /\ state'[prev_task'] = "RUNNING"
        /\ prev_task' \notin display_tasks'
    BY <1>1, <1>3, <1>4
  <2>3. /\ display_task' \in Display \cup {NULL}
        /\ display_task' # NULL => state'[display_task'] \in {"READY"} \cup Emitted
    BY <1>1, <1>2, <1>3 DEF IInv, Screen
  <2> QED
    BY <2>1, <2>2, <2>3 DEF Screen
<1> QED
  BY <1>2, <1>5, <1>6, <1>7 DEF IInv

LEMMA UnrealizeInv == IInv /\ Unrealize => IInv'
<1> SUFFICES ASSUME IInv, Unrealize PROVE IInv'
  OBVIOUS
<1>1. /\ display_tasks = {} /\ prev_task # NULL /\ DonePrevious /\ prev_task' = NULL
      /\ UNCHANGED <<refs, block_count, slaves, notifies, access, invalidate, flush,
                     write_task, read_tasks, invalidated, phase, calls, waiting,
                     timed_emits, pull_timeout, now, queue, executing, dirty, stale, pool,
                     display_tasks, display_task, workload, order>>
  BY DEF Unrealize, allocVars, timeVars, engineVars, clientVars
<1>2. /\ state' \in [Tasks -> TaskStates]
      /\ state[prev_task] = "RUNNING" /\ state'[prev_task] = "DONE"
      /\ \A u \in Tasks : u # prev_task => state'[u] = state[u]
      /\ \A u \in Tasks : state[u] \in {"READY"} \cup Emitted =>
             state'[u] \in {"READY"} \cup Emitted
      /\ Groups' /\ Waits' /\ Incoming' /\ Stack' /\ Timed' /\ Used' /\ Queues'
  BY <1>1, PreviousFacts
<1>3. Display \subseteq Tasks
  BY GroupFacts
<1>4. Types'
  BY <1>1, <1>2 DEF IInv, Types
<1>5. References'
  <2>1. \A u \in Tasks : state'[u] \in {"NONE", "DEAD", "INVALID"}
                            <=> state[u] \in {"NONE", "DEAD", "INVALID"}
    BY <1>2
  <2>2. \A u \in Display : state'[u] \in {"FLUSHED", "READY"} => state[u] \in {"FLUSHED", "READY"}
    BY <1>2, <1>3
  <2> QED
    BY <1>1, <2>1, <2>2 DEF IInv, References
<1>6. Screen'
  <2>1. pool = {}
    BY <1>1 DEF IInv, Screen
  <2>2. /\ display_task \in Display \cup {NULL}
        /\ display_task # NULL => state'[display_task] \in {"READY"} \cup Emitted
    BY <1>2, <1>3 DEF IInv, Screen
  <2> QED
    BY <1>1, <2>1, <2>2 DEF Screen
<1> QED
  BY <1>2, <1>4, <1>5, <1>6 DEF IInv

-----------------------------------------------------------------------------
(* Client threads *)

LEMMA FlushInv == ASSUME IInv, NEW m \in Masters, NEW c \in workload[m], Flush(m, c) PROVE IInv'
<1>1. /\ state[m] = "NONE"
      /\ state' = [t \in Tasks |-> IF t = m THEN "FLUSHED"
                                   ELSE IF t \in SlavesOf(m) THEN "NEW" ELSE state[t]]
      /\ refs' = [t \in Tasks |-> IF t \notin Group(m) THEN refs[t]
                                  ELSE IF t \in Display THEN 2 ELSE 1]
      /\ slaves' = [slaves EXCEPT ![m] = Cardinality(SlavesOf(m))]
      /\ access' = [access EXCEPT ![m] = c]
      /\ display_tasks' = display_tasks \cup ({m} \cap Display)
      /\ fifo' = Append(fifo, m) /\ order' = Append(order, m)
      /\ UNCHANGED <<workload, block_count, notifies, invalidate, flush, write_task,
                     read_tasks, invalidated, phase, calls, waiting, timed_emits,
                     pull_timeout, now, queue, executing, dirty, stale, pool,
                     display_task, prev_task>>
  BY DEF Flush, allocVars, timeVars, engineVars
<1>2. c \in AccessSets /\ (m \in Display <=> c.dst = NULL)
  BY WorkloadFacts DEF IInv, Types
<1>3. /\ \A u \in Tasks : u \in Group(m) <=> Root(u) = m
      /\ \A u \in Tasks : u \in Group(m) <=> u = m \/ u \in SlavesOf(m)
      /\ \A u \in Masters : u \in Tasks /\ (u \in Group(m) <=> u = m) /\ u \notin SlavesOf(m)
      /\ \A u \in Tasks \ Masters : /\ Master[u] \in Masters /\ Master[u] \in Tasks
                                    /\ (u \in Group(m) <=> Master[u] = m)
                                    /\ (u \in SlavesOf(m) <=> Master[u] = m)
      /\ Display \subseteq Masters /\ SlavesOf(m) \subseteq Tasks /\ m \in Tasks
  BY GroupFacts DEF Group
<1>4. IsFiniteSet(SlavesOf(m)) /\ Cardinality(SlavesOf(m)) \in Nat
  BY FiniteGroups, FS_CardinalityType
<1>5. /\ \A u \in Group(m) : u \in Tasks => state[u] = "NONE"
      /\ \A u \in Tasks : u \notin Group(m) => state'[u] = state[u]
      /\ state'[m] = "FLUSHED" /\ \A u \in SlavesOf(m) : state'[u] = "NEW"
      /\ state' \in [Tasks -> TaskStates]
  <2>1. \A u \in Tasks : u \in Group(m) => state[u] = "NONE"
    BY <1>1, <1>3 DEF IInv, Groups
  <2>2. state' \in [Tasks -> TaskStates]
    BY <1>1 DEF IInv, Types, TaskStates
  <2> QED
    BY <1>1, <1>3, <2>1, <2>2
<1>6. \A u \in Tasks : state[u] # "NONE" => u \notin Group(m) /\ state'[u] = state[u]
  BY <1>5
<1>7. Types'
  <2>1. slaves' \in [Tasks -> Nat] /\ access' \in [Tasks -> AccessSets \cup {NoAccess}]
    BY <1>1, <1>2, <1>4 DEF IInv, Types
  <2>2. order' \in Seq(Tasks)
    BY <1>1, <1>3, AppendProperties DEF IInv, Types
  <2> QED
    BY <1>1, <1>5, <2>1, <2>2 DEF IInv, Types
<1>8. Groups'
  <2>1. ASSUME NEW x \in Masters
        PROVE  /\ state'[x] # "NEW"
               /\ state'[x] \in {"FLUSHED", "READY"} \cup Emitted =>
                     /\ slaves'[x] = Cardinality(Unfinished(x)')
                     /\ access'[x] \in AccessSets
                     /\ x \in Display <=> access'[x].dst = NULL
    <3>1. CASE x = m
      <4>1. Unfinished(m)' = SlavesOf(m)
        BY <1>5 DEF Unfinished
      <4>2. slaves'[m] = Cardinality(SlavesOf(m)) /\ access'[m] = c
        BY <1>1, <1>3 DEF IInv, Types
      <4> QED
        BY <1>2, <1>5, <3>1, <4>1, <4>2
    <3>2. CASE x # m
      <4>1. state'[x] = state[x] /\ slaves'[x] = slaves[x] /\ access'[x] = access[x]
        BY <1>1, <1>3, <1>5, <3>2 DEF IInv, Types
      <4>2. \A s \in SlavesOf(x) : s \in Tasks /\ s \notin Group(m)
        BY <1>3, <3>2, GroupFacts
      <4>3. Unfinished(x)' = Unfinished(x)
        BY <1>5, <4>2 DEF Unfinished
      <4>4. /\ state[x] # "NEW"
            /\ state[x] \in {"FLUSHED", "READY"} \cup Emitted =>
                  /\ slaves[x] = Cardinality(Unfinished(x))
                  /\ access[x] \in AccessSets
                  /\ x \in Display <=> access[x].dst = NULL
        BY DEF IInv, Groups
      <4> QED
        BY <4>1, <4>3, <4>4
    <3> QED
      BY <3>1, <3>2
  <2>2. ASSUME NEW s \in Tasks \ Masters
        PROVE  /\ state'[s] \notin {"FLUSHED", "READY"}
               /\ state'[s] = "NONE" <=> state'[Master[s]] = "NONE"
               /\ state'[s] = "NEW" <=> state'[Master[s]] \in {"FLUSHED", "READY"}
               /\ state'[s] \in Emitted <=> state'[Master[s]] \in Emitted
    <3>1. CASE s \in Group(m)
      <4>1. state'[s] = "NEW" /\ state'[Master[s]] = "FLUSHED"
        BY <1>3, <1>5, <3>1
      <4> QED
        BY <4>1 DEF Emitted
    <3>2. CASE s \notin Group(m)
      <4>1. Master[s] \in Tasks /\ Master[s] \notin Group(m)
        BY <1>3, <3>2
      <4> QED
        BY <1>5, <3>2, <4>1 DEF IInv, Groups
    <3> QED
      BY <3>1, <3>2
  <2> QED
    BY <2>1, <2>2 DEF Groups
<1>9. References'
  <2>1. \A u \in display_tasks : u \in Display /\ u \in Tasks /\ u # m /\ state'[u] = state[u]
    BY <1>1, <1>3, <1>6 DEF IInv, References
  <2>2. /\ display_tasks' \subseteq Display
        /\ \A u \in display_tasks' : state'[u] \in {"FLUSHED", "READY", "RUNNING"}
    BY <1>1, <1>5, <2>1 DEF IInv, References
  <2>3. \A u \in Display : state'[u] \in {"FLUSHED", "READY"} => u \in display_tasks'
    BY <1>1, <1>3, <1>5 DEF IInv, References
  <2>4. ASSUME NEW u \in Tasks
        PROVE  refs'[u] = IF state'[u] \in {"NONE", "DEAD", "INVALID"} THEN 0
                          ELSE IF u \in display_tasks' THEN 2 ELSE 1
    <3>1. CASE u \in Group(m)
      <4>1. state'[u] \in {"FLUSHED", "NEW"}
        BY <1>3, <1>5, <3>1
      <4>2. u \in Display <=> u \in display_tasks'
        BY <1>1, <1>3, <2>2, <3>1
      <4>3. refs'[u] = IF u \in Display THEN 2 ELSE 1
        BY <1>1, <3>1
      <4> QED
        BY <4>1, <4>2, <4>3
    <3>2. CASE u \notin Group(m)
      <4>1. u # m
        BY <1>3, <3>2
      <4>2. refs'[u] = refs[u] /\ state'[u] = state[u] /\ (u \in display_tasks' <=> u \in display_tasks)
        BY <1>1, <1>5, <3>2, <4>1
      <4> QED
        BY <4>2 DEF IInv, References
    <3> QED
      BY <3>1, <3>2
  <2>5. refs' = [u \in Tasks |-> refs'[u]]
    BY <1>1
  <2>6. refs' = [u \in Tasks |-> IF state'[u] \in {"NONE", "DEAD", "INVALID"} THEN 0
                                 ELSE IF u \in display_tasks' THEN 2 ELSE 1]
    BY <2>4, <2>5
  <2> QED
    BY <2>2, <2>3, <2>6 DEF References
<1>10. Waits'
  BY <1>1, <1>6, WaitsStay DEF Emitted
<1>11. Incoming'
  <2> DEFINE l == Len(fifo)
             r == fifo'
  <2>1. /\ r \in Seq(Tasks) /\ l \in Nat /\ DOMAIN fifo = 1..l /\ DOMAIN r = 1..l + 1
        /\ \A i \in 1..l : r[i] = fifo[i]
        /\ r[l + 1] = m
    BY <1>1, <1>3, Appended DEF IInv, Incoming
  <2> HIDE DEF l, r
  <2>2. \A i \in 1..l + 1 : i \in 1..l \/ i = l + 1
    BY <2>1
  <2>3. /\ \A i \in 1..l : state'[fifo[i]] \in {"FLUSHED", "DONE", "DEAD"} /\ fifo[i] # m
        /\ \A i, j \in 1..l : fifo[i] = fifo[j] => i = j
    <3>1. /\ \A i \in 1..l : state[fifo[i]] \in {"FLUSHED", "DONE", "DEAD"}
          /\ \A i, j \in 1..l : fifo[i] = fifo[j] => i = j
      BY <2>1 DEF IInv, Incoming
    <3>2. \A i \in 1..l : fifo[i] \in Tasks
      BY ElementOfSeq DEF l, IInv, Incoming
    <3> QED
      BY <1>1, <1>6, <3>1, <3>2
  <2>4. \A i \in DOMAIN r : state'[r[i]] \in {"FLUSHED", "DONE", "DEAD"}
    BY <1>5, <2>1, <2>2, <2>3
  <2>5. \A i, j \in DOMAIN r : r[i] = r[j] => i = j
    BY <2>1, <2>2, <2>3
  <2> QED
    BY <2>1, <2>4, <2>5 DEF Incoming, r
<1>12. Stack' /\ Timed' /\ Used'
  <2>1. \A u \in Tasks : state[u] \in {"READY"} \cup Emitted => state'[u] \in {"READY"} \cup Emitted
    BY <1>6 DEF Emitted
  <2> QED
    BY <1>1, <1>6, <2>1, StackStays, TimedStays, UsedStay
<1>13. Queues'
  <2>1. ASSUME NEW u \in Tasks, state[u] = "RUNNING"
        PROVE  state'[u] = "RUNNING" /\ access'[Root(u)] = access[Root(u)]
    <3>1. state'[u] = "RUNNING" /\ Root(u) # m /\ Root(u) \in Tasks
      BY <1>3, <1>6, <2>1, GroupFacts
    <3> QED
      BY <1>1, <3>1 DEF IInv, Types
  <2> QED
    BY <1>1, <2>1, QueuesStay
<1>14. Screen'
  <2>1. \A u \in pool : u \in Tasks /\ state'[u] = "RUNNING"
    BY <1>3, <1>6 DEF IInv, Screen, References
  <2>2. prev_task # NULL => /\ prev_task \in Tasks /\ state[prev_task] = "RUNNING"
                            /\ state'[prev_task] = "RUNNING"
    BY <1>3, <1>6 DEF IInv, Screen
  <2>3. prev_task # NULL => prev_task # m
    BY <1>1, <2>2
  <2>4. display_task # NULL => state'[display_task] \in {"READY"} \cup Emitted
    BY <1>3, <1>6 DEF IInv, Screen, Emitted
  <2> QED
    BY <1>1, <2>1, <2>2, <2>3, <2>4 DEF IInv, Screen
<1> QED
  BY <1>7, <1>8, <1>9, <1>10, <1>11, <1>12, <1>13, <1>14 DEF IInv

LEMMA Joined ==
    ASSUME NEW S, NEW s \in Seq(S), NEW r \in Seq(S),
           \A i, j \in DOMAIN s : s[i] = s[j] => i = j,
           \A i, j \in DOMAIN r : r[i] = r[j] => i = j,
           \A i \in DOMAIN s : \A j \in DOMAIN r : s[i] # r[j]
    PROVE  /\ s \o r \in Seq(S)
           /\ \A i \in DOMAIN (s \o r) :
                 \/ \E j \in DOMAIN s : (s \o r)[i] = s[j]
                 \/ \E j \in DOMAIN r : (s \o r)[i] = r[j]
           /\ \A i, j \in DOMAIN (s \o r) : (s \o r)[i] = (s \o r)[j] => i = j
<1> DEFINE k == Len(s)
           l == Len(r)
           q == s \o r
<1>1. /\ q \in Seq(S) /\ Len(q) = k + l
      /\ \A i \in 1..k + l : q[i] = IF i <= k THEN s[i] ELSE r[i - k]
  BY ConcatProperties
<1>2. k \in Nat /\ l \in Nat /\ DOMAIN s = 1..k /\ DOMAIN r = 1..l /\ DOMAIN q = 1..k + l
  BY <1>1, LenProperties
<1> HIDE DEF k, l, q
<1>3. \A i \in 1..k + l : \/ i \in 1..k /\ q[i] = s[i]
                          \/ i - k \in 1..l /\ q[i] = r[i - k]
  BY <1>1, <1>2
<1>4. \A i, j \in 1..k + l : i - k = j - k => i = j
  BY <1>2
<1>5. \A i, j \in 1..k + l : q[i] = q[j] => i = j
  <2> SUFFICES ASSUME NEW i \in 1..k + l, NEW j \in 1..k + l, q[i] = q[j] PROVE i = j
    OBVIOUS
  <2>1. CASE i \in 1..k /\ q[i] = s[i]
    <3>1. j \in 1..k /\ q[j] = s[j]
      <4>1. CASE j - k \in 1..l /\ q[j] = r[j - k]
        <5>1. s[i] # r[j - k]
          BY <1>2, <2>1, <4>1
        <5> QED
          BY <2>1, <4>1, <5>1
      <4> QED
        BY <1>3, <4>1
    <3> QED
      BY <1>2, <2>1, <3>1
  <2>2. CASE i - k \in 1..l /\ q[i] = r[i - k]
    <3>1. j - k \in 1..l /\ q[j] = r[j - k]
      <4>1. CASE j \in 1..k /\ q[j] = s[j]
        <5>1. s[j] # r[i - k]
          BY <1>2, <2>2, <4>1
        <5> QED
          BY <2>2, <4>1, <5>1
      <4> QED
        BY <1>3, <4>1
    <3>2. i - k = j - k
      BY <1>2, <2>2, <3>1
    <3> QED
      BY <1>4, <3>2
  <2> QED
    BY <1>3, <2>1, <2>2
<1> QED
  BY <1>1, <1>2, <1>3, <1>5 DEF q

LEMMA DiscardInv == ASSUME IInv, NEW m \in Masters, Discard(m) PROVE IInv'
<1>1. /\ state[m] = "NONE" /\ m \notin Display
      /\ state' = [t \in Tasks |-> IF t \in Group(m) THEN "DEAD" ELSE state[t]]
      /\ UNCHANGED <<refs, block_count, slaves, notifies, access, invalidate, flush,
                     write_task, read_tasks, invalidated, phase, calls, waiting,
                     timed_emits, pull_timeout, now, queue, executing, dirty, stale, pool,
                     display_tasks, display_task, prev_task, workload, order>>
  BY DEF Discard, allocVars, timeVars, engineVars, displayVars, clientVars
<1> DEFINE k == Cardinality(SlavesOf(m))
<1>2. PICK s \in [1..k -> SlavesOf(m)] :
         /\ \A i, j \in DOMAIN s : i < j => Tile[s[i]] > Tile[s[j]]
         /\ fifo' = fifo \o s \o <<m>>
  BY DEF Discard
<1>3. k \in Nat
  BY FiniteGroups, FS_CardinalityType
<1> HIDE DEF k
<1>4. /\ \A u \in Tasks : u \in Group(m) <=> u = m \/ u \in SlavesOf(m)
      /\ \A u \in Masters : u \in Tasks /\ (u \in Group(m) <=> u = m) /\ u \notin SlavesOf(m)
      /\ \A u \in Tasks \ Masters : /\ Master[u] \in Masters /\ Master[u] \in Tasks
                                    /\ (u \in Group(m) <=> Master[u] = m)
      /\ Display \subseteq Masters /\ SlavesOf(m) \subseteq Tasks /\ m \in Tasks
  BY GroupFacts DEF Group
<1>5. /\ \A u \in Tasks : u \in Group(m) => state[u] = "NONE" /\ state'[u] = "DEAD"
      /\ \A u \in Tasks : u \notin Group(m) => state'[u] = state[u]
      /\ state' \in [Tasks -> TaskStates]
  BY <1>1, <1>4 DEF IInv, Types, Groups, TaskStates
<1>6. \A u \in Tasks : state[u] # "NONE" => state'[u] = state[u]
  BY <1>5
<1>7. Types'
  BY <1>1, <1>5 DEF IInv, Types
<1>8. Groups'
  <2>1. \A x \in Masters : Unfinished(x)' = Unfinished(x)
    <3>1. \A x \in Masters : \A u \in SlavesOf(x) : u \in Tasks
      BY GroupFacts
    <3>2. \A u \in Tasks : state'[u] = "FINISH" <=> state[u] = "FINISH"
      BY <1>5
    <3> QED
      BY <3>1, <3>2 DEF Unfinished
  <2>2. ASSUME NEW x \in Masters
        PROVE  /\ state'[x] # "NEW"
               /\ state'[x] \in {"FLUSHED", "READY"} \cup Emitted =>
                     state[x] \in {"FLUSHED", "READY"} \cup Emitted
    BY <1>4, <1>5 DEF IInv, Groups, Emitted
  <2>3. ASSUME NEW u \in Tasks \ Masters
        PROVE  /\ state'[u] \notin {"FLUSHED", "READY"}
               /\ state'[u] = "NONE" <=> state'[Master[u]] = "NONE"
               /\ state'[u] = "NEW" <=> state'[Master[u]] \in {"FLUSHED", "READY"}
               /\ state'[u] \in Emitted <=> state'[Master[u]] \in Emitted
    <3>1. CASE u \in Group(m)
      <4>1. state'[u] = "DEAD" /\ state'[Master[u]] = "DEAD"
        BY <1>4, <1>5, <3>1
      <4> QED
        BY <4>1 DEF Emitted
    <3>2. CASE u \notin Group(m)
      <4>1. Master[u] \in Tasks /\ Master[u] \notin Group(m)
        BY <1>4, <3>2
      <4> QED
        BY <1>5, <3>2, <4>1 DEF IInv, Groups
    <3> QED
      BY <3>1, <3>2
  <2> QED
    BY <1>1, <2>1, <2>2, <2>3 DEF IInv, Groups
<1>9. References'
  <2>1. \A u \in Display : u \in Tasks /\ u \notin Group(m)
    BY <1>1, <1>4
  <2>2. \A u \in Tasks : state'[u] \in {"NONE", "DEAD", "INVALID"}
                            <=> state[u] \in {"NONE", "DEAD", "INVALID"}
    BY <1>5
  <2> QED
    BY <1>1, <1>5, <2>1, <2>2, ReferencesStay
<1>10. Waits' /\ Timed' /\ Queues'
  <2>1. Waits'
    BY <1>1, <1>6, WaitsStay DEF Emitted
  <2> QED
    BY <1>1, <1>6, <2>1, TimedStays, QueuesStay
<1>11. Stack' /\ Screen' /\ Used'
  <2>1. \A u \in Tasks : state[u] \in {"READY"} \cup Emitted => state'[u] \in {"READY"} \cup Emitted
    BY <1>6 DEF Emitted
  <2> QED
    BY <1>1, <1>6, <2>1, StackStays, ScreenStays, UsedStay
<1>12. Incoming'
  <2>1. /\ fifo \in Seq(Tasks) /\ \A i \in DOMAIN fifo : fifo[i] \in Tasks
        /\ \A i \in DOMAIN fifo : state[fifo[i]] \in {"FLUSHED", "DONE", "DEAD"}
        /\ \A i, j \in DOMAIN fifo : fifo[i] = fifo[j] => i = j
    BY LenProperties, ElementOfSeq DEF IInv, Incoming
  <2>2. /\ s \in Seq(Tasks)
        /\ \A i \in DOMAIN s : s[i] \in SlavesOf(m) /\ s[i] \in Tasks /\ state[s[i]] = "NONE"
                               /\ state'[s[i]] = "DEAD" /\ s[i] # m
    <3>1. s \in [1..k -> Tasks]
      BY <1>2, <1>4
    <3>2. s \in Seq(Tasks)
      BY <1>3, <3>1, SeqDef
    <3>3. \A u \in SlavesOf(m) : u \in Tasks /\ u \in Group(m) /\ u # m
      BY <1>4
    <3> QED
      BY <1>2, <1>5, <3>2, <3>3
  <2>3. \A i, j \in DOMAIN s : s[i] = s[j] => i = j
    <3> SUFFICES ASSUME NEW i \in 1..k, NEW j \in 1..k, s[i] = s[j], i # j PROVE FALSE
      BY <1>2
    <3>1. i < j \/ j < i
      BY <1>3
    <3>2. Tile[s[i]] \in Nat /\ Tile[s[j]] = Tile[s[i]]
      BY <2>2, TileFacts, <1>2
    <3> QED
      BY <1>2, <3>1, <3>2
  <2> DEFINE q == fifo \o s
             e == <<m>>
  <2>4. \A i \in DOMAIN fifo : \A j \in DOMAIN s : fifo[i] # s[j]
    BY <2>1, <2>2
  <2>5. /\ q \in Seq(Tasks)
        /\ \A i \in DOMAIN q : \/ \E j \in DOMAIN fifo : q[i] = fifo[j]
                               \/ \E j \in DOMAIN s : q[i] = s[j]
        /\ \A i, j \in DOMAIN q : q[i] = q[j] => i = j
    BY <2>1, <2>2, <2>3, <2>4, Joined
  <2> HIDE DEF q
  <2>6. \A i \in DOMAIN q : q[i] # m /\ state'[q[i]] \in {"FLUSHED", "DONE", "DEAD"}
    <3>1. \A i \in DOMAIN fifo : fifo[i] # m /\ state'[fifo[i]] \in {"FLUSHED", "DONE", "DEAD"}
      BY <1>1, <1>6, <2>1
    <3> QED
      BY <2>2, <2>5, <3>1
  <2>7. e \in Seq(Tasks) /\ DOMAIN e = {1} /\ e[1] = m
    BY <1>4
  <2> HIDE DEF e
  <2>8. /\ q \o e \in Seq(Tasks)
        /\ \A i \in DOMAIN (q \o e) : \/ \E j \in DOMAIN q : (q \o e)[i] = q[j]
                                      \/ \E j \in DOMAIN e : (q \o e)[i] = e[j]
        /\ \A i, j \in DOMAIN (q \o e) : (q \o e)[i] = (q \o e)[j] => i = j
    <3>1. \A i, j \in DOMAIN e : e[i] = e[j] => i = j
      BY <2>7
    <3>2. \A i \in DOMAIN q : \A j \in DOMAIN e : q[i] # e[j]
      BY <2>6, <2>7
    <3> QED
      BY <2>5, <2>7, <3>1, <3>2, Joined
  <2>9. fifo' = q \o e
    BY <1>2 DEF q, e
  <2>10. state'[m] = "DEAD"
    BY <1>4, <1>5
  <2> HIDE DEF q
  <2> QED
    BY <2>6, <2>7, <2>8, <2>9, <2>10 DEF Incoming
<1> QED
  BY <1>7, <1>8, <1>9, <1>10, <1>11, <1>12 DEF IInv

-----------------------------------------------------------------------------
LEMMA NextInv == IInv /\ [Next]_vars => IInv'
<1> SUFFICES ASSUME IInv, [Next]_vars PROVE IInv'
  OBVIOUS
<1>1. CASE Client
  <2>1. ASSUME NEW m \in Masters, NEW c \in workload[m], Flush(m, c) PROVE IInv'
    BY <2>1, FlushInv
  <2>2. ASSUME NEW m \in Masters, Discard(m) PROVE IInv'
    BY <2>2, DiscardInv
  <2> QED
    BY <1>1, <2>1, <2>2, UnrealizeInv DEF Client
<1>2. CASE Manager
  <2>1. CASE SetupTask \/ Finish \/ Delete
    BY <2>1, SetupTaskInv, FinishInv, DeleteInv
  <2>2. CASE PullTimeout \/ HandleTimedEmits \/ TimedEmit
    BY <2>2, PullTimeoutInv, HandleTimedEmitsInv, TimedEmitInv
  <2>3. CASE Emit \/ KeepBlocked \/ Notify \/ NotifyReturn \/ Shutdown
    BY <2>3, EmitInv, KeepBlockedInv, NotifyInv, NotifyReturnInv, ShutdownInv
  <2> QED
    BY <1>2, <2>1, <2>2, <2>3 DEF Manager
<1>3. CASE Engine
  BY <1>3, StartInv, CompleteInv DEF Engine
<1>4. CASE Pool
  BY <1>4, DisplayRunInv DEF Pool
<1>5. CASE Tick
  BY <1>5, TickInv
<1>6. CASE UNCHANGED vars
  <2>1. UNCHANGED <<state, refs, block_count, slaves, notifies, access, invalidate, flush,
                    write_task, read_tasks, invalidated, fifo, phase, calls, waiting,
                    timed_emits, pull_timeout, now, queue, executing, dirty, stale, pool,
                    display_tasks, display_task, prev_task, workload, order>>
    BY <1>6 DEF vars, taskVars, allocVars, mgrVars, timeVars, engineVars, displayVars, clientVars
  <2>2. Types'
    BY <2>1 DEF IInv, Types
  <2>3. Groups' /\ References' /\ Waits' /\ Incoming' /\ Stack'
    BY <2>1, NoMoves, GroupsStay, ReferencesStay, WaitsStay, IncomingStays, StackStays
  <2>4. Timed' /\ Queues' /\ Screen' /\ Used'
    BY <2>1, TimedStays, QueuesStay, ScreenStays, UsedStay
  <2> QED
    BY <2>2, <2>3, <2>4 DEF IInv
<1> QED
  BY <1>1, <1>2, <1>3, <1>4, <1>5, <1>6 DEF Next

(* The inductive invariant: groups go through the same phases, every       *)
(* pointer leads to a task in a phase in which it is expected, and finish()*)
(* has notified everybody when it deletes.                                 *)
THEOREM AlwaysInv == Spec => []IInv
<1>1. Init => IInv
  BY InitInv
<1>2. IInv /\ [Next]_vars => IInv'
  BY NextInv
<1> QED
  BY <1>1, <1>2, PTL DEF Spec

LEMMA InvIsConsistent == IInv => Consistent
<1> SUFFICES ASSUME IInv PROVE Consistent
  OBVIOUS
<1>1. /\ Masters \subseteq Tasks /\ Display \subseteq Masters
      /\ \A t \in Tasks : Root(t) \in Masters
      /\ \A t \in Masters : Root(t) = t
      /\ \A s \in Tasks \ Masters : Root(s) = Master[s]
  BY GroupFacts
<1>2. /\ refs \in [Tasks -> 0..2]
      /\ \A t \in Tasks : state[t] \notin {"NONE", "DEAD", "INVALID"} => refs[t] > 0
  BY DEF IInv, References
<1>3. TypeOK
  <2>1. /\ refs \in [Tasks -> 0..2] /\ block_count \in [Tasks -> Nat]
        /\ notifies \in SUBSET Notifies
    BY <1>2 DEF IInv, Waits
  <2>2. write_task \in [Allocs -> Tasks \cup {NULL}] /\ read_tasks \in [Allocs -> SUBSET Tasks]
    BY <1>1 DEF IInv, Used
  <2>3. /\ fifo \in Seq(Tasks) /\ calls \in Seq(Frames) /\ queue \in [Keys -> Seq(Tasks)]
        /\ executing \in SUBSET Tasks
    BY DEF IInv, Incoming, Stack, Queues
  <2>4. waiting \in SUBSET Tasks /\ timed_emits \in SUBSET Tasks
    BY <1>1 DEF IInv, Timed
  <2>5. display_tasks \in SUBSET Tasks /\ pool \in SUBSET Tasks
    BY <1>1 DEF IInv, References, Screen
  <2>6. display_task \in Tasks \cup {NULL} /\ prev_task \in Tasks \cup {NULL}
    BY <1>1 DEF IInv, Screen
  <2>7. Types
    BY DEF IInv
  <2> QED
    BY <2>1, <2>2, <2>3, <2>4, <2>5, <2>6, <2>7 DEF TypeOK, Types
<1>4. NoDanglingTask
  <2>1. \A a \in Allocs : \A t \in ({write_task[a]} \ {NULL}) \cup read_tasks[a] : Live(t)
    BY DEF IInv, Used, Live, Emitted
  <2>2. \A n \in notifies : Live(n.from) /\ Live(n.to)
    BY DEF IInv, Waits, Live, Emitted
  <2>3. /\ \A i \in DOMAIN fifo : state[fifo[i]] \in {"FLUSHED", "DONE", "DEAD"}
        /\ \A i, j \in DOMAIN fifo : i # j => fifo[i] # fifo[j]
    BY DEF IInv, Incoming
  <2>4. \A i \in DOMAIN calls : Live(calls[i].task)
    BY DEF IInv, Stack
  <2>5. ASSUME NEW k \in Keys, NEW t \in Range(queue[k])
        PROVE  state[t] = "RUNNING" /\ Live(Root(t)) /\ refs[Root(t)] > 0
    <3>1. PICK i \in DOMAIN queue[k] : t = queue[k][i]
      BY DEF Range
    <3>2. state[t] = "RUNNING" /\ t \in Tasks
      BY <3>1, LenProperties, ElementOfSeq DEF IInv, Queues
    <3>3. state[Root(t)] \in Emitted /\ Root(t) \in Tasks
      BY <1>1, <3>2 DEF IInv, Groups, Emitted
    <3> QED
      BY <1>2, <3>2, <3>3 DEF Live, Emitted
  <2>6. \A t \in timed_emits \cup waiting : state[t] = "READY"
    BY DEF IInv, Timed
  <2>7. \A t \in display_tasks \cup pool \cup ({display_task} \ {NULL}) \cup ({prev_task} \ {NULL}) :
           Live(t) /\ refs[t] > 0
    <3>1. \A t \in display_tasks \cup pool : t \in Tasks /\ state[t] \in {"FLUSHED", "READY", "RUNNING"}
      BY <1>1 DEF IInv, References, Screen
    <3>2. display_task # NULL => display_task \in Tasks /\ state[display_task] \in {"READY"} \cup Emitted
      BY <1>1 DEF IInv, Screen
    <3>3. prev_task # NULL => prev_task \in Tasks /\ state[prev_task] = "RUNNING"
      BY <1>1 DEF IInv, Screen
    <3> QED
      BY <1>2, <3>1, <3>2, <3>3 DEF Live, Emitted
  <2> QED
    BY <2>1, <2>2, <2>3, <2>4, <2>5, <2>6, <2>7 DEF NoDanglingTask
<1> QED
  BY <1>3, <1>4 DEF Consistent, IInv, Timed

(* Every pointer that the manager, the allocations, the layer and the      *)
(* queues keep leads to a task that has not been deleted, and a timed task *)
(* is on the list that wakes it up, whatever the threads and the nested    *)
(* calls of the manager do in between.                                     *)
THEOREM TaskManagerIsConsistent == Spec => []Consistent
  BY AlwaysInv, InvIsConsistent, PTL

LEMMA InvMatchesBlockCounts == IInv => BlockCountMatches
<1> SUFFICES ASSUME IInv, NEW t \in Tasks
             PROVE  /\ block_count[t] = Cardinality({n \in notifies : n.to = t})
                    /\ block_count[t] > 0 => state[t] = "READY"
  BY DEF BlockCountMatches
<1>1. IsFiniteSet(Blocking(t)) /\ block_count[t] = Cardinality(Blocking(t))
  BY DEF IInv, Waits
<1>2. ASSUME block_count[t] > 0 PROVE state[t] = "READY"
  <2>1. Blocking(t) # {}
    BY <1>1, <1>2, FS_EmptySet
  <2> QED
    BY <2>1 DEF IInv, Waits, Blocking
<1> QED
  BY <1>1, <1>2 DEF Blocking

(* Task::block_count is the number of the notifications on their way to    *)
(* the task, whichever early returns AddNotify() took, and only a task     *)
(* that Setup() has run for is blocked.                                    *)
THEOREM BlockCountsMatch == Spec => []BlockCountMatches
  BY AlwaysInv, InvMatchesBlockCounts, PTL

-----------------------------------------------------------------------------
(* The flush order                                                         *)
(*                                                                         *)
(* The second invariant, OInv, relates every step of a task to the order   *)
(* in which the clients flushed the tasks: the accesses that precede an    *)
(* access have been set up before it, what an allocation records covers    *)
(* all of them that are not over, a task that is not blocked any more has  *)
(* seen them end or stands behind them in its queue, and the task that     *)
(* will flush a dirty cache runs before the next foreign access.           *)

Flushed == {order[i] : i \in DOMAIN order}

Before(m, n) == \E i, j \in DOMAIN order : i < j /\ order[i] = m /\ order[j] = n

UpTo(m, n) == m = n \/ Before(m, n)

Writes(m, a) == a = Dst(m)

Touches(m, a) == a \in Accessed(m)

(* Accesses of m and n to a with one that writes between them, or by them *)
Precedes(a, m, n) ==
    /\ Before(m, n) /\ Touches(m, a) /\ Touches(n, a)
    /\ \E w \in Flushed : Writes(w, a) /\ UpTo(m, w) /\ UpTo(w, n)

(* Nobody waits for the end of these. *)
Silent == {t \in Tasks : "EMITNOTIFIES" \in InitFlags[t]}

Ended == {"DONE", "FINISH", "INVALID"}

(* A group whose execution is over, or has at least been emitted *)
Over(m) == \A t \in Group(m) : state[t] \in Ended

Passed(m) == state[m] \in Emitted \cup {"INVALID"}

SetUp(m) == state[m] # "FLUSHED"

(* A task of the same queues, that is not overtaken *)
Queued(m, n) == SameQueue(m, n) /\ Dst(n) # NULL

(* n may be emitted as far as m is concerned. *)
Clear(m, n) == Over(m) \/ (Passed(m) /\ Queued(m, n))

(* A task is flushed once; it is over when its master is deleted. *)
FlushOrder ==
    /\ \A i, j \in DOMAIN order : order[i] = order[j] => i = j
    /\ \A m \in Flushed :
          /\ m \in Masters /\ access[m] \in workload[m]
          /\ \A t \in Group(m) : state[t] \notin {"NONE", "DEAD"}
          /\ state[m] = "INVALID" => Over(m)
    /\ \A m \in Masters : state[m] \in {"FLUSHED", "READY"} \cup Emitted => m \in Flushed

(* The manager sets tasks up in the order in which they were flushed. *)
FifoOrder ==
    /\ \A m \in Flushed : state[m] = "FLUSHED" => \E p \in DOMAIN fifo : fifo[p] = m
    /\ \A p, q \in DOMAIN fifo :
         p < q /\ state[fifo[p]] = "FLUSHED" /\ state[fifo[q]] = "FLUSHED" => Before(fifo[p], fifo[q])
    /\ \A m, n : Before(m, n) /\ SetUp(n) => SetUp(m)

(* Notifications are sent once what they tell is true. *)
Proper(f) ==
    /\ f.op = "notifyRunning" => Passed(f.task)
    /\ f.op = "notifyFinish" => Over(f.task) \/ (f.task \in Silent /\ Passed(f.task))

ProperCalls == \A i \in DOMAIN calls : Proper(calls[i])

(* write_task and read_tasks stand for every access of a that is not over. *)
Recorded(a, w, r) ==
    /\ w # NULL => w \in Flushed /\ SetUp(w) /\ Writes(w, a)
    /\ \A k \in r : k \in Flushed /\ SetUp(k) /\ a \in access[k].srcs /\ (w # NULL => UpTo(w, k))
    /\ \A m \in Flushed \ Silent : SetUp(m) /\ Touches(m, a) =>
          \/ Over(m)
          \/ w # NULL /\ UpTo(m, w)
          \/ ~ Writes(m, a) /\ m \in r

Records == \A a \in Allocs : Recorded(a, write_task[a], read_tasks[a])

(* n waits for m, or for an access that comes after that of m. *)
WaitsFor(a, m, n) ==
    \E x \in notifies :
        /\ x.to = n /\ (x.from = m \/ Precedes(a, m, x.from))
        /\ x.on = "RUNNING" => Queued(x.from, n) \/ x.from \in Silent

(* No task is emitted before what precedes it is over or queued ahead of it. *)
Blocked ==
    \A a \in Allocs : \A n \in Flushed : \A m \in Flushed \ Silent :
        Precedes(a, m, n) =>
            /\ Passed(n) => Clear(m, n)
            /\ state[n] = "READY" => Clear(m, n) \/ WaitsFor(a, m, n)

(* Engine queues hold the tasks in flush order and are not overtaken. *)
QueueOrder ==
    /\ \A t \in Tasks : state[t] = "RUNNING" /\ Root(t) \notin Display =>
          \E i \in DOMAIN queue[Key(t)] : queue[Key(t)][i] = t
    /\ \A k \in Keys : \A i, j \in DOMAIN queue[k] :
          i < j => Before(Root(queue[k][i]), Root(queue[k][j]))
    /\ \A t, u \in Tasks :
         Before(Root(t), Root(u)) /\ Key(t) = Key(u) /\ Dst(t) # NULL /\ state[t] = "RUNNING" =>
             state[u] \notin Ended

Foreign(t, a, v) == Touches(t, a) /\ Acc(t) # Acc(v)

(* w took the flush of v over, and no foreign access is between them. *)
Successor(v, w) ==
    /\ SetUp(w) /\ Before(v, w) /\ Queued(v, w)
    /\ \A t \in Flushed \ Silent :
          Foreign(t, Dst(v), v) /\ Before(v, t) /\ Before(t, w) => Over(t)

(* v is not over, and no foreign access of a before it is pending. *)
Flusher(a, v) ==
    /\ SetUp(v) /\ Dst(v) = a /\ Acc(v) = dirty[a] /\ ~ Over(v)
    /\ \A t \in Flushed \ Silent : Foreign(t, a, v) /\ Before(t, v) => Over(t)

Caches ==
    /\ \A v \in Flushed : SetUp(v) /\ Dst(v) # NULL /\ ~ Over(v) /\ v \notin flush =>
          \E w \in Flushed : Successor(v, w)
    /\ \A a \in Allocs : dirty[a] # NULL => \E v \in Flushed : Flusher(a, v)

OInv == /\ FlushOrder /\ FifoOrder /\ ProperCalls /\ Records /\ Blocked /\ QueueOrder
        /\ Caches

-----------------------------------------------------------------------------

LEMMA OrderFacts ==
    ASSUME FlushOrder, order \in Seq(Tasks)
    PROVE  /\ \A m, n : Before(m, n) => m \in Flushed /\ n \in Flushed /\ m # n /\ ~ Before(n, m)
           /\ \A m, n \in Flushed : m = n \/ Before(m, n) \/ Before(n, m)
           /\ \A l, m, n : Before(l, m) /\ Before(m, n) => Before(l, n)
<1>1. DOMAIN order = 1..Len(order) /\ Len(order) \in Nat
  BY LenProperties
<1>2. \A i \in DOMAIN order : i \in Nat
  BY <1>1
<1>3. \A i, j \in DOMAIN order : order[i] = order[j] => i = j
  BY DEF FlushOrder
<1>4. ASSUME NEW m, NEW n, Before(m, n)
      PROVE  m \in Flushed /\ n \in Flushed /\ m # n /\ ~ Before(n, m)
  <2>1. PICK i \in DOMAIN order, j \in DOMAIN order : i < j /\ order[i] = m /\ order[j] = n
    BY <1>4 DEF Before
  <2>2. m \in Flushed /\ n \in Flushed
    BY <2>1 DEF Flushed
  <2>3. m # n
    BY <1>2, <1>3, <2>1
  <2>4. ASSUME Before(n, m) PROVE FALSE
    <3>1. PICK x \in DOMAIN order, y \in DOMAIN order : x < y /\ order[x] = n /\ order[y] = m
      BY <2>4 DEF Before
    <3>2. x = j /\ y = i
      BY <1>3, <2>1, <3>1
    <3> QED BY <1>2, <2>1, <3>1, <3>2
  <2> QED BY <2>2, <2>3, <2>4
<1>5. ASSUME NEW m \in Flushed, NEW n \in Flushed
      PROVE  m = n \/ Before(m, n) \/ Before(n, m)
  <2>1. PICK i \in DOMAIN order, j \in DOMAIN order : order[i] = m /\ order[j] = n
    BY <1>5 DEF Flushed
  <2>2. i < j \/ j < i \/ i = j
    BY <1>2, <2>1
  <2> QED BY <2>1, <2>2 DEF Before
<1>6. ASSUME NEW l, NEW m, NEW n, Before(l, m), Before(m, n)
      PROVE  Before(l, n)
  <2>1. PICK i \in DOMAIN order, j \in DOMAIN order : i < j /\ order[i] = l /\ order[j] = m
    BY <1>6 DEF Before
  <2>2. PICK x \in DOMAIN order, y \in DOMAIN order : x < y /\ order[x] = m /\ order[y] = n
    BY <1>6 DEF Before
  <2>3. x = j
    BY <1>3, <2>1, <2>2
  <2>4. i < y
    BY <1>2, <2>1, <2>2, <2>3
  <2> QED BY <2>1, <2>2, <2>4 DEF Before
<1> QED BY <1>4, <1>5, <1>6

(* What is known of masters that have been flushed *)
LEMMA FlushedFacts ==
    ASSUME IInv, FlushOrder, NEW m \in Flushed
    PROVE  /\ m \in Masters /\ m \in Tasks /\ Root(m) = m /\ m \in Group(m) /\ Group(m) \subseteq Tasks
           /\ access[m] \in workload[m] /\ workload \in Workloads
           /\ access[m] \in AccessSets /\ (m \in Display <=> Dst(m) = NULL)
           /\ Dst(m) \in Allocs \cup {NULL} /\ Accessed(m) \subseteq Allocs
           /\ Accessed(m) = access[m].srcs \cup ({Dst(m)} \ {NULL})
           /\ m \in Silent => m \in Display
           /\ Over(m) => Passed(m)
           /\ Passed(m) => SetUp(m) /\ state[m] # "READY"
           /\ Passed(m) => \A t \in Group(m) : state[t] \in Emitted \cup {"INVALID"}
<1>1. m \in Masters /\ access[m] \in workload[m] /\ (state[m] = "INVALID" => Over(m))
  BY DEF FlushOrder
<1>2. m \in Tasks /\ Root(m) = m /\ m \in Group(m) /\ Group(m) \subseteq Tasks
  BY <1>1, GroupFacts
<1>3. access[m] \in AccessSets /\ (m \in Display <=> access[m].dst = NULL) /\ workload \in Workloads
  BY <1>1, WorkloadFacts DEF IInv, Types
<1>4. /\ Dst(m) = access[m].dst /\ Dst(m) \in Allocs \cup {NULL} /\ Accessed(m) \subseteq Allocs
      /\ Accessed(m) = access[m].srcs \cup ({Dst(m)} \ {NULL})
  BY <1>2, <1>3 DEF Dst, Accessed, AccessSets
<1>5. m \in Silent => m \in Display
  BY <1>2, FlagAssumption DEF Silent
<1>6. Over(m) => Passed(m)
  BY <1>2 DEF Over, Passed, Ended, Emitted
<1>7. Passed(m) => SetUp(m) /\ state[m] # "READY"
  BY DEF Passed, SetUp, Emitted
<1>8. ASSUME Passed(m), NEW t \in Group(m) PROVE state[t] \in Emitted \cup {"INVALID"}
  <2>1. CASE state[m] = "INVALID"
    BY <1>1, <2>1 DEF Over, Ended, Emitted
  <2>2. CASE state[m] \in Emitted /\ t # m
    <3>1. t \in Tasks \ Masters /\ Master[t] = m
      BY <1>1, <1>2, <2>2, GroupFacts
    <3> QED BY <2>2, <3>1 DEF IInv, Groups
  <2> QED BY <1>8, <2>1, <2>2 DEF Passed
<1> QED BY <1>1, <1>2, <1>3, <1>4, <1>5, <1>6, <1>7, <1>8

LEMMA PrecedesFacts ==
    ASSUME FlushOrder, order \in Seq(Tasks), NEW a \in Allocs
    PROVE  /\ \A l, m, n : Precedes(a, l, m) /\ Precedes(a, m, n) => Precedes(a, l, n)
           /\ \A l, m, n : Precedes(a, l, m) /\ Before(m, n) /\ Touches(n, a) => Precedes(a, l, n)
           /\ \A m, n : Precedes(a, m, n) => m \in Flushed /\ n \in Flushed /\ m # n
           /\ \A m, w, n : /\ w \in Flushed /\ Writes(w, a) /\ UpTo(m, w) /\ UpTo(w, n) /\ m # n
                           /\ Touches(m, a) /\ Touches(n, a)
                           => Precedes(a, m, n)
<1>1. /\ \A m, n : Before(m, n) => m \in Flushed /\ n \in Flushed /\ m # n
      /\ \A l, m, n : Before(l, m) /\ Before(m, n) => Before(l, n)
  BY OrderFacts
<1> QED BY <1>1 DEF Precedes, UpTo

(* Tasks of one queue have the same tiles. *)
LEMMA SameTiles ==
    ASSUME IInv, FlushOrder, OrderlyWorkloads, NEW m \in Flushed, NEW n \in Flushed, Queued(m, n),
           NEW t \in Group(m)
    PROVE  \E u \in Group(n) : Tile[u] = Tile[t] /\ Key(u) = Key(t)
<1>1. /\ m \in Masters /\ n \in Masters /\ access[m] \in workload[m] /\ access[n] \in workload[n]
      /\ workload \in Workloads /\ Root(m) = m /\ Root(n) = n
      /\ Group(n) \subseteq Tasks /\ Group(m) \subseteq Tasks
  BY FlushedFacts
<1>2. Acc(m) = access[m].accessor /\ Acc(n) = access[n].accessor
      /\ Dst(m) = access[m].dst /\ Dst(n) = access[n].dst
  BY <1>1 DEF Acc, Dst
<1>3. {Tile[v] : v \in Group(m)} = {Tile[v] : v \in Group(n)}
  <2>1. \A c \in workload[m], d \in workload[n] :
           c.dst # NULL /\ c.dst = d.dst /\ c.accessor = d.accessor =>
              {Tile[v] : v \in Group(m)} = {Tile[v] : v \in Group(n)}
    <3>1. Orderly(workload)
      BY <1>1 DEF OrderlyWorkloads
    <3>2. \A k, l \in Masters : \A c \in workload[k], d \in workload[l] :
             c.dst # NULL /\ c.dst = d.dst /\ c.accessor = d.accessor =>
                {Tile[v] : v \in Group(k)} = {Tile[v] : v \in Group(l)}
      BY ONLY <3>1 DEF Orderly
    <3> QED BY ONLY <1>1, <3>2
  <2>2. access[m].dst # NULL /\ access[m].dst = access[n].dst /\ access[m].accessor = access[n].accessor
    BY <1>2 DEF Queued, SameQueue
  <2> HIDE DEF OrderlyWorkloads
  <2> QED BY <1>1, <2>1, <2>2
<1>4. PICK u \in Group(n) : Tile[u] = Tile[t]
  BY <1>3
<1>5. Root(u) = n /\ Root(t) = m
  BY <1>1, GroupFacts
<1>6. Key(u) = Key(t)
  BY <1>1, <1>4, <1>5 DEF Key, Acc, Dst, Queued, SameQueue
<1> QED BY <1>4, <1>6

LEMMA InvFacts ==
    ASSUME IInv, OInv
    PROVE  /\ FlushOrder /\ order \in Seq(Tasks)
           /\ FifoOrder /\ ProperCalls /\ Records /\ Blocked /\ QueueOrder /\ Caches
           /\ notifies \in SUBSET Notifies
           /\ write_task \in [Allocs -> Masters \cup {NULL}]
           /\ read_tasks \in [Allocs -> SUBSET Masters]
           /\ NULL \notin Tasks
  BY GroupFacts DEF IInv, OInv, Types, Waits, Used

(* When a task is over, so are the ones it had to wait for. *)
LEMMA OverBack ==
    ASSUME IInv, OInv, OrderlyWorkloads, NEW a \in Allocs, NEW m \in Flushed \ Silent, NEW n \in Flushed,
           Precedes(a, m, n), Over(n)
    PROVE  Over(m)
<1>1. FlushOrder /\ Blocked /\ QueueOrder
  BY DEF OInv
<1>2. Clear(m, n)
  BY <1>1, FlushedFacts DEF Blocked
<1>3. CASE Passed(m) /\ Queued(m, n)
  <2> SUFFICES ASSUME NEW t \in Group(m) PROVE state[t] \in Ended
    BY DEF Over
  <2>1. state[t] \in Emitted \cup {"INVALID"} /\ t \in Tasks /\ Root(t) = m
    BY <1>1, <1>3, FlushedFacts, GroupFacts
  <2>2. PICK u \in Group(n) : Key(u) = Key(t)
    BY <1>1, <1>3, SameTiles
  <2>3. u \in Tasks /\ Root(u) = n /\ state[u] \in Ended
    BY <1>1, FlushedFacts, GroupFacts DEF Over
  <2>4. Dst(t) = Dst(n) /\ Dst(t) # NULL
    BY <1>1, <1>3, <2>1, FlushedFacts DEF Dst, Queued, SameQueue
  <2>5. state[t] # "RUNNING"
    BY <1>1, <2>1, <2>2, <2>3, <2>4 DEF QueueOrder, Precedes
  <2> QED BY <2>1, <2>5 DEF Emitted, Ended
<1> QED BY <1>2, <1>3 DEF Clear

(* What has to wait for k, and k is over, or in the same queues, or does   *)
(* not notify when it ends, is clear of what k had to wait for.            *)
LEMMA Through ==
    ASSUME IInv, OInv, OrderlyWorkloads, NEW a \in Allocs, NEW m \in Flushed \ Silent,
           NEW k \in Flushed, NEW n \in Flushed, m = k \/ Precedes(a, m, k),
           Passed(k), Over(k) \/ Queued(k, n) \/ k \in Silent
    PROVE  Clear(m, n)
<1>1. FlushOrder /\ Blocked
  BY DEF OInv
<1>2. CASE m = k
  BY <1>2 DEF Clear
<1>3. CASE Precedes(a, m, k)
  <2>1. Clear(m, k)
    BY <1>1, <1>3 DEF Blocked
  <2>2. CASE Over(k)
    BY <1>3, <2>2, OverBack DEF Clear
  <2>3. CASE Queued(k, n)
    BY <2>1, <2>3 DEF Clear, Queued, SameQueue
  <2>4. CASE k \in Silent
    <3>1. Dst(k) = NULL
      BY <1>1, <2>4, FlushedFacts
    <3> QED BY <2>1, <3>1 DEF Clear, Queued
  <2> QED BY <2>2, <2>3, <2>4
<1> QED BY <1>2, <1>3

-----------------------------------------------------------------------------
(* Steps that leave a part alone *)

(* What a step that flushes nothing does to the states of tasks *)
Advances ==
    /\ order' = order /\ access' = access /\ workload' = workload
    /\ \A t \in Tasks :
          \/ state'[t] = state[t]
          \/ state[t] = "FLUSHED" /\ state'[t] = "READY"
          \/ state[t] \in {"READY", "NEW"} /\ state'[t] = "RUNNING"
          \/ state[t] = "RUNNING" /\ state'[t] = "DONE"
          \/ state[t] = "DONE" /\ state'[t] = "FINISH"
          \/ state[t] = "FINISH" /\ state'[t] = "INVALID"
          \/ state[t] \in {"NONE", "DEAD"} /\ state'[t] \in {"DEAD", "INVALID"}

(* Steps that set up nothing and end nothing *)
Quiet ==
    /\ order' = order /\ access' = access /\ workload' = workload
    /\ \A t \in Tasks :
          \/ state'[t] = state[t]
          \/ state[t] = "DONE" /\ state'[t] = "FINISH"
          \/ state[t] = "FINISH" /\ state'[t] = "INVALID"
          \/ state[t] \in {"NONE", "DEAD"} /\ state'[t] \in {"DEAD", "INVALID"}

LEMMA QuietAdvances == Quiet => Advances
  BY DEF Quiet, Advances

LEMMA SameOrder ==
    ASSUME order' = order, access' = access
    PROVE  /\ Flushed' = Flushed
           /\ \A m, n : /\ Before(m, n)' <=> Before(m, n)
                        /\ UpTo(m, n)' <=> UpTo(m, n)
                        /\ Queued(m, n)' <=> Queued(m, n)
                        /\ SameQueue(m, n)' <=> SameQueue(m, n)
           /\ \A m : Dst(m)' = Dst(m) /\ Acc(m)' = Acc(m) /\ Key(m)' = Key(m) /\ Accessed(m)' = Accessed(m)
           /\ \A a, m : (Writes(m, a)' <=> Writes(m, a)) /\ (Touches(m, a)' <=> Touches(m, a))
           /\ \A a, m, n : Precedes(a, m, n)' <=> Precedes(a, m, n)
           /\ \A a, m, n : Foreign(m, a, n)' <=> Foreign(m, a, n)
<1>1. Flushed' = Flushed
  BY DEF Flushed
<1>2. \A m : Dst(m)' = Dst(m) /\ Acc(m)' = Acc(m) /\ Key(m)' = Key(m) /\ Accessed(m)' = Accessed(m)
  BY DEF Dst, Acc, Key, Accessed
<1>3. \A m, n : /\ Before(m, n)' <=> Before(m, n)
                /\ UpTo(m, n)' <=> UpTo(m, n)
                /\ Queued(m, n)' <=> Queued(m, n)
                /\ SameQueue(m, n)' <=> SameQueue(m, n)
  BY <1>2 DEF Before, UpTo, Queued, SameQueue
<1>4. \A a, m : (Writes(m, a)' <=> Writes(m, a)) /\ (Touches(m, a)' <=> Touches(m, a))
  BY <1>2 DEF Writes, Touches
<1>5. \A a, m, n : Precedes(a, m, n)' <=> Precedes(a, m, n)
  BY <1>1, <1>3, <1>4 DEF Precedes
<1>6. \A a, m, n : Foreign(m, a, n)' <=> Foreign(m, a, n)
  BY <1>2, <1>4 DEF Foreign
<1> QED BY <1>1, <1>2, <1>3, <1>4, <1>5, <1>6

(* What has passed stays passed. *)
LEMMA Progress ==
    ASSUME IInv, FlushOrder, Advances
    PROVE  /\ \A t \in Tasks : state[t] \in Ended => state'[t] \in Ended
           /\ \A m \in Flushed : /\ Over(m) => Over(m)'
                                 /\ Passed(m) => Passed(m)'
                                 /\ SetUp(m) => SetUp(m)'
           /\ \A m \in Flushed : \A n : Clear(m, n) => Clear(m, n)'
<1>1. \A t \in Tasks : state[t] \in Ended => state'[t] \in Ended
  BY DEF Advances, Ended
<1>2. \A m \in Flushed : Over(m) => Over(m)'
  BY <1>1, FlushedFacts DEF Over
<1>3. \A m \in Flushed : m \in Tasks /\ state[m] \notin {"NONE", "DEAD"}
  BY FlushedFacts DEF FlushOrder
<1>4. \A m \in Flushed : (Passed(m) => Passed(m)') /\ (SetUp(m) => SetUp(m)')
  BY <1>3 DEF Passed, SetUp, Advances, Emitted
<1>5. \A m, n : Queued(m, n)' <=> Queued(m, n)
  BY SameOrder DEF Advances
<1> QED BY <1>1, <1>2, <1>4, <1>5 DEF Clear

LEMMA FlushOrderStays ==
    ASSUME IInv, FlushOrder, Advances,
           \A m \in Flushed : state'[m] = "INVALID" /\ state[m] # "INVALID" => Over(m)'
    PROVE  FlushOrder'
<1>1. order' = order /\ access' = access /\ workload' = workload /\ Flushed' = Flushed
  BY SameOrder DEF Advances
<1>2. \A i, j \in DOMAIN order' : order'[i] = order'[j] => i = j
  BY <1>1 DEF FlushOrder
<1>3. ASSUME NEW m \in Flushed
      PROVE  /\ m \in Masters /\ access'[m] \in workload'[m]
             /\ \A t \in Group(m) : state'[t] \notin {"NONE", "DEAD"}
             /\ state'[m] = "INVALID" => Over(m)'
  <2>1. \A t \in Group(m) : t \in Tasks /\ state[t] \notin {"NONE", "DEAD"}
    BY FlushedFacts DEF FlushOrder
  <2>2. \A t \in Group(m) : state'[t] \notin {"NONE", "DEAD"}
    BY <2>1 DEF Advances
  <2>3. state[m] = "INVALID" => Over(m)'
    BY Progress DEF FlushOrder
  <2> QED BY <1>1, <2>2, <2>3 DEF FlushOrder
<1>4. ASSUME NEW m \in Masters, state'[m] \in {"FLUSHED", "READY"} \cup Emitted
      PROVE  m \in Flushed
  <2>1. m \in Tasks /\ state[m] # "NEW"
    BY GroupFacts DEF IInv, Groups
  <2>2. state[m] \in {"FLUSHED", "READY"} \cup Emitted
    BY <1>4, <2>1 DEF Advances, Emitted
  <2> QED BY <2>2 DEF FlushOrder
<1> QED BY <1>1, <1>2, <1>3, <1>4 DEF FlushOrder

LEMMA CallsStay ==
    ASSUME IInv, FlushOrder, ProperCalls, Advances,
           \A i \in DOMAIN calls' : \/ \E j \in DOMAIN calls : calls'[i] = calls[j]
                                  \/ \E f : calls'[i] = f /\ Proper(f)'
    PROVE  ProperCalls'
<1> SUFFICES ASSUME NEW f, \E j \in DOMAIN calls : f = calls[j]
             PROVE  Proper(f)'
  BY DEF ProperCalls
<1>1. Proper(f) /\ f.task \in Masters /\ Live(f.task)
  BY DEF ProperCalls, IInv, Stack
<1>2. Passed(f.task) \/ Over(f.task) => f.task \in Flushed
  <2>1. f.task \in Tasks /\ f.task \in Group(f.task)
    BY <1>1, GroupFacts
  <2>2. Passed(f.task) \/ Over(f.task) => state[f.task] \in Emitted
    BY <1>1, <2>1 DEF Passed, Over, Live, Ended, Emitted
  <2> QED BY <1>1, <2>2 DEF FlushOrder
<1>3. /\ \A m \in Flushed : (Over(m) => Over(m)') /\ (Passed(m) => Passed(m)')
      /\ Silent' = Silent
  BY Progress DEF Silent
<1> QED BY <1>1, <1>2, <1>3 DEF Proper

LEMMA RecordsStay ==
    ASSUME IInv, FlushOrder, Records, Advances, UNCHANGED <<write_task, read_tasks>>,
           \A m \in Flushed : SetUp(m)' => SetUp(m)
    PROVE  Records'
<1>1. /\ Flushed' = Flushed /\ access' = access
      /\ \A m, n : UpTo(m, n)' <=> UpTo(m, n)
      /\ \A a, m : (Writes(m, a)' <=> Writes(m, a)) /\ (Touches(m, a)' <=> Touches(m, a))
      /\ \A m \in Flushed : (Over(m) => Over(m)') /\ (SetUp(m)' <=> SetUp(m))
      /\ Silent' = Silent
  BY SameOrder, Progress DEF Advances, Silent
<1>2. ASSUME NEW a \in Allocs, NEW w, NEW r, Recorded(a, w, r) PROVE Recorded(a, w, r)'
  BY <1>1, <1>2 DEF Recorded
<1> QED BY <1>2 DEF Records

LEMMA BlockedStays ==
    ASSUME IInv, FlushOrder, Blocked, Advances, notifies \subseteq notifies',
           \A m \in Flushed : /\ Passed(m)' => Passed(m)
                              /\ state'[m] = "READY" => state[m] = "READY"
    PROVE  Blocked'
<1>1. /\ Flushed' = Flushed
      /\ \A m, n : Queued(m, n)' <=> Queued(m, n)
      /\ \A a, m, n : Precedes(a, m, n)' <=> Precedes(a, m, n)
      /\ \A m \in Flushed : \A n : Clear(m, n) => Clear(m, n)'
      /\ Silent' = Silent
  BY SameOrder, Progress DEF Advances, Silent
<1>2. \A a, m, n : WaitsFor(a, m, n) => WaitsFor(a, m, n)'
  BY <1>1 DEF WaitsFor
<1> QED BY <1>1, <1>2 DEF Blocked

LEMMA QueueOrderStays ==
    ASSUME IInv, FlushOrder, QueueOrder, Advances, queue' = queue,
           \A t \in Tasks : Root(t) \notin Display => (state'[t] = "RUNNING" => state[t] = "RUNNING"),
           \A t \in Tasks : Dst(t) # NULL /\ Root(t) \in Flushed => (state'[t] \in Ended => state[t] \in Ended)
    PROVE  QueueOrder'
<1>1. /\ Flushed' = Flushed
      /\ \A m, n : Before(m, n)' <=> Before(m, n)
      /\ \A t : Key(t)' = Key(t) /\ Dst(t)' = Dst(t) /\ Root(t)' = Root(t)
      /\ Keys' = Keys
  BY SameOrder DEF Advances, Root, Keys, Tiles
<1>2. ASSUME NEW k \in Keys, NEW i \in DOMAIN queue[k], NEW j \in DOMAIN queue[k], i < j,
             NEW t, NEW u, t = queue[k][i], u = queue[k][j]
      PROVE  Before(Root(t), Root(u))'
  <2>1. Before(Root(t), Root(u))
    BY <1>2 DEF QueueOrder
  <2> QED BY <1>1, <2>1 DEF Before, Root
<1>3. ASSUME NEW t \in Tasks, NEW u \in Tasks, Before(Root(t), Root(u)), Key(t) = Key(u), Dst(t) # NULL,
             state'[t] = "RUNNING"
      PROVE  state'[u] \notin Ended
  <2>1. Root(t) \in Flushed /\ Root(u) \in Flushed
    BY <1>3 DEF Before, Flushed
  <2>2. Dst(u) # NULL
    BY <1>3 DEF Key
  <2>3. Root(t) \notin Display
    <3>1. Dst(Root(t)) = Dst(t)
      BY <2>1, FlushedFacts DEF Dst
    <3> QED BY <1>3, <2>1, <3>1, FlushedFacts
  <2> QED BY <1>3, <2>1, <2>2, <2>3 DEF QueueOrder
<1>4. \A t \in Tasks : state'[t] = "RUNNING" /\ Root(t) \notin Display =>
          \E i \in DOMAIN queue'[Key(t)] : queue'[Key(t)][i] = t
  BY DEF QueueOrder
<1> QED BY <1>1, <1>2, <1>3, <1>4 DEF QueueOrder

LEMMA CachesStay ==
    ASSUME IInv, FlushOrder, Caches, Advances, UNCHANGED dirty,
           flush \cap {m \in Flushed : ~ Over(m)'} \subseteq flush',
           \A m \in Flushed : Dst(m) # NULL => (SetUp(m)' => SetUp(m)) /\ (Over(m)' => Over(m))
    PROVE  Caches'
<1>1. /\ Flushed' = Flushed /\ access' = access
      /\ \A m, n : (Before(m, n)' <=> Before(m, n)) /\ (Queued(m, n)' <=> Queued(m, n))
      /\ \A m : Dst(m)' = Dst(m) /\ Acc(m)' = Acc(m)
      /\ \A a, m, n : Foreign(m, a, n)' <=> Foreign(m, a, n)
      /\ \A m \in Flushed : (Over(m) => Over(m)') /\ (SetUp(m) => SetUp(m)')
      /\ Silent' = Silent
  BY SameOrder, Progress DEF Advances, Silent
<1>2. \A v, w \in Flushed : Successor(v, w) => Successor(v, w)'
  BY <1>1 DEF Successor
<1>3. \A v \in Flushed : \A a \in Allocs : Flusher(a, v) => Flusher(a, v)'
  <2> SUFFICES ASSUME NEW v \in Flushed, NEW a \in Allocs, Flusher(a, v) PROVE Flusher(a, v)'
    OBVIOUS
  <2>1. a # NULL
    BY GroupFacts
  <2> QED BY <1>1, <2>1 DEF Flusher
<1> QED BY <1>1, <1>2, <1>3 DEF Caches

(* fifo *)

LEMMA Concatenated ==
    ASSUME NEW S, NEW s \in Seq(S), NEW r \in Seq(S)
    PROVE  /\ s \o r \in Seq(S)
           /\ \A i \in DOMAIN s : i \in DOMAIN (s \o r) /\ (s \o r)[i] = s[i]
           /\ \A i \in DOMAIN (s \o r) \ DOMAIN s : \E j \in DOMAIN r : (s \o r)[i] = r[j]
<1> DEFINE k == Len(s)
           l == Len(r)
           q == s \o r
<1>1. /\ q \in Seq(S) /\ Len(q) = k + l
      /\ \A i \in 1..k + l : q[i] = IF i <= k THEN s[i] ELSE r[i - k]
  BY ConcatProperties
<1>2. k \in Nat /\ l \in Nat /\ DOMAIN s = 1..k /\ DOMAIN r = 1..l /\ DOMAIN q = 1..k + l
  BY <1>1, LenProperties
<1> HIDE DEF k, l, q
<1>3. /\ \A i \in 1..k : i \in 1..k + l /\ i <= k
      /\ \A i \in 1..k + l : i \in 1..k \/ (~ (i <= k) /\ i - k \in 1..l)
  BY <1>2
<1> QED BY <1>1, <1>2, <1>3 DEF q

(* What is pushed is not FLUSHED. *)
LEMMA FifoGrows ==
    ASSUME IInv, FlushOrder, FifoOrder, Advances, fifo' \in Seq(Tasks),
           \A i \in DOMAIN fifo : i \in DOMAIN fifo' /\ fifo'[i] = fifo[i],
           \A i \in DOMAIN fifo' \ DOMAIN fifo : state'[fifo'[i]] # "FLUSHED",
           \A t \in Tasks : state'[t] = "FLUSHED" <=> state[t] = "FLUSHED"
    PROVE  FifoOrder'
<1> DEFINE r == fifo'
<1>1. /\ fifo \in Seq(Tasks) /\ r \in Seq(Tasks)
      /\ \A i \in DOMAIN fifo : i \in DOMAIN r /\ r[i] = fifo[i]
  BY DEF IInv, Incoming
<1>2. /\ Flushed' = Flushed /\ \A m, n : Before(m, n)' <=> Before(m, n)
      /\ \A m, n : Before(m, n) => m \in Flushed /\ n \in Flushed
      /\ \A m \in Flushed : m \in Tasks
  BY SameOrder, FlushedFacts, OrderFacts DEF Advances, IInv, Types
<1>3. \A p \in DOMAIN r : r[p] \in Tasks
  BY <1>1, ElementOfSeq, LenProperties
<1>4. \A p \in DOMAIN r : state'[r[p]] = "FLUSHED" => p \in DOMAIN fifo /\ state[fifo[p]] = "FLUSHED"
  BY <1>1, <1>3
<1> HIDE DEF r
<1>5. \A m \in Flushed : state'[m] = "FLUSHED" => \E p \in DOMAIN r : r[p] = m
  BY <1>1, <1>2 DEF FifoOrder
<1>6. ASSUME NEW p \in DOMAIN r, NEW q \in DOMAIN r, p < q, state'[r[p]] = "FLUSHED",
             state'[r[q]] = "FLUSHED", NEW m, NEW n, m = r[p], n = r[q]
      PROVE  Before(m, n)'
  <2>1. Before(m, n)
    BY <1>1, <1>4, <1>6 DEF FifoOrder
  <2> QED BY <1>2, <2>1
<1>7. \A m, n : Before(m, n)' /\ SetUp(n)' => SetUp(m)'
  BY <1>2 DEF FifoOrder, SetUp
<1> QED BY <1>2, <1>5, <1>6, <1>7 DEF FifoOrder, r

LEMMA FifoPulled ==
    ASSUME IInv, FlushOrder, FifoOrder, Advances, Pull,
           \A t \in Tasks : state'[t] = "FLUSHED" <=> state[t] = "FLUSHED" /\ t # Head(fifo)
    PROVE  /\ FifoOrder'
           /\ \A n \in Flushed : n = Head(fifo) /\ state[n] = "FLUSHED" =>
                 \A m \in Flushed : Before(m, n) <=> SetUp(m)
<1> DEFINE l == Len(fifo)
           r == fifo'
           h == Head(fifo)
<1>1. /\ l \in Nat /\ l > 0 /\ DOMAIN fifo = 1..l
      /\ h = fifo[1] /\ h \in Tasks /\ fifo \in Seq(Tasks)
      /\ r \in Seq(Tasks) /\ DOMAIN r = 1..l - 1
      /\ \A i \in 1..l - 1 : r[i] = fifo[i + 1]
  BY HeadAndTail DEF IInv, Incoming, Pull
<1> HIDE DEF l, r, h
<1>2. /\ Flushed' = Flushed /\ \A m, n : Before(m, n)' <=> Before(m, n)
      /\ \A m, n : Before(m, n) => m \in Flushed /\ n \in Flushed /\ ~ Before(n, m) /\ m # n
      /\ \A m, n \in Flushed : m = n \/ Before(m, n) \/ Before(n, m)
      /\ \A m \in Flushed : m \in Tasks
  BY SameOrder, FlushedFacts, OrderFacts DEF Advances, IInv, Types
<1>3. /\ \A i \in DOMAIN r : i + 1 \in DOMAIN fifo /\ r[i] = fifo[i + 1] /\ r[i] \in Tasks
      /\ \A i \in DOMAIN fifo : i # 1 => i - 1 \in DOMAIN r /\ r[i - 1] = fifo[i] /\ 1 < i
      /\ \A i, j \in DOMAIN r : i < j => i + 1 < j + 1
      /\ 1 \in DOMAIN fifo
  <2>1. \A i \in 1..l : fifo[i] \in Tasks
    BY <1>1, ElementOfSeq DEF l
  <2>2. /\ \A i \in 1..l - 1 : i + 1 \in 1..l
        /\ \A i \in 1..l : i # 1 => i - 1 \in 1..l - 1 /\ i - 1 + 1 = i /\ 1 < i
        /\ \A i, j \in 1..l - 1 : i < j => i + 1 < j + 1
        /\ 1 \in 1..l
    BY <1>1
  <2> QED BY <1>1, <2>1, <2>2
<1>4. \A m \in Flushed : state'[m] = "FLUSHED" => \E p \in DOMAIN r : r[p] = m
  <2> SUFFICES ASSUME NEW m \in Flushed, state'[m] = "FLUSHED" PROVE \E p \in DOMAIN r : r[p] = m
    OBVIOUS
  <2>1. PICK p \in DOMAIN fifo : fifo[p] = m
    BY <1>2 DEF FifoOrder, h
  <2>2. p # 1
    BY <1>1, <1>2, <2>1 DEF h
  <2> QED BY <1>3, <2>1, <2>2
<1>5. ASSUME NEW p \in DOMAIN r, NEW q \in DOMAIN r, p < q, state'[r[p]] = "FLUSHED",
             state'[r[q]] = "FLUSHED", NEW m, NEW n, m = r[p], n = r[q]
      PROVE  Before(m, n)'
  <2>1. Before(m, n)
    BY <1>3, <1>5 DEF FifoOrder
  <2> QED BY <1>2, <2>1
<1>6. ASSUME NEW n \in Flushed, n = h, state[n] = "FLUSHED", NEW m \in Flushed
      PROVE  Before(m, n) <=> SetUp(m)
  <2>1. ASSUME state[m] = "FLUSHED" PROVE ~ Before(m, n)
    <3>1. PICK p \in DOMAIN fifo : fifo[p] = m
      BY <2>1 DEF FifoOrder
    <3>2. CASE p = 1
      BY <1>1, <1>2, <1>6, <3>1, <3>2
    <3>3. CASE p # 1
      BY <1>1, <1>2, <1>3, <1>6, <2>1, <3>1, <3>3 DEF FifoOrder
    <3> QED BY <3>2, <3>3
  <2>2. ASSUME state[m] # "FLUSHED" PROVE Before(m, n)
    <3>1. ~ Before(n, m)
      BY <1>6, <2>2 DEF FifoOrder, SetUp
    <3> QED BY <1>2, <1>6, <2>2, <3>1
  <2> QED BY <2>1, <2>2 DEF SetUp
<1>7. \A m, n : Before(m, n)' /\ SetUp(n)' => SetUp(m)'
  <2> SUFFICES ASSUME NEW m \in Flushed, NEW n \in Flushed, Before(m, n), state'[n] # "FLUSHED"
               PROVE  state'[m] # "FLUSHED"
    BY <1>2 DEF SetUp
  <2>1. CASE n = h /\ state[n] = "FLUSHED"
    BY <1>2, <1>6, <2>1 DEF SetUp, h
  <2>2. CASE ~ (n = h /\ state[n] = "FLUSHED")
    BY <1>2, <2>2 DEF FifoOrder, SetUp, h
  <2> QED BY <2>1, <2>2
<1> QED BY <1>2, <1>4, <1>5, <1>6, <1>7 DEF FifoOrder, r, h

-----------------------------------------------------------------------------
(* Steps that set up nothing and end nothing *)

LEMMA QuietFacts ==
    ASSUME IInv, FlushOrder, Quiet
    PROVE  /\ \A m \in Flushed : /\ SetUp(m)' => SetUp(m)
                                 /\ Passed(m)' => Passed(m)
                                 /\ Over(m)' => Over(m)
                                 /\ state'[m] = "READY" => state[m] = "READY"
           /\ \A t \in Tasks : state'[t] = "RUNNING" => state[t] = "RUNNING"
           /\ \A t \in Tasks : Root(t) \in Flushed => (state'[t] \in Ended => state[t] \in Ended)
           /\ \A t \in Tasks : state'[t] = "FLUSHED" <=> state[t] = "FLUSHED"
<1>1. \A m \in Flushed : \A t \in Group(m) : t \in Tasks /\ state[t] \notin {"NONE", "DEAD"}
  BY FlushedFacts DEF FlushOrder
<1>2. \A m \in Flushed : m \in Group(m)
  BY FlushedFacts
<1>3. \A m \in Flushed : \A t \in Group(m) : state'[t] \in Ended => state[t] \in Ended
  BY <1>1 DEF Quiet, Ended
<1>4. \A m \in Flushed : Over(m)' => Over(m)
  BY <1>3 DEF Over
<1>5. ASSUME NEW m \in Flushed
      PROVE  /\ SetUp(m)' => SetUp(m)
             /\ Passed(m)' => Passed(m)
             /\ state'[m] = "READY" => state[m] = "READY"
  <2>1. m \in Tasks /\ state[m] \notin {"NONE", "DEAD"}
    BY <1>1, <1>2
  <2> QED BY <2>1 DEF Quiet, SetUp, Passed, Emitted
<1>6. \A t \in Tasks : Root(t) \in Flushed => (state'[t] \in Ended => state[t] \in Ended)
  BY <1>3, GroupFacts
<1>7. /\ \A t \in Tasks : state'[t] = "RUNNING" => state[t] = "RUNNING"
      /\ \A t \in Tasks : state'[t] = "FLUSHED" <=> state[t] = "FLUSHED"
  BY DEF Quiet
<1> QED BY <1>4, <1>5, <1>6, <1>7

LEMMA QuietStep ==
    ASSUME IInv, OInv, Quiet, UNCHANGED <<queue, dirty, notifies, write_task, read_tasks, flush>>,
           \A m \in Flushed : state'[m] = "INVALID" /\ state[m] # "INVALID" => Over(m)',
           FifoOrder', ProperCalls'
    PROVE  OInv'
<1>1. /\ FlushOrder /\ Records /\ Blocked /\ QueueOrder /\ Caches /\ Advances
  BY InvFacts, QuietAdvances
<1>2. FlushOrder'
  BY <1>1, FlushOrderStays
<1>3. Records' /\ Blocked'
  BY <1>1, QuietFacts, RecordsStay, BlockedStays
<1>4. QueueOrder'
  BY <1>1, QuietFacts, QueueOrderStays
<1>5. Caches'
  BY <1>1, QuietFacts, CachesStay
<1> QED BY <1>2, <1>3, <1>4, <1>5 DEF OInv

LEMMA FifoSame ==
    ASSUME IInv, OInv, Quiet, fifo' = fifo
    PROVE  FifoOrder'
<1>1. fifo \in Seq(Tasks)
  BY DEF IInv, Incoming
<1> QED BY <1>1, InvFacts, QuietFacts, QuietAdvances, FifoGrows

LEMMA SameState == ASSUME UNCHANGED <<order, access, workload, state>> PROVE Quiet
  BY DEF Quiet

LEMMA NothingHappens ==
    ASSUME IInv, OInv,
           UNCHANGED <<order, access, workload, state, fifo, queue, dirty, notifies, write_task,
                       read_tasks, flush>>,
           \A i \in DOMAIN calls' : \/ \E j \in DOMAIN calls : calls'[i] = calls[j]
                                  \/ \E f : calls'[i] = f /\ Proper(f)'
    PROVE  OInv'
<1>1. Quiet /\ Advances
  BY SameState, QuietAdvances
<1>2. FifoOrder' /\ ProperCalls'
  BY <1>1, FifoSame, CallsStay, InvFacts
<1> QED BY <1>1, <1>2, QuietStep

LEMMA OtherFrame == \A t, o : o \notin {"notifyRunning", "notifyFinish"} => Proper(Frame(o, t))'
  BY DEF Proper, Frame

LEMMA TickOrder == IInv /\ OInv /\ Tick => OInv'
<1> SUFFICES ASSUME IInv, OInv, Tick PROVE OInv'
  OBVIOUS
<1>1. UNCHANGED <<order, access, workload, state, fifo, queue, dirty, notifies, write_task,
                  read_tasks, flush, calls>>
  BY DEF Tick, taskVars, allocVars, mgrVars, engineVars, displayVars, clientVars
<1> QED BY <1>1, NothingHappens

LEMMA PullTimeoutOrder == IInv /\ OInv /\ PullTimeout => OInv'
<1> SUFFICES ASSUME IInv, OInv, PullTimeout PROVE OInv'
  OBVIOUS
<1>1. UNCHANGED <<order, access, workload, state, fifo, queue, dirty, notifies, write_task,
                  read_tasks, flush, calls>>
  BY DEF PullTimeout, taskVars, allocVars, mgrVars, engineVars, displayVars, clientVars
<1> QED BY <1>1, NothingHappens

LEMMA StartOrder == ASSUME IInv, OInv, NEW t \in Tasks, Start(t) PROVE OInv'
<1>1. UNCHANGED <<order, access, workload, state, fifo, queue, dirty, notifies, write_task,
                  read_tasks, flush, calls>>
  BY DEF Start, taskVars, allocVars, mgrVars, displayVars, clientVars
<1> QED BY <1>1, NothingHappens

LEMMA StutterOrder == IInv /\ OInv /\ UNCHANGED vars => OInv'
<1> SUFFICES ASSUME IInv, OInv, UNCHANGED vars PROVE OInv'
  OBVIOUS
<1>1. UNCHANGED <<order, access, workload, state, fifo, queue, dirty, notifies, write_task,
                  read_tasks, flush, calls>>
  BY DEF vars, taskVars, allocVars, mgrVars, engineVars, displayVars, clientVars
<1> QED BY <1>1, NothingHappens

(* A frame returns, or is replaced by another one. *)
LEMMA PoppedCalls ==
    ASSUME IInv, calls # << >>
    PROVE  /\ calls' = Below => \A i \in DOMAIN calls' : \E j \in DOMAIN calls : calls'[i] = calls[j]
           /\ \A f \in Frames : calls' = Append(Below, f) =>
                 \A i \in DOMAIN calls' : (\E j \in DOMAIN calls : calls'[i] = calls[j]) \/ calls'[i] = f
           /\ \A f \in Frames : calls' = Append(calls, f) =>
                 \A i \in DOMAIN calls' : (\E j \in DOMAIN calls : calls'[i] = calls[j]) \/ calls'[i] = f
<1> DEFINE n == Len(calls)
<1>1. /\ calls \in Seq(Frames) /\ n \in Nat /\ n > 0 /\ DOMAIN calls = 1..n
      /\ DOMAIN Below = 1..n - 1 /\ \A i \in 1..n - 1 : Below[i] = calls[i]
  BY BelowFacts DEF IInv, Stack
<1>2. ASSUME NEW f \in Frames
      PROVE  /\ DOMAIN Append(Below, f) = 1..n /\ Append(Below, f)[n] = f
             /\ \A i \in 1..n - 1 : Append(Below, f)[i] = calls[i]
             /\ DOMAIN Append(calls, f) = 1..n + 1 /\ Append(calls, f)[n + 1] = f
             /\ \A i \in 1..n : Append(calls, f)[i] = calls[i]
  <2>1. /\ DOMAIN Append(Below, f) = 1..n /\ Append(Below, f)[n] = f
        /\ \A i \in 1..n - 1 : Append(Below, f)[i] = calls[i]
    <3>1. calls \in Seq(Frames) /\ calls # << >>
      BY <1>1
    <3> QED BY ONLY <3>1, f \in Frames, Replaced DEF n
  <2>2. /\ DOMAIN Append(calls, f) = 1..n + 1 /\ Append(calls, f)[n + 1] = f
        /\ \A i \in 1..n : Append(calls, f)[i] = calls[i]
    BY <1>1, <1>2, Appended
  <2> QED BY <2>1, <2>2
<1> HIDE DEF n
<1>3. /\ \A i \in 1..n - 1 : i \in 1..n
      /\ \A i \in 1..n : i \in 1..n - 1 \/ i = n
      /\ \A i \in 1..n + 1 : i \in 1..n \/ i = n + 1
  BY <1>1
<1> QED BY <1>1, <1>2, <1>3

LEMMA ReturnOrder == IInv /\ OInv /\ (KeepBlocked \/ NotifyReturn) => OInv'
<1> SUFFICES ASSUME IInv, OInv, KeepBlocked \/ NotifyReturn PROVE OInv'
  OBVIOUS
<1>1. UNCHANGED <<order, access, workload, state, fifo, queue, dirty, notifies, write_task,
                  read_tasks, flush>> /\ calls # << >> /\ calls' = Below
  BY DEF KeepBlocked, NotifyReturn, taskVars, allocVars, timeVars, engineVars, displayVars, clientVars
<1> QED BY <1>1, NothingHappens, PoppedCalls

LEMMA TimedEmitOrder == IInv /\ OInv /\ TimedEmit => OInv'
<1> SUFFICES ASSUME IInv, OInv, TimedEmit PROVE OInv'
  OBVIOUS
<1> DEFINE f == Frame("checkEmit", Top.task)
<1>1. UNCHANGED <<order, access, workload, state, fifo, queue, dirty, notifies, write_task,
                  read_tasks, flush>> /\ calls # << >> /\ calls' = Append(Below, f)
  BY DEF TimedEmit, taskVars, allocVars, timeVars, engineVars, displayVars, clientVars
<1>2. f \in Frames
  BY <1>1, BelowFacts DEF IInv, Stack, Frames, Frame
<1>3. \A g : g = f => Proper(g)'
  BY OtherFrame
<1> HIDE DEF f
<1>4. \A i \in DOMAIN calls' : (\E j \in DOMAIN calls : calls'[i] = calls[j]) \/ calls'[i] = f
  BY <1>1, <1>2, PoppedCalls
<1>5. \A i \in DOMAIN calls' : \/ \E j \in DOMAIN calls : calls'[i] = calls[j]
                               \/ \E g : calls'[i] = g /\ Proper(g)'
  BY <1>3, <1>4
<1> QED BY <1>1, <1>5, NothingHappens

LEMMA HandleTimedEmitsOrder == IInv /\ OInv /\ HandleTimedEmits => OInv'
<1> SUFFICES ASSUME IInv, OInv, HandleTimedEmits PROVE OInv'
  OBVIOUS
<1>1. UNCHANGED <<order, access, workload, state, fifo, queue, dirty, notifies, write_task,
                  read_tasks, flush>>
  BY DEF HandleTimedEmits, taskVars, allocVars, engineVars, displayVars, clientVars
<1>2. \A i \in DOMAIN calls' : \E t : calls'[i] = Frame("timedEmit", t)
  BY DEF HandleTimedEmits
<1>3. \A i \in DOMAIN calls' : \E f : calls'[i] = f /\ Proper(f)'
  BY <1>2, OtherFrame
<1> QED BY <1>1, <1>3, NothingHappens

LEMMA DeleteOrder == IInv /\ OInv /\ Delete => OInv'
<1> SUFFICES ASSUME IInv, OInv, Delete PROVE OInv'
  OBVIOUS
<1> DEFINE h == Head(fifo)
<1>1. /\ state[h] = "DEAD" /\ state' = [state EXCEPT ![h] = "INVALID"] /\ Pull
      /\ UNCHANGED <<order, access, workload, queue, dirty, notifies, write_task, read_tasks, flush, calls>>
  BY DEF Delete, taskVars, allocVars, timeVars, engineVars, displayVars, clientVars
<1>2. h \in Tasks /\ state \in [Tasks -> TaskStates]
  BY <1>1, Pulled DEF IInv, Types
<1> HIDE DEF h
<1>3. \A t \in Tasks : state'[t] = state[t] \/ (state[t] = "DEAD" /\ state'[t] = "INVALID" /\ t = h)
  BY <1>1, <1>2
<1>4. Quiet /\ Advances
  BY <1>1, <1>3, QuietAdvances DEF Quiet
<1>5. \A m \in Flushed : m \in Tasks /\ state[m] # "DEAD"
  BY InvFacts, FlushedFacts DEF FlushOrder
<1>6. \A t \in Tasks : state'[t] = "FLUSHED" <=> state[t] = "FLUSHED" /\ t # h
  BY <1>1, <1>2
<1>7. FifoOrder'
  BY <1>1, <1>4, <1>6, InvFacts, FifoPulled DEF h
<1>8. ProperCalls'
  BY <1>1, <1>4, InvFacts, CallsStay
<1> QED BY <1>1, <1>3, <1>4, <1>5, <1>7, <1>8, QuietStep

LEMMA DiscardOrder == ASSUME IInv, OInv, NEW m \in Masters, Discard(m) PROVE OInv'
<1>1. /\ state[m] = "NONE"
      /\ state' = [t \in Tasks |-> IF t \in Group(m) THEN "DEAD" ELSE state[t]]
      /\ UNCHANGED <<order, access, workload, queue, dirty, notifies, write_task, read_tasks, flush, calls>>
  BY DEF Discard, allocVars, engineVars, clientVars
<1>2. PICK s \in [1..Cardinality(SlavesOf(m)) -> SlavesOf(m)] : fifo' = fifo \o s \o <<m>>
  BY DEF Discard
<1>3. /\ m \in Tasks /\ m \in Group(m) /\ SlavesOf(m) \subseteq Tasks /\ SlavesOf(m) \subseteq Group(m)
      /\ \A t \in Group(m) : t \in Tasks /\ state[t] = "NONE"
      /\ Cardinality(SlavesOf(m)) \in Nat
  <2>1. /\ m \in Tasks /\ m \in Group(m) /\ Group(m) \subseteq Tasks
        /\ SlavesOf(m) \subseteq Tasks \ Masters /\ SlavesOf(m) \subseteq Group(m)
        /\ \A t \in Group(m) : t # m => Root(t) = m /\ t \in Tasks \ Masters /\ Master[t] = m
    BY GroupFacts
  <2>2. Cardinality(SlavesOf(m)) \in Nat
    BY FiniteGroups, FS_CardinalityType
  <2> QED BY <1>1, <2>1, <2>2 DEF IInv, Groups
<1>4. \A t \in Tasks : state'[t] = state[t] \/ (state[t] = "NONE" /\ state'[t] = "DEAD")
  BY <1>1, <1>3
<1>5. Quiet /\ Advances
  BY <1>1, <1>4, QuietAdvances DEF Quiet
<1>6. \A n \in Flushed : n \in Tasks /\ state[n] # "NONE"
  BY InvFacts, FlushedFacts DEF FlushOrder
<1>7. /\ fifo' \in Seq(Tasks)
      /\ \A i \in DOMAIN fifo : i \in DOMAIN fifo' /\ fifo'[i] = fifo[i]
      /\ \A i \in DOMAIN fifo' \ DOMAIN fifo : fifo'[i] \in Group(m)
  <2>1. /\ s \in Seq(Tasks) /\ <<m>> \in Seq(Tasks) /\ fifo \in Seq(Tasks)
        /\ \A i \in DOMAIN s : s[i] \in SlavesOf(m)
        /\ \A i \in DOMAIN <<m>> : <<m>>[i] = m
    <3> DEFINE k == Cardinality(SlavesOf(m))
    <3>1. s \in [1..k -> Tasks] /\ k \in Nat /\ \A i \in DOMAIN s : s[i] \in SlavesOf(m)
      BY <1>3
    <3> HIDE DEF k
    <3>2. s \in Seq(Tasks)
      BY <3>1
    <3> QED BY <1>3, <3>1, <3>2 DEF IInv, Incoming
  <2> DEFINE q == fifo \o s
  <2>2. /\ q \in Seq(Tasks) /\ \A i \in DOMAIN fifo : i \in DOMAIN q /\ q[i] = fifo[i]
        /\ \A i \in DOMAIN q \ DOMAIN fifo : \E j \in DOMAIN s : q[i] = s[j]
    BY ONLY <2>1, Concatenated DEF q
  <2>3. fifo' = q \o <<m>>
    BY <1>2
  <2> HIDE DEF q
  <2>4. /\ fifo' \in Seq(Tasks) /\ \A i \in DOMAIN q : i \in DOMAIN fifo' /\ fifo'[i] = q[i]
        /\ \A i \in DOMAIN fifo' \ DOMAIN q : \E j \in DOMAIN <<m>> : fifo'[i] = <<m>>[j]
    BY <2>1, <2>2, <2>3, Concatenated
  <2> QED BY <1>3, <2>1, <2>2, <2>4
<1>8. /\ \A i \in DOMAIN fifo' \ DOMAIN fifo : state'[fifo'[i]] # "FLUSHED"
      /\ \A t \in Tasks : state'[t] = "FLUSHED" <=> state[t] = "FLUSHED"
  BY <1>1, <1>3, <1>7
<1>9. FifoOrder'
  BY <1>5, <1>7, <1>8, InvFacts, FifoGrows
<1>10. ProperCalls'
  BY <1>1, <1>5, InvFacts, CallsStay
<1> QED BY <1>1, <1>4, <1>5, <1>6, <1>9, <1>10, QuietStep

LEMMA FinishOrder == IInv /\ OInv /\ Finish => OInv'
<1> SUFFICES ASSUME IInv, OInv, Finish PROVE OInv'
  OBVIOUS
<1> DEFINE h == Head(fifo)
           m == Root(h)
<1>1. /\ state[h] = "DONE" /\ state' = [state EXCEPT ![h] = "FINISH"] /\ Pull
      /\ UNCHANGED <<order, access, workload, queue, dirty, notifies, write_task, read_tasks, flush>>
      /\ calls' = << >> \/ calls' = <<Frame("shutdown", m), Frame("notifyFinish", m)>>
  BY DEF Finish, allocVars, timeVars, engineVars, displayVars, clientVars
<1>2. h \in Tasks /\ state \in [Tasks -> TaskStates] /\ IInv'
  BY <1>1, Pulled, FinishInv DEF IInv, Types
<1>3. calls' # << >> => \A t \in Group(m) : state'[t] = "FINISH"
  <2> SUFFICES ASSUME calls' = <<Frame("shutdown", m), Frame("notifyFinish", m)>>
               PROVE  \A t \in Group(m) : state'[t] = "FINISH"
    BY <1>1
  <2>1. 1 \in DOMAIN calls' /\ calls'[1].op = "shutdown" /\ calls'[1].task = m
    BY DEF Frame
  <2> HIDE DEF m
  <2>2. \A x : calls'[1].task = x => \A t \in Group(x) : state'[t] = "FINISH"
    BY <1>2, <2>1 DEF IInv, Stack, Group, SlavesOf
  <2> QED BY <2>1, <2>2
<1> HIDE DEF h
<1>4. \A t \in Tasks : state'[t] = state[t] \/ (state[t] = "DONE" /\ state'[t] = "FINISH")
  BY <1>1, <1>2
<1>5. Quiet /\ Advances
  BY <1>1, <1>4, QuietAdvances DEF Quiet
<1>6. \A t \in Tasks : state'[t] = "FLUSHED" <=> state[t] = "FLUSHED" /\ t # h
  BY <1>1, <1>2
<1>7. FifoOrder'
  BY <1>1, <1>5, <1>6, InvFacts, FifoPulled DEF h
<1>8. ASSUME calls' # << >>, NEW x, x = m PROVE Over(x)'
  BY <1>3, <1>8 DEF Over, Ended, Group, SlavesOf
<1>9. \A i \in DOMAIN calls' : \E g : calls'[i] = g /\ Proper(g)'
  <2>1. \A i \in DOMAIN calls' : calls'[i] = Frame("shutdown", m) \/ calls'[i] = Frame("notifyFinish", m)
    <3> HIDE DEF m
    <3> QED BY <1>1
  <2>2. \A x : Proper(Frame("shutdown", x))'
    BY OtherFrame
  <2>3. calls' # << >> => \A x : x = m => Proper(Frame("notifyFinish", x))'
    BY <1>8 DEF Proper, Frame
  <2>4. calls' = << >> => DOMAIN calls' = {}
    BY EmptySeq
  <2> HIDE DEF m
  <2> QED BY <2>1, <2>2, <2>3, <2>4
<1>10. ProperCalls'
  BY <1>5, <1>9, InvFacts, CallsStay
<1>11. \A n \in Flushed : n \in Tasks
  BY InvFacts, FlushedFacts
<1> QED BY <1>1, <1>4, <1>5, <1>7, <1>10, <1>11, QuietStep

LEMMA NotifyOrder == OrderlyWorkloads /\ IInv /\ OInv /\ Notify => OInv'
<1> SUFFICES ASSUME OrderlyWorkloads, IInv, OInv, Notify PROVE OInv'
  OBVIOUS
<1>1. PICK x \in Pending : /\ notifies' = notifies \ {x}
                           /\ calls' = calls \/ calls' = Append(calls, Frame("checkEmit", x.to))
  BY DEF Notify
<1>2. /\ UNCHANGED <<order, access, workload, state, fifo, queue, dirty, write_task, read_tasks, flush>>
      /\ calls # << >>
  BY DEF Notify, allocVars, timeVars, engineVars, displayVars, clientVars
<1>3. /\ x \in notifies /\ x.from = Top.task /\ x \in Notifies
      /\ \/ x.on = "RUNNING" /\ Top.op = "notifyRunning"
         \/ x.on = "FINISH" /\ Top.op = "notifyFinish"
  <2>1. notifies \in SUBSET Notifies
    BY InvFacts
  <2> QED BY <2>1 DEF Pending
<1>4. /\ Quiet /\ Advances /\ FlushOrder
  BY <1>2, SameState, QuietAdvances, InvFacts
<1>5. x.from \in Flushed
  BY <1>3, <1>4 DEF FlushOrder, IInv, Waits
<1>6. Proper(Top)
  <2>1. \E i \in DOMAIN calls : Top = calls[i]
    BY <1>2, BelowFacts DEF IInv, Stack
  <2> QED BY <2>1, InvFacts DEF ProperCalls
<1>7. ASSUME NEW n \in Flushed, x.on = "RUNNING" => Queued(x.from, n) \/ x.from \in Silent
      PROVE  Passed(x.from) /\ (Over(x.from) \/ Queued(x.from, n) \/ x.from \in Silent)
  BY <1>3, <1>4, <1>5, <1>6, <1>7, FlushedFacts DEF Proper
<1>8. Blocked'
  <2>1. /\ Flushed' = Flushed /\ Silent' = Silent
        /\ \A m, n : Queued(m, n)' <=> Queued(m, n)
        /\ \A a, m, n : Precedes(a, m, n)' <=> Precedes(a, m, n)
        /\ \A m \in Flushed : \A n : Clear(m, n) => Clear(m, n)'
    BY <1>4, SameOrder, Progress DEF Advances, Silent
  <2>2. ASSUME NEW a \in Allocs, NEW n \in Flushed, NEW m \in Flushed \ Silent, Precedes(a, m, n),
               state[n] = "READY"
        PROVE  Clear(m, n)' \/ WaitsFor(a, m, n)'
    <3>1. Clear(m, n) \/ WaitsFor(a, m, n)
      BY <2>2, InvFacts DEF Blocked
    <3>2. ASSUME WaitsFor(a, m, n) PROVE Clear(m, n) \/ WaitsFor(a, m, n)'
      <4>1. PICK y \in notifies : /\ y.to = n /\ (y.from = m \/ Precedes(a, m, y.from))
                                  /\ y.on = "RUNNING" => Queued(y.from, n) \/ y.from \in Silent
        BY <3>2 DEF WaitsFor
      <4>2. CASE y = x
        <5>1. Passed(x.from) /\ (Over(x.from) \/ Queued(x.from, n) \/ x.from \in Silent)
          BY <1>7, <4>1, <4>2
        <5> QED BY <1>5, <4>1, <4>2, <5>1, Through
      <4>3. CASE y # x
        BY <1>1, <2>1, <4>1, <4>3 DEF WaitsFor
      <4> QED BY <4>2, <4>3
    <3> QED BY <2>1, <2>2, <3>1, <3>2
  <2>3. \A n : (Passed(n)' <=> Passed(n)) /\ state'[n] = state[n]
    BY <1>2 DEF Passed
  <2>4. ASSUME NEW a \in Allocs, NEW n \in Flushed, NEW m \in Flushed \ Silent, Precedes(a, m, n), Passed(n)
        PROVE  Clear(m, n)'
    BY <2>1, <2>4, InvFacts DEF Blocked
  <2> QED BY <2>1, <2>2, <2>3, <2>4 DEF Blocked
<1>9. FifoOrder'
  BY <1>2, <1>4, FifoSame
<1>10. ProperCalls'
  <2> DEFINE f == Frame("checkEmit", x.to)
  <2>1. f \in Frames /\ \A g : g = f => Proper(g)'
    BY <1>3, OtherFrame DEF Frame, Frames, Notifies
  <2>2. calls' = calls \/ calls' = Append(calls, f)
    BY <1>1
  <2> HIDE DEF f
  <2>3. \A i \in DOMAIN calls' : (\E j \in DOMAIN calls : calls'[i] = calls[j]) \/ calls'[i] = f
    BY <1>2, <2>1, <2>2, PoppedCalls
  <2>4. \A i \in DOMAIN calls' : \/ \E j \in DOMAIN calls : calls'[i] = calls[j]
                                 \/ \E g : calls'[i] = g /\ Proper(g)'
    BY <2>1, <2>3
  <2> QED BY <1>4, <2>4, InvFacts, CallsStay
<1>11. FlushOrder'
  BY <1>2, <1>4, FlushOrderStays
<1>12. Records' /\ QueueOrder' /\ Caches'
  BY <1>2, <1>4, InvFacts, QuietFacts, RecordsStay, QueueOrderStays, CachesStay
<1> QED BY <1>8, <1>9, <1>10, <1>11, <1>12 DEF OInv

LEMMA ShutdownOrder == OrderlyWorkloads /\ IInv /\ OInv /\ Shutdown => OInv'
<1> SUFFICES ASSUME OrderlyWorkloads, IInv, OInv, Shutdown PROVE OInv'
  OBVIOUS
<1> DEFINE s == Top.task
<1>1. /\ calls # << >> /\ Top.op = "shutdown" /\ calls' = Below
      /\ write_task' = [a \in Allocs |-> IF write_task[a] = s THEN NULL ELSE write_task[a]]
      /\ read_tasks' = [a \in Allocs |-> read_tasks[a] \ {s}]
      /\ flush' = flush \ {s}
      /\ state' = [t \in Tasks |-> IF t \in Group(s) /\ refs[t] = 1 THEN "INVALID" ELSE state[t]]
      /\ UNCHANGED <<order, access, workload, fifo, queue, dirty, notifies>>
  BY DEF Shutdown, Finalise, timeVars, engineVars, clientVars
<1>2. s \in Masters /\ \A t \in Group(s) : state[t] = "FINISH" /\ t \in Tasks
  <2>1. \E i \in DOMAIN calls : Top = calls[i]
    BY <1>1, BelowFacts DEF IInv, Stack
  <2>2. s \in Masters /\ \A t \in Group(s) : state[t] = "FINISH"
    BY <1>1, <2>1 DEF IInv, Stack
  <2> QED BY <2>2, GroupFacts
<1>3. Over(s) /\ \E m \in Masters : m = s
  BY <1>2 DEF Over, Ended
<1> HIDE DEF s
<1>4. \A t \in Tasks : state'[t] = state[t] \/ (state[t] = "FINISH" /\ state'[t] = "INVALID" /\ t \in Group(s))
  BY <1>1, <1>2
<1>5. Quiet /\ Advances /\ FlushOrder
  BY <1>1, <1>4, QuietAdvances, InvFacts DEF Quiet
<1>6. /\ Flushed' = Flushed /\ Silent' = Silent /\ access' = access
      /\ \A m, n : (Before(m, n)' <=> Before(m, n)) /\ (UpTo(m, n)' <=> UpTo(m, n))
      /\ \A a, m : (Writes(m, a)' <=> Writes(m, a)) /\ (Touches(m, a)' <=> Touches(m, a))
      /\ \A m \in Flushed : (Over(m) => Over(m)') /\ (SetUp(m)' <=> SetUp(m))
  BY <1>5, SameOrder, Progress, QuietFacts DEF Advances, Silent
<1>7. FlushOrder'
  <2> SUFFICES ASSUME NEW m \in Flushed, state'[m] = "INVALID", state[m] # "INVALID"
               PROVE  Over(m)
    BY <1>5, <1>6, FlushOrderStays
  <2>1. m \in Tasks /\ Root(m) = m /\ m \in Group(s)
    BY <1>4, <1>5, FlushedFacts
  <2>2. m = s
    BY <1>2, <2>1, GroupFacts
  <2> QED BY <1>3, <2>2
<1>8. Records'
  <2> SUFFICES ASSUME NEW a \in Allocs, NEW w, w = write_task[a], NEW r, r = read_tasks[a],
                      NEW v, v = IF w = s THEN NULL ELSE w, NEW q, q = r \ {s}
               PROVE  Recorded(a, v, q)'
    BY <1>1 DEF Records
  <2>1. /\ w # NULL => w \in Flushed /\ SetUp(w) /\ Writes(w, a)
        /\ \A k \in r : k \in Flushed /\ SetUp(k) /\ a \in access[k].srcs /\ (w # NULL => UpTo(w, k))
    BY InvFacts DEF Records, Recorded
  <2>2. ASSUME NEW m \in Flushed \ Silent, SetUp(m), Touches(m, a), ~ Over(m)
        PROVE  (v # NULL /\ UpTo(m, v)) \/ (~ Writes(m, a) /\ m \in q)
    <3>1. (w # NULL /\ UpTo(m, w)) \/ (~ Writes(m, a) /\ m \in r)
      BY <2>2, InvFacts DEF Records, Recorded
    <3>2. m # s
      BY <1>3, <2>2
    <3>3. ASSUME w = s, w # NULL, UpTo(m, w) PROVE FALSE
      <4>1. Touches(w, a) /\ w \in Flushed
        BY <1>5, <2>1, <3>3, FlushedFacts, GroupFacts DEF Writes, Touches
      <4>2. Precedes(a, m, w)
        BY <2>1, <2>2, <3>2, <3>3, <4>1 DEF Precedes, UpTo
      <4> QED BY <1>3, <2>2, <3>3, <4>1, <4>2, OverBack
    <3> QED BY <3>1, <3>2, <3>3
  <2> QED BY <1>6, <2>1, <2>2 DEF Recorded
<1>9. FifoOrder'
  BY <1>1, <1>5, FifoSame
<1>10. ProperCalls'
  BY <1>1, <1>5, PoppedCalls, InvFacts, CallsStay
<1>11. Blocked' /\ QueueOrder'
  BY <1>1, <1>5, InvFacts, QuietFacts, BlockedStays, QueueOrderStays
<1>12. Caches'
  <2>1. flush \cap {m \in Flushed : ~ Over(m)'} \subseteq flush'
    <3> SUFFICES ASSUME NEW m \in flush, m \in Flushed, ~ Over(m)' PROVE m \in flush'
      OBVIOUS
    <3> QED BY <1>1, <1>3, <1>6
  <2> QED BY <1>1, <1>5, <2>1, InvFacts, QuietFacts, CachesStay
<1> QED BY <1>7, <1>8, <1>9, <1>10, <1>11, <1>12 DEF OInv

-----------------------------------------------------------------------------
(* Tasks that are done *)

LEMMA DoneStays ==
    ASSUME IInv, OInv, NEW t \in Tasks, state[t] = "RUNNING",
           state' = [state EXCEPT ![t] = "DONE"], fifo' = Append(fifo, t),
           UNCHANGED <<order, access, workload, notifies, calls, write_task, read_tasks>>
    PROVE  /\ Advances /\ \A u \in Tasks : u # t => state'[u] = state[u]
           /\ FlushOrder' /\ FifoOrder' /\ ProperCalls' /\ Records' /\ Blocked'
           /\ \A u \in Tasks : state'[u] = "RUNNING" => u # t /\ state[u] = "RUNNING"
           /\ \A u \in Tasks : u # t => (state'[u] \in Ended <=> state[u] \in Ended)
           /\ \A m \in Flushed : SetUp(m)' => SetUp(m)
           /\ \A m \in Flushed : t \notin Group(m) => (Over(m)' => Over(m))
<1>1. /\ state \in [Tasks -> TaskStates] /\ state'[t] = "DONE"
      /\ \A u \in Tasks : u # t => state'[u] = state[u]
  BY DEF IInv, Types
<1>2. Advances /\ FlushOrder
  BY <1>1, InvFacts DEF Advances
<1>3. \A m \in Flushed : m \in Tasks /\ Group(m) \subseteq Tasks
  BY <1>2, FlushedFacts
<1>4. /\ \A m \in Flushed : SetUp(m)' => SetUp(m)
      /\ \A m \in Flushed : (Passed(m)' => Passed(m)) /\ (state'[m] = "READY" => state[m] = "READY")
  BY <1>1, <1>3 DEF SetUp, Passed, Emitted
<1>5. FlushOrder'
  BY <1>1, <1>2, <1>3, FlushOrderStays
<1>6. FifoOrder'
  <2>1. <<t>> \in Seq(Tasks) /\ fifo \in Seq(Tasks) /\ DOMAIN <<t>> = {1} /\ <<t>>[1] = t
    BY DEF IInv, Incoming
  <2> DEFINE n == Len(fifo)
  <2>2. /\ fifo' \in Seq(Tasks) /\ n \in Nat /\ DOMAIN fifo = 1..n /\ DOMAIN fifo' = 1..n + 1
        /\ \A i \in 1..n : fifo'[i] = fifo[i]
        /\ fifo'[n + 1] = t
    BY <2>1, Appended
  <2> HIDE DEF n
  <2>3. /\ \A i \in 1..n : i \in 1..n + 1
        /\ \A i \in 1..n + 1 : i \in 1..n \/ i = n + 1
    BY <2>2
  <2>4. /\ \A i \in DOMAIN fifo : i \in DOMAIN fifo' /\ fifo'[i] = fifo[i]
        /\ \A i \in DOMAIN fifo' \ DOMAIN fifo : state'[fifo'[i]] # "FLUSHED"
    BY <1>1, <2>2, <2>3
  <2>5. \A u \in Tasks : state'[u] = "FLUSHED" <=> state[u] = "FLUSHED"
    BY <1>1
  <2> QED BY <1>2, <2>2, <2>4, <2>5, InvFacts, FifoGrows
<1>7. ProperCalls' /\ Records' /\ Blocked'
  BY <1>2, <1>4, InvFacts, CallsStay, RecordsStay, BlockedStays
<1>8. \A m \in Flushed : t \notin Group(m) => (Over(m)' => Over(m))
  BY <1>1, <1>3 DEF Over, Group, SlavesOf
<1> QED BY <1>1, <1>2, <1>4, <1>5, <1>6, <1>7, <1>8

LEMMA PreviousOrder ==
    ASSUME IInv, OInv, DonePrevious,
           UNCHANGED <<order, access, workload, notifies, calls, write_task, read_tasks, queue, dirty, flush>>
    PROVE  OInv'
<1>1. CASE prev_task = NULL
  <2>1. state' = state /\ fifo' = fifo
    BY <1>1 DEF DonePrevious
  <2> QED BY <2>1, NothingHappens
<1>2. CASE prev_task # NULL
  <2> DEFINE t == prev_task
  <2>1. /\ t \in Display /\ t \in Tasks /\ state[t] = "RUNNING"
        /\ state' = [state EXCEPT ![t] = "DONE"] /\ fifo' = Append(fifo, t)
    BY <1>2, GroupFacts DEF IInv, Screen, DonePrevious
  <2> HIDE DEF t
  <2>2. /\ Advances /\ FlushOrder' /\ FifoOrder' /\ ProperCalls' /\ Records' /\ Blocked'
        /\ \A u \in Tasks : state'[u] = "RUNNING" => state[u] = "RUNNING"
        /\ \A u \in Tasks : u # t => (state'[u] \in Ended <=> state[u] \in Ended)
        /\ \A m \in Flushed : SetUp(m)' => SetUp(m)
        /\ \A m \in Flushed : t \notin Group(m) => (Over(m)' => Over(m))
    BY <2>1, DoneStays
  <2>3. FlushOrder /\ QueueOrder /\ Caches
    BY InvFacts
  <2>4. \A m \in Flushed : Dst(m) # NULL => m # t /\ t \notin Group(m)
    <3> SUFFICES ASSUME NEW m \in Flushed, Dst(m) # NULL PROVE m # t /\ t \notin Group(m)
      OBVIOUS
    <3>1. m \in Masters /\ m \notin Display
      BY <2>3, FlushedFacts
    <3>2. Root(t) = t
      BY <2>1, GroupFacts
    <3> QED BY <2>1, <3>1, <3>2, GroupFacts
  <2>5. Caches'
    BY <2>2, <2>3, <2>4, CachesStay
  <2>6. \A u \in Tasks : Dst(u) # NULL /\ Root(u) \in Flushed => u # t
    <3> SUFFICES ASSUME Dst(t) # NULL, Root(t) \in Flushed PROVE FALSE
      OBVIOUS
    <3>1. Root(t) = t
      BY <2>1, GroupFacts
    <3> QED BY <2>4, <3>1
  <2>7. QueueOrder'
    BY <2>2, <2>3, <2>6, QueueOrderStays
  <2> QED BY <2>2, <2>5, <2>7 DEF OInv
<1> QED BY <1>1, <1>2

LEMMA DisplayRunOrder == ASSUME IInv, OInv, NEW t \in Tasks, DisplayRun(t) PROVE OInv'
<1>1. /\ DonePrevious
      /\ UNCHANGED <<order, access, workload, notifies, calls, write_task, read_tasks, queue, dirty, flush>>
  BY DEF DisplayRun, allocVars, clientVars
<1> QED BY <1>1, PreviousOrder

LEMMA UnrealizeOrder == IInv /\ OInv /\ Unrealize => OInv'
<1> SUFFICES ASSUME IInv, OInv, Unrealize PROVE OInv'
  OBVIOUS
<1>1. /\ DonePrevious
      /\ UNCHANGED <<order, access, workload, notifies, calls, write_task, read_tasks, queue, dirty, flush>>
  BY DEF Unrealize, allocVars, engineVars, clientVars
<1> QED BY <1>1, PreviousOrder

(* What an engine queue holds *)
LEMMA QueueFacts ==
    ASSUME IInv, OInv, NEW k \in Keys
    PROVE  /\ queue[k] \in Seq(Tasks) /\ DOMAIN queue[k] = 1..Len(queue[k]) /\ Len(queue[k]) \in Nat
           /\ \A i \in DOMAIN queue[k] :
                 /\ queue[k][i] \in Tasks /\ state[queue[k][i]] = "RUNNING" /\ Key(queue[k][i]) = k
                 /\ Root(queue[k][i]) \in Flushed /\ Root(queue[k][i]) \notin Display
           /\ \A i, j \in DOMAIN queue[k] : i < j => Before(Root(queue[k][i]), Root(queue[k][j]))
<1>1. queue[k] \in Seq(Tasks)
  BY DEF IInv, Queues
<1>2. DOMAIN queue[k] = 1..Len(queue[k]) /\ Len(queue[k]) \in Nat
  BY <1>1, LenProperties
<1>3. ASSUME NEW i \in DOMAIN queue[k], NEW t, t = queue[k][i]
      PROVE  /\ t \in Tasks /\ state[t] = "RUNNING" /\ Key(t) = k /\ Root(t) \in Flushed
             /\ Root(t) \notin Display
  <2>1. t \in Tasks /\ state[t] = "RUNNING" /\ Key(t) = k /\ Root(t) \notin Display
    BY <1>1, <1>2, <1>3, ElementOfSeq DEF IInv, Queues
  <2>2. state[Root(t)] \in Emitted /\ Root(t) \in Masters
    BY <2>1, GroupFacts DEF IInv, Groups, Emitted
  <2> QED BY <2>1, <2>2, InvFacts DEF FlushOrder
<1>4. \A i, j \in DOMAIN queue[k] : i < j => Before(Root(queue[k][i]), Root(queue[k][j]))
  BY InvFacts DEF QueueOrder
<1> QED BY <1>1, <1>2, <1>3, <1>4

LEMMA CompleteOrder ==
    ASSUME OrderlyWorkloads, IInv, OInv, NEW t \in Tasks, Complete(t)
    PROVE  OInv'
<1> DEFINE k == Key(t)
           d == Dst(t)
           m == Root(t)
<1>1. /\ t \in executing /\ queue' = [queue EXCEPT ![k] = Tail(@)]
      /\ dirty' = [dirty EXCEPT ![d] = IF m \in flush THEN NULL ELSE Acc(t)]
      /\ state' = [state EXCEPT ![t] = "DONE"] /\ fifo' = Append(fifo, t)
      /\ UNCHANGED <<order, access, workload, notifies, calls, write_task, read_tasks, flush>>
  BY DEF Complete, allocVars, clientVars
<1>2. k \in Keys /\ 1 \in DOMAIN queue[k] /\ queue[k][1] = t
  BY <1>1 DEF IInv, Queues
<1> HIDE DEF k
<1>3. /\ state[t] = "RUNNING" /\ m \in Flushed /\ m \notin Display /\ Key(t) = k
      /\ queue[k] \in Seq(Tasks) /\ queue[k] # << >>
  BY <1>2, QueueFacts, EmptySeq
<1>4. /\ FlushOrder /\ QueueOrder /\ Caches /\ Blocked
      /\ \A x, y : Before(x, y) => x \in Flushed /\ y \in Flushed /\ x # y /\ ~ Before(y, x)
      /\ \A x, y \in Flushed : x = y \/ Before(x, y) \/ Before(y, x)
  BY InvFacts, OrderFacts
<1>5. /\ m \in Tasks /\ Root(m) = m /\ t \in Group(m) /\ Dst(m) = d /\ Acc(m) = Acc(t)
      /\ d \in Allocs /\ d # NULL /\ Touches(m, d) /\ Writes(m, d)
  <2>1. m \in Tasks /\ Root(m) = m /\ m \in Masters
    BY <1>3, <1>4, FlushedFacts
  <2>2. Dst(m) = d /\ Acc(m) = Acc(t) /\ t \in Group(m)
    BY <2>1, GroupFacts DEF Dst, Acc
  <2>3. Dst(m) \in Allocs /\ Dst(m) # NULL /\ Dst(m) \in Accessed(m)
    BY <1>3, <1>4, FlushedFacts, GroupFacts
  <2> QED BY <2>1, <2>2, <2>3 DEF Touches, Writes
<1> HIDE DEF m, d
<1>6. /\ Advances /\ \A u \in Tasks : u # t => state'[u] = state[u]
      /\ FlushOrder' /\ FifoOrder' /\ ProperCalls' /\ Records' /\ Blocked'
      /\ \A u \in Tasks : state'[u] = "RUNNING" => u # t /\ state[u] = "RUNNING"
      /\ \A u \in Tasks : u # t => (state'[u] \in Ended <=> state[u] \in Ended)
      /\ \A v \in Flushed : SetUp(v)' => SetUp(v)
      /\ \A v \in Flushed : t \notin Group(v) => (Over(v)' => Over(v))
  BY <1>1, <1>3, DoneStays
<1>7. /\ Flushed' = Flushed /\ Keys' = Keys /\ Silent' = Silent
      /\ \A x, y : (Before(x, y)' <=> Before(x, y)) /\ (Queued(x, y)' <=> Queued(x, y))
      /\ \A u : Key(u)' = Key(u) /\ Dst(u)' = Dst(u) /\ Root(u)' = Root(u) /\ Acc(u)' = Acc(u)
      /\ \A a, x, y : Foreign(x, a, y)' <=> Foreign(x, a, y)
      /\ \A v \in Flushed : (Over(v) => Over(v)') /\ (SetUp(v)' <=> SetUp(v))
  BY <1>4, <1>6, SameOrder, Progress DEF Advances, Root, Keys, Tiles, Silent
<1>8. /\ \A l \in Keys \ {k} : queue'[l] = queue[l]
      /\ \A i \in DOMAIN queue'[k] : i + 1 \in DOMAIN queue[k] /\ queue'[k][i] = queue[k][i + 1]
      /\ \A i, j \in DOMAIN queue'[k] : i < j => i + 1 < j + 1
      /\ \A i \in DOMAIN queue[k] : i # 1 => /\ 1 < i
                                           /\ i - 1 \in DOMAIN queue'[k] /\ queue'[k][i - 1] = queue[k][i]
  <2> DEFINE q == queue[k]
             n == Len(queue[k])
  <2>1. queue'[k] = Tail(q) /\ \A l \in Keys \ {k} : queue'[l] = queue[l]
    BY <1>1, <1>2 DEF IInv, Queues
  <2>2. /\ n \in Nat /\ n > 0 /\ DOMAIN q = 1..n /\ DOMAIN Tail(q) = 1..n - 1
        /\ \A i \in 1..n - 1 : Tail(q)[i] = q[i + 1]
    BY <1>3, HeadAndTail
  <2> HIDE DEF n
  <2>3. /\ \A i \in 1..n - 1 : i + 1 \in 1..n
        /\ \A i, j \in 1..n - 1 : i < j => i + 1 < j + 1
        /\ \A i \in 1..n : i # 1 => 1 < i /\ i - 1 \in 1..n - 1 /\ i - 1 + 1 = i
    BY <2>2
  <2> QED BY <2>1, <2>2, <2>3
<1>9. QueueOrder'
  <2>1. ASSUME NEW u \in Tasks, state'[u] = "RUNNING", Root(u) \notin Display
        PROVE  \E i \in DOMAIN queue'[Key(u)] : queue'[Key(u)][i] = u
    <3>1. u # t /\ \E i \in DOMAIN queue[Key(u)] : queue[Key(u)][i] = u
      BY <1>4, <1>6, <2>1 DEF QueueOrder
    <3>2. CASE Key(u) = k
      <4>1. PICK i \in DOMAIN queue[k] : queue[k][i] = u
        BY <3>1, <3>2
      <4>2. i # 1
        BY <1>2, <3>1, <4>1
      <4> QED BY <1>8, <3>2, <4>1, <4>2
    <3>3. CASE Key(u) # k
      <4>1. Key(u) \in Keys
        <5>1. Root(u) \in Masters /\ state[Root(u)] \in Emitted
          BY <1>6, <2>1, GroupFacts DEF IInv, Groups, Emitted
        <5>2. Root(u) \in Flushed /\ Root(Root(u)) = Root(u)
          BY <1>4, <5>1, GroupFacts DEF FlushOrder
        <5>3. access[Root(u)] \in AccessSets /\ Dst(Root(u)) \in Allocs
          BY <1>4, <2>1, <5>2, FlushedFacts
        <5> QED BY <2>1, <5>2, <5>3 DEF Key, Keys, Tiles, Acc, Dst, AccessSets
      <4> QED BY <1>8, <3>1, <3>3, <4>1
    <3> QED BY <3>2, <3>3
  <2>2. ASSUME NEW l \in Keys, NEW i \in DOMAIN queue'[l], NEW j \in DOMAIN queue'[l], i < j,
               NEW x, NEW y, x = queue'[l][i], y = queue'[l][j]
        PROVE  Before(Root(x), Root(y))
    <3>1. CASE l = k
      BY <1>4, <1>8, <2>2, <3>1 DEF QueueOrder
    <3>2. CASE l # k
      BY <1>4, <1>8, <2>2, <3>2 DEF QueueOrder
    <3> QED BY <3>1, <3>2
  <2>3. ASSUME NEW x \in Tasks, NEW u \in Tasks, Before(Root(x), Root(u)), Key(x) = Key(u), Dst(x) # NULL,
               state'[x] = "RUNNING"
        PROVE  state'[u] \notin Ended
    <3>1. state[x] = "RUNNING" /\ state[u] \notin Ended /\ x # t
      BY <1>4, <1>6, <2>3 DEF QueueOrder
    <3>2. CASE u = t
      <4>1. Root(x) \in Flushed /\ Dst(Root(x)) = Dst(x)
        BY <1>4, <2>3, FlushedFacts DEF Dst
      <4>2. Root(x) \notin Display
        BY <1>4, <2>3, <4>1, FlushedFacts
      <4>3. PICK i \in DOMAIN queue[k] : queue[k][i] = x
        BY <1>3, <1>4, <2>3, <3>1, <3>2, <4>2 DEF QueueOrder
      <4>4. i # 1
        BY <1>2, <3>1, <4>3
      <4>5. Before(Root(t), Root(x))
        BY <1>2, <1>4, <1>8, <4>3, <4>4 DEF QueueOrder
      <4> QED BY <1>4, <2>3, <3>2, <4>5
    <3> QED BY <1>6, <3>1, <3>2
  <2>4. ASSUME NEW l \in Keys, NEW i \in DOMAIN queue'[l], NEW j \in DOMAIN queue'[l], i < j,
               NEW x, NEW y, x = queue'[l][i], y = queue'[l][j]
        PROVE  Before(Root(x), Root(y))'
    <3>1. Before(Root(x), Root(y)) /\ order' = order
      BY <1>6, <2>2, <2>4 DEF Advances
    <3> QED BY <3>1 DEF Before, Root
  <2> QED BY <1>7, <2>1, <2>3, <2>4 DEF QueueOrder
<1>10. Caches'
  <2>1. \A v, w \in Flushed : Successor(v, w) => Successor(v, w)'
    BY <1>7 DEF Successor
  <2>2. ASSUME NEW v \in Flushed, SetUp(v)', Dst(v) # NULL, ~ Over(v)', v \notin flush
        PROVE  \E w \in Flushed : Successor(v, w)'
    BY <1>4, <1>7, <2>1, <2>2 DEF Caches
  <2>3. ASSUME NEW a \in Allocs, a # d, dirty[a] # NULL
        PROVE  dirty'[a] = dirty[a] /\ \E v \in Flushed : Flusher(a, v)'
    <3>1. dirty'[a] = dirty[a]
      BY <1>1, <2>3 DEF IInv, Types
    <3>2. PICK v \in Flushed : Flusher(a, v)
      BY <1>4, <2>3 DEF Caches
    <3>3. t \notin Group(v)
      <4>1. v # m /\ v \in Masters
        BY <1>4, <1>5, <2>3, <3>2, FlushedFacts DEF Flusher
      <4> QED BY <4>1, GroupFacts DEF m
    <3> QED BY <1>6, <1>7, <3>1, <3>2, <3>3 DEF Flusher
  <2>4. ASSUME dirty'[d] # NULL
        PROVE  \A e : e = d => \E w \in Flushed : Flusher(e, w)'
    <3>1. m \notin flush /\ dirty'[d] = Acc(t)
      BY <1>1, <1>5, <2>4 DEF IInv, Types
    <3>2. Passed(m) /\ SetUp(m) /\ ~ Over(m)
      <4>1. state[m] \in Emitted
        BY <1>3, <1>5, GroupFacts DEF IInv, Groups, Emitted, m
      <4> QED BY <1>3, <1>5, <4>1 DEF Passed, SetUp, Emitted, Over, Ended
    <3>3. PICK w \in Flushed : Successor(m, w)
      BY <1>3, <1>4, <1>5, <3>1, <3>2 DEF Caches
    <3>4. Dst(w) = d /\ Acc(w) = Acc(m) /\ Queued(m, w) /\ Before(m, w) /\ SetUp(w)
      BY <1>5, <3>3 DEF Successor, Queued, SameQueue
    <3>5. ~ Over(w)'
      <4>1. PICK u \in Group(w) : Key(u) = Key(t)
        BY <1>3, <1>4, <1>5, <3>4, SameTiles
      <4>2. u \in Tasks /\ Root(u) = w
        BY <1>4, <4>1, FlushedFacts, GroupFacts
      <4>3. state[u] \notin Ended /\ u # t
        BY <1>3, <1>4, <1>5, <3>4, <4>1, <4>2 DEF QueueOrder, m, d
      <4>4. state'[u] \notin Ended
        BY <1>6, <4>2, <4>3
      <4> QED BY <4>1, <4>4 DEF Over, Group, SlavesOf
    <3>6. ASSUME NEW x \in Flushed \ Silent, Foreign(x, d, w), Before(x, w)
          PROVE  Over(x)
      <4>1. Acc(x) # Acc(m) /\ Touches(x, d) /\ x # m
        BY <3>4, <3>6 DEF Foreign
      <4>2. CASE Before(m, x)
        BY <1>5, <3>3, <3>6, <4>1, <4>2 DEF Successor, Foreign
      <4>3. CASE Before(x, m)
        <5>1. Precedes(d, x, m)
          BY <1>3, <1>5, <4>1, <4>3 DEF Precedes, UpTo
        <5>2. Clear(x, m)
          BY <1>3, <1>4, <1>5, <3>2, <3>6, <5>1 DEF Blocked
        <5> QED BY <4>1, <5>2 DEF Clear, Queued, SameQueue
      <4> QED BY <1>3, <1>4, <3>6, <4>1, <4>2, <4>3
    <3>7. ASSUME NEW e, e = d
          PROVE  Flusher(e, w)'
      <4>1. \A x \in Flushed' \ Silent' : Foreign(x, e, w)' /\ Before(x, w)' => Over(x)'
        BY <1>7, <3>6, <3>7
      <4>2. SetUp(w)' /\ Dst(w)' = e /\ Acc(w)' = dirty'[e]
        BY <1>5, <1>7, <3>1, <3>4, <3>7
      <4> QED BY <3>5, <4>1, <4>2 DEF Flusher
    <3> QED BY <3>7
  <2>5. \A a \in Allocs : dirty'[a] # NULL => \E v \in Flushed : Flusher(a, v)'
    <3> SUFFICES ASSUME NEW a \in Allocs, a # d, dirty'[a] # NULL PROVE \E v \in Flushed : Flusher(a, v)'
      BY <2>4
    <3>1. dirty'[a] = dirty[a]
      BY <1>1 DEF IInv, Types
    <3> QED BY <2>3, <3>1
  <2> QED BY <1>1, <1>7, <2>2, <2>5 DEF Caches
<1> QED BY <1>6, <1>9, <1>10 DEF OInv

-----------------------------------------------------------------------------
(* Emission *)

(* What has been executed belongs to a group that has been emitted. *)
LEMMA EndedHasPassed ==
    ASSUME IInv, FlushOrder, NEW u \in Tasks, Root(u) \in Flushed, state[u] \in Ended
    PROVE  Passed(Root(u))
<1> DEFINE m == Root(u)
<1>1. /\ m \in Masters /\ m \in Tasks /\ state[m] \notin {"NONE", "DEAD", "NEW"}
  BY FlushedFacts DEF FlushOrder, IInv, Groups
<1>2. CASE u = m
  BY <1>2 DEF Passed, Ended, Emitted
<1>3. CASE u # m
  <2>1. u \in Tasks \ Masters /\ Master[u] = m
    BY <1>3, GroupFacts
  <2>2. state[m] \notin {"FLUSHED", "READY"}
    BY <2>1 DEF IInv, Groups, Ended
  <2>3. state[m] \in TaskStates
    BY <1>1 DEF IInv, Types
  <2> QED BY <1>1, <2>2, <2>3 DEF Passed, Emitted, TaskStates
<1> QED BY <1>2, <1>3

LEMMA OneElement ==
    ASSUME NEW S, NEW e \in S
    PROVE  /\ <<e>> \in Seq(S) /\ \A i \in DOMAIN <<e>> : <<e>>[i] = e
           /\ << >> \in Seq(S) /\ DOMAIN << >> = {}
<1>1. << >> \in Seq(S) /\ DOMAIN << >> = {}
  BY EmptySeq
<1>2. <<e>> \in Seq(S)
  OBVIOUS
<1>3. \A i \in DOMAIN <<e>> : <<e>>[i] = e
  OBVIOUS
<1> QED BY <1>1, <1>2, <1>3

LEMMA EmitOrder == OrderlyWorkloads /\ IInv /\ OInv /\ Emit => OInv'
<1> SUFFICES ASSUME OrderlyWorkloads, IInv, OInv, Emit PROVE OInv'
  OBVIOUS
<1> DEFINE m == Top.task
<1>1. /\ calls # << >> /\ Top.op = "checkEmit"
      /\ state[m] = "READY" /\ block_count[m] = 0
      /\ state' = [t \in Tasks |-> IF t \in Group(m) THEN "RUNNING" ELSE state[t]]
      /\ m \in Display => queue' = queue
      /\ m \notin Display =>
            queue' = [k \in Keys |-> IF \E t \in Group(m) : Key(t) = k
                                       THEN Append(queue[k], CHOOSE t \in Group(m) : Key(t) = k)
                                       ELSE queue[k]]
      /\ calls' = Below \o (IF "EMITNOTIFIES" \in InitFlags[m] THEN <<Frame("notifyFinish", m)>> ELSE << >>)
                        \o <<Frame("notifyRunning", m)>>
      /\ UNCHANGED <<order, access, workload, notifies, fifo, dirty, write_task, read_tasks, flush>>
  BY DEF Emit, MayEmit, allocVars, clientVars
<1>2. /\ m \in Masters /\ m \in Tasks /\ m \in Group(m) /\ Group(m) \subseteq Tasks /\ Root(m) = m
      /\ state \in [Tasks -> TaskStates]
  <2>1. \E i \in DOMAIN calls : Top = calls[i]
    BY <1>1, BelowFacts DEF IInv, Stack
  <2>2. m \in Masters
    BY <2>1 DEF IInv, Stack
  <2> QED BY <2>2, GroupFacts DEF IInv, Types
<1>3. calls \in Seq(Frames) /\ Below \in Seq(Frames)
  BY <1>1, BelowFacts DEF IInv, Stack
<1>4. \A t \in Group(m) : t # m => state[t] = "NEW" /\ Root(t) = m
  <2> SUFFICES ASSUME NEW t \in Group(m), t # m PROVE state[t] = "NEW" /\ Root(t) = m
    OBVIOUS
  <2>1. Root(t) = m /\ t \in Tasks \ Masters /\ Master[t] = m
    BY <1>2, GroupFacts
  <2> QED BY <1>1, <2>1 DEF IInv, Groups
<1> HIDE DEF m
<1>5. /\ \A t \in Tasks : t \notin Group(m) => state'[t] = state[t]
      /\ \A t \in Group(m) : state'[t] = "RUNNING"
      /\ state[m] = "READY" /\ \A t \in Group(m) : t # m => state[t] = "NEW"
  BY <1>1, <1>2, <1>4
<1>6. Advances
  BY <1>1, <1>5 DEF Advances
<1>7. /\ FlushOrder /\ FifoOrder /\ ProperCalls /\ Records /\ Blocked /\ QueueOrder /\ Caches
      /\ order \in Seq(Tasks) /\ m \in Flushed
  BY <1>1, <1>2, InvFacts DEF FlushOrder
<1>8. /\ \A x, y : Before(x, y) => x \in Flushed /\ y \in Flushed /\ x # y /\ ~ Before(y, x)
      /\ \A x, y \in Flushed : x = y \/ Before(x, y) \/ Before(y, x)
  BY <1>7, OrderFacts
<1>9. /\ \A t \in Tasks : state'[t] = "FLUSHED" <=> state[t] = "FLUSHED"
      /\ \A t \in Tasks : state'[t] \in Ended => state[t] \in Ended /\ t \notin Group(m)
      /\ \A t \in Tasks : state'[t] = "RUNNING" <=> state[t] = "RUNNING" \/ t \in Group(m)
      /\ \A t \in Group(m) : state[t] # "RUNNING"
  BY <1>5 DEF Ended
<1>10. \A n \in Flushed : /\ n \in Tasks /\ Group(n) \subseteq Tasks
                          /\ SetUp(n)' => SetUp(n)
                          /\ Over(n)' => Over(n)
                          /\ n # m => n \notin Group(m)
                          /\ n # m => state'[n] = state[n] /\ (Passed(n)' <=> Passed(n))
  <2> SUFFICES ASSUME NEW n \in Flushed
               PROVE  /\ n \in Tasks /\ Group(n) \subseteq Tasks
                      /\ SetUp(n)' => SetUp(n)
                      /\ Over(n)' => Over(n)
                      /\ n # m => n \notin Group(m)
                      /\ n # m => state'[n] = state[n] /\ (Passed(n)' <=> Passed(n))
    OBVIOUS
  <2>1. n \in Tasks /\ Group(n) \subseteq Tasks /\ Root(n) = n
    BY <1>7, FlushedFacts
  <2>2. n # m => n \notin Group(m)
    BY <1>2, <2>1, GroupFacts
  <2>3. n # m => state'[n] = state[n] /\ (Passed(n)' <=> Passed(n))
    BY <1>5, <2>1, <2>2 DEF Passed
  <2> QED BY <1>9, <2>1, <2>2, <2>3 DEF SetUp, Over, Group, SlavesOf
<1>11. FlushOrder' /\ Records' /\ Caches'
  <2>1. FlushOrder'
    BY <1>2, <1>5, <1>6, <1>7, <1>10, FlushOrderStays
  <2>2. Records' /\ Caches'
    BY <1>1, <1>6, <1>7, <1>10, RecordsStay, CachesStay
  <2> QED BY <2>1, <2>2
<1>12. FifoOrder'
  <2>1. fifo \in Seq(Tasks)
    BY DEF IInv, Incoming
  <2> QED BY <1>1, <1>6, <1>7, <1>9, <2>1, FifoGrows
<1>13. /\ Flushed' = Flushed /\ Keys' = Keys /\ Silent' = Silent
       /\ \A x, y : (Before(x, y)' <=> Before(x, y)) /\ (Queued(x, y)' <=> Queued(x, y))
       /\ \A u : Key(u)' = Key(u) /\ Dst(u)' = Dst(u) /\ Root(u)' = Root(u)
       /\ \A a, x, y : Precedes(a, x, y)' <=> Precedes(a, x, y)
       /\ \A x \in Flushed : \A y : Clear(x, y) => Clear(x, y)'
  BY <1>6, <1>7, SameOrder, Progress DEF Advances, Root, Keys, Tiles, Silent
<1>14. Blocked'
  <2>1. \A a, x, y : WaitsFor(a, x, y)' <=> WaitsFor(a, x, y)
    BY <1>1, <1>13 DEF WaitsFor
  <2>2. ASSUME NEW a \in Allocs, NEW n \in Flushed, NEW l \in Flushed \ Silent, Precedes(a, l, n)
        PROVE  /\ Passed(n)' => Clear(l, n)
               /\ state'[n] = "READY" => Clear(l, n) \/ WaitsFor(a, l, n)
    <3>1. CASE n = m
      <4>1. ~ WaitsFor(a, l, m)
        <5>1. Blocking(m) = {}
          <6>1. IsFiniteSet(Blocking(m)) /\ Cardinality(Blocking(m)) = 0
            BY <1>1, <1>2 DEF IInv, Waits
          <6> QED BY <6>1, FS_EmptySet
        <5> QED BY <5>1 DEF Blocking, WaitsFor
      <4>2. Clear(l, m)
        BY <1>5, <1>7, <2>2, <3>1, <4>1 DEF Blocked
      <4>3. state'[n] # "READY"
        BY <1>2, <1>5, <3>1
      <4> QED BY <3>1, <4>2, <4>3
    <3>2. CASE n # m
      BY <1>7, <1>10, <2>2, <3>2 DEF Blocked
    <3> QED BY <3>1, <3>2
  <2> QED BY <1>13, <2>1, <2>2 DEF Blocked
<1>15. \A x : x = m => Passed(x)'
  BY <1>2, <1>5 DEF Passed, Emitted
<1>16. ProperCalls'
  <2> DEFINE f == Frame("notifyFinish", m)
             g == Frame("notifyRunning", m)
             fs == IF "EMITNOTIFIES" \in InitFlags[m] THEN <<f>> ELSE << >>
             q == Below \o fs
  <2>1. f \in Frames /\ g \in Frames
    BY <1>2 DEF Frame, Frames
  <2>2. \A x : x = g => Proper(x)'
    BY <1>15 DEF Frame, Proper
  <2>3. "EMITNOTIFIES" \in InitFlags[m] => \A x : x = f => Proper(x)'
    BY <1>2, <1>15 DEF Frame, Proper, Silent
  <2>4. calls' = q \o <<g>>
    BY <1>1
  <2> HIDE DEF f, g
  <2>5. /\ fs \in Seq(Frames) /\ <<g>> \in Seq(Frames)
        /\ \A i \in DOMAIN fs : fs[i] = f /\ "EMITNOTIFIES" \in InitFlags[m]
        /\ \A i \in DOMAIN <<g>> : <<g>>[i] = g
    <3>1. /\ <<f>> \in Seq(Frames) /\ <<g>> \in Seq(Frames) /\ << >> \in Seq(Frames)
          /\ \A i \in DOMAIN <<f>> : <<f>>[i] = f
          /\ \A i \in DOMAIN <<g>> : <<g>>[i] = g
          /\ DOMAIN << >> = {}
      BY <2>1, OneElement
    <3> QED BY <3>1
  <2> HIDE DEF fs
  <2>6. /\ q \in Seq(Frames) /\ \A i \in DOMAIN Below : i \in DOMAIN q /\ q[i] = Below[i]
        /\ \A i \in DOMAIN q \ DOMAIN Below : \E j \in DOMAIN fs : q[i] = fs[j]
    BY ONLY <1>3, <2>5, Concatenated DEF q
  <2> HIDE DEF q
  <2>7. /\ \A i \in DOMAIN q : i \in DOMAIN calls' /\ calls'[i] = q[i]
        /\ \A i \in DOMAIN calls' \ DOMAIN q : \E j \in DOMAIN <<g>> : calls'[i] = <<g>>[j]
    BY ONLY <2>4, <2>5, <2>6, Concatenated
  <2>8. \A i \in DOMAIN Below : i \in DOMAIN calls /\ Below[i] = calls[i]
    <3> DEFINE n == Len(calls)
    <3>1. /\ n \in Nat /\ DOMAIN calls = 1..n /\ DOMAIN Below = 1..n - 1
          /\ \A i \in 1..n - 1 : Below[i] = calls[i]
      BY <1>1, <1>3, BelowFacts
    <3> HIDE DEF n
    <3>2. \A i \in 1..n - 1 : i \in 1..n
      BY <3>1
    <3> QED BY <3>1, <3>2
  <2>9. \A i \in DOMAIN calls' : \/ \E j \in DOMAIN calls : calls'[i] = calls[j]
                                 \/ \E x : calls'[i] = x /\ Proper(x)'
    <3> SUFFICES ASSUME NEW i \in DOMAIN calls', NEW x, x = calls'[i]
                 PROVE  (\E j \in DOMAIN calls : x = calls[j]) \/ Proper(x)'
      OBVIOUS
    <3>1. (\E j \in DOMAIN calls : x = calls[j]) \/ x = g \/ (x = f /\ "EMITNOTIFIES" \in InitFlags[m])
      BY <2>5, <2>6, <2>7, <2>8
    <3> QED BY <2>2, <2>3, <3>1
  <2> QED BY <1>6, <1>7, <2>9, CallsStay
<1>17. QueueOrder'
  <2>1. /\ \A t \in Group(m) : t \in Tasks /\ Root(t) = m /\ Dst(t) = Dst(m) /\ Acc(t) = Acc(m)
        /\ \A t, u \in Group(m) : t # u => Tile[t] # Tile[u]
    <3>1. \A t \in Group(m) : t \in Tasks /\ Root(t) = m
      BY <1>2, GroupFacts
    <3> QED BY <1>2, <3>1, TileFacts DEF Dst, Acc
  <2>2. \A t, u \in Group(m) : Key(t) = Key(u) => t = u
    BY <2>1 DEF Key
  <2>3. queue \in [Keys -> Seq(Tasks)]
    BY DEF IInv, Queues
  <2>4. \A u \in Group(m) : Key(u) \in Keys \/ m \in Display
    <3> SUFFICES ASSUME NEW u \in Group(m), m \notin Display PROVE Key(u) \in Keys
      OBVIOUS
    <3>1. Acc(u) \in Accessors /\ Dst(u) \in Allocs
      BY <1>7, <2>1, FlushedFacts DEF AccessSets, Acc, Dst
    <3> QED BY <2>1, <3>1 DEF Key, Keys, Tiles
  <2>5. ASSUME m \notin Display, NEW k \in Keys
        PROVE  \/ queue'[k] = queue[k] /\ \A u \in Group(m) : Key(u) # k
               \/ \E u \in Group(m) : Key(u) = k /\ queue'[k] = Append(queue[k], u)
    <3>1. queue'[k] = IF \E t \in Group(m) : Key(t) = k
                        THEN Append(queue[k], CHOOSE t \in Group(m) : Key(t) = k)
                        ELSE queue[k]
      BY <1>1, <2>5
    <3> QED BY <3>1
  <2>6. \A k \in Keys : /\ \A i \in DOMAIN queue[k] : i \in DOMAIN queue'[k] /\ queue'[k][i] = queue[k][i]
                        /\ \A u \in Group(m) : Key(u) = k /\ m \notin Display =>
                              \E i \in DOMAIN queue'[k] : queue'[k][i] = u
                        /\ \A i \in DOMAIN queue'[k] : i \in DOMAIN queue[k] \/
                              (queue'[k][i] \in Group(m) /\ \A j \in DOMAIN queue'[k] : j <= i)
    <3> SUFFICES ASSUME NEW k \in Keys
                 PROVE  /\ \A i \in DOMAIN queue[k] : i \in DOMAIN queue'[k] /\ queue'[k][i] = queue[k][i]
                        /\ \A u \in Group(m) : Key(u) = k /\ m \notin Display =>
                              \E i \in DOMAIN queue'[k] : queue'[k][i] = u
                        /\ \A i \in DOMAIN queue'[k] : i \in DOMAIN queue[k] \/
                              (queue'[k][i] \in Group(m) /\ \A j \in DOMAIN queue'[k] : j <= i)
      OBVIOUS
    <3>1. CASE m \in Display
      BY <1>1, <3>1
    <3>2. CASE m \notin Display
      <4>1. CASE queue'[k] = queue[k] /\ \A u \in Group(m) : Key(u) # k
        BY <4>1
      <4>2. CASE \E u \in Group(m) : Key(u) = k /\ queue'[k] = Append(queue[k], u)
        <5>1. PICK u \in Group(m) : Key(u) = k /\ queue'[k] = Append(queue[k], u)
          BY <4>2
        <5> DEFINE l == Len(queue[k])
                   r == queue'[k]
                   q == queue[k]
        <5>2. /\ l \in Nat /\ DOMAIN q = 1..l /\ DOMAIN r = 1..l + 1 /\ r[l + 1] = u
              /\ \A i \in 1..l : r[i] = q[i]
          <6>1. u \in Tasks /\ q \in Seq(Tasks)
            BY <2>1, <2>3
          <6> QED BY ONLY <5>1, <6>1, Appended DEF l, r, q
        <5>3. \A u2 \in Group(m) : Key(u2) = k => u2 = u
          BY <2>2, <5>1
        <5> HIDE DEF l, r, q
        <5>4. /\ \A i \in 1..l : i \in 1..l + 1
              /\ \A i \in 1..l + 1 : i \in 1..l \/ (i = l + 1 /\ \A j \in 1..l + 1 : j <= i)
              /\ l + 1 \in 1..l + 1
          BY <5>2
        <5> QED BY <5>2, <5>3, <5>4 DEF r, q
      <4> QED BY <2>5, <3>2, <4>1, <4>2
    <3> QED BY <3>1, <3>2
  <2>7. \A k \in Keys : \A i \in DOMAIN queue[k] :
           LET t == queue[k][i] IN state[t] = "RUNNING" /\ Key(t) = k /\ t \in Tasks
    <3> SUFFICES ASSUME NEW k \in Keys, NEW i \in DOMAIN queue[k]
                 PROVE  state[queue[k][i]] = "RUNNING" /\ Key(queue[k][i]) = k /\ queue[k][i] \in Tasks
      OBVIOUS
    <3>1. queue[k] \in Seq(Tasks)
      BY <2>3
    <3>2. queue[k][i] \in Tasks
      BY <3>1, ElementOfSeq, LenProperties
    <3> QED BY <3>2 DEF IInv, Queues
  <2>8. ASSUME NEW t \in Tasks, state'[t] = "RUNNING", Root(t) \notin Display
        PROVE  \E i \in DOMAIN queue'[Key(t)] : queue'[Key(t)][i] = t
    <3>1. CASE t \in Group(m)
      BY <2>1, <2>4, <2>6, <2>8, <3>1
    <3>2. CASE t \notin Group(m)
      <4>1. state[t] = "RUNNING"
        BY <1>9, <2>8, <3>2
      <4>2. PICK i \in DOMAIN queue[Key(t)] : queue[Key(t)][i] = t
        BY <2>8, <4>1, <1>7 DEF QueueOrder
      <4>3. Key(t) \in Keys
        <5>1. Root(t) \in Masters /\ Root(Root(t)) = Root(t) /\ state[Root(t)] \in Emitted
          <6>1. Root(t) \in Masters /\ Root(Root(t)) = Root(t) /\ (t # Root(t) => t \in Tasks \ Masters /\ Master[t] = Root(t))
            BY GroupFacts
          <6> QED BY <4>1, <6>1 DEF IInv, Groups, Emitted
        <5>2. Root(t) \in Flushed
          BY <1>7, <5>1 DEF FlushOrder
        <5>3. Acc(t) \in Accessors /\ Dst(t) \in Allocs
          BY <1>7, <2>8, <5>1, <5>2, FlushedFacts DEF AccessSets, Acc, Dst
        <5> QED BY <5>3 DEF Key, Keys, Tiles
      <4> QED BY <2>6, <4>2, <4>3
    <3> QED BY <3>1, <3>2
  <2>9. ASSUME NEW k \in Keys, NEW i \in DOMAIN queue'[k], NEW j \in DOMAIN queue'[k], i < j,
               NEW t, NEW u, t = queue'[k][i], u = queue'[k][j]
        PROVE  Before(Root(t), Root(u))'
    <3>1. i \in DOMAIN queue[k]
      <4>1. /\ DOMAIN queue'[k] \subseteq Int
        <5>1. queue' \in [Keys -> Seq(Tasks)]
          <6>1. IInv'
            BY EmitInv
          <6> QED BY <1>13, <6>1 DEF IInv, Queues
        <5>2. queue'[k] \in Seq(Tasks)
          BY <1>13, <5>1
        <5>3. DOMAIN queue'[k] = 1..Len(queue'[k])
          BY <5>2, LenProperties
        <5> QED BY <5>3
      <4>2. ~ (j <= i)
        BY <2>9, <4>1
      <4> QED BY <2>6, <2>9, <4>2
    <3>2. t = queue[k][i] /\ t \in Tasks /\ state[t] = "RUNNING" /\ Key(t) = k
      BY <2>6, <2>7, <2>9, <3>1
    <3>3. CASE j \in DOMAIN queue[k]
      <4>1. Before(Root(t), Root(u))
        BY <1>7, <2>6, <2>9, <3>1, <3>2, <3>3 DEF QueueOrder
      <4> QED BY <1>13, <4>1 DEF Before, Root
    <3>4. CASE j \notin DOMAIN queue[k]
      <4>1. u \in Group(m) /\ Root(u) = m /\ m \notin Display /\ Key(u) = k
        <5>1. u \in Group(m) /\ m \notin Display
          BY <1>1, <2>6, <2>9, <3>4
        <5>2. IInv'
          BY EmitInv
        <5>3. Key(u)' = k
          BY <1>13, <2>9, <5>2 DEF IInv, Queues
        <5> QED BY <1>13, <2>1, <5>1, <5>3
      <4>2. Root(t) \in Flushed /\ Root(t) # m /\ Passed(Root(t))
        <5>1. Root(t) # m
          BY <1>2, <1>9, <3>2, GroupFacts
        <5>2. Root(t) \in Masters /\ state[Root(t)] \in Emitted
          <6>1. Root(t) \in Masters /\ (t # Root(t) => t \in Tasks \ Masters /\ Master[t] = Root(t))
            BY <3>2, GroupFacts
          <6> QED BY <3>2, <6>1 DEF IInv, Groups, Emitted
        <5> QED BY <1>7, <5>1, <5>2 DEF FlushOrder, Passed
      <4>3. ~ Before(m, Root(t))
        <5> SUFFICES ASSUME NEW n, n = Root(t), Before(m, n) PROVE FALSE
          OBVIOUS
        <5>1. n \in Flushed \ Silent \/ n \in Flushed
          BY <4>2
        <5>2. Dst(n) = Dst(m) /\ Dst(m) \in Allocs
          <6>1. Dst(t) = Dst(m) /\ Root(n) = n
            BY <2>1, <3>2, <4>1, <4>2, GroupFacts DEF Key
          <6> QED BY <1>7, <4>1, <4>2, <6>1, FlushedFacts DEF Dst
        <5>3. Precedes(Dst(m), m, n)
          <6>1. Touches(m, Dst(m)) /\ Touches(n, Dst(m))
            BY <1>7, <4>2, <5>2, FlushedFacts, GroupFacts DEF Touches
          <6> QED BY <1>7, <6>1 DEF Precedes, Writes, UpTo
        <5>4. m \notin Silent
          BY <1>7, <4>1, FlushedFacts
        <5>5. Clear(m, n)
          BY <1>7, <4>2, <5>2, <5>3, <5>4 DEF Blocked
        <5>6. ~ Passed(m)
          BY <1>5 DEF Passed, Emitted
        <5> QED BY <1>7, <5>5, <5>6, FlushedFacts DEF Clear
      <4>4. Before(Root(t), m)
        BY <1>7, <1>8, <4>2, <4>3
      <4> QED BY <1>13, <4>1, <4>4 DEF Before, Root
    <3> QED BY <3>3, <3>4
  <2>10. ASSUME NEW t \in Tasks, NEW u \in Tasks, Before(Root(t), Root(u)), Key(t) = Key(u), Dst(t) # NULL,
                state'[t] = "RUNNING"
         PROVE  state'[u] \notin Ended
    <3>1. CASE state[t] = "RUNNING"
      BY <1>7, <1>9, <2>10, <3>1 DEF QueueOrder
    <3>2. CASE t \in Group(m)
      <4> SUFFICES ASSUME state[u] \in Ended PROVE FALSE
        BY <1>9
      <4>1. PICK n \in Flushed : n = Root(u)
        BY <1>8, <2>10
      <4>2. Passed(n)
        BY <1>7, <4>1, EndedHasPassed
      <4>3. Dst(n) = Dst(m) /\ Dst(m) \in Allocs /\ m \notin Display /\ Before(m, n)
        <5>1. Dst(t) = Dst(m) /\ Dst(u) = Dst(m) /\ Root(t) = m /\ Root(n) = n
          BY <1>7, <2>1, <2>10, <3>2, <4>1, FlushedFacts DEF Key
        <5>2. Dst(n) = Dst(m)
          BY <4>1, <5>1 DEF Dst
        <5> QED BY <1>7, <2>10, <4>1, <5>1, <5>2, FlushedFacts
      <4>4. Precedes(Dst(m), m, n)
        <5>1. Touches(m, Dst(m)) /\ Touches(n, Dst(m))
          BY <1>7, <4>1, <4>3, FlushedFacts, GroupFacts DEF Touches
        <5> QED BY <1>7, <4>3, <5>1 DEF Precedes, Writes, UpTo
      <4>5. Clear(m, n)
        BY <1>7, <4>2, <4>3, <4>4, FlushedFacts DEF Blocked
      <4>6. ~ Passed(m)
        BY <1>5 DEF Passed, Emitted
      <4> QED BY <1>7, <4>5, <4>6, FlushedFacts DEF Clear
    <3> QED BY <1>9, <2>10, <3>1, <3>2
  <2>11. \A t \in Tasks : state'[t] = "RUNNING" /\ Root(t)' \notin Display =>
            \E i \in DOMAIN queue'[Key(t)'] : queue'[Key(t)'][i] = t
    BY <1>13, <2>8
  <2>12. \A t, u \in Tasks : Before(Root(t), Root(u))' /\ Key(t)' = Key(u)' /\ Dst(t)' # NULL
                               /\ state'[t] = "RUNNING" => state'[u] \notin Ended
    <3>1. \A t, u \in Tasks : Before(Root(t), Root(u))' <=> Before(Root(t), Root(u))
      BY <1>6 DEF Before, Root, Advances
    <3> QED BY <1>13, <2>10, <3>1
  <2> QED BY <1>13, <2>9, <2>11, <2>12 DEF QueueOrder
<1> QED BY <1>11, <1>12, <1>14, <1>16, <1>17 DEF OInv

-----------------------------------------------------------------------------
(* Setup() *)

(* What Setup() of t does that concerns the order of tasks *)
SetsUp(t) ==
    /\ Pull /\ t = Head(fifo) /\ state[t] = "FLUSHED"
    /\ state' = [state EXCEPT ![t] = "READY"]
    /\ notifies \subseteq notifies'
    /\ \A x \in Dependencies(t) : AddsNotify(x) =>
          [from |-> x.from, to |-> t, via |-> x.via,
           on |-> IF x.follow THEN "RUNNING" ELSE "FINISH"] \in notifies'
    /\ write_task' = [a \in Allocs |-> IF a = Dst(t) THEN t ELSE write_task[a]]
    /\ read_tasks' = [a \in Allocs |->
          (IF a = Dst(t) THEN {} ELSE read_tasks[a])
              \cup (IF a \in access[t].srcs THEN {t} ELSE {})]
    /\ flush' = (flush \ Superseded(t)) \cup (IF Dst(t) = NULL THEN {} ELSE {t})
    /\ calls' = calls \/ calls' = <<Frame("checkEmit", t)>>
    /\ UNCHANGED <<order, access, workload, queue, dirty>>

(* t is the next one in flush order to be set up. *)
NextToSetUp(t) ==
    /\ t \in Flushed /\ ~ SetUp(t)
    /\ \A m \in Flushed : Before(m, t) <=> SetUp(m)

LEMMA SetupFacts ==
    ASSUME IInv, OInv, NEW t \in Tasks, SetsUp(t)
    PROVE  /\ Advances /\ FlushOrder' /\ FifoOrder' /\ NextToSetUp(t)
           /\ \A u \in Tasks : u # t => state'[u] = state[u]
           /\ state'[t] = "READY"
           /\ \A m \in Flushed : /\ SetUp(m)' <=> SetUp(m) \/ m = t
                                 /\ Over(m)' <=> Over(m)
                                 /\ Passed(m)' <=> Passed(m)
           /\ \A u \in Tasks : /\ state'[u] = "RUNNING" <=> state[u] = "RUNNING"
                               /\ state'[u] \in Ended <=> state[u] \in Ended
<1>1. /\ FlushOrder /\ FifoOrder /\ state \in [Tasks -> TaskStates] /\ Pull /\ t = Head(fifo)
      /\ state[t] = "FLUSHED" /\ state' = [state EXCEPT ![t] = "READY"]
  BY InvFacts DEF IInv, Types, SetsUp
<1>2. state'[t] = "READY" /\ \A u \in Tasks : u # t => state'[u] = state[u]
  BY <1>1
<1>3. Advances
  BY <1>1, <1>2 DEF Advances, SetsUp
<1>4. \A u \in Tasks : /\ state'[u] = "RUNNING" <=> state[u] = "RUNNING"
                       /\ state'[u] \in Ended <=> state[u] \in Ended
                       /\ state'[u] = "FLUSHED" <=> state[u] = "FLUSHED" /\ u # t
                       /\ state'[u] \in Emitted \cup {"INVALID"} <=> state[u] \in Emitted \cup {"INVALID"}
  BY <1>1, <1>2 DEF Ended, Emitted
<1>5. \A m \in Flushed : m \in Tasks /\ Group(m) \subseteq Tasks
  BY <1>1, FlushedFacts
<1>6. \A m \in Flushed : /\ SetUp(m)' <=> SetUp(m) \/ m = t
                         /\ Over(m)' <=> Over(m)
                         /\ Passed(m)' <=> Passed(m)
  <2> SUFFICES ASSUME NEW m \in Flushed
               PROVE  /\ SetUp(m)' <=> SetUp(m) \/ m = t
                      /\ Over(m)' <=> Over(m)
                      /\ Passed(m)' <=> Passed(m)
    OBVIOUS
  <2>1. SetUp(m)' <=> SetUp(m) \/ m = t
    BY <1>1, <1>4, <1>5 DEF SetUp
  <2>2. Over(m)' <=> Over(m)
    BY <1>4, <1>5 DEF Over, Group, SlavesOf
  <2>3. Passed(m)' <=> Passed(m)
    BY <1>4, <1>5 DEF Passed
  <2> QED BY <2>1, <2>2, <2>3
<1>7. FlushOrder'
  <2>1. \A m \in Flushed : state'[m] = "INVALID" /\ state[m] # "INVALID" => Over(m)'
    BY <1>1, <1>2, <1>5
  <2> QED BY <1>1, <1>3, <2>1, FlushOrderStays
<1>8. /\ FifoOrder'
      /\ \A n \in Flushed : n = Head(fifo) /\ state[n] = "FLUSHED" =>
            \A m \in Flushed : Before(m, n) <=> SetUp(m)
  BY <1>1, <1>3, <1>4, FifoPulled
<1>9. NextToSetUp(t)
  <2>1. t \in Masters
    BY <1>1 DEF IInv, Groups
  <2>2. t \in Flushed
    BY <1>1, <2>1 DEF FlushOrder
  <2> QED BY <1>1, <1>8, <2>2 DEF NextToSetUp, SetUp
<1> QED BY <1>2, <1>3, <1>4, <1>6, <1>7, <1>8, <1>9

(* Setup() finds somebody to wait for in what is recorded of an allocation. *)
LEMMA FindsBlocker ==
    ASSUME IInv, OInv, OrderlyWorkloads, NEW t, NextToSetUp(t), NEW a \in Allocs,
           NEW m \in Flushed \ Silent, Precedes(a, m, t), ~ Over(m)
    PROVE  \E x \in Dependencies(t) :
              /\ x.from \in Flushed /\ (m = x.from \/ Precedes(a, m, x.from))
              /\ x.follow => Queued(x.from, t) \/ x.from \in Silent
<1> DEFINE w == write_task[a]
           r == read_tasks[a]
<1>1. FlushOrder /\ order \in Seq(Tasks) /\ t \in Flushed /\ a # NULL
  BY InvFacts, GroupFacts DEF NextToSetUp
<1>2. /\ w # NULL => w \in Flushed /\ SetUp(w) /\ Writes(w, a)
      /\ \A k \in r : k \in Flushed /\ SetUp(k) /\ a \in access[k].srcs /\ (w # NULL => UpTo(w, k))
      /\ \A n \in Flushed \ Silent : SetUp(n) /\ Touches(n, a) /\ ~ Over(n) =>
            \/ w # NULL /\ UpTo(n, w)
            \/ ~ Writes(n, a) /\ n \in r
  BY InvFacts DEF Records, Recorded
<1>3. /\ m # t /\ Before(m, t) /\ SetUp(m) /\ Touches(m, a) /\ Touches(t, a)
      /\ (w # NULL /\ UpTo(m, w)) \/ (~ Writes(m, a) /\ m \in r)
  <2>1. Before(m, t) /\ Touches(m, a) /\ Touches(t, a)
    BY DEF Precedes
  <2>2. m # t /\ SetUp(m)
    BY <1>1, <2>1, OrderFacts DEF NextToSetUp
  <2> QED BY <1>2, <2>1, <2>2
<1>4. \A k \in r : k \in Tasks /\ Touches(k, a)
  BY <1>1, <1>2, FlushedFacts DEF Touches
<1>5. w # NULL => Touches(w, a)
  BY <1>1, <1>2, FlushedFacts DEF Touches, Writes
<1>6. w # NULL /\ UpTo(m, w) => m = w \/ Precedes(a, m, w)
  BY <1>1, <1>2, <1>3, <1>5, PrecedesFacts DEF UpTo
<1>7. "FOLLOW_WRITER" \notin InitFlags[t]
  <2>1. t \in Masters /\ access[t] \in workload[t] /\ workload \in Workloads
    BY <1>1, FlushedFacts
  <2> QED BY <2>1 DEF OrderlyWorkloads, Orderly
<1>8. ASSUME w # NULL, UpTo(m, w), a = Dst(t) => r = {}
      PROVE  \E x \in Dependencies(t) :
              /\ x.from \in Flushed /\ (m = x.from \/ Precedes(a, m, x.from))
              /\ x.follow => Queued(x.from, t) \/ x.from \in Silent
  <2> DEFINE x == Dependency(w, t, "FOLLOW_WRITER", a)
  <2>1. x \in Dependencies(t)
    <3> DEFINE W(b) == {Dependency(u, t, "FOLLOW_WRITER", b) : u \in Writer(b)}
               B == UNION {W(b) : b \in {c \in Accessed(t) : c = Dst(t) => read_tasks[c] = {}}}
    <3>1. a \in {c \in Accessed(t) : c = Dst(t) => read_tasks[c] = {}}
      BY <1>3, <1>8 DEF Touches
    <3>2. x \in W(a)
      BY <1>8 DEF Writer
    <3>3. x \in B
      BY <3>1, <3>2
    <3> QED BY <3>3 DEF Dependencies
  <2>2. x.from = w /\ (x.follow => SameQueue(w, t))
    BY <1>7 DEF Dependency
  <2>3. SameQueue(w, t) => Queued(w, t)
    BY <1>1, <1>2, <1>8 DEF Queued, SameQueue, Writes
  <2> HIDE DEF x
  <2> QED BY <1>2, <1>6, <1>8, <2>1, <2>2, <2>3
<1>9. CASE Writes(t, a) /\ r # {}
  <2>1. PICK k \in r : m = k \/ (m \notin r /\ w # NULL /\ UpTo(m, w))
    BY <1>3, <1>9
  <2>2. k \in Flushed /\ SetUp(k) /\ a \in access[k].srcs /\ (w # NULL => UpTo(w, k))
    BY <1>2
  <2>3. m = k \/ Precedes(a, m, k)
    BY <1>1, <1>2, <1>3, <1>4, <2>1, <2>2, PrecedesFacts
  <2> DEFINE x == Dependency(k, t, "FOLLOW_READER", Dst(t))
  <2>4. x \in Dependencies(t)
    <3>1. k \in (IF Dst(t) = NULL THEN {} ELSE read_tasks[Dst(t)])
      BY <1>1, <1>9 DEF Writes
    <3> QED BY <3>1 DEF Dependencies
  <2>5. x.from = k /\ (x.follow => SameQueue(k, t) \/ "FOLLOW_READER" \in InitFlags[t])
    BY DEF Dependency
  <2>6. SameQueue(k, t) => Queued(k, t)
    BY <1>1, <1>9 DEF Queued, Writes
  <2>7. "FOLLOW_READER" \in InitFlags[t] => k \in Silent
    <3>1. /\ t \in Masters /\ access[t] \in workload[t] /\ workload \in Workloads
          /\ k \in Masters /\ access[k] \in workload[k] /\ k \in Tasks /\ Dst(t) = access[t].dst
      BY <1>1, <2>2, FlushedFacts DEF Dst
    <3>2. access[t].dst \in access[k].srcs
      BY <1>9, <2>2, <3>1 DEF Writes
    <3> QED BY <3>1, <3>2 DEF OrderlyWorkloads, Orderly, Silent
  <2> HIDE DEF x
  <2> QED BY <2>2, <2>3, <2>4, <2>5, <2>6, <2>7
<1>10. CASE Writes(t, a) /\ r = {}
  BY <1>3, <1>8, <1>10
<1>11. CASE ~ Writes(t, a)
  <2>1. a = Dst(t) => r = {}
    BY <1>11 DEF Writes
  <2>2. CASE w # NULL /\ UpTo(m, w)
    BY <1>8, <2>1, <2>2
  <2>3. CASE ~ (w # NULL /\ UpTo(m, w))
    <3>1. PICK v \in Flushed : Writes(v, a) /\ UpTo(m, v) /\ UpTo(v, t)
      BY DEF Precedes
    <3>2. v # t /\ v # m /\ Before(v, t) /\ Before(m, v) /\ ~ Writes(m, a)
      BY <1>3, <1>11, <2>3, <3>1 DEF UpTo
    <3>3. SetUp(v) /\ v \notin Silent /\ Touches(v, a)
      <4>1. v \notin Silent /\ Touches(v, a)
        BY <1>1, <3>1, FlushedFacts DEF Writes, Touches
      <4> QED BY <3>2, <4>1 DEF NextToSetUp
    <3>4. Over(v)
      <4> SUFFICES ASSUME ~ Over(v) PROVE FALSE
        OBVIOUS
      <4>1. w # NULL /\ UpTo(v, w)
        BY <1>2, <3>1, <3>3
      <4>2. UpTo(m, w)
        BY <1>1, <3>2, <4>1, OrderFacts DEF UpTo
      <4> QED BY <2>3, <4>1, <4>2
    <3>5. Precedes(a, m, v)
      BY <1>3, <3>1, <3>2, <3>3 DEF Precedes, UpTo
    <3> QED BY <3>4, <3>5, OverBack
  <2> QED BY <2>2, <2>3
<1> QED BY <1>9, <1>10, <1>11

(* AddNotify() returns early when there is nothing left to wait for. *)
LEMMA EarlyReturn ==
    ASSUME IInv, OInv, OrderlyWorkloads, NEW t \in Flushed, NEW a \in Allocs,
           NEW m \in Flushed \ Silent, NEW x, x.from \in Flushed, m = x.from \/ Precedes(a, m, x.from),
           x.follow => Queued(x.from, t) \/ x.from \in Silent, ~ AddsNotify(x)
    PROVE  Clear(m, t)
<1> DEFINE k == x.from
<1>1. FlushOrder
  BY DEF OInv
<1>2. /\ k \in Flushed /\ k \in Tasks /\ k \in Masters
      /\ k \in Silent <=> "EMITNOTIFIES" \in InitFlags[k]
  BY <1>1, FlushedFacts DEF Silent
<1>3. Passed(k)
  BY DEF AddsNotify, Passed, Emitted
<1>4. Over(k) \/ Queued(k, t) \/ k \in Silent
  <2>1. CASE x.follow
    BY <2>1
  <2>2. CASE "EMITNOTIFIES" \in InitFlags[k]
    BY <1>2, <2>2
  <2>3. CASE state[k] = "FINISH" /\ slaves[k] = 0
    <3>1. slaves[k] = Cardinality(Unfinished(k))
      BY <1>2, <2>3 DEF IInv, Groups, Emitted
    <3>2. IsFiniteSet(Unfinished(k))
      <4>1. Unfinished(k) \in SUBSET SlavesOf(k)
        BY DEF Unfinished
      <4> QED BY <1>2, <4>1, FiniteGroups, FS_Subset
    <3>3. Unfinished(k) = {}
      BY <2>3, <3>1, <3>2, FS_EmptySet
    <3> QED BY <2>3, <3>3 DEF Unfinished, Over, Group, Ended
  <2> QED BY <2>1, <2>2, <2>3 DEF AddsNotify
<1> QED BY <1>2, <1>3, <1>4, Through

LEMMA SetupRecords == ASSUME IInv, OInv, NEW t \in Tasks, SetsUp(t) PROVE Records'
<1>1. /\ Flushed' = Flushed /\ Silent' = Silent /\ access' = access
      /\ \A m, n : UpTo(m, n)' <=> UpTo(m, n)
      /\ \A a, m : (Writes(m, a)' <=> Writes(m, a)) /\ (Touches(m, a)' <=> Touches(m, a))
      /\ \A m \in Flushed : (SetUp(m)' <=> SetUp(m) \/ m = t) /\ (Over(m)' <=> Over(m))
  BY SetupFacts, SameOrder DEF Advances, Silent
<1>2. FlushOrder /\ NextToSetUp(t) /\ t \in Flushed /\ t # NULL /\ NULL \notin Tasks
  BY SetupFacts, InvFacts, GroupFacts DEF NextToSetUp
<1>3. /\ \A m \in Flushed : SetUp(m) => UpTo(m, t)
      /\ Accessed(t) = access[t].srcs \cup ({Dst(t)} \ {NULL})
  BY <1>2, FlushedFacts DEF NextToSetUp, UpTo
<1> SUFFICES ASSUME NEW a \in Allocs, NEW w, w = write_task[a], NEW r, r = read_tasks[a],
                    NEW v, v = IF a = Dst(t) THEN t ELSE w,
                    NEW q, q = (IF a = Dst(t) THEN {} ELSE r) \cup (IF a \in access[t].srcs THEN {t} ELSE {})
             PROVE  Recorded(a, v, q)'
  BY DEF Records, SetsUp
<1>4. Recorded(a, w, r)
  BY InvFacts DEF Records
<1>5. v # NULL => v \in Flushed' /\ SetUp(v)' /\ Writes(v, a)'
  BY <1>1, <1>2, <1>4 DEF Recorded, Writes
<1>6. ASSUME NEW k \in q
      PROVE  k \in Flushed' /\ SetUp(k)' /\ a \in access'[k].srcs /\ (v # NULL => UpTo(v, k)')
  <2>1. CASE k = t
    <3>1. a \in access[t].srcs
      <4>1. k \in r /\ a # Dst(t) => SetUp(k)
        BY <1>4 DEF Recorded
      <4> QED BY <1>2, <1>6, <2>1, <4>1 DEF NextToSetUp
    <3>2. v # NULL => UpTo(v, t)
      <4>1. w # NULL => UpTo(w, t)
        BY <1>3, <1>4 DEF Recorded
      <4> QED BY <4>1 DEF UpTo
    <3> QED BY <1>1, <1>2, <2>1, <3>1, <3>2
  <2>2. CASE k # t
    <3>1. k \in r /\ v = w
      BY <1>6, <2>2
    <3> QED BY <1>1, <1>4, <3>1 DEF Recorded
  <2> QED BY <2>1, <2>2
<1>7. ASSUME NEW m \in Flushed \ Silent, SetUp(m)', Touches(m, a)
      PROVE  \/ Over(m)
             \/ v # NULL /\ UpTo(m, v)
             \/ ~ Writes(m, a) /\ m \in q
  <2>1. CASE a = Dst(t)
    BY <1>1, <1>2, <1>3, <1>7, <2>1 DEF UpTo
  <2>2. CASE a # Dst(t) /\ m = t
    BY <1>3, <1>7, <2>2 DEF Touches, Writes
  <2>3. CASE a # Dst(t) /\ m # t
    BY <1>1, <1>4, <1>7, <2>3 DEF Recorded
  <2> QED BY <2>1, <2>2, <2>3
<1> QED BY <1>1, <1>5, <1>6, <1>7 DEF Recorded

LEMMA SetupBlocked == ASSUME IInv, OInv, OrderlyWorkloads, NEW t \in Tasks, SetsUp(t) PROVE Blocked'
<1>1. /\ Flushed' = Flushed /\ Silent' = Silent
      /\ \A m, n : Queued(m, n)' <=> Queued(m, n)
      /\ \A a, m, n : Precedes(a, m, n)' <=> Precedes(a, m, n)
      /\ \A m \in Flushed : \A n : Clear(m, n) => Clear(m, n)'
      /\ \A m \in Flushed : m \in Tasks /\ (Passed(m)' <=> Passed(m))
      /\ \A u \in Tasks : u # t => state'[u] = state[u]
      /\ FlushOrder /\ NextToSetUp(t) /\ t \in Flushed
  BY SetupFacts, SameOrder, Progress, FlushedFacts, InvFacts DEF Advances, Silent, NextToSetUp
<1>2. \A a, m, n : WaitsFor(a, m, n) => WaitsFor(a, m, n)'
  BY <1>1 DEF WaitsFor, SetsUp
<1>3. ASSUME NEW a \in Allocs, NEW m \in Flushed \ Silent, Precedes(a, m, t)
      PROVE  Clear(m, t) \/ WaitsFor(a, m, t)'
  <2>1. CASE Over(m)
    BY <2>1 DEF Clear
  <2>2. CASE ~ Over(m)
    <3>1. PICK x \in Dependencies(t) :
              /\ x.from \in Flushed /\ (m = x.from \/ Precedes(a, m, x.from))
              /\ x.follow => Queued(x.from, t) \/ x.from \in Silent
      BY <1>1, <1>3, <2>2, FindsBlocker
    <3>2. CASE AddsNotify(x)
      <4> DEFINE y == [from |-> x.from, to |-> t, via |-> x.via,
                       on |-> IF x.follow THEN "RUNNING" ELSE "FINISH"]
      <4>1. y \in notifies'
        BY <3>2 DEF SetsUp
      <4>2. y.from = x.from /\ y.to = t /\ (y.on = "RUNNING" => x.follow)
        OBVIOUS
      <4> HIDE DEF y
      <4>3. /\ y.from = m \/ Precedes(a, m, y.from)'
            /\ y.on = "RUNNING" => Queued(y.from, t)' \/ y.from \in Silent'
        BY <1>1, <3>1, <4>2
      <4> QED BY <4>1, <4>2, <4>3 DEF WaitsFor
    <3>3. CASE ~ AddsNotify(x)
      BY <1>1, <3>1, <3>3, EarlyReturn
    <3> QED BY <3>2, <3>3
  <2> QED BY <2>1, <2>2
<1>4. ASSUME NEW a \in Allocs, NEW n \in Flushed, NEW m \in Flushed \ Silent, Precedes(a, m, n)
      PROVE  /\ Passed(n)' => Clear(m, n)'
             /\ state'[n] = "READY" => Clear(m, n)' \/ WaitsFor(a, m, n)'
  <2>1. Passed(n)' => Clear(m, n)'
    BY <1>1, <1>4, InvFacts DEF Blocked
  <2>2. CASE n = t
    BY <1>1, <1>3, <1>4, <2>1, <2>2
  <2>3. CASE n # t
    BY <1>1, <1>2, <1>4, <2>1, <2>3, InvFacts DEF Blocked
  <2> QED BY <2>2, <2>3
<1> QED BY <1>1, <1>4 DEF Blocked

LEMMA SetupCaches == ASSUME IInv, OInv, NEW t \in Tasks, SetsUp(t) PROVE Caches'
<1>1. /\ Flushed' = Flushed /\ access' = access /\ dirty' = dirty /\ Silent' = Silent
      /\ \A m, n : (Before(m, n)' <=> Before(m, n)) /\ (Queued(m, n)' <=> Queued(m, n))
      /\ \A m : Dst(m)' = Dst(m) /\ Acc(m)' = Acc(m)
      /\ \A a, m, n : Foreign(m, a, n)' <=> Foreign(m, a, n)
      /\ \A m \in Flushed : (SetUp(m)' <=> SetUp(m) \/ m = t) /\ (Over(m)' <=> Over(m))
  BY SetupFacts, SameOrder DEF Advances, Silent, SetsUp
<1>2. /\ FlushOrder /\ order \in Seq(Tasks) /\ NextToSetUp(t) /\ t \in Flushed /\ Caches
      /\ \A m \in Flushed : Dst(m) \in Allocs \cup {NULL}
  BY SetupFacts, InvFacts, FlushedFacts DEF NextToSetUp
<1>3. \A v, w \in Flushed : Successor(v, w) => Successor(v, w)'
  BY <1>1 DEF Successor
<1>4. \A v \in Flushed : \A a \in Allocs : Flusher(a, v) => Flusher(a, v)'
  BY <1>1 DEF Flusher
<1>5. ASSUME NEW v \in Flushed, v \in Superseded(t) PROVE Successor(v, t)'
  <2> DEFINE a == Dst(v)
  <2>1. /\ Dst(t) # NULL /\ v = write_task[Dst(t)] /\ v # NULL /\ read_tasks[Dst(t)] = {} /\ Acc(v) = Acc(t)
    BY <1>5 DEF Superseded, Writer
  <2>2. Dst(t) \in Allocs
    BY <1>2, <2>1
  <2>3. Recorded(Dst(t), v, {})
    BY <2>1, <2>2, InvFacts DEF Records
  <2>4. a = Dst(t) /\ SetUp(v)
    BY <2>1, <2>3 DEF Recorded, Writes
  <2>5. Before(v, t) /\ Queued(v, t)
    BY <1>2, <2>1, <2>4 DEF NextToSetUp, Queued, SameQueue
  <2>6. ASSUME NEW x \in Flushed \ Silent, Foreign(x, a, v), Before(v, x), Before(x, t) PROVE Over(x)
    <3>1. SetUp(x) /\ Touches(x, a)
      BY <1>2, <2>6 DEF NextToSetUp, Foreign
    <3>2. Over(x) \/ UpTo(x, v)
      BY <2>3, <2>4, <3>1 DEF Recorded
    <3> QED BY <1>2, <2>6, <3>2, OrderFacts DEF UpTo
  <2> QED BY <1>1, <1>2, <2>5, <2>6 DEF Successor
<1>6. ASSUME NEW v \in Flushed, SetUp(v)', Dst(v) # NULL, ~ Over(v), v \notin flush'
      PROVE  \E w \in Flushed : Successor(v, w)'
  <2>1. v # t /\ SetUp(v) /\ (v \notin flush \/ v \in Superseded(t))
    BY <1>1, <1>6 DEF SetsUp
  <2>2. CASE v \in Superseded(t)
    BY <1>2, <1>5, <2>2
  <2>3. CASE v \notin flush
    BY <1>2, <1>3, <1>6, <2>1, <2>3 DEF Caches
  <2> QED BY <2>1, <2>2, <2>3
<1> QED BY <1>1, <1>2, <1>4, <1>6 DEF Caches

LEMMA SetupTaskOrder == OrderlyWorkloads /\ IInv /\ OInv /\ SetupTask => OInv'
<1> SUFFICES ASSUME OrderlyWorkloads, IInv, OInv, SetupTask PROVE OInv'
  OBVIOUS
<1>1. PICK t \in Tasks : t = Head(fifo)
  BY Pulled DEF SetupTask
<1>2. SetsUp(t)
  <2> DEFINE blocking == {x \in Dependencies(t) : AddsNotify(x)}
             Note(x) == [from |-> x.from, to |-> t, via |-> x.via,
                         on |-> IF x.follow THEN "RUNNING" ELSE "FINISH"]
  <2>1. /\ Pull /\ state[t] = "FLUSHED" /\ state' = [state EXCEPT ![t] = "READY"]
        /\ notifies' = notifies \cup {Note(x) : x \in blocking}
        /\ write_task' = [a \in Allocs |-> IF a = Dst(t) THEN t ELSE write_task[a]]
        /\ read_tasks' = [a \in Allocs |->
              (IF a = Dst(t) THEN {} ELSE read_tasks[a])
                  \cup (IF a \in access[t].srcs THEN {t} ELSE {})]
        /\ flush' = (flush \ Superseded(t)) \cup (IF Dst(t) = NULL THEN {} ELSE {t})
        /\ calls' = calls \/ calls' = <<Frame("checkEmit", t)>>
        /\ UNCHANGED <<order, access, workload, queue, dirty>>
    BY <1>1 DEF SetupTask, engineVars, clientVars
  <2>2. \A x \in Dependencies(t) : AddsNotify(x) => Note(x) \in notifies'
    BY <2>1
  <2> QED BY <1>1, <2>1, <2>2 DEF SetsUp
<1>3. Advances /\ FlushOrder' /\ FifoOrder' /\ FlushOrder /\ QueueOrder
  BY <1>2, SetupFacts, InvFacts
<1>4. Records' /\ Blocked' /\ Caches'
  BY <1>2, SetupRecords, SetupBlocked, SetupCaches
<1>5. QueueOrder'
  <2>1. queue' = queue
    BY <1>2 DEF SetsUp
  <2>2. \A u \in Tasks : /\ state'[u] = "RUNNING" <=> state[u] = "RUNNING"
                         /\ state'[u] \in Ended <=> state[u] \in Ended
    BY <1>2, SetupFacts
  <2> QED BY <1>3, <2>1, <2>2, QueueOrderStays
<1>6. ProperCalls'
  <2>1. \A g : g = Frame("checkEmit", t) => Proper(g)'
    BY OtherFrame
  <2>2. \A i \in DOMAIN calls' : (\E j \in DOMAIN calls : calls'[i] = calls[j]) \/ calls'[i] = Frame("checkEmit", t)
    BY <1>2 DEF SetsUp
  <2>3. \A i \in DOMAIN calls' : \/ \E j \in DOMAIN calls : calls'[i] = calls[j]
                                 \/ \E g : calls'[i] = g /\ Proper(g)'
    BY <2>1, <2>2
  <2> QED BY <1>3, <2>3, CallsStay, InvFacts
<1> QED BY <1>3, <1>4, <1>5, <1>6 DEF OInv

-----------------------------------------------------------------------------
(* A flushed task is the last one, and knows nobody. *)

LEMMA FlushFacts ==
    ASSUME IInv, OInv, NEW m \in Masters, NEW c \in workload[m], Flush(m, c)
    PROVE  /\ m \notin Flushed /\ Flushed' = Flushed \cup {m} /\ m \in Tasks
           /\ ~ SetUp(m)' /\ ~ Passed(m)'
           /\ \A x, y : Before(x, y)' <=> Before(x, y) \/ (x \in Flushed /\ y = m)
           /\ \A x : ~ Before(x, m) /\ ~ Before(m, x)
           /\ \A t \in Group(m) : t \in Tasks /\ state[t] = "NONE" /\ state'[t] \in {"FLUSHED", "NEW"}
           /\ \A t \in Tasks : /\ t \in Group(m) <=> Root(t) = m
                               /\ Root(t) # m => state'[t] = state[t] /\ Key(t)' = Key(t) /\ Dst(t)' = Dst(t)
           /\ \A x \in Masters \ {m} : /\ Over(x)' <=> Over(x)
                                       /\ Passed(x)' <=> Passed(x)
                                       /\ SetUp(x)' <=> SetUp(x)
<1>1. /\ state[m] = "NONE"
      /\ state' = [t \in Tasks |-> IF t = m THEN "FLUSHED"
                                   ELSE IF t \in SlavesOf(m) THEN "NEW" ELSE state[t]]
      /\ access' = [access EXCEPT ![m] = c]
      /\ order' = Append(order, m)
  BY DEF Flush
<1>2. /\ m \in Tasks /\ order \in Seq(Tasks) /\ access \in [Tasks -> AccessSets \cup {NoAccess}] /\ FlushOrder
      /\ \A t \in Tasks : /\ t \in Group(m) <=> Root(t) = m
                          /\ t \in SlavesOf(m) <=> Root(t) = m /\ t # m
      /\ Group(m) \subseteq Tasks /\ m \in Group(m) /\ Root(m) = m
      /\ \A t \in Tasks : Root(t) \in Tasks
      /\ \A x \in Masters : Root(x) = x /\ x \in Tasks /\ Group(x) \subseteq Tasks
                            /\ \A t \in Group(x) : Root(t) = x
  BY GroupFacts, InvFacts DEF IInv, Types
<1>3. \A t \in Group(m) : t \in Tasks /\ state[t] = "NONE"
  <2> SUFFICES ASSUME NEW t \in Group(m), t # m PROVE state[t] = "NONE"
    BY <1>1, <1>2
  <2>1. t \in Tasks \ Masters /\ Master[t] = m
    BY <1>2, GroupFacts
  <2> QED BY <1>1, <2>1 DEF IInv, Groups
<1>4. \A t \in Group(m) : state'[t] \in {"FLUSHED", "NEW"}
  BY <1>1, <1>2
<1>5. m \notin Flushed
  BY <1>1, <1>2, FlushedFacts DEF FlushOrder
<1>6. \A t \in Tasks : Root(t) # m => state'[t] = state[t] /\ access'[Root(t)] = access[Root(t)]
  BY <1>1, <1>2
<1>7. \A t \in Tasks : Root(t) # m => Key(t)' = Key(t) /\ Dst(t)' = Dst(t)
  BY <1>6 DEF Key, Dst, Acc, Root
<1>8. \A x \in Masters \ {m} : /\ Over(x)' <=> Over(x)
                               /\ Passed(x)' <=> Passed(x)
                               /\ SetUp(x)' <=> SetUp(x)
  <2> SUFFICES ASSUME NEW x \in Masters, x # m
               PROVE  /\ Over(x)' <=> Over(x)
                      /\ Passed(x)' <=> Passed(x)
                      /\ SetUp(x)' <=> SetUp(x)
    OBVIOUS
  <2>1. state'[x] = state[x] /\ \A t \in Group(x) : state'[t] = state[t]
    BY <1>2, <1>6
  <2> QED BY <2>1 DEF Over, Passed, SetUp, Group, SlavesOf
<1>9. state'[m] = "FLUSHED"
  BY <1>1, <1>2
<1>10. ~ SetUp(m)' /\ ~ Passed(m)'
  BY <1>9 DEF SetUp, Passed, Emitted
<1> DEFINE l == Len(order)
           r == order'
<1>11. /\ l \in Nat /\ DOMAIN order = 1..l /\ DOMAIN r = 1..l + 1 /\ r[l + 1] = m
       /\ \A i \in 1..l : r[i] = order[i]
  BY ONLY <1>1, <1>2, Appended DEF l, r
<1> HIDE DEF l, r
<1>12. /\ \A i \in 1..l : i \in 1..l + 1 /\ i < l + 1
       /\ \A i \in 1..l + 1 : i \in 1..l \/ i = l + 1
       /\ l + 1 \in 1..l + 1 /\ \A i \in 1..l + 1 : ~ (l + 1 < i)
  BY <1>11
<1>13. Flushed' = Flushed \cup {m}
  <2>1. {r[i] : i \in DOMAIN r} = {order[i] : i \in DOMAIN order} \cup {m}
    BY <1>11, <1>12
  <2> QED BY <2>1 DEF Flushed, r
<1>14. \A x, y : Before(x, y)' <=> Before(x, y) \/ (x \in Flushed /\ y = m)
  <2> SUFFICES ASSUME NEW x, NEW y
               PROVE  (\E i, j \in DOMAIN r : i < j /\ r[i] = x /\ r[j] = y)
                         <=> Before(x, y) \/ (x \in Flushed /\ y = m)
    BY DEF Before, r
  <2>1. ASSUME NEW i \in DOMAIN r, NEW j \in DOMAIN r, i < j, r[i] = x, r[j] = y
        PROVE  Before(x, y) \/ (x \in Flushed /\ y = m)
    <3>1. i \in 1..l /\ order[i] = x
      BY <1>11, <1>12, <2>1
    <3>2. CASE j = l + 1
      BY <1>11, <2>1, <3>1, <3>2 DEF Flushed
    <3>3. CASE j # l + 1
      <4>1. j \in 1..l /\ order[j] = y
        BY <1>11, <1>12, <2>1, <3>3
      <4> QED BY <1>11, <2>1, <3>1, <4>1 DEF Before
    <3> QED BY <3>2, <3>3
  <2>2. ASSUME Before(x, y) PROVE \E i, j \in DOMAIN r : i < j /\ r[i] = x /\ r[j] = y
    <3>1. PICK i, j \in DOMAIN order : i < j /\ order[i] = x /\ order[j] = y
      BY <2>2 DEF Before
    <3> QED BY <1>11, <1>12, <3>1
  <2>3. ASSUME x \in Flushed, y = m PROVE \E i, j \in DOMAIN r : i < j /\ r[i] = x /\ r[j] = y
    <3>1. PICK i \in DOMAIN order : order[i] = x
      BY <2>3 DEF Flushed
    <3> QED BY <1>11, <1>12, <2>3, <3>1
  <2> QED BY <2>1, <2>2, <2>3
<1>15. \A x : ~ Before(x, m) /\ ~ Before(m, x)
  BY <1>2, <1>5, OrderFacts
<1> QED BY <1>2, <1>3, <1>4, <1>5, <1>6, <1>7, <1>8, <1>10, <1>13, <1>14, <1>15

(* What the masters that were flushed before accessed has not changed. *)
LEMMA FlushKeeps ==
    ASSUME IInv, OInv, NEW m \in Masters, NEW c \in workload[m], Flush(m, c)
    PROVE  /\ \A x \in Flushed : /\ x \in Masters /\ x # m
                                 /\ access'[x] = access[x] /\ Dst(x)' = Dst(x) /\ Acc(x)' = Acc(x)
                                 /\ \A a : (Touches(x, a)' <=> Touches(x, a)) /\ (Writes(x, a)' <=> Writes(x, a))
           /\ \A x, y \in Flushed : /\ Queued(x, y)' <=> Queued(x, y)
                                    /\ UpTo(x, y)' <=> UpTo(x, y)
                                    /\ Clear(x, y)' <=> Clear(x, y)
                                    /\ \A a : Foreign(x, a, y)' <=> Foreign(x, a, y)
                                    /\ \A a : Precedes(a, x, y)' <=> Precedes(a, x, y)
<1>1. FlushOrder /\ access \in [Tasks -> AccessSets \cup {NoAccess}]
      /\ access' = [access EXCEPT ![m] = c]
  BY InvFacts DEF IInv, Types, Flush
<1>2. \A x \in Flushed : x \in Masters /\ x \in Tasks /\ x # m /\ Root(x) = x
  BY <1>1, FlushFacts, FlushedFacts
<1>3. \A x \in Flushed : access'[x] = access[x]
  BY <1>1, <1>2
<1>4. \A x \in Flushed : Dst(x)' = Dst(x) /\ Acc(x)' = Acc(x) /\ Accessed(x)' = Accessed(x)
  BY <1>2, <1>3 DEF Dst, Acc, Accessed, Root
<1>5. \A x \in Flushed : \A a : (Touches(x, a)' <=> Touches(x, a)) /\ (Writes(x, a)' <=> Writes(x, a))
  BY <1>4 DEF Touches, Writes
<1>6. \A x, y \in Flushed : /\ Queued(x, y)' <=> Queued(x, y)
                            /\ Before(x, y)' <=> Before(x, y)
                            /\ UpTo(x, y)' <=> UpTo(x, y)
                            /\ \A a : Foreign(x, a, y)' <=> Foreign(x, a, y)
  BY <1>2, <1>4, <1>5, FlushFacts DEF Queued, SameQueue, UpTo, Foreign
<1>7. \A x, y \in Flushed : Clear(x, y)' <=> Clear(x, y)
  BY <1>2, <1>6, FlushFacts DEF Clear
<1>8. ASSUME NEW x \in Flushed, NEW y \in Flushed, NEW a PROVE Precedes(a, x, y)' <=> Precedes(a, x, y)
  <2>1. Flushed' = Flushed \cup {m} /\ ~ UpTo(m, y)'
    BY <1>2, FlushFacts DEF UpTo
  <2>2. (\E w \in Flushed' : Writes(w, a)' /\ UpTo(x, w)' /\ UpTo(w, y)')
           <=> (\E w \in Flushed : Writes(w, a) /\ UpTo(x, w) /\ UpTo(w, y))
    BY <1>5, <1>6, <2>1
  <2> QED BY <1>5, <1>6, <2>2 DEF Precedes
<1> QED BY <1>2, <1>3, <1>4, <1>5, <1>6, <1>7, <1>8

LEMMA FlushTaskOrder ==
    ASSUME IInv, OInv, NEW m \in Masters, NEW c \in workload[m], Flush(m, c) PROVE OInv'
<1>1. /\ access' = [access EXCEPT ![m] = c] /\ fifo' = Append(fifo, m)
      /\ order' = Append(order, m)
      /\ UNCHANGED <<workload, notifies, calls, queue, dirty, flush, write_task, read_tasks>>
  BY DEF Flush, allocVars, engineVars
<1>2. /\ FlushOrder /\ FifoOrder /\ ProperCalls /\ Records /\ Blocked /\ QueueOrder /\ Caches
      /\ order \in Seq(Tasks) /\ fifo \in Seq(Tasks) /\ Silent' = Silent /\ Keys' = Keys
      /\ \A t : Root(t)' = Root(t)
  BY InvFacts DEF IInv, Incoming, Silent, Keys, Tiles, Root
<1>3. /\ m \notin Flushed /\ Flushed' = Flushed \cup {m} /\ m \in Tasks
      /\ ~ SetUp(m)' /\ ~ Passed(m)'
      /\ \A x, y : Before(x, y)' <=> Before(x, y) \/ (x \in Flushed /\ y = m)
      /\ \A x : ~ Before(x, m) /\ ~ Before(m, x)
      /\ \A x, y : Before(x, y) => x \in Flushed /\ y \in Flushed /\ x # y
  BY <1>2, FlushFacts, OrderFacts
<1>4. /\ \A t \in Group(m) : t \in Tasks /\ state[t] = "NONE" /\ state'[t] \in {"FLUSHED", "NEW"}
      /\ \A t \in Tasks : /\ t \in Group(m) <=> Root(t) = m
                          /\ Root(t) # m => state'[t] = state[t] /\ Key(t)' = Key(t) /\ Dst(t)' = Dst(t)
      /\ \A x \in Masters \ {m} : /\ Over(x)' <=> Over(x)
                                  /\ Passed(x)' <=> Passed(x)
                                  /\ SetUp(x)' <=> SetUp(x)
  BY FlushFacts
<1>5. /\ \A x \in Flushed : /\ x \in Masters /\ x # m /\ x \in Tasks /\ Root(x) = x
                            /\ access'[x] = access[x] /\ Dst(x)' = Dst(x) /\ Acc(x)' = Acc(x)
                            /\ \A a : (Touches(x, a)' <=> Touches(x, a)) /\ (Writes(x, a)' <=> Writes(x, a))
      /\ \A x, y \in Flushed : /\ Queued(x, y)' <=> Queued(x, y)
                               /\ UpTo(x, y)' <=> UpTo(x, y)
                               /\ Clear(x, y)' <=> Clear(x, y)
                               /\ \A a : Foreign(x, a, y)' <=> Foreign(x, a, y)
                               /\ \A a : Precedes(a, x, y)' <=> Precedes(a, x, y)
  BY <1>2, FlushKeeps, FlushedFacts
<1>6. FlushOrder'
  <2>1. ASSUME NEW i \in DOMAIN order', NEW j \in DOMAIN order', order'[i] = order'[j] PROVE i = j
    <3> DEFINE l == Len(order)
               r == order'
    <3>1. /\ l \in Nat /\ DOMAIN order = 1..l /\ DOMAIN r = 1..l + 1 /\ r[l + 1] = m
          /\ \A x \in 1..l : r[x] = order[x]
      BY ONLY <1>1, <1>2, <1>3, Appended DEF l, r
    <3> HIDE DEF l, r
    <3>2. \A x \in 1..l + 1 : x \in 1..l \/ x = l + 1
      BY <3>1
    <3>3. \A x \in 1..l : r[x] # m
      BY <1>3, <3>1 DEF Flushed
    <3>4. \A x, y \in 1..l : order[x] = order[y] => x = y
      BY <1>2, <3>1 DEF FlushOrder
    <3> QED BY <2>1, <3>1, <3>2, <3>3, <3>4 DEF r
  <2>2. /\ access'[m] \in workload'[m]
        /\ \A t \in Group(m) : state'[t] \notin {"NONE", "DEAD"}
        /\ state'[m] # "INVALID"
    <3>1. access'[m] = c
      BY <1>1, <1>3 DEF IInv, Types
    <3>2. state'[m] # "INVALID"
      BY <1>3, <1>4, GroupFacts
    <3> QED BY <1>1, <1>4, <3>1, <3>2
  <2>3. ASSUME NEW x \in Flushed
        PROVE  /\ x \in Masters /\ access'[x] \in workload'[x]
               /\ \A t \in Group(x) : state'[t] \notin {"NONE", "DEAD"}
               /\ state'[x] = "INVALID" => Over(x)'
    <3>1. \A t \in Group(x) : t \in Tasks /\ Root(t) = x /\ state'[t] = state[t]
      BY <1>4, <1>5, GroupFacts
    <3>2. state'[x] = state[x]
      BY <1>4, <1>5
    <3> QED BY <1>1, <1>2, <1>4, <1>5, <3>1, <3>2 DEF FlushOrder
  <2>4. ASSUME NEW x \in Masters, state'[x] \in {"FLUSHED", "READY"} \cup Emitted, x # m PROVE x \in Flushed
    <3>1. x \in Tasks /\ Root(x) = x
      BY GroupFacts
    <3> QED BY <1>2, <1>4, <2>4, <3>1 DEF FlushOrder
  <2>5. \A x \in Flushed' :
          /\ x \in Masters /\ access'[x] \in workload'[x]
          /\ \A t \in Group(x)' : state'[t] \notin {"NONE", "DEAD"}
          /\ state'[x] = "INVALID" => Over(x)'
    BY <1>3, <2>2, <2>3 DEF Group, SlavesOf
  <2>6. \A x \in Masters : state'[x] \in {"FLUSHED", "READY"} \cup Emitted => x \in Flushed'
    BY <1>3, <2>4
  <2> QED BY <2>1, <2>5, <2>6 DEF FlushOrder
<1>7. FifoOrder'
  <2> DEFINE l == Len(fifo)
             r == fifo'
  <2>1. /\ l \in Nat /\ DOMAIN fifo = 1..l /\ DOMAIN r = 1..l + 1 /\ r[l + 1] = m
        /\ \A x \in 1..l : r[x] = fifo[x]
    BY ONLY <1>1, <1>2, <1>3, Appended DEF l, r
  <2>2. \A i \in 1..l : /\ fifo[i] \in Tasks /\ state'[fifo[i]] = state[fifo[i]]
                        /\ state[fifo[i]] = "FLUSHED" => fifo[i] \in Flushed
    <3> SUFFICES ASSUME NEW i \in 1..l
                 PROVE  /\ fifo[i] \in Tasks /\ state'[fifo[i]] = state[fifo[i]]
                        /\ state[fifo[i]] = "FLUSHED" => fifo[i] \in Flushed
      OBVIOUS
    <3>1. fifo[i] \in Tasks /\ state[fifo[i]] \in {"FLUSHED", "DONE", "DEAD"}
      BY <1>2, <2>1, ElementOfSeq DEF IInv, Incoming
    <3>2. state'[fifo[i]] = state[fifo[i]]
      BY <1>4, <3>1
    <3>3. state[fifo[i]] = "FLUSHED" => fifo[i] \in Masters
      BY <3>1 DEF IInv, Groups
    <3> QED BY <1>2, <3>1, <3>2, <3>3 DEF FlushOrder
  <2> HIDE DEF l, r
  <2>3. /\ \A i \in 1..l : i \in 1..l + 1
        /\ \A i \in 1..l + 1 : i \in 1..l \/ i = l + 1
        /\ l + 1 \in 1..l + 1 /\ \A i \in 1..l + 1 : ~ (l + 1 < i)
    BY <2>1
  <2>4. ASSUME NEW x \in Flushed', state'[x] = "FLUSHED" PROVE \E p \in DOMAIN r : r[p] = x
    <3>1. CASE x = m
      BY <2>1, <2>3, <3>1
    <3>2. CASE x # m
      <4>1. x \in Flushed /\ state[x] = "FLUSHED"
        BY <1>3, <1>4, <1>5, <2>4, <3>2
      <4>2. PICK p \in DOMAIN fifo : fifo[p] = x
        BY <1>2, <4>1 DEF FifoOrder
      <4> QED BY <2>1, <2>3, <4>2
    <3> QED BY <3>1, <3>2
  <2>5. ASSUME NEW p \in DOMAIN r, NEW q \in DOMAIN r, p < q, state'[r[p]] = "FLUSHED",
               state'[r[q]] = "FLUSHED", NEW x, NEW y, x = r[p], y = r[q]
        PROVE  Before(x, y)'
    <3>1. p \in 1..l /\ x = fifo[p] /\ state[x] = "FLUSHED" /\ x \in Flushed
      <4>1. p \in 1..l
        BY <2>1, <2>3, <2>5
      <4> QED BY <2>1, <2>2, <2>5, <4>1
    <3>2. CASE q = l + 1
      BY <1>3, <2>1, <2>5, <3>1, <3>2
    <3>3. CASE q # l + 1
      <4>1. q \in 1..l /\ y = fifo[q] /\ state[y] = "FLUSHED"
        BY <2>1, <2>2, <2>3, <2>5, <3>3
      <4>2. Before(x, y)
        BY <1>2, <2>1, <2>5, <3>1, <4>1 DEF FifoOrder
      <4> QED BY <1>3, <4>2
    <3> QED BY <3>2, <3>3
  <2>6. ASSUME NEW x, NEW y, Before(x, y)', SetUp(y)' PROVE SetUp(x)'
    <3>1. y # m
      BY <1>3, <2>6
    <3>2. Before(x, y) /\ SetUp(y)
      BY <1>3, <1>4, <1>5, <2>6, <3>1
    <3> QED BY <1>2, <1>3, <1>4, <1>5, <3>2 DEF FifoOrder
  <2> QED BY <2>4, <2>5, <2>6 DEF FifoOrder, r
<1>8. ProperCalls'
  <2> SUFFICES ASSUME NEW i \in DOMAIN calls, NEW f, f = calls[i] PROVE Proper(f)'
    BY <1>1 DEF ProperCalls
  <2>1. Proper(f) /\ f.task \in Masters /\ Live(f.task)
    BY <1>2 DEF ProperCalls, IInv, Stack
  <2>2. f.task # m
    BY <1>4, <2>1, GroupFacts DEF Live
  <2>3. \A x : x = f.task => (Over(x)' <=> Over(x)) /\ (Passed(x)' <=> Passed(x))
    BY <1>4, <2>1, <2>2
  <2> QED BY <1>2, <2>1, <2>3 DEF Proper
<1>9. Records'
  <2> SUFFICES ASSUME NEW a \in Allocs, NEW w, w = write_task[a], NEW r, r = read_tasks[a]
               PROVE  Recorded(a, w, r)'
    BY <1>1 DEF Records
  <2>1. Recorded(a, w, r)
    BY <1>2 DEF Records
  <2> QED BY <1>2, <1>3, <1>4, <1>5, <2>1 DEF Recorded
<1>10. Blocked'
  <2> SUFFICES ASSUME NEW a \in Allocs, NEW n \in Flushed', NEW x \in Flushed' \ Silent, Precedes(a, x, n)'
               PROVE  /\ Passed(n)' => Clear(x, n)'
                      /\ state'[n] = "READY" => Clear(x, n)' \/ WaitsFor(a, x, n)'
    BY <1>2 DEF Blocked
  <2>1. x # m
    BY <1>3 DEF Precedes
  <2>2. CASE n = m
    <3>1. state'[n] # "READY"
      BY <1>3, <1>4, <2>2, GroupFacts
    <3> QED BY <1>3, <2>2, <3>1
  <2>3. CASE n # m
    <3>1. n \in Flushed /\ x \in Flushed /\ Precedes(a, x, n)
      BY <1>3, <1>5, <2>1, <2>3
    <3>2. /\ Passed(n)' <=> Passed(n)
          /\ state'[n] = state[n]
          /\ Clear(x, n)' <=> Clear(x, n)
      BY <1>4, <1>5, <3>1
    <3>3. ASSUME WaitsFor(a, x, n) PROVE WaitsFor(a, x, n)'
      <4>1. PICK y \in notifies : /\ y.to = n /\ (y.from = x \/ Precedes(a, x, y.from))
                                  /\ y.on = "RUNNING" => Queued(y.from, n) \/ y.from \in Silent
        BY <3>3 DEF WaitsFor
      <4>2. y.from \in Flushed
        BY <3>1, <4>1 DEF Precedes, Before, Flushed
      <4>3. PICK z \in Flushed : z = y.from
        BY <4>2
      <4>4. (z = x \/ Precedes(a, x, z)') /\ (y.on = "RUNNING" => Queued(z, n)' \/ z \in Silent')
        BY <1>2, <1>5, <3>1, <4>1, <4>3
      <4> QED BY <1>1, <4>1, <4>3, <4>4 DEF WaitsFor
    <3> QED BY <1>2, <3>1, <3>2, <3>3 DEF Blocked
  <2> QED BY <2>2, <2>3
<1>11. QueueOrder'
  <2>1. ASSUME NEW t \in Tasks, state'[t] = "RUNNING"
        PROVE  /\ state[t] = "RUNNING" /\ Root(t) # m /\ Key(t)' = Key(t) /\ Dst(t)' = Dst(t)
    BY <1>4, <2>1
  <2>2. ASSUME NEW k \in Keys, NEW i \in DOMAIN queue[k], NEW j \in DOMAIN queue[k], i < j,
               NEW t, NEW u, t = Root(queue[k][i]), u = Root(queue[k][j])
        PROVE  Before(t, u)'
    BY <1>2, <1>3, <2>2 DEF QueueOrder
  <2>3. ASSUME NEW t \in Tasks, NEW u \in Tasks, NEW x, NEW y, x = Root(t), y = Root(u), Before(x, y)',
               Key(t)' = Key(u)', Dst(t)' # NULL, state'[t] = "RUNNING"
        PROVE  state'[u] \notin Ended
    <3>1. CASE y = m
      BY <1>4, <2>3, <3>1 DEF Ended
    <3>2. CASE y # m
      <4>1. Before(Root(t), Root(u)) /\ Key(u)' = Key(u) /\ state'[u] = state[u]
        BY <1>3, <1>4, <2>3, <3>2
      <4> QED BY <1>2, <2>1, <2>3, <4>1 DEF QueueOrder
    <3> QED BY <3>1, <3>2
  <2>4. \A t \in Tasks : state'[t] = "RUNNING" /\ Root(t)' \notin Display =>
            \E i \in DOMAIN queue'[Key(t)'] : queue'[Key(t)'][i] = t
    BY <1>1, <1>2, <2>1 DEF QueueOrder
  <2>5. \A k \in Keys : \A i, j \in DOMAIN queue'[k] :
            i < j => \A t, u : t = Root(queue'[k][i]) /\ u = Root(queue'[k][j]) => Before(t, u)'
    BY <1>1, <2>2
  <2>6. \A t, u \in Tasks : \A x, y : x = Root(t) /\ y = Root(u) /\ Before(x, y)' /\
            Key(t)' = Key(u)' /\ Dst(t)' # NULL /\ state'[t] = "RUNNING" => state'[u] \notin Ended
    BY <2>3
  <2>7. ASSUME NEW k \in Keys, NEW i \in DOMAIN queue'[k], NEW j \in DOMAIN queue'[k], i < j,
               NEW t, NEW u, t = queue'[k][i], u = queue'[k][j]
        PROVE  Before(Root(t), Root(u))'
    <3>1. \A x, y : x = Root(t) /\ y = Root(u) => Before(x, y)'
      BY <2>5, <2>7
    <3> QED BY <3>1 DEF Before, Root
  <2>8. ASSUME NEW t \in Tasks, NEW u \in Tasks, Before(Root(t), Root(u))', Key(t)' = Key(u)', Dst(t)' # NULL,
               state'[t] = "RUNNING"
        PROVE  state'[u] \notin Ended
    <3>1. \A x, y : x = Root(t) /\ y = Root(u) => Before(x, y)'
      BY <2>8 DEF Before, Root
    <3> QED BY <2>6, <2>8, <3>1
  <2> QED BY <1>2, <2>4, <2>7, <2>8 DEF QueueOrder
<1>12. Caches'
  <2>1. ASSUME NEW v \in Flushed', SetUp(v)', Dst(v)' # NULL, ~ Over(v)', v \notin flush'
        PROVE  \E w \in Flushed' : Successor(v, w)'
    <3>1. v \in Flushed /\ SetUp(v) /\ Dst(v) # NULL /\ ~ Over(v) /\ v \notin flush
      <4>1. v # m
        BY <1>3, <2>1
      <4>2. v \in Flushed
        BY <1>3, <4>1
      <4> QED BY <1>1, <1>4, <1>5, <2>1, <4>2
    <3>2. PICK w \in Flushed : Successor(v, w)
      BY <1>2, <3>1 DEF Caches
    <3>3. SetUp(w)' /\ Before(v, w)' /\ Queued(v, w)'
      BY <1>3, <1>4, <1>5, <3>1, <3>2 DEF Successor
    <3>4. ASSUME NEW t \in Flushed' \ Silent, NEW a, a = Dst(v), Foreign(t, a, v)', Before(v, t)', Before(t, w)'
          PROVE  Over(t)'
      <4>1. t \in Flushed
        BY <1>3, <3>2, <3>4
      <4>2. Before(v, t) /\ Before(t, w) /\ Foreign(t, Dst(v), v)
        BY <1>3, <1>5, <3>1, <3>2, <3>4, <4>1
      <4> QED BY <1>4, <1>5, <3>2, <3>4, <4>1, <4>2 DEF Successor
    <3>5. \A t \in Flushed' \ Silent' : Foreign(t, Dst(v), v)' /\ Before(v, t)' /\ Before(t, w)' => Over(t)'
      <4>1. \A a, t : a = Dst(v) => (Foreign(t, a, v)' <=> Foreign(t, Dst(v), v)')
        BY <1>5, <3>1 DEF Foreign
      <4> QED BY <1>2, <3>4, <4>1
    <3>6. Successor(v, w)'
      BY <3>3, <3>5 DEF Successor
    <3> QED BY <1>3, <3>6
  <2>2. ASSUME NEW a \in Allocs, dirty'[a] # NULL PROVE \E v \in Flushed' : Flusher(a, v)'
    <3>1. PICK v \in Flushed : Flusher(a, v)
      BY <1>1, <1>2, <2>2 DEF Caches
    <3>2. SetUp(v)' /\ Dst(v)' = a /\ Acc(v)' = dirty'[a] /\ ~ Over(v)'
      BY <1>1, <1>4, <1>5, <3>1 DEF Flusher
    <3>3. ASSUME NEW t \in Flushed' \ Silent, Foreign(t, a, v)', Before(t, v)' PROVE Over(t)'
      <4>1. t \in Flushed /\ Before(t, v)
        BY <1>3, <3>1, <3>3
      <4> QED BY <1>4, <1>5, <3>1, <3>3, <4>1 DEF Flusher
    <3>4. Flusher(a, v)'
      BY <1>2, <3>2, <3>3 DEF Flusher
    <3> QED BY <1>3, <3>4
  <2> QED BY <2>1, <2>2 DEF Caches
<1> QED BY <1>6, <1>7, <1>8, <1>9, <1>10, <1>11, <1>12 DEF OInv

-----------------------------------------------------------------------------
(* The order is kept *)

LEMMA InitOrder == Init => OInv
<1> SUFFICES ASSUME Init PROVE OInv
  OBVIOUS
<1>1. /\ order = << >> /\ fifo = << >> /\ calls = << >> /\ notifies = {}
      /\ state = [t \in Tasks |-> "NONE"]
      /\ write_task = [a \in Allocs |-> NULL] /\ read_tasks = [a \in Allocs |-> {}]
      /\ queue = [k \in Keys |-> << >>] /\ dirty = [a \in Allocs |-> NULL]
  BY DEF Init
<1>2. DOMAIN order = {} /\ DOMAIN fifo = {} /\ DOMAIN calls = {}
  BY <1>1, EmptySeq
<1>3. Flushed = {} /\ \A m, n : ~ Before(m, n)
  BY <1>2 DEF Flushed, Before
<1>4. \A t \in Tasks : state[t] = "NONE"
  BY <1>1
<1>5. FlushOrder /\ FifoOrder /\ ProperCalls
  <2>1. \A m \in Masters : state[m] \notin {"FLUSHED", "READY"} \cup Emitted
    BY <1>4, GroupFacts DEF Emitted
  <2> QED BY <1>2, <1>3, <2>1 DEF FlushOrder, FifoOrder, ProperCalls
<1>6. Records /\ Blocked /\ Caches
  BY <1>1, <1>3 DEF Records, Recorded, Blocked, Caches
<1>7. QueueOrder
  <2>1. \A k \in Keys : DOMAIN queue[k] = {}
    BY <1>1, EmptySeq
  <2> QED BY <1>3, <1>4, <2>1 DEF QueueOrder
<1> QED BY <1>5, <1>6, <1>7 DEF OInv

LEMMA NextOrder == OrderlyWorkloads /\ IInv /\ OInv /\ [Next]_vars => OInv'
<1> SUFFICES ASSUME OrderlyWorkloads, IInv, OInv, [Next]_vars PROVE OInv'
  OBVIOUS
<1>1. CASE Client
  <2>1. ASSUME NEW m \in Masters, NEW c \in workload[m], Flush(m, c) PROVE OInv'
    BY <2>1, FlushTaskOrder
  <2>2. ASSUME NEW m \in Masters, Discard(m) PROVE OInv'
    BY <2>2, DiscardOrder
  <2> QED BY <1>1, <2>1, <2>2, UnrealizeOrder DEF Client
<1>2. CASE Manager
  <2>1. CASE SetupTask \/ Finish \/ Delete
    BY <2>1, SetupTaskOrder, FinishOrder, DeleteOrder
  <2>2. CASE PullTimeout \/ HandleTimedEmits \/ TimedEmit
    BY <2>2, PullTimeoutOrder, HandleTimedEmitsOrder, TimedEmitOrder
  <2>3. CASE Emit \/ KeepBlocked \/ Notify \/ NotifyReturn \/ Shutdown
    BY <2>3, EmitOrder, ReturnOrder, NotifyOrder, ShutdownOrder
  <2> QED BY <1>2, <2>1, <2>2, <2>3 DEF Manager
<1>3. CASE Engine
  BY <1>3, StartOrder, CompleteOrder DEF Engine
<1>4. CASE Pool
  BY <1>4, DisplayRunOrder DEF Pool
<1>5. CASE Tick
  BY <1>5, TickOrder
<1>6. CASE UNCHANGED vars
  BY <1>6, StutterOrder
<1> QED BY <1>1, <1>2, <1>3, <1>4, <1>5, <1>6 DEF Next

(* Whatever the interleaving of clients, manager, engines, pool and clock, *)
(* the dependencies that SurfaceTask::Setup() derives from write_task and  *)
(* read_tasks stand for all accesses flushed before, and the early returns *)
(* of AddNotify() drop none that still matters.                            *)
THEOREM AlwaysOrdered == ASSUME OrderlyWorkloads PROVE Spec => [](IInv /\ OInv)
<1>1. Init => IInv /\ OInv
  BY InitInv, InitOrder
<1>2. IInv /\ OInv /\ [Next]_vars => IInv' /\ OInv'
  BY NextInv, NextOrder
<1> HIDE DEF OrderlyWorkloads
<1> QED BY <1>1, <1>2, PTL DEF Spec

(* A task that is executed has been flushed, and its group emitted. *)
LEMMA RunningFacts ==
    ASSUME IInv, FlushOrder
    PROVE  /\ \A t \in Running : t \in Tasks /\ state[t] = "RUNNING"
           /\ \A t \in executing : /\ Root(t) \notin Display /\ Key(t) \in Keys
                                   /\ 1 \in DOMAIN queue[Key(t)] /\ queue[Key(t)][1] = t
           /\ \A t \in pool \cup ({prev_task} \ {NULL}) : t \in Display /\ Root(t) = t
           /\ \A t \in Tasks : state[t] = "RUNNING" => Root(t) \in Flushed /\ Passed(Root(t))
<1>1. \A t \in executing : /\ t \in Tasks /\ state[t] = "RUNNING" /\ Root(t) \notin Display
                           /\ Key(t) \in Keys /\ 1 \in DOMAIN queue[Key(t)] /\ queue[Key(t)][1] = t
  <2> SUFFICES ASSUME NEW t \in executing, NEW k, k = Key(t)
               PROVE  /\ t \in Tasks /\ state[t] = "RUNNING" /\ Root(t) \notin Display
                      /\ k \in Keys /\ 1 \in DOMAIN queue[k] /\ queue[k][1] = t
    OBVIOUS
  <2>1. t \in Tasks /\ k \in Keys /\ 1 \in DOMAIN queue[k] /\ queue[k][1] = t
    BY DEF IInv, Queues
  <2>2. state[t] = "RUNNING" /\ Root(t) \notin Display
    BY <2>1 DEF IInv, Queues
  <2> QED BY <2>1, <2>2
<1>2. \A t \in pool \cup ({prev_task} \ {NULL}) : t \in Display /\ state[t] = "RUNNING"
  BY DEF IInv, Screen, References
<1>3. Display \subseteq Masters /\ Masters \subseteq Tasks /\ \A m \in Masters : Root(m) = m
  BY GroupFacts
<1>4. ASSUME NEW t \in Tasks, state[t] = "RUNNING" PROVE Root(t) \in Flushed /\ Passed(Root(t))
  <2>1. Root(t) \in Masters /\ (t # Root(t) => t \in Tasks \ Masters /\ Master[t] = Root(t))
    BY GroupFacts
  <2>2. state[Root(t)] \in Emitted
    BY <1>4, <2>1 DEF IInv, Groups, Emitted
  <2> QED BY <2>1, <2>2 DEF FlushOrder, Passed
<1> QED BY <1>1, <1>2, <1>3, <1>4 DEF Running

LEMMA OrderFlushes == IInv /\ OInv => FlushedBeforeForeignAccess
<1> SUFFICES ASSUME IInv, OInv,
                    NEW t \in executing \cup {d \in pool : "EMITNOTIFIES" \notin InitFlags[d]},
                    NEW a \in Accessed(t), dirty[a] # NULL, dirty[a] # Acc(t)
             PROVE  FALSE
  BY DEF FlushedBeforeForeignAccess
<1> DEFINE n == Root(t)
<1>1. FlushOrder /\ order \in Seq(Tasks) /\ Blocked /\ Caches
  BY InvFacts
<1>2. t \in Tasks /\ state[t] = "RUNNING" /\ n \in Flushed /\ Passed(n)
  BY <1>1, RunningFacts DEF Running
<1>3. n \in Masters /\ Root(n) = n /\ t \in Group(n) /\ Accessed(n) \subseteq Allocs
  BY <1>1, <1>2, FlushedFacts, GroupFacts
<1>4. Accessed(t) = Accessed(n) /\ Acc(t) = Acc(n) /\ a \in Allocs
  BY <1>3 DEF Accessed, Acc, Dst
<1>5. n \notin Silent
  <2>1. CASE t \in executing
    BY <1>1, <1>2, <2>1, RunningFacts, FlushedFacts
  <2>2. CASE t \in pool /\ "EMITNOTIFIES" \notin InitFlags[t]
    BY <1>1, <2>2, RunningFacts DEF Silent
  <2> QED BY <2>1, <2>2
<1>6. ~ Over(n)
  BY <1>2, <1>3 DEF Over, Ended
<1>7. PICK v \in Flushed : Flusher(a, v)
  BY <1>1, <1>4 DEF Caches
<1>8. Dst(v) = a /\ a # NULL /\ ~ Over(v) /\ Acc(v) # Acc(n) /\ v # n /\ v \notin Silent
  BY <1>1, <1>4, <1>7, FlushedFacts, GroupFacts DEF Flusher
<1>9. Touches(n, a) /\ Touches(v, a) /\ Foreign(n, a, v)
  BY <1>1, <1>4, <1>7, <1>8, FlushedFacts DEF Touches, Foreign
<1>10. CASE Before(n, v)
  BY <1>2, <1>5, <1>6, <1>7, <1>9, <1>10 DEF Flusher
<1>11. CASE Before(v, n)
  <2>1. Precedes(a, v, n)
    BY <1>7, <1>8, <1>9, <1>11 DEF Precedes, Writes, UpTo
  <2>2. Clear(v, n)
    BY <1>1, <1>2, <1>4, <1>7, <1>8, <2>1 DEF Blocked
  <2> QED BY <1>8, <2>2 DEF Clear, Queued, SameQueue
<1> QED BY <1>1, <1>2, <1>7, <1>8, <1>10, <1>11, OrderFacts

(* CacheFlush() of some task has written back what another accessor wrote  *)
(* before a task that reads or overwrites it runs, although Setup() clears *)
(* the flush flag of a writer that it finds superseded.                    *)
THEOREM FlushesInTime == ASSUME OrderlyWorkloads PROVE Spec => []FlushedBeforeForeignAccess
  BY AlwaysOrdered, OrderFlushes, PTL

-----------------------------------------------------------------------------
(* Conflicting tasks *)

Fin == {t \in Tasks : Root(t) \in Flushed /\ state[t] \in Ended}

OrderedEnded == {t \in Tasks \ Running : Root(t) \in Range(order) /\ state[t] \in {"DONE", "FINISH", "INVALID"}}

LEMMA EndedIsFin == OrderedEnded = Fin \ Running /\ OrderedEnded' = Fin' \ Running'
<1>1. Range(order) = Flushed /\ Range(order)' = Flushed'
  BY DEF Range, Flushed
<1> QED BY <1>1 DEF OrderedEnded, Fin, Ended

(* u was flushed before t, and they conflict. *)
LEMMA ConflictPrecedes ==
    ASSUME IInv, FlushOrder, NEW t \in Tasks, NEW u \in Tasks, "EMITNOTIFIES" \notin InitFlags[u],
           Ordered!FlushedBefore(u, t), Ordered!Conflict(u, t)
    PROVE  /\ Root(u) \in Flushed \ Silent /\ Root(t) \in Flushed /\ Before(Root(u), Root(t))
           /\ u \in Group(Root(u)) /\ t \in Group(Root(t))
           /\ \E a \in Allocs : Precedes(a, Root(u), Root(t))
           /\ Queued(Root(u), Root(t)) /\ Tile[u] # Tile[t] =>
                 \/ Dst(Root(u)) \in access[Root(u)].srcs
                 \/ Dst(Root(t)) \in access[Root(t)].srcs
<1> DEFINE m == Root(u)
           n == Root(t)
<1>1. Before(m, n)
  BY DEF Ordered!FlushedBefore, Ordered!Root, Before, Root
<1>2. m \in Flushed /\ n \in Flushed
  BY <1>1 DEF Before, Flushed
<1>3. /\ m \in Masters /\ n \in Masters /\ Root(m) = m /\ Root(n) = n
      /\ u \in Group(m) /\ t \in Group(n)
      /\ Dst(m) \in Allocs \cup {NULL} /\ Dst(n) \in Allocs \cup {NULL}
      /\ Accessed(m) = access[m].srcs \cup ({Dst(m)} \ {NULL})
      /\ Accessed(n) = access[n].srcs \cup ({Dst(n)} \ {NULL})
      /\ NULL \notin Allocs
  BY <1>2, FlushedFacts, GroupFacts
<1>4. /\ Ordered!Dst(u) = Dst(m) /\ Ordered!Dst(t) = Dst(n)
      /\ Ordered!Srcs(u) = access[m].srcs /\ Ordered!Srcs(t) = access[n].srcs
      /\ Ordered!Acc(u) = Acc(m) /\ Ordered!Acc(t) = Acc(n)
  BY <1>3 DEF Ordered!Dst, Ordered!Srcs, Ordered!Acc, Ordered!Root, Dst, Acc, Root
<1>5. m \notin Silent
  <2>1. CASE u = m
    BY <2>1 DEF Silent
  <2>2. CASE u # m
    <3>1. m \notin Display
      BY <1>3, <2>2, GroupFacts
    <3> QED BY <1>2, <3>1, FlushedFacts
  <2> QED BY <2>1, <2>2
<1>6. PICK a \in Allocs : \/ a = Dst(m) /\ (a = Dst(n) \/ a \in access[n].srcs)
                          \/ a = Dst(n) /\ (a = Dst(m) \/ a \in access[m].srcs)
  BY <1>4 DEF Ordered!Conflict, Ordered!Writes, Ordered!Touches
<1>7. Precedes(a, m, n)
  <2>1. Touches(m, a) /\ Touches(n, a)
    BY <1>3, <1>6 DEF Touches
  <2>2. Writes(m, a) \/ Writes(n, a)
    BY <1>6 DEF Writes
  <2> QED BY <1>1, <1>2, <2>1, <2>2 DEF Precedes, UpTo
<1>8. ASSUME Queued(m, n), Tile[u] # Tile[t]
      PROVE  Dst(m) \in access[m].srcs \/ Dst(n) \in access[n].srcs
  <2>1. Acc(m) = Acc(n) /\ Dst(m) = Dst(n)
    BY <1>8 DEF Queued, SameQueue
  <2>2. ~ Ordered!DisjointTiles(u, t)
    BY DEF Ordered!Conflict
  <2> QED BY <1>4, <1>8, <2>1, <2>2 DEF Ordered!DisjointTiles, Ordered!Writes
<1> QED BY <1>1, <1>2, <1>3, <1>5, <1>7, <1>8

(* A task that may be emitted, or is the next one of its queue, conflicts  *)
(* with no earlier task that has not ended.                                *)
LEMMA NoConflict ==
    ASSUME IInv, OInv, OrderlyWorkloads, TilesAreApart, NEW t \in Tasks, NEW u \in Tasks,
           "EMITNOTIFIES" \notin InitFlags[u],
           Ordered!FlushedBefore(u, t), Ordered!Conflict(u, t),
           \A a \in Allocs : \A m \in Flushed \ Silent :
              Precedes(a, m, Root(t)) => Clear(m, Root(t)),
           \/ Dst(t) = NULL
           \/ Key(t) \in Keys /\ 1 \in DOMAIN queue[Key(t)] /\ queue[Key(t)][1] = t
    PROVE  u \in Fin
<1> DEFINE m == Root(u)
           n == Root(t)
<1>1. FlushOrder /\ QueueOrder /\ order \in Seq(Tasks)
  BY InvFacts
<1>2. /\ m \in Flushed \ Silent /\ n \in Flushed /\ Before(m, n) /\ u \in Group(m) /\ t \in Group(n)
      /\ Clear(m, n)
      /\ Queued(m, n) /\ Tile[u] # Tile[t] =>
            Dst(m) \in access[m].srcs \/ Dst(n) \in access[n].srcs
  BY <1>1, ConflictPrecedes
<1>3. /\ m \in Masters /\ n \in Masters /\ Root(m) = m /\ Root(n) = n
      /\ access[m] \in workload[m] /\ access[n] \in workload[n] /\ workload \in Workloads
  BY <1>1, <1>2, FlushedFacts
<1>4. Dst(u) = Dst(m) /\ Acc(u) = Acc(m) /\ Dst(t) = Dst(n) /\ Acc(t) = Acc(n)
      /\ Dst(m) = access[m].dst /\ Dst(n) = access[n].dst
  BY <1>3 DEF Dst, Acc
<1>5. CASE Over(m)
  BY <1>2, <1>5 DEF Over, Fin
<1>6. CASE Passed(m) /\ Queued(m, n)
  <2>1. Acc(m) = Acc(n) /\ Dst(m) = Dst(n) /\ Dst(n) # NULL
    BY <1>6 DEF Queued, SameQueue
  <2>2. Tile[u] = Tile[t]
    <3> SUFFICES ASSUME Tile[u] # Tile[t] PROVE FALSE
      OBVIOUS
    <3>1. SlavesOf(m) = {} \/ SlavesOf(n) = {}
      BY <1>2, <1>3, <1>4, <1>6 DEF TilesAreApart, TilesApart
    <3>2. Group(m) = {m} \/ Group(n) = {n}
      BY <3>1 DEF Group
    <3>3. PICK v \in Group(n) : Tile[v] = Tile[u]
      BY <1>1, <1>2, <1>6, SameTiles
    <3>4. PICK x \in Group(m) : Tile[x] = Tile[t]
      <4>1. Queued(n, m)
        BY <2>1 DEF Queued, SameQueue
      <4> QED BY <1>1, <1>2, <4>1, SameTiles
    <3> QED BY <1>2, <3>2, <3>3, <3>4
  <2>3. Key(u) = Key(t)
    BY <1>4, <2>1, <2>2 DEF Key
  <2>4. PICK k \in Keys : k = Key(t) /\ 1 \in DOMAIN queue[k] /\ queue[k][1] = t
    BY <1>4, <2>1
  <2>5. state[u] # "RUNNING"
    <3> SUFFICES ASSUME state[u] = "RUNNING" PROVE FALSE
      OBVIOUS
    <3>1. m \notin Display
      BY <1>1, <1>2, <2>1, FlushedFacts
    <3>2. PICK i \in DOMAIN queue[k] : queue[k][i] = u
      BY <1>1, <2>3, <2>4, <3>1 DEF QueueOrder
    <3>3. queue[k] \in Seq(Tasks)
      BY DEF IInv, Queues
    <3>4. u # t
      BY <1>1, <1>2, OrderFacts
    <3>5. 1 < i
      <4>1. DOMAIN queue[k] = 1..Len(queue[k])
        BY <3>3, LenProperties
      <4>2. i # 1
        BY <2>4, <3>2, <3>4
      <4> QED BY <4>1, <4>2
    <3>6. Before(n, m)
      BY <1>1, <2>4, <3>2, <3>5 DEF QueueOrder
    <3> QED BY <1>1, <1>2, <3>6, OrderFacts
  <2>6. state[u] \in Emitted \cup {"INVALID"}
    BY <1>1, <1>2, <1>6, FlushedFacts
  <2> QED BY <1>2, <2>5, <2>6 DEF Fin, Ended, Emitted
<1> QED BY <1>2, <1>5, <1>6 DEF Clear

-----------------------------------------------------------------------------
(* Refinement of AccessOrder *)

LEMMA OrderedInit == Init => Ordered!Init
<1> SUFFICES ASSUME Init PROVE Ordered!Init
  OBVIOUS
<1>1. /\ order = << >> /\ access = [t \in Tasks |-> NoAccess]
      /\ executing = {} /\ pool = {} /\ prev_task = NULL
  BY DEF Init
<1>2. Running = {}
  BY <1>1 DEF Running
<1>3. Range(order) = {}
  BY <1>1, EmptySeq DEF Range
<1> QED BY <1>1, <1>2, <1>3 DEF Ordered!Init, Ordered!NoAccess, NoAccess

(* What a step does to the tasks that have ended *)
EndsOnly(S) == \A t \in Tasks : /\ t \in S => state[t] \notin Ended /\ state'[t] \in Ended
                                /\ t \notin S /\ Root(t) \in Flushed =>
                                      (state'[t] \in Ended <=> state[t] \in Ended)

LEMMA FinChanges ==
    ASSUME IInv, FlushOrder, order' = order, NEW S \in SUBSET Tasks,
           \A t \in S : Root(t) \in Flushed, EndsOnly(S)
    PROVE  Fin' = Fin \cup S
<1>1. Flushed' = Flushed /\ \A t : Root(t)' = Root(t)
  BY DEF Flushed, Root
<1> QED BY <1>1 DEF Fin, EndsOnly

(* Steps of AccessOrder *)
LEMMA OrderedStutter ==
    ASSUME UNCHANGED <<order, access>>, Running' = Running, Fin' = Fin
    PROVE  UNCHANGED Ordered!vars
  BY EndedIsFin DEF Ordered!vars, OrderedEnded

LEMMA OrderedEnd ==
    ASSUME IInv, FlushOrder, UNCHANGED <<order, access>>, NEW t \in Running,
           Running' = Running \ {t}, EndsOnly({t})
    PROVE  Ordered!Next
<1>1. t \in Tasks /\ Root(t) \in Flushed
  BY RunningFacts
<1>2. Fin' = Fin \cup {t}
  BY <1>1, FinChanges
<1>3. OrderedEnded' = OrderedEnded \cup {t}
  BY <1>2, EndedIsFin
<1>4. Ordered!End(t)
  BY <1>3 DEF Ordered!End, OrderedEnded
<1> QED BY <1>1, <1>4 DEF Ordered!Next

LEMMA OrderedStart ==
    ASSUME IInv, FlushOrder, UNCHANGED <<order, access>>, NEW t \in Tasks, t \notin Running,
           Root(t) \in Flushed, state[t] \notin Ended,
           Running' = Running \cup {t}, EndsOnly({}),
           \A u \in Tasks : "EMITNOTIFIES" \notin InitFlags[u] /\
              Ordered!FlushedBefore(u, t) /\ Ordered!Conflict(u, t) => u \in Fin
    PROVE  Ordered!Next
<1>1. Fin' = Fin /\ t \notin Fin
  BY FinChanges DEF Fin
<1>2. OrderedEnded' = OrderedEnded /\ OrderedEnded = Fin
  <2>1. \A u \in Running : u \notin Fin
    BY RunningFacts DEF Fin, Ended
  <2> QED BY <1>1, <2>1, EndedIsFin
<1>3. \E i \in DOMAIN order : order[i] = Ordered!Root(t)
  BY DEF Flushed, Root, Ordered!Root
<1>4. Ordered!Start(t)
  BY <1>1, <1>2, <1>3 DEF Ordered!Start, OrderedEnded
<1> QED BY <1>4 DEF Ordered!Next

(* Steps that start nothing and end nothing *)
LEMMA NothingEnds ==
    ASSUME IInv, FlushOrder, UNCHANGED <<order, access, executing, pool, prev_task>>,
           \A t \in Tasks : \/ state'[t] = state[t]
                            \/ state[t] \in {"NONE", "DEAD"}
                            \/ state'[t] \in Ended <=> state[t] \in Ended
    PROVE  UNCHANGED Ordered!vars
<1>1. \A t \in Tasks : Root(t) \in Flushed => state[t] \notin {"NONE", "DEAD"}
  BY FlushedFacts, GroupFacts DEF FlushOrder
<1>2. EndsOnly({})
  BY <1>1 DEF EndsOnly
<1>3. Fin' = Fin /\ Running' = Running
  BY <1>2, FinChanges DEF Running
<1> QED BY <1>3, OrderedStutter

LEMMA FlushRefines ==
    ASSUME IInv, OInv, NEW m \in Masters, NEW c \in workload[m], Flush(m, c) PROVE Ordered!Next
<1>1. /\ order' = Append(order, m) /\ access' = [access EXCEPT ![m] = c]
      /\ UNCHANGED <<executing, pool, prev_task>>
  BY DEF Flush, engineVars
<1>2. /\ m \notin Flushed /\ Flushed' = Flushed \cup {m} /\ m \in Tasks
      /\ \A t \in Group(m) : state'[t] \in {"FLUSHED", "NEW"}
      /\ \A t \in Tasks : /\ t \in Group(m) <=> Root(t) = m
                          /\ Root(t) # m => state'[t] = state[t]
  BY FlushFacts
<1>3. Running' = Running /\ \A t : Root(t)' = Root(t)
  BY <1>1 DEF Running, Root
<1>4. Fin' = Fin
  BY <1>2, <1>3 DEF Fin, Ended
<1>5. OrderedEnded' = OrderedEnded
  BY <1>3, <1>4, EndedIsFin
<1>6. c \in Ordered!AccessSets
  BY WorkloadFacts DEF AccessSets, Ordered!AccessSets, IInv, Types
<1>7. Ordered!Flush(m, c)
  BY <1>1, <1>2, <1>3, <1>5 DEF Ordered!Flush, OrderedEnded, Flushed
<1>8. Master[m] = NULL
  BY DEF Masters
<1> QED BY <1>2, <1>6, <1>7, <1>8 DEF Ordered!Next

LEMMA StartRefines ==
    ASSUME IInv, OInv, OrderlyWorkloads, TilesAreApart, NEW t \in Tasks, Start(t) PROVE Ordered!Next
<1>1. /\ t \notin executing /\ executing' = executing \cup {t}
      /\ UNCHANGED <<order, access, state, pool, prev_task>>
  BY DEF Start, taskVars, displayVars, clientVars
<1>2. PICK k \in Keys : queue[k] # << >> /\ Head(queue[k]) = t
  BY DEF Start
<1>3. 1 \in DOMAIN queue[k] /\ queue[k][1] = t
  <2>1. queue[k] \in Seq(Tasks)
    BY DEF IInv, Queues
  <2>2. DOMAIN queue[k] = 1..Len(queue[k]) /\ Len(queue[k]) \in Nat /\ Len(queue[k]) > 0 /\ queue[k][1] = t
    BY <1>2, <2>1, HeadAndTail
  <2> QED BY <2>2
<1>4. state[t] = "RUNNING" /\ Root(t) \notin Display /\ Key(t) = k
  BY <1>3 DEF IInv, Queues
<1>5. FlushOrder /\ Blocked /\ Root(t) \in Flushed /\ Passed(Root(t))
  BY <1>4, InvFacts, RunningFacts
<1>6. t \notin Running
  BY <1>1, <1>4, <1>5, RunningFacts DEF Running
<1>7. \A u \in Tasks : "EMITNOTIFIES" \notin InitFlags[u] /\
              Ordered!FlushedBefore(u, t) /\ Ordered!Conflict(u, t) => u \in Fin
  BY <1>3, <1>4, <1>5, NoConflict DEF Blocked
<1>8. Running' = Running \cup {t} /\ EndsOnly({}) /\ state[t] \notin Ended
  BY <1>1, <1>4 DEF Running, EndsOnly, Ended
<1> QED BY <1>1, <1>5, <1>6, <1>7, <1>8, OrderedStart

LEMMA CompleteRefines ==
    ASSUME IInv, OInv, NEW t \in Tasks, Complete(t) PROVE Ordered!Next
<1>1. /\ t \in executing /\ executing' = executing \ {t} /\ state' = [state EXCEPT ![t] = "DONE"]
      /\ UNCHANGED <<order, access, pool, prev_task>>
  BY DEF Complete, displayVars, clientVars
<1>2. FlushOrder /\ t \in Running /\ Root(t) \notin Display /\ state[t] = "RUNNING"
  BY <1>1, InvFacts, RunningFacts DEF Running
<1>3. t \notin pool \cup ({prev_task} \ {NULL})
  BY <1>2, RunningFacts
<1>4. Running' = Running \ {t}
  BY <1>1, <1>3 DEF Running
<1>5. EndsOnly({t})
  BY <1>1, <1>2 DEF EndsOnly, Ended, IInv, Types
<1> QED BY <1>1, <1>2, <1>4, <1>5, OrderedEnd

(* Task_Done() of the display task on the screen ends it. *)
LEMMA PreviousRefines ==
    ASSUME IInv, OInv, UNCHANGED <<order, access, executing>>, DonePrevious,
           Running' = Running \ {prev_task}
    PROVE  Ordered!Next \/ UNCHANGED Ordered!vars
<1>1. FlushOrder /\ NULL \notin Tasks /\ \A t \in Running : t \in Tasks /\ state[t] = "RUNNING"
  BY InvFacts, RunningFacts
<1>2. CASE prev_task = NULL
  <2>1. Running' = Running /\ state' = state
    BY <1>1, <1>2 DEF DonePrevious
  <2>2. EndsOnly({})
    BY <2>1 DEF EndsOnly
  <2>3. Fin' = Fin
    BY <1>1, <2>2, FinChanges
  <2> QED BY <2>1, <2>3, OrderedStutter
<1>3. CASE prev_task # NULL
  <2>1. PICK p \in Running : p = prev_task
    BY <1>3 DEF Running
  <2>2. state' = [state EXCEPT ![p] = "DONE"]
    BY <1>3, <2>1 DEF DonePrevious
  <2>3. EndsOnly({p})
    BY <1>1, <2>1, <2>2 DEF EndsOnly, Ended, IInv, Types
  <2> QED BY <1>1, <2>1, <2>3, OrderedEnd
<1> QED BY <1>2, <1>3

LEMMA DisplayRunRefines ==
    ASSUME IInv, OInv, NEW t \in Tasks, DisplayRun(t) PROVE Ordered!Next \/ UNCHANGED Ordered!vars
<1>1. /\ t \in pool /\ pool' = pool \ {t} /\ prev_task' = t /\ DonePrevious
      /\ UNCHANGED <<order, access, executing>>
  BY DEF DisplayRun, clientVars
<1>2. /\ t # prev_task /\ t \in Display /\ t # NULL /\ prev_task \notin pool
      /\ FlushOrder /\ \A u \in executing : Root(u) \notin Display
      /\ prev_task # NULL => prev_task \in Display /\ Root(prev_task) = prev_task
  <2>1. FlushOrder /\ NULL \notin Tasks /\ NULL \notin Display
    BY InvFacts, GroupFacts
  <2>2. /\ t \in display_tasks /\ pool \subseteq display_tasks /\ display_tasks \subseteq Display
        /\ prev_task # NULL => prev_task \notin display_tasks /\ prev_task \in Display
    BY <1>1 DEF IInv, Screen, References
  <2>3. \A u \in executing : Root(u) \notin Display
    BY <2>1, RunningFacts
  <2> QED BY <2>1, <2>2, <2>3, GroupFacts
<1>3. prev_task \notin executing
  <2>1. NULL \notin executing
    BY GroupFacts DEF IInv, Queues
  <2> QED BY <1>2, <2>1
<1>4. Running' = Running \ {prev_task}
  BY <1>1, <1>2, <1>3 DEF Running
<1> QED BY <1>1, <1>4, PreviousRefines

LEMMA UnrealizeRefines == ASSUME IInv, OInv, Unrealize PROVE Ordered!Next \/ UNCHANGED Ordered!vars
<1>1. /\ prev_task # NULL /\ prev_task' = NULL /\ DonePrevious
      /\ UNCHANGED <<order, access, executing, pool>>
  BY DEF Unrealize, engineVars, clientVars
<1>2. prev_task \notin pool /\ prev_task \notin executing
  <2>1. FlushOrder /\ prev_task \in Display /\ Root(prev_task) = prev_task
    BY <1>1, InvFacts, GroupFacts DEF IInv, Screen
  <2>2. prev_task \notin pool
    BY <1>1 DEF IInv, Screen
  <2> QED BY <2>1, <2>2, RunningFacts
<1>3. Running' = Running \ {prev_task}
  BY <1>1, <1>2 DEF Running
<1> QED BY <1>1, <1>3, PreviousRefines

LEMMA EmitRefines ==
    ASSUME IInv, OInv, OrderlyWorkloads, TilesAreApart, Emit
    PROVE  Ordered!Next \/ UNCHANGED Ordered!vars
<1> DEFINE m == Top.task
<1>1. /\ calls # << >> /\ state[m] = "READY" /\ block_count[m] = 0
      /\ state' = [t \in Tasks |-> IF t \in Group(m) THEN "RUNNING" ELSE state[t]]
      /\ m \in Display => pool' = pool \cup {m}
      /\ m \notin Display => pool' = pool
      /\ UNCHANGED <<order, access, executing, prev_task>>
  BY DEF Emit, MayEmit, clientVars
<1>2. m \in Masters /\ m \in Tasks /\ Root(m) = m /\ m # NULL
  <2>1. \E i \in DOMAIN calls : Top = calls[i]
    BY <1>1, BelowFacts DEF IInv, Stack
  <2>2. m \in Masters
    BY <2>1 DEF IInv, Stack
  <2> QED BY <2>2, GroupFacts
<1>3. \A t \in Group(m) : t \in Tasks /\ state[t] \in {"READY", "NEW"}
  <2> SUFFICES ASSUME NEW t \in Group(m), t # m PROVE t \in Tasks /\ state[t] = "NEW"
    BY <1>1, <1>2
  <2>1. Root(t) = m /\ t \in Tasks \ Masters /\ Master[t] = m
    BY <1>2, GroupFacts
  <2> QED BY <1>1, <2>1 DEF IInv, Groups
<1> HIDE DEF m
<1>4. FlushOrder /\ Blocked /\ m \in Flushed /\ Dst(m) \in Allocs \cup {NULL} /\ (m \in Display <=> Dst(m) = NULL)
  <2>1. FlushOrder /\ Blocked /\ m \in Flushed
    BY <1>1, <1>2, InvFacts DEF FlushOrder
  <2> QED BY <2>1, FlushedFacts
<1>5. \A t \in Tasks : state'[t] \in Ended <=> state[t] \in Ended
  BY <1>1, <1>3 DEF Ended
<1>6. CASE m \notin Display
  BY <1>1, <1>4, <1>5, <1>6, NothingEnds
<1>7. CASE m \in Display
  <2>1. EndsOnly({}) /\ state[m] \notin Ended
    BY <1>1, <1>5 DEF EndsOnly, Ended
  <2>2. m \notin Running
    BY <1>1, <1>4, RunningFacts
  <2>3. Running' = Running \cup {m}
    BY <1>1, <1>7 DEF Running
  <2>4. Blocking(m) = {}
    <3>1. IsFiniteSet(Blocking(m)) /\ Cardinality(Blocking(m)) = 0
      BY <1>1, <1>2 DEF IInv, Waits
    <3> QED BY <3>1, FS_EmptySet
  <2>5. \A a \in Allocs : \A n \in Flushed \ Silent : Precedes(a, n, Root(m)) => Clear(n, Root(m))
    BY <1>1, <1>2, <1>4, <2>4 DEF Blocked, WaitsFor, Blocking
  <2>6. \A u \in Tasks : "EMITNOTIFIES" \notin InitFlags[u] /\
              Ordered!FlushedBefore(u, m) /\ Ordered!Conflict(u, m) => u \in Fin
    BY <1>2, <1>4, <1>7, <2>5, NoConflict
  <2>7. Root(m) \in Flushed
    BY <1>2, <1>4
  <2> QED BY <1>1, <1>2, <1>4, <2>1, <2>2, <2>3, <2>6, <2>7, OrderedStart
<1> QED BY <1>6, <1>7

LEMMA DiscardRefines ==
    ASSUME IInv, OInv, NEW m \in Masters, Discard(m) PROVE UNCHANGED Ordered!vars
<1>1. /\ state[m] = "NONE"
      /\ state' = [t \in Tasks |-> IF t \in Group(m) THEN "DEAD" ELSE state[t]]
      /\ UNCHANGED <<order, access, executing, pool, prev_task>>
  BY DEF Discard, engineVars, displayVars, clientVars
<1>2. \A t \in Group(m) : state[t] = "NONE"
  <2>1. \A t \in Group(m) : t # m => t \in Tasks \ Masters /\ Master[t] = m
    BY GroupFacts
  <2> QED BY <1>1, <2>1 DEF IInv, Groups
<1>3. \A t \in Tasks : state'[t] = state[t] \/ state[t] = "NONE"
  BY <1>1, <1>2
<1> QED BY <1>1, <1>3, InvFacts, NothingEnds

LEMMA HandlingRefines ==
    IInv /\ OInv /\ (SetupTask \/ Finish \/ Delete) => UNCHANGED Ordered!vars
<1> SUFFICES ASSUME IInv, OInv, SetupTask \/ Finish \/ Delete PROVE UNCHANGED Ordered!vars
  OBVIOUS
<1>1. PICK t \in Tasks : t = Head(fifo)
  BY Pulled DEF SetupTask, Finish, Delete
<1>2. /\ UNCHANGED <<order, access, executing, pool, prev_task>>
      /\ \/ state[t] = "FLUSHED" /\ state' = [state EXCEPT ![t] = "READY"]
         \/ state[t] = "DONE" /\ state' = [state EXCEPT ![t] = "FINISH"]
         \/ state[t] = "DEAD" /\ state' = [state EXCEPT ![t] = "INVALID"]
  <2>1. CASE SetupTask
    BY <1>1, <2>1 DEF SetupTask, engineVars, clientVars
  <2>2. CASE Finish
    BY <1>1, <2>2 DEF Finish, engineVars, displayVars, clientVars
  <2>3. CASE Delete
    BY <1>1, <2>3 DEF Delete, engineVars, displayVars, clientVars
  <2> QED BY <2>1, <2>2, <2>3
<1>3. state \in [Tasks -> TaskStates]
  BY DEF IInv, Types
<1>4. \A u \in Tasks : \/ state'[u] = state[u]
                       \/ state[u] = "DEAD"
                       \/ state'[u] \in Ended <=> state[u] \in Ended
  BY <1>2, <1>3 DEF Ended
<1> QED BY <1>2, <1>4, InvFacts, NothingEnds

LEMMA ShutdownRefines == IInv /\ OInv /\ Shutdown => UNCHANGED Ordered!vars
<1> SUFFICES ASSUME IInv, OInv, Shutdown PROVE UNCHANGED Ordered!vars
  OBVIOUS
<1> DEFINE s == Top.task
<1>1. /\ calls # << >> /\ Top.op = "shutdown"
      /\ state' = [t \in Tasks |-> IF t \in Group(s) /\ refs[t] = 1 THEN "INVALID" ELSE state[t]]
      /\ UNCHANGED <<order, access, executing, pool, prev_task>>
  BY DEF Shutdown, engineVars, clientVars
<1>2. \E i \in DOMAIN calls : Top = calls[i]
  BY <1>1, BelowFacts DEF IInv, Stack
<1>3. \A t \in Group(s) : state[t] = "FINISH"
  BY <1>1, <1>2 DEF IInv, Stack
<1> HIDE DEF s
<1>4. \A t \in Tasks : state'[t] = state[t] \/ (state[t] = "FINISH" /\ state'[t] = "INVALID")
  BY <1>1, <1>3
<1>5. \A t \in Tasks : state'[t] = state[t] \/ (state'[t] \in Ended <=> state[t] \in Ended)
  BY <1>4 DEF Ended
<1> QED BY <1>1, <1>5, InvFacts, NothingEnds

(* The other steps change no state of a task. *)
LEMMA OtherRefines ==
    ASSUME IInv, OInv,
           PullTimeout \/ HandleTimedEmits \/ TimedEmit \/ KeepBlocked \/ Notify
              \/ NotifyReturn \/ Tick \/ UNCHANGED vars
    PROVE  UNCHANGED Ordered!vars
<1>1. UNCHANGED <<state, order, access, executing, pool, prev_task>>
  BY DEF PullTimeout, HandleTimedEmits, TimedEmit, KeepBlocked, Notify, NotifyReturn, Tick,
         vars, taskVars, mgrVars, timeVars, engineVars, displayVars, clientVars
<1> QED BY <1>1, InvFacts, NothingEnds

LEMMA NextRefines ==
    ASSUME OrderlyWorkloads, TilesAreApart, IInv, OInv, [Next]_vars
    PROVE  Ordered!Next \/ UNCHANGED Ordered!vars
<1>1. CASE Client
  <2>1. ASSUME NEW m \in Masters, NEW c \in workload[m], Flush(m, c) PROVE Ordered!Next
    BY <2>1, FlushRefines
  <2>2. ASSUME NEW m \in Masters, Discard(m) PROVE UNCHANGED Ordered!vars
    BY <2>2, DiscardRefines
  <2> QED BY <1>1, <2>1, <2>2, UnrealizeRefines DEF Client
<1>2. CASE Manager
  <2>1. CASE SetupTask \/ Finish \/ Delete
    BY <2>1, HandlingRefines
  <2>2. CASE PullTimeout \/ HandleTimedEmits \/ TimedEmit
    BY <2>2, OtherRefines
  <2>3. CASE Emit \/ KeepBlocked \/ Notify \/ NotifyReturn \/ Shutdown
    BY <2>3, EmitRefines, OtherRefines, ShutdownRefines
  <2> QED BY <1>2, <2>1, <2>2, <2>3 DEF Manager
<1>3. CASE Engine
  BY <1>3, StartRefines, CompleteRefines DEF Engine
<1>4. CASE Pool
  BY <1>4, DisplayRunRefines DEF Pool
<1>5. CASE Tick
  BY <1>5, OtherRefines
<1>6. CASE UNCHANGED vars
  BY <1>6, OtherRefines
<1> QED BY <1>1, <1>2, <1>3, <1>4, <1>5, <1>6 DEF Next

(* The task system implements AccessOrder: each step of the clients, the   *)
(* manager, the engines and the pool flushes, starts or ends one task the  *)
(* way AccessOrder allows, or is invisible to it.                          *)
THEOREM KeepsAccessOrder ==
    ASSUME OrderlyWorkloads, TilesAreApart PROVE Spec => ImplementsAccessOrder
<1>1. IInv /\ OInv /\ [Next]_vars => [Ordered!Next]_(Ordered!vars)
  BY NextRefines
<1> HIDE DEF OrderlyWorkloads, TilesAreApart
<1> QED BY <1>1, AlwaysOrdered, OrderedInit, PTL DEF Spec, ImplementsAccessOrder, Ordered!Spec

(* Two tasks that run now and conflict would have been flushed one before  *)
(* the other; the later one would have waited.                             *)
LEMMA OrderExcludes ==
    ASSUME OrderlyWorkloads, TilesAreApart, IInv, OInv PROVE Ordered!Exclusive
<1>1. FlushOrder /\ Blocked /\ order \in Seq(Tasks)
  BY InvFacts
<1>2. ASSUME NEW t \in Running, NEW u \in Running, "EMITNOTIFIES" \notin InitFlags[u],
             Before(Root(u), Root(t)), Ordered!Conflict(u, t)
      PROVE  FALSE
  <2>1. /\ t \in Tasks /\ u \in Tasks /\ state[u] = "RUNNING"
        /\ Root(t) \in Flushed /\ Passed(Root(t))
    BY <1>1, RunningFacts
  <2>2. Ordered!FlushedBefore(u, t)
    BY <1>2 DEF Before, Ordered!FlushedBefore, Ordered!Root, Root
  <2>3. \/ Dst(t) = NULL
        \/ Key(t) \in Keys /\ 1 \in DOMAIN queue[Key(t)] /\ queue[Key(t)][1] = t
    <3>1. CASE t \in executing
      BY <1>1, <3>1, RunningFacts
    <3>2. CASE t \in pool \cup ({prev_task} \ {NULL})
      BY <1>1, <2>1, <3>2, RunningFacts, FlushedFacts
    <3> QED BY <3>1, <3>2 DEF Running
  <2>4. u \in Fin
    BY <1>1, <1>2, <2>1, <2>2, <2>3, NoConflict DEF Blocked
  <2> QED BY <2>1, <2>4 DEF Fin, Ended
<1> SUFFICES ASSUME NEW t \in Running, NEW u \in Running,
                    "EMITNOTIFIES" \notin InitFlags[t], "EMITNOTIFIES" \notin InitFlags[u],
                    Root(t) # Root(u), Ordered!Conflict(t, u)
             PROVE  FALSE
  <2>1. Running \subseteq Tasks
    BY <1>1, RunningFacts
  <2> QED BY <2>1 DEF Ordered!Exclusive, Ordered!Root, Root
<1>3. Before(Root(t), Root(u)) \/ Before(Root(u), Root(t))
  BY <1>1, RunningFacts, OrderFacts
<1>4. Ordered!Conflict(u, t)
  BY DEF Ordered!Conflict, Ordered!DisjointTiles
<1> QED BY <1>2, <1>3, <1>4

(* What users of surfaces rely on: two tasks that are in Run(), or one of  *)
(* them on the screen, never write what the other accesses.                *)
THEOREM ConflictsNeverOverlap ==
    ASSUME OrderlyWorkloads, TilesAreApart PROVE Spec => []Ordered!Exclusive
<1>1. IInv /\ OInv => Ordered!Exclusive
  BY OrderExcludes
<1> HIDE DEF OrderlyWorkloads, TilesAreApart
<1> QED BY <1>1, AlwaysOrdered, PTL
=============================================================================
