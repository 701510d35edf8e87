------------------------- MODULE TaskThreadsQProofs -------------------------
(***************************************************************************)
(* Proofs that TaskThreadsQ serialises the tasks of a queue, keeps no      *)
(* pointer to a deleted task and satisfies the assertions of Finalise(),   *)
(* for any number of tasks, queues and runners.                            *)
(*                                                                         *)
(* The argument: each queue has at most one token.  The token is an entry  *)
(* of the fifo, a runner between Pull and the end of Run(), a runner about *)
(* to push the successor it has read, or a task that returned from Run()   *)
(* with TASK_FLAG_LAST_IN_QUEUE and waits for Finalise().  An erased queue *)
(* has no token, so Push() may create one.  The tasks behind the token in  *)
(* the chain of "next" pointers have not been handed to any runner.        *)
(***************************************************************************)
EXTENDS TaskThreadsQ, SequenceTheorems, TLAPS

(* Runner r has the token of its task's queue. *)
Carries(r) ==
    \/ pc[r] \in {"next", "flag", "run"}
    \/ pc[r] = "push" /\ next_local[r] # NULL

Active(t) == \E r \in Runners : pc[r] \in {"next", "flag", "run"} /\ task[r] = t

InFifo(t) == \E i \in DOMAIN fifo : fifo[i] = t

(* Task t has the token itself: Finalise() will resume the queue. *)
Parked(t) == state[t] = "DONE" /\ t \in last_in_queue

OneToken ==
    /\ \A i, j \in DOMAIN fifo : Qid[fifo[i]] = Qid[fifo[j]] => i = j
    /\ \A i \in DOMAIN fifo : \A r \in Runners : Carries(r) => Qid[fifo[i]] # Qid[task[r]]
    /\ \A i \in DOMAIN fifo : \A t \in Tasks : Parked(t) => Qid[fifo[i]] # Qid[t]
    /\ \A r, s \in Runners : Carries(r) /\ Carries(s) /\ Qid[task[r]] = Qid[task[s]] => r = s
    /\ \A r \in Runners : \A t \in Tasks : Carries(r) /\ Parked(t) => Qid[task[r]] # Qid[t]
    /\ \A t, u \in Tasks : Parked(t) /\ Parked(u) /\ Qid[t] = Qid[u] => t = u

ErasedQueueIsIdle ==
    \A q \in Qids : queues[q] = NULL =>
        /\ \A i \in DOMAIN fifo : Qid[fifo[i]] # q
        /\ \A r \in Runners : Carries(r) => Qid[task[r]] # q
        /\ \A t \in Tasks : Parked(t) => Qid[t] # q

(* What taskLoop()'s local variables say at each point. *)
RunnerState ==
    \A r \in Runners :
        /\ pc[r] # "pull" => task[r] \in Tasks
        /\ pc[r] \in {"pull", "next", "flag"} => next_local[r] = NULL
        /\ pc[r] \in {"next", "flag", "run"} => state[task[r]] = "RUNNING"
        /\ pc[r] \in {"next", "flag"} => task[r] \notin last_in_queue
        /\ pc[r] \in {"run", "push"} => (task[r] \in last_in_queue <=> next_local[r] = NULL)
        /\ pc[r] = "push" => state[task[r]] \in {"DONE", "DEAD"}
        /\ next_local[r] # NULL => next[task[r]] = next_local[r]

LastState ==
    \A t \in last_in_queue : state[t] # "READY" /\ (state[t] = "RUNNING" => Active(t))

(* The chain of "next" pointers of a queue. *)
Chain ==
    /\ \A t \in Tasks : state[t] = "READY" => next[t] = NULL
    /\ \A t \in Tasks : next[t] # NULL => Qid[next[t]] = Qid[t] /\ state[next[t]] # "READY"
    /\ \A t, u \in Tasks : next[t] = next[u] /\ next[t] # NULL => t = u
    /\ \A q \in Qids : queues[q] # NULL =>
          /\ Qid[queues[q]] = q
          /\ next[queues[q]] = NULL
          /\ state[queues[q]] \in {"RUNNING", "DONE"}
    /\ \A t \in Tasks : state[t] \in {"RUNNING", "DONE"} /\ next[t] = NULL => queues[Qid[t]] = t
    /\ \A t \in Tasks : state[t] \in {"DONE", "DEAD"} /\ t \notin last_in_queue => next[t] # NULL

(* Pushed by the manager, not yet handed to the runners. *)
Queued(t) == state[t] = "RUNNING" /\ ~ InFifo(t) /\ ~ Active(t)

(* The token of its queue is at t. *)
AtToken(t) ==
    \/ InFifo(t)
    \/ \E r \in Runners : Carries(r) /\ task[r] = t
    \/ Parked(t)

BehindToken ==
    \A t \in Tasks : next[t] # NULL /\ (Queued(t) \/ AtToken(t)) => Queued(next[t])

FifoState == \A i \in DOMAIN fifo : state[fifo[i]] = "RUNNING" /\ fifo[i] \notin last_in_queue

IInv ==
    /\ TypeOK
    /\ OneToken
    /\ ErasedQueueIsIdle
    /\ RunnerState
    /\ LastState
    /\ Chain
    /\ BehindToken
    /\ FifoState

-----------------------------------------------------------------------------
(* The two ways the fifo changes. *)
LEMMA AppendFacts ==
    ASSUME NEW s \in Seq(Tasks), NEW x \in Tasks
    PROVE  /\ Append(s, x) \in Seq(Tasks)
           /\ \A i \in DOMAIN s : i \in DOMAIN Append(s, x) /\ Append(s, x)[i] = s[i]
           /\ Len(s) + 1 \in DOMAIN Append(s, x) /\ Append(s, x)[Len(s) + 1] = x
           /\ \A i \in DOMAIN Append(s, x) :
                 i # Len(s) + 1 => i \in DOMAIN s /\ Append(s, x)[i] = s[i]
  OBVIOUS

LEMMA TailFacts ==
    ASSUME NEW s \in Seq(Tasks), s # << >>
    PROVE  /\ Tail(s) \in Seq(Tasks)
           /\ Head(s) = s[1] /\ Head(s) \in Tasks
           /\ Len(s) \in Nat \ {0}
           /\ DOMAIN s = 1..Len(s)
           /\ DOMAIN Tail(s) = 1..(Len(s) - 1)
           /\ \A i \in 1..(Len(s) - 1) : Tail(s)[i] = s[i + 1]
  OBVIOUS

LEMMA FifoElements == TypeOK => \A i \in DOMAIN fifo : fifo[i] \in Tasks
  BY DEF TypeOK

LEMMA InitInv == Init => IInv
<1> SUFFICES ASSUME Init PROVE IInv
  OBVIOUS
<1>1. TypeOK
  BY DEF Init, TypeOK, States, Locations
<1> QED
  BY <1>1, NullAssumption, QidAssumption
  DEF IInv, Init, OneToken, ErasedQueueIsIdle, RunnerState, LastState, Chain, BehindToken,
      FifoState, Carries, Active, InFifo, Parked, Queued, AtToken

(* Push() creates a token only on an idle queue, and extends the chain of  *)
(* a busy one behind the token.                                            *)
LEMMA PushInv ==
    ASSUME IInv, NEW t \in Tasks, Push(t)
    PROVE  IInv'
<1> DEFINE q == Qid[t]
           last == queues[q]
<1>1. /\ q \in Qids /\ state[t] = "READY" /\ next[t] = NULL
      /\ state' = [state EXCEPT ![t] = "RUNNING"]
      /\ queues' = [queues EXCEPT ![q] = t]
      /\ UNCHANGED <<last_in_queue, pc, task, next_local>>
  BY QidAssumption DEF Push, IInv, Chain
<1>2. /\ \A i \in DOMAIN fifo : fifo[i] # t
      /\ \A r \in Runners : pc[r] # "pull" => task[r] # t
      /\ t \notin last_in_queue
      /\ \A u \in Tasks : next[u] # t
  BY <1>1, NullAssumption
  DEF IInv, TypeOK, Locations, FifoState, RunnerState, LastState, Chain
<1>3. TypeOK'
  <2>1. fifo' \in Seq(Tasks) /\ next' \in [Tasks -> Tasks \cup {NULL}]
    <3>1. Append(fifo, t) \in Seq(Tasks)
      BY AppendFacts DEF IInv, TypeOK
    <3> QED BY <3>1 DEF Push, IInv, TypeOK
  <2>2. order' \in [Qids -> Seq(Tasks)]
    <3>1. Append(order[q], t) \in Seq(Tasks)
      BY <1>1, AppendFacts DEF IInv, TypeOK
    <3> QED BY <3>1 DEF Push, IInv, TypeOK
  <2> QED BY <1>1, <2>1, <2>2 DEF IInv, TypeOK, States
<1>4. LastState'
  BY <1>1, <1>2 DEF IInv, TypeOK, LastState, Active
<1>5. CASE last # NULL
  <2>1. /\ last \in Tasks /\ last # t /\ Qid[last] = q /\ next[last] = NULL
        /\ state[last] \in {"RUNNING", "DONE"}
        /\ next' = [next EXCEPT ![last] = t] /\ fifo' = fifo
    BY <1>1, <1>5 DEF Push, IInv, TypeOK, Chain
  <2>2. OneToken' /\ FifoState'
    BY <1>1, <1>2, <2>1
    DEF IInv, TypeOK, OneToken, Carries, Parked, FifoState
  <2>3. ErasedQueueIsIdle'
    BY <1>1, <1>2, <2>1, NullAssumption
    DEF IInv, TypeOK, ErasedQueueIsIdle, Carries, Parked
  <2>4. RunnerState'
    BY <1>1, <1>2, <2>1 DEF IInv, TypeOK, RunnerState
  <2>5. Chain'
    <3>1. \A u \in Tasks : state'[u] \in {"RUNNING", "DONE"} /\ next'[u] = NULL
                             => queues'[Qid[u]] = u
      BY <1>1, <2>1, QidAssumption, NullAssumption DEF IInv, TypeOK, Chain
    <3>2. \A p \in Qids : queues'[p] # NULL =>
             Qid[queues'[p]] = p /\ next'[queues'[p]] = NULL
             /\ state'[queues'[p]] \in {"RUNNING", "DONE"}
      BY <1>1, <2>1 DEF IInv, TypeOK, Chain
    <3>3. \A u, v \in Tasks : next'[u] = next'[v] /\ next'[u] # NULL => u = v
      BY <1>1, <1>2, <2>1 DEF IInv, TypeOK, Chain
    <3>4. \A u \in Tasks : next'[u] # NULL => Qid[next'[u]] = Qid[u] /\ state'[next'[u]] # "READY"
      BY <1>1, <1>2, <2>1 DEF IInv, TypeOK, Chain
    <3>5. /\ \A u \in Tasks : state'[u] = "READY" => next'[u] = NULL
          /\ \A u \in Tasks : state'[u] \in {"DONE", "DEAD"} /\ u \notin last_in_queue'
                                => next'[u] # NULL
      BY <1>1, <2>1, NullAssumption DEF IInv, TypeOK, Chain
    <3> QED BY <3>1, <3>2, <3>3, <3>4, <3>5 DEF Chain
  <2>6. BehindToken'
    <3>1. Queued(t)'
      BY <1>1, <1>2, <2>1 DEF Queued, InFifo, Active, IInv, TypeOK
    <3>2. \A u \in Tasks : u # t => (Queued(u)' = Queued(u) /\ AtToken(u)' = AtToken(u))
      BY <1>1, <2>1 DEF Queued, AtToken, InFifo, Active, Carries, Parked, IInv, TypeOK
    <3>3. \A u \in Tasks : Queued(u) => Queued(u)'
      BY <1>1, <3>2, <3>1
    <3> QED BY <1>1, <1>2, <2>1, <3>1, <3>2, <3>3 DEF BehindToken, IInv, TypeOK
  <2> QED BY <1>3, <1>4, <2>2, <2>3, <2>4, <2>5, <2>6 DEF IInv
<1>6. CASE last = NULL
  <2>1. fifo' = Append(fifo, t) /\ next' = next
    BY <1>6 DEF Push
  <2> DEFINE n == Len(fifo) + 1
  <2>2. /\ \A i \in DOMAIN fifo : i \in DOMAIN fifo' /\ fifo'[i] = fifo[i]
        /\ n \in DOMAIN fifo' /\ fifo'[n] = t
        /\ \A i \in DOMAIN fifo' : i # n => i \in DOMAIN fifo /\ fifo'[i] = fifo[i]
    BY <2>1, AppendFacts DEF IInv, TypeOK
  <2> HIDE DEF n
  <2>3. /\ \A i \in DOMAIN fifo : Qid[fifo[i]] # q
        /\ \A r \in Runners : Carries(r) => Qid[task[r]] # q
        /\ \A u \in Tasks : Parked(u) => Qid[u] # q
    BY <1>1, <1>6 DEF IInv, ErasedQueueIsIdle
  <2>4. /\ \A r \in Runners : Carries(r)' = Carries(r)
        /\ \A u \in Tasks : Parked(u)' = Parked(u)
    BY <1>1, <1>2 DEF Carries, Parked, IInv, TypeOK
  <2>5. FifoState'
    <3> SUFFICES ASSUME NEW i \in DOMAIN fifo'
                 PROVE  state'[fifo'[i]] = "RUNNING" /\ fifo'[i] \notin last_in_queue
      BY <1>1 DEF FifoState
    <3>1. CASE i = n
      BY <1>1, <1>2, <2>2, <3>1 DEF IInv, TypeOK
    <3>2. CASE i # n
      <4>1. i \in DOMAIN fifo /\ fifo'[i] = fifo[i] /\ fifo[i] \in Tasks /\ fifo[i] # t
        BY <1>2, <2>2, <3>2, FifoElements DEF IInv
      <4> QED BY <1>1, <4>1 DEF IInv, TypeOK, FifoState
    <3> QED BY <3>1, <3>2
  <2>6. OneToken'
    BY <1>1, <2>2, <2>3, <2>4 DEF IInv, OneToken
  <2>7. ErasedQueueIsIdle'
    BY <1>1, <2>2, <2>4, NullAssumption DEF IInv, TypeOK, ErasedQueueIsIdle
  <2>8. RunnerState'
    BY <1>1, <1>2, <2>1 DEF IInv, TypeOK, RunnerState
  <2>9. Chain'
    BY <1>1, <1>6, <2>1, QidAssumption, NullAssumption DEF IInv, TypeOK, Chain
  <2>10. BehindToken'
    <3>1. \A u \in Tasks : u # t => (Queued(u)' = Queued(u) /\ AtToken(u)' = AtToken(u))
      BY <1>1, <2>2, <2>4 DEF Queued, AtToken, InFifo, Active, IInv, TypeOK
    <3> QED BY <1>1, <1>2, <2>1, <3>1 DEF BehindToken, IInv, TypeOK
  <2> QED BY <1>3, <1>4, <2>5, <2>6, <2>7, <2>8, <2>9, <2>10 DEF IInv
<1> QED BY <1>5, <1>6

(* Finalise() passes the token on to a successor that no runner has seen,  *)
(* or removes it together with the queue.                                  *)
LEMMA FinaliseInv ==
    ASSUME IInv, NEW t \in Tasks, Finalise(t)
    PROVE  IInv'
<1> DEFINE q == Qid[t]
           u == next[t]
<1>1. /\ q \in Qids /\ state[t] = "DONE"
      /\ state' = [state EXCEPT ![t] = "DEAD"]
      /\ UNCHANGED <<next, last_in_queue, pc, task, next_local, order>>
  BY QidAssumption DEF Finalise
<1>2. /\ \A i \in DOMAIN fifo : fifo[i] \in Tasks /\ fifo[i] # t
      /\ \A r \in Runners : pc[r] \in {"next", "flag", "run"} => task[r] # t
  BY <1>1, FifoElements DEF IInv, FifoState, RunnerState
<1>3. /\ \A r \in Runners : Carries(r)' = Carries(r)
      /\ \A v \in Tasks : Parked(v)' => Parked(v) /\ v # t
      /\ \A v \in Tasks : Active(v)' = Active(v)
  BY <1>1 DEF Carries, Parked, Active, IInv, TypeOK
<1>4. RunnerState'
  BY <1>1, <1>2 DEF IInv, TypeOK, Locations, RunnerState
<1>5. LastState'
  BY <1>1, <1>3 DEF IInv, TypeOK, LastState
<1>6. CASE t \in last_in_queue /\ u # NULL
  <2>1. fifo' = Append(fifo, u) /\ queues' = queues /\ u \in Tasks /\ Qid[u] = q
    BY <1>1, <1>6 DEF Finalise, IInv, TypeOK, Chain
  <2>2. Parked(t) /\ AtToken(t) /\ Queued(u)
    BY <1>1, <1>6 DEF Parked, AtToken, IInv, BehindToken
  <2>3. u # t /\ u \notin last_in_queue /\ state[u] = "RUNNING"
    BY <1>1, <2>1, <2>2 DEF Queued, IInv, LastState
  <2> DEFINE n == Len(fifo) + 1
  <2>4. /\ fifo' \in Seq(Tasks)
        /\ \A i \in DOMAIN fifo : i \in DOMAIN fifo' /\ fifo'[i] = fifo[i]
        /\ n \in DOMAIN fifo' /\ fifo'[n] = u
        /\ \A i \in DOMAIN fifo' : i # n => i \in DOMAIN fifo /\ fifo'[i] = fifo[i]
    BY <2>1, AppendFacts DEF IInv, TypeOK
  <2> HIDE DEF n
  <2>5. TypeOK'
    BY <1>1, <2>1, <2>4 DEF IInv, TypeOK, States
  <2>6. /\ \A i \in DOMAIN fifo : Qid[fifo[i]] # q
        /\ \A r \in Runners : Carries(r) => Qid[task[r]] # q
        /\ \A v \in Tasks : Parked(v) /\ Qid[v] = q => v = t
    BY <2>2 DEF IInv, OneToken
  <2>7. OneToken'
    <3>1. \A i, j \in DOMAIN fifo' : Qid[fifo'[i]] = Qid[fifo'[j]] => i = j
      BY <2>1, <2>4, <2>6 DEF IInv, OneToken
    <3>2. \A i \in DOMAIN fifo' : \A r \in Runners :
             Carries(r)' => Qid[fifo'[i]] # Qid[task'[r]]
      BY <1>1, <1>3, <2>1, <2>4, <2>6 DEF IInv, OneToken
    <3>3. \A i \in DOMAIN fifo' : \A v \in Tasks : Parked(v)' => Qid[fifo'[i]] # Qid[v]
      BY <1>3, <2>1, <2>4, <2>6 DEF IInv, OneToken
    <3>4. /\ \A r \in Runners : \A v \in Tasks : Carries(r)' /\ Parked(v)' => Qid[task'[r]] # Qid[v]
          /\ \A r, s \in Runners : Carries(r)' /\ Carries(s)' /\ Qid[task'[r]] = Qid[task'[s]] => r = s
          /\ \A v, w \in Tasks : Parked(v)' /\ Parked(w)' /\ Qid[v] = Qid[w] => v = w
      BY <1>1, <1>3 DEF IInv, OneToken
    <3> QED BY <3>1, <3>2, <3>3, <3>4 DEF OneToken
  <2>8. queues[q] # NULL
    BY <1>1, <2>2 DEF IInv, ErasedQueueIsIdle
  <2>9. ErasedQueueIsIdle'
    <3>1. \A p \in Qids : queues[p] = NULL => \A i \in DOMAIN fifo' : Qid[fifo'[i]] # p
      BY <2>1, <2>4, <2>8 DEF IInv, ErasedQueueIsIdle
    <3> QED BY <1>1, <1>3, <2>1, <3>1 DEF IInv, ErasedQueueIsIdle
  <2>10. Chain'
    <3>1. queues[q] # t
      BY <1>1, <1>6, <2>8 DEF IInv, Chain
    <3>2. \A p \in Qids : queues[p] # t
      BY <3>1, <1>1, NullAssumption DEF IInv, TypeOK, Chain
    <3> QED BY <1>1, <2>1, <3>2 DEF IInv, TypeOK, Chain
  <2>11. FifoState'
    BY <1>1, <1>2, <2>1, <2>3, <2>4 DEF IInv, TypeOK, FifoState
  <2>12. BehindToken'
    <3>1. \A v \in Tasks : v # u => InFifo(v)' = InFifo(v)
      BY <2>4 DEF InFifo
    <3>2. \A v \in Tasks : v # u => Queued(v)' = Queued(v)
      BY <1>1, <1>3, <3>1 DEF Queued, IInv, TypeOK
    <3>3. ~ AtToken(t)'
      BY <1>1, <1>2, <1>3, <2>3, <2>6, <3>1 DEF AtToken, InFifo
    <3>4. \A v \in Tasks : v # u /\ AtToken(v)' => AtToken(v) /\ v # t
      BY <1>1, <1>3, <3>1, <3>3 DEF AtToken
    <3>5. ~ Queued(t)
      BY <1>1 DEF Queued
    <3>6. \A v \in Tasks : v # t /\ next[v] # NULL => next[v] # u
      BY <1>6 DEF IInv, Chain
    <3>7. next[u] # NULL => Queued(next[u])
      BY <2>1, <2>2 DEF IInv, BehindToken
    <3>8. next[u] # u
      BY <2>1, <2>3, <3>6, NullAssumption
    <3> SUFFICES ASSUME NEW v \in Tasks, NEW w \in Tasks, next[v] = w,
                        Queued(v)' \/ AtToken(v)'
                 PROVE  Queued(w)'
      BY <1>1 DEF BehindToken, IInv, TypeOK
    <3>9. CASE v = u
      BY <3>2, <3>7, <3>8, <3>9, NullAssumption
    <3>10. CASE v # u
      <4>1. v # t /\ (Queued(v) \/ AtToken(v))
        BY <3>2, <3>4, <3>5, <3>10
      <4>2. Queued(w) /\ w # u
        BY <4>1, <3>6, NullAssumption DEF IInv, BehindToken
      <4> QED BY <4>2, <3>2
    <3> QED BY <3>9, <3>10
  <2> QED BY <1>4, <1>5, <2>5, <2>7, <2>9, <2>10, <2>11, <2>12 DEF IInv
<1>7. CASE ~ (t \in last_in_queue /\ u # NULL)
  <2>1. /\ fifo' = fifo
        /\ IF t \in last_in_queue THEN queues' = [queues EXCEPT ![q] = NULL]
                                  ELSE queues' = queues
    BY <1>7 DEF Finalise
  <2>2. TypeOK'
    BY <1>1, <2>1 DEF IInv, TypeOK, States
  <2>3. OneToken'
    BY <1>1, <1>3, <2>1 DEF IInv, OneToken
  <2>4. ErasedQueueIsIdle'
    <3>1. t \in last_in_queue => Parked(t)
      BY <1>1 DEF Parked
    <3>2. t \in last_in_queue =>
             /\ \A i \in DOMAIN fifo : Qid[fifo[i]] # q
             /\ \A r \in Runners : Carries(r) => Qid[task[r]] # q
             /\ \A v \in Tasks : Parked(v) /\ Qid[v] = q => v = t
      BY <3>1 DEF IInv, OneToken
    <3> QED BY <1>1, <1>3, <2>1, <3>2 DEF IInv, TypeOK, ErasedQueueIsIdle
  <2>5. Chain'
    <3>1. t \in last_in_queue => u = NULL /\ queues[q] = t
      BY <1>1, <1>7 DEF IInv, Chain
    <3>2. t \notin last_in_queue => u # NULL
      BY <1>1 DEF IInv, Chain
    <3>3. \A p \in Qids : queues'[p] # t
      <4>1. \A p \in Qids : queues[p] = t => p = q /\ u = NULL
        BY NullAssumption DEF IInv, Chain
      <4>2. CASE t \in last_in_queue
        BY <1>1, <2>1, <4>1, <4>2, NullAssumption DEF IInv, TypeOK
      <4>3. CASE t \notin last_in_queue
        BY <2>1, <3>2, <4>1, <4>3
      <4> QED BY <4>2, <4>3
    <3>4. \A v \in Tasks : v # t /\ state[v] \in {"RUNNING", "DONE"} /\ next[v] = NULL
                             => queues'[Qid[v]] = v
      BY <2>1, <3>1, QidAssumption DEF IInv, TypeOK, Chain
    <3>5. \A p \in Qids : queues'[p] # NULL => queues'[p] = queues[p]
      BY <2>1 DEF IInv, TypeOK
    <3>6. \A p \in Qids : queues'[p] # NULL =>
             Qid[queues'[p]] = p /\ next'[queues'[p]] = NULL
             /\ state'[queues'[p]] \in {"RUNNING", "DONE"}
      BY <1>1, <3>3, <3>5 DEF IInv, TypeOK, Chain
    <3> QED BY <1>1, <3>4, <3>6 DEF IInv, TypeOK, Chain
  <2>6. FifoState'
    BY <1>1, <1>2, <2>1 DEF IInv, TypeOK, FifoState
  <2>7. BehindToken'
    <3>1. \A v \in Tasks : Queued(v)' = Queued(v) /\ (AtToken(v)' => AtToken(v))
      BY <1>1, <1>3, <2>1 DEF Queued, AtToken, InFifo, IInv, TypeOK
    <3> QED BY <1>1, <3>1 DEF IInv, TypeOK, BehindToken
  <2> QED BY <1>4, <1>5, <2>2, <2>3, <2>4, <2>5, <2>6, <2>7 DEF IInv
<1> QED BY <1>6, <1>7

(* A runner takes the token out of the fifo. *)
LEMMA PullInv ==
    ASSUME IInv, NEW r \in Runners, Pull(r)
    PROVE  IInv'
<1> DEFINE h == Head(fifo)
<1>1. /\ pc[r] = "pull" /\ next_local[r] = NULL
      /\ task' = [task EXCEPT ![r] = h] /\ pc' = [pc EXCEPT ![r] = "next"]
      /\ UNCHANGED <<state, next, last_in_queue, queues, next_local, order>>
  BY DEF Pull, IInv, RunnerState
<1>2. /\ h \in Tasks /\ 1 \in DOMAIN fifo /\ fifo[1] = h
      /\ fifo' \in Seq(Tasks)
      /\ \A i \in DOMAIN fifo' : i + 1 \in DOMAIN fifo /\ i + 1 # 1 /\ fifo'[i] = fifo[i + 1]
      /\ \A i \in DOMAIN fifo : i # 1 => i - 1 \in DOMAIN fifo' /\ fifo'[i - 1] = fifo[i]
      /\ \A i, j \in DOMAIN fifo' : i + 1 = j + 1 => i = j
  <2>1. fifo # << >> /\ fifo' = Tail(fifo) /\ fifo \in Seq(Tasks)
    BY DEF Pull, IInv, TypeOK
  <2> QED BY <2>1, TailFacts
<1> HIDE DEF h
<1>3. /\ \A i \in DOMAIN fifo : i # 1 => Qid[fifo[i]] # Qid[h]
      /\ \A s \in Runners : Carries(s) => Qid[task[s]] # Qid[h]
      /\ \A v \in Tasks : Parked(v) => Qid[v] # Qid[h]
      /\ state[h] = "RUNNING" /\ h \notin last_in_queue
      /\ queues[Qid[h]] # NULL
  BY <1>2, QidAssumption DEF IInv, OneToken, FifoState, ErasedQueueIsIdle
<1>4. /\ Carries(r)' /\ task'[r] = h
      /\ \A s \in Runners : s # r => pc'[s] = pc[s] /\ task'[s] = task[s]
      /\ \A s \in Runners : s # r => (Carries(s)' <=> Carries(s))
      /\ \A v \in Tasks : Parked(v)' <=> Parked(v)
  BY <1>1 DEF Carries, Parked, IInv, TypeOK
<1>5. TypeOK'
  BY <1>1, <1>2 DEF IInv, TypeOK, Locations
<1>6. OneToken'
  <2>1. \A i, j \in DOMAIN fifo' : Qid[fifo'[i]] = Qid[fifo'[j]] => i = j
    BY <1>2 DEF IInv, OneToken
  <2>2. \A i \in DOMAIN fifo' : \A s \in Runners :
           Carries(s)' => Qid[fifo'[i]] # Qid[task'[s]]
    BY <1>2, <1>3, <1>4 DEF IInv, OneToken
  <2>3. \A i \in DOMAIN fifo' : \A v \in Tasks : Parked(v)' => Qid[fifo'[i]] # Qid[v]
    BY <1>2, <1>4 DEF IInv, OneToken
  <2>4. \A s, w \in Runners : Carries(s)' /\ Carries(w)' /\ Qid[task'[s]] = Qid[task'[w]] => s = w
    BY <1>3, <1>4 DEF IInv, OneToken
  <2>5. /\ \A s \in Runners : \A v \in Tasks : Carries(s)' /\ Parked(v)' => Qid[task'[s]] # Qid[v]
        /\ \A v, w \in Tasks : Parked(v)' /\ Parked(w)' /\ Qid[v] = Qid[w] => v = w
    BY <1>3, <1>4 DEF IInv, OneToken
  <2> QED BY <2>1, <2>2, <2>3, <2>4, <2>5 DEF OneToken
<1>7. ErasedQueueIsIdle'
  BY <1>1, <1>2, <1>3, <1>4 DEF IInv, ErasedQueueIsIdle
<1>8. RunnerState'
  BY <1>1, <1>2, <1>3, <1>4 DEF IInv, TypeOK, RunnerState
<1>9. /\ \A v \in Tasks : Active(v)' <=> Active(v) \/ v = h
      /\ \A v \in Tasks : InFifo(v)' <=> InFifo(v) /\ v # h
  <2>1. \A v \in Tasks : Active(v)' <=> Active(v) \/ v = h
    BY <1>1, <1>4 DEF Active, IInv, TypeOK
  <2>2. \A v \in Tasks : InFifo(v)' <=> InFifo(v) /\ v # h
    BY <1>2, <1>3 DEF InFifo
  <2> QED BY <2>1, <2>2
<1>10. LastState'
  BY <1>1, <1>9 DEF IInv, TypeOK, LastState
<1>11. Chain'
  BY <1>1 DEF IInv, Chain
<1>12. FifoState'
  BY <1>1, <1>2 DEF IInv, FifoState
<1>13. BehindToken'
  <2>1. InFifo(h)
    BY <1>2 DEF InFifo
  <2>2. \A v \in Tasks : Queued(v)' <=> Queued(v)
    BY <1>1, <1>9, <2>1 DEF Queued
  <2>3. \A v \in Tasks : AtToken(v)' => AtToken(v)
    BY <1>4, <1>9, <2>1 DEF AtToken
  <2> QED BY <1>1, <2>2, <2>3 DEF IInv, TypeOK, BehindToken
<1> QED BY <1>5, <1>6, <1>7, <1>8, <1>10, <1>11, <1>12, <1>13 DEF IInv

(* Steps of a runner that keep its token, the fifo, the queues and what    *)
(* is parked: they preserve the parts of the invariant about tokens.       *)
LEMMA SameTokens ==
    ASSUME IInv, UNCHANGED <<queues, fifo, task>>,
           \A s \in Runners : Carries(s)' <=> Carries(s),
           \A v \in Tasks : Parked(v)' <=> Parked(v)
    PROVE  OneToken' /\ ErasedQueueIsIdle'
  BY DEF IInv, OneToken, ErasedQueueIsIdle

LEMMA ReadNextInv ==
    ASSUME IInv, NEW r \in Runners, ReadNext(r)
    PROVE  IInv'
<1> DEFINE u == next[task[r]]
<1>1. /\ pc[r] = "next" /\ task[r] \in Tasks /\ u \in Tasks \cup {NULL}
      /\ next_local' = [next_local EXCEPT ![r] = u]
      /\ pc' = [pc EXCEPT ![r] = IF u = NULL THEN "flag" ELSE "run"]
      /\ UNCHANGED <<state, next, last_in_queue, queues, fifo, task, order>>
  BY DEF ReadNext, IInv, RunnerState, TypeOK
<1>2. /\ \A s \in Runners : Carries(s)' <=> Carries(s)
      /\ \A v \in Tasks : Parked(v)' <=> Parked(v)
      /\ \A v \in Tasks : Active(v)' <=> Active(v)
      /\ \A v \in Tasks : InFifo(v)' <=> InFifo(v)
  BY <1>1 DEF Carries, Parked, Active, InFifo, IInv, TypeOK
<1>3. TypeOK'
  BY <1>1 DEF IInv, TypeOK, Locations
<1>4. OneToken' /\ ErasedQueueIsIdle'
  BY <1>1, <1>2, SameTokens
<1>5. RunnerState'
  BY <1>1 DEF IInv, TypeOK, RunnerState
<1>6. LastState'
  BY <1>1, <1>2 DEF IInv, TypeOK, LastState
<1>7. Chain' /\ FifoState'
  BY <1>1 DEF IInv, Chain, FifoState
<1>8. BehindToken'
  <2>1. \A v \in Tasks : (Queued(v)' <=> Queued(v)) /\ (AtToken(v)' <=> AtToken(v))
    BY <1>1, <1>2 DEF Queued, AtToken
  <2> QED BY <1>1, <2>1 DEF IInv, TypeOK, BehindToken
<1> QED BY <1>3, <1>4, <1>5, <1>6, <1>7, <1>8 DEF IInv

(* A task that a runner has between Pull and the end of Run() is on no     *)
(* other thread and not in the fifo.                                       *)
LEMMA ActiveIsAlone ==
    ASSUME IInv, NEW r \in Runners, pc[r] \in {"next", "flag", "run"}
    PROVE  /\ task[r] \in Tasks /\ state[task[r]] = "RUNNING"
           /\ \A i \in DOMAIN fifo : fifo[i] # task[r]
           /\ \A s \in Runners : s # r /\ pc[s] # "pull" => task[s] # task[r]
           /\ Active(task[r]) /\ ~ Queued(task[r]) /\ ~ Parked(task[r])
<1>1. Carries(r) /\ task[r] \in Tasks /\ state[task[r]] = "RUNNING"
  BY DEF Carries, IInv, RunnerState
<1>2. \A s \in Runners : s # r /\ pc[s] # "pull" => task[s] # task[r]
  <2> SUFFICES ASSUME NEW s \in Runners, s # r, pc[s] # "pull", task[s] = task[r] PROVE FALSE
    OBVIOUS
  <2>1. CASE pc[s] = "push"
    BY <1>1, <2>1 DEF IInv, RunnerState
  <2>2. CASE pc[s] # "push"
    <3>1. Carries(s)
      BY <2>2 DEF Carries, IInv, TypeOK, Locations
    <3> QED BY <1>1, <3>1 DEF IInv, OneToken
  <2> QED BY <2>1, <2>2
<1>3. \A i \in DOMAIN fifo : fifo[i] # task[r]
  BY <1>1 DEF IInv, OneToken
<1>4. Active(task[r]) /\ ~ Queued(task[r]) /\ ~ Parked(task[r])
  BY <1>1 DEF Active, Queued, Parked
<1> QED BY <1>1, <1>2, <1>3, <1>4

LEMMA SetLastInQueueInv ==
    ASSUME IInv, NEW r \in Runners, SetLastInQueue(r)
    PROVE  IInv'
<1> DEFINE t == task[r]
<1>1. /\ pc[r] = "flag" /\ next_local[r] = NULL
      /\ last_in_queue' = last_in_queue \cup {t}
      /\ pc' = [pc EXCEPT ![r] = "run"]
      /\ UNCHANGED <<state, next, queues, fifo, task, next_local, order>>
  BY DEF SetLastInQueue, IInv, RunnerState
<1>2. /\ t \in Tasks /\ state[t] = "RUNNING"
      /\ \A i \in DOMAIN fifo : fifo[i] # t
      /\ \A s \in Runners : s # r /\ pc[s] # "pull" => task[s] # t
      /\ Active(t)
  BY <1>1, ActiveIsAlone
<1> HIDE DEF t
<1>3. /\ \A s \in Runners : Carries(s)' <=> Carries(s)
      /\ \A v \in Tasks : Parked(v)' <=> Parked(v)
      /\ \A v \in Tasks : Active(v)' <=> Active(v)
      /\ \A v \in Tasks : InFifo(v)' <=> InFifo(v)
  BY <1>1, <1>2 DEF Carries, Parked, Active, InFifo, IInv, TypeOK
<1>4. TypeOK'
  BY <1>1, <1>2 DEF IInv, TypeOK, Locations
<1>5. OneToken' /\ ErasedQueueIsIdle'
  BY <1>1, <1>3, SameTokens
<1>6. RunnerState'
  BY <1>1, <1>2 DEF IInv, TypeOK, RunnerState, t
<1>7. LastState'
  BY <1>1, <1>2, <1>3 DEF IInv, TypeOK, LastState
<1>8. Chain' /\ FifoState'
  BY <1>1, <1>2 DEF IInv, Chain, FifoState
<1>9. BehindToken'
  <2>1. \A v \in Tasks : (Queued(v)' <=> Queued(v)) /\ (AtToken(v)' <=> AtToken(v))
    BY <1>1, <1>3 DEF Queued, AtToken
  <2> QED BY <1>1, <2>1 DEF IInv, TypeOK, BehindToken
<1> QED BY <1>4, <1>5, <1>6, <1>7, <1>8, <1>9 DEF IInv

(* At the end of Run() the token stays with the runner when it has read a  *)
(* successor, and passes to the task itself when it has not.               *)
LEMMA RunDoneInv ==
    ASSUME IInv, NEW r \in Runners, RunDone(r)
    PROVE  IInv'
<1>0. pc[r] = "run" /\ task[r] \in Tasks
  BY DEF RunDone, IInv, RunnerState
<1> PICK t \in Tasks : t = task[r]
  BY <1>0
<1>1. /\ pc[r] = "run"
      /\ state' = [state EXCEPT ![t] = "DONE"]
      /\ pc' = [pc EXCEPT ![r] = "push"]
      /\ UNCHANGED <<next, last_in_queue, queues, fifo, task, next_local, order>>
  BY DEF RunDone
<1>2. /\ state[t] = "RUNNING"
      /\ \A i \in DOMAIN fifo : fifo[i] # t
      /\ \A s \in Runners : s # r /\ pc[s] # "pull" => task[s] # t
      /\ Active(t) /\ ~ Queued(t) /\ ~ Parked(t)
  BY <1>1, ActiveIsAlone
<1>3. /\ Carries(r) /\ (t \in last_in_queue <=> next_local[r] = NULL)
      /\ next_local[r] # NULL => next[t] = next_local[r]
  BY <1>1 DEF Carries, IInv, RunnerState
<1>4. /\ \A s \in Runners : Carries(s)' => Carries(s) /\ (s = r => t \notin last_in_queue)
      /\ \A v \in Tasks : v # t => (Parked(v)' <=> Parked(v))
      /\ Parked(t)' <=> t \in last_in_queue
  <2>1. \A s \in Runners : Carries(s)' => Carries(s) /\ (s = r => t \notin last_in_queue)
    BY <1>1, <1>3 DEF Carries, IInv, TypeOK
  <2>2. /\ \A v \in Tasks : v # t => (Parked(v)' <=> Parked(v))
        /\ Parked(t)' <=> t \in last_in_queue
    BY <1>1, <1>2 DEF Parked, IInv, TypeOK
  <2> QED BY <2>1, <2>2
<1>5. \A v \in Tasks : v # t => (Active(v)' <=> Active(v))
  BY <1>1 DEF Active, IInv, TypeOK
<1>6. /\ \A i \in DOMAIN fifo : Qid[fifo[i]] # Qid[t]
      /\ \A s \in Runners : Carries(s) /\ Qid[task[s]] = Qid[t] => s = r
      /\ \A v \in Tasks : Parked(v) => Qid[v] # Qid[t]
      /\ queues[Qid[t]] # NULL
  BY <1>2, <1>3, QidAssumption DEF IInv, OneToken, ErasedQueueIsIdle
<1>7. \A s \in Runners : s # r => pc'[s] = pc[s]
  BY <1>1 DEF IInv, TypeOK
<1>8. /\ state'[t] = "DONE" /\ pc'[r] = "push"
      /\ \A v \in Tasks : v # t => state'[v] = state[v]
  BY <1>1, <1>2 DEF IInv, TypeOK
<1>9. TypeOK'
  BY <1>1, <1>2 DEF IInv, TypeOK, Locations, States
<1>10. RunnerState'
  <2> SUFFICES ASSUME NEW s \in Runners
               PROVE  /\ pc'[s] # "pull" => task[s] \in Tasks
                      /\ pc'[s] \in {"pull", "next", "flag"} => next_local[s] = NULL
                      /\ pc'[s] \in {"next", "flag", "run"} => state'[task[s]] = "RUNNING"
                      /\ pc'[s] \in {"next", "flag"} => task[s] \notin last_in_queue
                      /\ pc'[s] \in {"run", "push"} =>
                            (task[s] \in last_in_queue <=> next_local[s] = NULL)
                      /\ pc'[s] = "push" => state'[task[s]] \in {"DONE", "DEAD"}
                      /\ next_local[s] # NULL => next[task[s]] = next_local[s]
    BY <1>1 DEF RunnerState
  <2>1. CASE s = r
    BY <1>2, <1>3, <1>8, <2>1
  <2>2. CASE s # r
    <3>1. pc'[s] = pc[s] /\ (pc[s] # "pull" => task[s] \in Tasks /\ state'[task[s]] = state[task[s]])
      BY <1>2, <1>7, <1>8, <2>2 DEF IInv, RunnerState
    <3> QED BY <3>1 DEF IInv, RunnerState
  <2> QED BY <2>1, <2>2
<1>11. OneToken'
  <2>1. /\ \A i, j \in DOMAIN fifo' : Qid[fifo'[i]] = Qid[fifo'[j]] => i = j
        /\ \A i \in DOMAIN fifo' : \A s \in Runners : Carries(s)' => Qid[fifo'[i]] # Qid[task'[s]]
        /\ \A i \in DOMAIN fifo' : \A v \in Tasks : Parked(v)' => Qid[fifo'[i]] # Qid[v]
    BY <1>1, <1>4, <1>6 DEF IInv, OneToken
  <2>2. \A s, w \in Runners : Carries(s)' /\ Carries(w)' /\ Qid[task'[s]] = Qid[task'[w]] => s = w
    BY <1>1, <1>4 DEF IInv, OneToken
  <2>3. \A s \in Runners : \A v \in Tasks : Carries(s)' /\ Parked(v)' => Qid[task'[s]] # Qid[v]
    BY <1>1, <1>4, <1>6 DEF IInv, OneToken
  <2>4. \A v, w \in Tasks : Parked(v)' /\ Parked(w)' /\ Qid[v] = Qid[w] => v = w
    BY <1>4, <1>6 DEF IInv, OneToken
  <2> QED BY <2>1, <2>2, <2>3, <2>4 DEF OneToken
<1>12. ErasedQueueIsIdle'
  BY <1>1, <1>4, <1>6 DEF IInv, ErasedQueueIsIdle
<1>13. LastState'
  <2> SUFFICES ASSUME NEW v \in last_in_queue
               PROVE  state'[v] # "READY" /\ (state'[v] = "RUNNING" => Active(v)')
    BY <1>1 DEF LastState
  <2>1. v \in Tasks
    BY DEF IInv, TypeOK
  <2> QED BY <1>5, <1>8, <2>1 DEF IInv, LastState
<1>14. Chain'
  <2>1. t \notin last_in_queue => next[t] # NULL
    BY <1>3
  <2> QED BY <1>1, <1>2, <1>8, <2>1, NullAssumption DEF IInv, TypeOK, Chain
<1>15. FifoState'
  BY <1>1, <1>2, <1>8, FifoElements DEF IInv, FifoState
<1>16. BehindToken'
  <2>1. \A v \in Tasks : v # t => (Queued(v)' <=> Queued(v))
    BY <1>1, <1>5, <1>8 DEF Queued, InFifo
  <2>2. ~ Queued(t)'
    BY <1>8 DEF Queued
  <2>3. AtToken(t)
    BY <1>3 DEF AtToken
  <2>4. \A v \in Tasks : v # t /\ AtToken(v)' => AtToken(v)
    BY <1>1, <1>4 DEF AtToken, InFifo
  <2> SUFFICES ASSUME NEW v \in Tasks, NEW w \in Tasks, next[v] = w,
                      Queued(v)' \/ AtToken(v)'
               PROVE  Queued(w)'
    BY <1>1 DEF BehindToken, IInv, TypeOK
  <2>5. Queued(v) \/ AtToken(v)
    BY <2>1, <2>2, <2>3, <2>4
  <2>6. Queued(w) /\ w # t
    BY <1>2, <2>5, NullAssumption DEF IInv, BehindToken
  <2> QED BY <2>1, <2>6
<1> QED BY <1>9, <1>10, <1>11, <1>12, <1>13, <1>14, <1>15, <1>16 DEF IInv

(* The runner passes its token on to the successor it read before Run().   *)
LEMMA PushNextInv ==
    ASSUME IInv, NEW r \in Runners, PushNext(r)
    PROVE  IInv'
<1> DEFINE t == task[r]
           u == next_local[r]
<1>1. /\ pc[r] = "push" /\ t \in Tasks /\ state[t] \in {"DONE", "DEAD"}
      /\ pc' = [pc EXCEPT ![r] = "pull"]
      /\ task' = [task EXCEPT ![r] = NULL]
      /\ next_local' = [next_local EXCEPT ![r] = NULL]
      /\ UNCHANGED <<state, next, last_in_queue, queues, order>>
  BY DEF PushNext, IInv, RunnerState
<1>2. /\ ~ Carries(r)' /\ next_local'[r] = NULL /\ pc'[r] = "pull"
      /\ \A s \in Runners : s # r => /\ pc'[s] = pc[s] /\ task'[s] = task[s]
                                     /\ next_local'[s] = next_local[s]
      /\ \A s \in Runners : s # r => (Carries(s)' <=> Carries(s))
      /\ \A v \in Tasks : Parked(v)' <=> Parked(v)
  BY <1>1 DEF Carries, Parked, IInv, TypeOK
<1>3. \A v \in Tasks : Active(v)' <=> Active(v)
  BY <1>1, <1>2 DEF Active
<1>4. RunnerState'
  BY <1>1, <1>2 DEF IInv, RunnerState
<1>5. LastState'
  BY <1>1, <1>3 DEF IInv, TypeOK, LastState
<1>6. Chain'
  BY <1>1 DEF IInv, Chain
<1>7. CASE u = NULL
  <2>1. fifo' = fifo /\ ~ Carries(r)
    BY <1>1, <1>7 DEF PushNext, Carries
  <2>2. TypeOK'
    BY <1>1, <2>1 DEF IInv, TypeOK, Locations
  <2>3. OneToken' /\ ErasedQueueIsIdle'
    BY <1>1, <1>2, <2>1 DEF IInv, OneToken, ErasedQueueIsIdle
  <2>4. FifoState'
    BY <1>1, <2>1 DEF IInv, FifoState
  <2>5. BehindToken'
    <3>1. \A v \in Tasks : (Queued(v)' <=> Queued(v)) /\ (AtToken(v)' => AtToken(v))
      BY <1>1, <1>2, <1>3, <2>1 DEF Queued, AtToken, InFifo
    <3> QED BY <1>1, <3>1 DEF IInv, TypeOK, BehindToken
  <2> QED BY <1>4, <1>5, <1>6, <2>2, <2>3, <2>4, <2>5 DEF IInv
<1>8. CASE u # NULL
  <2>1. fifo' = Append(fifo, u) /\ u \in Tasks /\ next[t] = u /\ Qid[u] = Qid[t]
    BY <1>1, <1>8 DEF PushNext, IInv, TypeOK, RunnerState, Chain
  <2>2. Carries(r)
    BY <1>1, <1>8 DEF Carries
  <2>3. AtToken(t) /\ Queued(u)
    BY <1>1, <2>1, <2>2, NullAssumption DEF AtToken, IInv, BehindToken
  <2>4. u # t /\ u \notin last_in_queue /\ state[u] = "RUNNING"
    BY <1>1, <2>1, <2>3 DEF Queued, IInv, LastState
  <2> DEFINE n == Len(fifo) + 1
  <2>5. /\ fifo' \in Seq(Tasks)
        /\ \A i \in DOMAIN fifo : i \in DOMAIN fifo' /\ fifo'[i] = fifo[i]
        /\ n \in DOMAIN fifo' /\ fifo'[n] = u
        /\ \A i \in DOMAIN fifo' : i # n => i \in DOMAIN fifo /\ fifo'[i] = fifo[i]
    BY <2>1, AppendFacts DEF IInv, TypeOK
  <2> HIDE DEF n
  <2>6. TypeOK'
    BY <1>1, <2>5 DEF IInv, TypeOK, Locations
  <2>7. /\ \A i \in DOMAIN fifo : Qid[fifo[i]] # Qid[t]
        /\ \A s \in Runners : Carries(s) /\ Qid[task[s]] = Qid[t] => s = r
        /\ \A v \in Tasks : Parked(v) => Qid[v] # Qid[t]
        /\ queues[Qid[t]] # NULL
    BY <1>1, <2>2, QidAssumption DEF IInv, OneToken, ErasedQueueIsIdle
  <2>8. \A s \in Runners : Carries(s)' => s # r /\ Carries(s) /\ task'[s] = task[s]
    BY <1>2
  <2>9. OneToken'
    <3>1. \A i, j \in DOMAIN fifo' : Qid[fifo'[i]] = Qid[fifo'[j]] => i = j
      BY <2>1, <2>5, <2>7 DEF IInv, OneToken
    <3>2. \A i \in DOMAIN fifo' : \A s \in Runners : Carries(s)' => Qid[fifo'[i]] # Qid[task'[s]]
      BY <2>1, <2>5, <2>7, <2>8 DEF IInv, OneToken
    <3>3. \A i \in DOMAIN fifo' : \A v \in Tasks : Parked(v)' => Qid[fifo'[i]] # Qid[v]
      BY <1>2, <2>1, <2>5, <2>7 DEF IInv, OneToken
    <3>4. /\ \A s, w \in Runners : Carries(s)' /\ Carries(w)' /\ Qid[task'[s]] = Qid[task'[w]] => s = w
          /\ \A s \in Runners : \A v \in Tasks : Carries(s)' /\ Parked(v)' => Qid[task'[s]] # Qid[v]
          /\ \A v, w \in Tasks : Parked(v)' /\ Parked(w)' /\ Qid[v] = Qid[w] => v = w
      BY <1>2, <2>8 DEF IInv, OneToken
    <3> QED BY <3>1, <3>2, <3>3, <3>4 DEF OneToken
  <2>10. ErasedQueueIsIdle'
    <3>1. \A p \in Qids : queues[p] = NULL => \A i \in DOMAIN fifo' : Qid[fifo'[i]] # p
      BY <2>1, <2>5, <2>7 DEF IInv, ErasedQueueIsIdle
    <3> QED BY <1>1, <1>2, <2>8, <3>1 DEF IInv, ErasedQueueIsIdle
  <2>11. FifoState'
    BY <1>1, <2>4, <2>5 DEF IInv, FifoState
  <2>12. BehindToken'
    <3>1. \A v \in Tasks : v # u => (InFifo(v)' <=> InFifo(v))
      BY <2>5 DEF InFifo
    <3>2. \A v \in Tasks : v # u => (Queued(v)' <=> Queued(v))
      BY <1>1, <1>3, <3>1 DEF Queued
    <3>3. ~ InFifo(t)
      BY <2>7 DEF InFifo
    <3>4. \A v \in Tasks : v # u /\ AtToken(v)' => AtToken(v) /\ v # t
      BY <1>2, <2>4, <2>7, <2>8, <3>1, <3>3 DEF AtToken
    <3>5. ~ Queued(t)
      BY <1>1 DEF Queued
    <3>6. \A v \in Tasks : v # t => next[v] # u
      BY <1>1, <1>8, <2>1 DEF IInv, Chain
    <3>7. \A v \in Tasks : v # u /\ (Queued(v)' \/ AtToken(v)') => v # t /\ (Queued(v) \/ AtToken(v))
      BY <1>1, <2>4, <3>2, <3>4, <3>5
    <3> SUFFICES ASSUME NEW v \in Tasks, NEW w \in Tasks, next[v] = w,
                        Queued(v)' \/ AtToken(v)'
                 PROVE  Queued(w)'
      BY <1>1 DEF BehindToken, IInv, TypeOK
    <3>8. v # t /\ (Queued(v) \/ AtToken(v))
      BY <2>3, <2>4, <3>7
    <3>9. Queued(w) /\ w # u
      BY <3>6, <3>8, NullAssumption DEF IInv, BehindToken
    <3> QED BY <3>2, <3>9
  <2> QED BY <1>4, <1>5, <1>6, <2>6, <2>9, <2>10, <2>11, <2>12 DEF IInv
<1> QED BY <1>7, <1>8

LEMMA StepInv == IInv /\ [Next]_vars => IInv'
<1> SUFFICES ASSUME IInv, [Next]_vars PROVE IInv'
  OBVIOUS
<1>1. CASE \E t \in Tasks : Push(t) \/ Finalise(t)
  BY <1>1, PushInv, FinaliseInv
<1>2. CASE \E r \in Runners : Runner(r)
  BY <1>2, PullInv, ReadNextInv, SetLastInQueueInv, RunDoneInv, PushNextInv DEF Runner
<1>3. CASE UNCHANGED vars
  BY <1>3 DEF vars, IInv, TypeOK, OneToken, ErasedQueueIsIdle, RunnerState, LastState, Chain,
              BehindToken, FifoState, Carries, Active, InFifo, Parked, Queued, AtToken
<1> QED BY <1>1, <1>2, <1>3 DEF Next

LEMMA SpecInv == Spec => []IInv
<1> QED BY InitInv, StepInv, PTL DEF Spec

-----------------------------------------------------------------------------
(* Every variable of the pool keeps its type: no NULL task is pushed on    *)
(* the fifo by Finalise() or taskLoop().                                   *)
THEOREM TypeCorrect == Spec => []TypeOK
<1>1. IInv => TypeOK
  BY DEF IInv
<1> QED BY SpecInv, <1>1, PTL

(* Two runners inside Run() never work on tasks of the same queue.         *)
THEOREM QueuesAreSerial == Spec => []SerialPerQid
<1>1. IInv => SerialPerQid
  BY DEF IInv, OneToken, Carries, SerialPerQid
<1> QED BY SpecInv, <1>1, PTL

(* The tail pointers, the fifo and the runners never lead to a task that   *)
(* was released, whenever the manager finalises finished tasks.            *)
THEOREM PoolKeepsNoDeadTask == Spec => []NoDanglingTask
<1>1. IInv => NoDanglingTask
  <2> SUFFICES ASSUME IInv PROVE NoDanglingTask
    OBVIOUS
  <2>1. \A q \in Qids : queues[q] # NULL => state[queues[q]] # "DEAD"
    BY DEF IInv, Chain
  <2>2. \A i \in DOMAIN fifo : state[fifo[i]] = "RUNNING"
    BY DEF IInv, FifoState
  <2>3. ASSUME NEW r \in Runners, next_local[r] # NULL
        PROVE  state[next_local[r]] = "RUNNING"
    <3>1. pc[r] \in {"run", "push"} /\ task[r] \in Tasks /\ next[task[r]] = next_local[r]
      BY <2>3 DEF IInv, TypeOK, Locations, RunnerState
    <3>2. Carries(r)
      BY <2>3, <3>1 DEF Carries
    <3>3. AtToken(task[r])
      BY <3>2 DEF AtToken
    <3>4. Queued(next_local[r])
      BY <2>3, <3>1, <3>3 DEF IInv, BehindToken
    <3> QED BY <3>4 DEF Queued
  <2> QED BY <2>1, <2>2, <2>3 DEF IInv, RunnerState, NoDanglingTask
<1> QED BY SpecInv, <1>1, PTL

(* The D_ASSERTs of TaskThreadsQ::Finalise() hold whenever it runs.        *)
THEOREM FinaliseAssertsHold == Spec => []FinaliseAsserts
<1>1. IInv => FinaliseAsserts
  BY QidAssumption, NullAssumption DEF IInv, TypeOK, Chain, FinaliseAsserts
<1> QED BY SpecInv, <1>1, PTL

-----------------------------------------------------------------------------
(* The pool implements SerialQueues.  The history "order" keeps every task *)
(* ever pushed on a queue.  The chain of "next" pointers links neighbours  *)
(* of it, but for the places where the queue was erased, and the token of  *)
(* the queue is at the first task that has not returned from Run(), or at  *)
(* one before it.                                                          *)

Returned(t) == state[t] \in {"DONE", "DEAD"}

(* Every task that was pushed is in the order of its queue, once. *)
Pushes ==
    /\ \A q \in Qids : \A i \in DOMAIN order[q] :
          Qid[order[q][i]] = q /\ state[order[q][i]] # "READY"
    /\ \A q \in Qids : \A i, j \in DOMAIN order[q] : order[q][i] = order[q][j] => i = j
    /\ \A t \in Tasks : state[t] # "READY" => \E i \in DOMAIN order[Qid[t]] : order[Qid[t]][i] = t

Links ==
    /\ \A q \in Qids : \A i \in DOMAIN order[q] :
          next[order[q][i]] # NULL =>
              i + 1 \in DOMAIN order[q] /\ next[order[q][i]] = order[q][i + 1]
    /\ \A q \in Qids : \A i \in DOMAIN order[q] :
          i + 1 \in DOMAIN order[q] /\ next[order[q][i]] = NULL => state[order[q][i]] = "DEAD"

Before ==
    \A q \in Qids : \A i, j \in DOMAIN order[q] : \A t, u \in Tasks :
        /\ i < j /\ order[q][i] = t /\ order[q][j] = u
        /\ AtToken(u) \/ Returned(u)
        => Returned(t)

OrderInv == Pushes /\ Links /\ Before

LEMMA OrderType ==
    ASSUME TypeOK, NEW q \in Qids
    PROVE  /\ order[q] \in Seq(Tasks) /\ Len(order[q]) \in Nat
           /\ DOMAIN order[q] = 1 .. Len(order[q])
           /\ \A i \in DOMAIN order[q] : order[q][i] \in Tasks
  BY DEF TypeOK

(* A tail pointer leads to the last task of the order. *)
LEMMA TailIsLast ==
    ASSUME IInv, OrderInv, NEW q \in Qids, queues[q] # NULL
    PROVE  Len(order[q]) \in DOMAIN order[q] /\ order[q][Len(order[q])] = queues[q]
<1> DEFINE last == queues[q]
<1>1. last \in Tasks /\ Qid[last] = q /\ next[last] = NULL /\ state[last] \in {"RUNNING", "DONE"}
  BY DEF IInv, TypeOK, Chain
<1>2. PICK i \in DOMAIN order[q] : order[q][i] = last
  BY <1>1 DEF OrderInv, Pushes
<1>3. i + 1 \notin DOMAIN order[q]
  BY <1>1, <1>2 DEF OrderInv, Links
<1>4. i = Len(order[q])
  BY <1>2, <1>3, OrderType DEF IInv
<1> QED BY <1>2, <1>4

(* All tasks of an erased queue have been deleted. *)
LEMMA ErasedQueueIsDone ==
    ASSUME IInv, OrderInv, NEW q \in Qids, queues[q] = NULL
    PROVE  /\ \A i \in DOMAIN order[q] : Returned(order[q][i])
           /\ Len(order[q]) \in DOMAIN order[q] =>
                 state[order[q][Len(order[q])]] = "DEAD" /\ next[order[q][Len(order[q])]] = NULL
<1> DEFINE n == Len(order[q])
<1>1. n \in Nat /\ DOMAIN order[q] = 1 .. n /\ \A i \in DOMAIN order[q] : order[q][i] \in Tasks
  BY OrderType DEF IInv
<1>2. CASE n = 0
  BY <1>1, <1>2
<1>3. CASE n # 0
  <2> DEFINE w == order[q][n]
  <2>1. n \in DOMAIN order[q] /\ n + 1 \notin DOMAIN order[q] /\ w \in Tasks
    BY <1>1, <1>3
  <2>2. Qid[w] = q /\ state[w] # "READY" /\ next[w] = NULL
    BY <2>1 DEF OrderInv, Pushes, Links
  <2>3. state[w] = "DEAD"
    <3>1. state[w] \in {"RUNNING", "DONE"} => queues[Qid[w]] = w
      BY <2>1, <2>2 DEF IInv, Chain
    <3>2. w # NULL
      BY <2>1, NullAssumption
    <3>3. state[w] \in States
      BY <2>1 DEF IInv, TypeOK
    <3> QED BY <2>2, <3>1, <3>2, <3>3 DEF States
  <2>4. \A i \in DOMAIN order[q] : i < n => Returned(order[q][i])
    BY <1>1, <2>1, <2>3 DEF OrderInv, Before, Returned
  <2>5. \A i \in DOMAIN order[q] : i = n \/ i < n
    BY <1>1
  <2> QED BY <2>2, <2>3, <2>4, <2>5 DEF Returned
<1> QED BY <1>2, <1>3

LEMMA InitOrder == Init => OrderInv
  BY DEF Init, OrderInv, Pushes, Links, Before

LEMMA PushOrder ==
    ASSUME IInv, OrderInv, NEW t \in Tasks, Push(t)
    PROVE  OrderInv'
<1> DEFINE q == Qid[t]
           last == queues[q]
           n == Len(order[q])
<1>1. /\ q \in Qids /\ state[t] = "READY" /\ next[t] = NULL
      /\ state' = [state EXCEPT ![t] = "RUNNING"]
      /\ order' = [order EXCEPT ![q] = Append(order[q], t)]
      /\ UNCHANGED <<last_in_queue, pc, task, next_local>>
  BY QidAssumption DEF Push, IInv, Chain
<1>2. /\ n \in Nat /\ DOMAIN order[q] = 1 .. n /\ n + 1 \notin DOMAIN order[q]
      /\ order[q] \in Seq(Tasks)
  BY <1>1, OrderType DEF IInv
<1>3. /\ DOMAIN order'[q] = 1 .. n + 1 /\ order'[q][n + 1] = t
      /\ \A i \in 1 .. n : order'[q][i] = order[q][i]
      /\ \A p \in Qids : p # q => order'[p] = order[p]
  BY <1>1, <1>2 DEF IInv, TypeOK
<1>4. \A p \in Qids : \A i \in DOMAIN order[p] : order[p][i] \in Tasks /\ order[p][i] # t
  BY <1>1, OrderType DEF IInv, OrderInv, Pushes
<1>5. state'[t] = "RUNNING" /\ \A u \in Tasks : u # t => state'[u] = state[u]
  BY <1>1 DEF IInv, TypeOK
<1>6. ASSUME NEW p \in Qids, NEW i \in DOMAIN order'[p]
      PROVE  \/ p = q /\ i = n + 1 /\ order'[p][i] = t
             \/ i \in DOMAIN order[p] /\ order'[p][i] = order[p][i] /\ order[p][i] # t
  <2>1. CASE p = q
    BY <1>2, <1>3, <1>4, <1>6, <2>1
  <2>2. CASE p # q
    BY <1>3, <1>4, <1>6, <2>2
  <2> QED BY <2>1, <2>2
<1>7. \A p \in Qids : \A i \in DOMAIN order[p] :
          i \in DOMAIN order'[p] /\ order'[p][i] = order[p][i]
  <2> SUFFICES ASSUME NEW p \in Qids, NEW i \in DOMAIN order[p]
               PROVE  i \in DOMAIN order'[p] /\ order'[p][i] = order[p][i]
    OBVIOUS
  <2>1. CASE p = q
    BY <1>2, <1>3, <2>1
  <2>2. CASE p # q
    BY <1>3, <2>2
  <2> QED BY <2>1, <2>2
<1>8. Pushes'
  <2>1. \A p \in Qids : \A i \in DOMAIN order'[p] :
            Qid[order'[p][i]] = p /\ state'[order'[p][i]] # "READY"
    BY <1>4, <1>5, <1>6 DEF OrderInv, Pushes
  <2>2. \A p \in Qids : \A i, j \in DOMAIN order'[p] : order'[p][i] = order'[p][j] => i = j
    BY <1>6 DEF OrderInv, Pushes
  <2>3. ASSUME NEW u \in Tasks, state'[u] # "READY"
        PROVE  \E i \in DOMAIN order'[Qid[u]] : order'[Qid[u]][i] = u
    <3>1. CASE u = t
      BY <1>2, <1>3, <3>1
    <3>2. CASE u # t
      <4>1. Qid[u] \in Qids /\ state[u] # "READY"
        BY <1>5, <2>3, <3>2, QidAssumption
      <4> QED BY <1>7, <4>1 DEF OrderInv, Pushes
    <3> QED BY <3>1, <3>2
  <2> QED BY <2>1, <2>2, <2>3 DEF Pushes
<1>9. CASE last # NULL
  <2>1. /\ last \in Tasks /\ last # t /\ next' = [next EXCEPT ![last] = t] /\ fifo' = fifo
    BY <1>1, <1>9 DEF Push, IInv, TypeOK, Chain
  <2>2. n \in DOMAIN order[q] /\ order[q][n] = last
    BY <1>1, <1>9, TailIsLast
  <2>3. next'[last] = t /\ next'[t] = NULL /\ \A u \in Tasks : u # last => next'[u] = next[u]
    BY <1>1, <2>1 DEF IInv, TypeOK
  <2>4. Links'
    <3> SUFFICES ASSUME NEW p \in Qids, NEW i \in DOMAIN order'[p]
                 PROVE  /\ next'[order'[p][i]] # NULL =>
                              i + 1 \in DOMAIN order'[p] /\ next'[order'[p][i]] = order'[p][i + 1]
                        /\ i + 1 \in DOMAIN order'[p] /\ next'[order'[p][i]] = NULL =>
                              state'[order'[p][i]] = "DEAD"
      BY DEF Links
    <3>1. CASE order'[p][i] = t
      <4>1. p = q /\ i = n + 1
        BY <1>6, <3>1
      <4> QED BY <1>2, <1>3, <2>3, <3>1, <4>1
    <3>2. CASE order'[p][i] = last
      <4>1. Qid[last] = q /\ Qid[order'[p][i]] = p
        BY <1>8, <2>2, <1>1 DEF Pushes, OrderInv
      <4>2. i = n
        BY <1>3, <1>6, <2>1, <2>2, <3>2, <4>1 DEF OrderInv, Pushes
      <4> QED BY <1>2, <1>3, <2>1, <2>2, <2>3, <3>2, <4>1, <4>2, NullAssumption
    <3>3. CASE order'[p][i] # t /\ order'[p][i] # last
      <4>1. i \in DOMAIN order[p] /\ order'[p][i] = order[p][i] /\ order[p][i] \in Tasks
        BY <1>4, <1>6, <3>3
      <4>2. next'[order[p][i]] = next[order[p][i]] /\ state'[order[p][i]] = state[order[p][i]]
        BY <1>5, <2>3, <3>3, <4>1
      <4>3. i + 1 \in DOMAIN order'[p] => i + 1 \in DOMAIN order[p]
        <5>1. CASE p = q
          <6>1. i # n
            BY <2>2, <3>3, <4>1, <5>1
          <6> QED BY <1>2, <1>3, <4>1, <5>1, <6>1
        <5>2. CASE p # q
          BY <1>3, <5>2
        <5> QED BY <5>1, <5>2
      <4> QED BY <1>7, <4>1, <4>2, <4>3 DEF OrderInv, Links
    <3> QED BY <3>1, <3>2, <3>3
  <2>5. Before'
    <3>1. \A u \in Tasks : u # t => AtToken(u)' = AtToken(u) /\ Returned(u)' = Returned(u)
      BY <1>1, <1>5, <2>1 DEF AtToken, InFifo, Carries, Parked, Returned
    <3>2. ~ AtToken(t)' /\ ~ Returned(t)'
      <4>1. t \notin last_in_queue /\ \A i \in DOMAIN fifo : fifo[i] # t
        BY <1>1 DEF IInv, LastState, FifoState
      <4>2. \A r \in Runners : Carries(r) => task[r] # t
        BY <1>1 DEF IInv, RunnerState, Carries
      <4> QED BY <1>1, <1>5, <2>1, <4>1, <4>2 DEF AtToken, InFifo, Carries, Parked, Returned
    <3> SUFFICES ASSUME NEW p \in Qids, NEW i \in DOMAIN order'[p], NEW j \in DOMAIN order'[p],
                        NEW v \in Tasks, NEW u \in Tasks,
                        i < j, order'[p][i] = v, order'[p][j] = u, AtToken(u)' \/ Returned(u)'
                 PROVE  Returned(v)'
      BY DEF Before
    <3>3. u # t /\ j \in DOMAIN order[p] /\ order[p][j] = u
      BY <1>4, <1>6, <3>2
    <3>4. v # t /\ i \in DOMAIN order[p] /\ order[p][i] = v
      <4>1. i # n + 1 \/ p # q
        BY <1>2, <1>3
      <4> QED BY <1>4, <1>6, <4>1
    <3> QED BY <3>1, <3>3, <3>4 DEF Before, OrderInv
  <2> QED BY <1>8, <2>4, <2>5 DEF OrderInv
<1>10. CASE last = NULL
  <2>1. next' = next
    BY <1>10 DEF Push
  <2>2. \A i \in DOMAIN order[q] : Returned(order[q][i])
    BY <1>1, <1>10, ErasedQueueIsDone
  <2>3. Links'
    <3> SUFFICES ASSUME NEW p \in Qids, NEW i \in DOMAIN order'[p]
                 PROVE  /\ next'[order'[p][i]] # NULL =>
                              i + 1 \in DOMAIN order'[p] /\ next'[order'[p][i]] = order'[p][i + 1]
                        /\ i + 1 \in DOMAIN order'[p] /\ next'[order'[p][i]] = NULL =>
                              state'[order'[p][i]] = "DEAD"
      BY DEF Links
    <3>1. CASE order'[p][i] = t
      <4>1. p = q /\ i = n + 1
        BY <1>6, <3>1
      <4> QED BY <1>1, <1>2, <1>3, <2>1, <3>1, <4>1
    <3>2. CASE order'[p][i] # t
      <4>1. i \in DOMAIN order[p] /\ order'[p][i] = order[p][i] /\ order[p][i] \in Tasks
        BY <1>4, <1>6, <3>2
      <4>2. state'[order[p][i]] = state[order[p][i]]
        BY <1>5, <3>2, <4>1
      <4>3. CASE p = q /\ i = n
        BY <1>1, <1>10, <2>1, <4>1, <4>2, <4>3, ErasedQueueIsDone
      <4>4. CASE ~(p = q /\ i = n)
        <5>1. i + 1 \in DOMAIN order'[p] => i + 1 \in DOMAIN order[p]
          BY <1>2, <1>3, <4>1, <4>4
        <5> QED BY <1>7, <2>1, <4>1, <4>2, <5>1 DEF OrderInv, Links
      <4> QED BY <4>3, <4>4
    <3> QED BY <3>1, <3>2
  <2>4. Before'
    <3>1. fifo' = Append(fifo, t)
      BY <1>10 DEF Push
    <3>2. \A u \in Tasks : u # t => InFifo(u)' = InFifo(u)
      BY <3>1, AppendFacts DEF InFifo, IInv, TypeOK
    <3>3. \A u \in Tasks : u # t => AtToken(u)' = AtToken(u) /\ Returned(u)' = Returned(u)
      BY <1>1, <1>5, <3>2 DEF AtToken, Carries, Parked, Returned
    <3> SUFFICES ASSUME NEW p \in Qids, NEW i \in DOMAIN order'[p], NEW j \in DOMAIN order'[p],
                        NEW v \in Tasks, NEW u \in Tasks,
                        i < j, order'[p][i] = v, order'[p][j] = u, AtToken(u)' \/ Returned(u)'
                 PROVE  Returned(v)'
      BY DEF Before
    <3>4. i \in DOMAIN order[p] /\ order[p][i] = v /\ v # t
      <4>1. i # n + 1 \/ p # q
        BY <1>2, <1>3
      <4> QED BY <1>4, <1>6, <4>1
    <3>5. CASE u = t
      <4>1. p = q
        BY <1>6, <1>4, <3>5
      <4> QED BY <2>2, <3>3, <3>4, <4>1
    <3>6. CASE u # t
      <4>1. j \in DOMAIN order[p] /\ order[p][j] = u
        BY <1>4, <1>6, <3>6
      <4> QED BY <3>3, <3>4, <3>6, <4>1 DEF Before, OrderInv
    <3> QED BY <3>5, <3>6
  <2> QED BY <1>8, <2>3, <2>4 DEF OrderInv
<1> QED BY <1>9, <1>10

(* A successor that the token passes on to is the next task of the order,  *)
(* and when the task before it has returned, so have all before that.      *)
LEMMA SuccessorOrder ==
    ASSUME IInv, OrderInv, NEW t \in Tasks, AtToken(t), Returned(t), next[t] # NULL,
           NEW q \in Qids, NEW i \in DOMAIN order[q], NEW j \in DOMAIN order[q],
           i < j, order[q][j] = next[t], NEW v \in Tasks, order[q][i] = v
    PROVE  Returned(v)
<1>1. next[t] \in Tasks /\ Qid[next[t]] = Qid[t] /\ Qid[t] \in Qids
  BY QidAssumption DEF IInv, TypeOK, Chain
<1>2. q = Qid[t]
  BY <1>1 DEF OrderInv, Pushes
<1>3. PICK k \in DOMAIN order[q] : order[q][k] = t
  BY <1>2 DEF OrderInv, Pushes, Returned
<1>4. k + 1 \in DOMAIN order[q] /\ order[q][k + 1] = next[t]
  BY <1>3 DEF OrderInv, Links
<1>5. j = k + 1
  BY <1>4 DEF OrderInv, Pushes
<1>6. i = k \/ i < k
  BY <1>3, <1>5, OrderType DEF IInv
<1>7. CASE i = k
  BY <1>3, <1>7
<1>8. CASE i < k
  BY <1>3, <1>8 DEF OrderInv, Before
<1> QED BY <1>6, <1>7, <1>8

(* A step that changes no order and no link keeps OrderInv when it makes   *)
(* tokens and returned tasks only behind returned tasks.                   *)
LEMMA SameOrder ==
    ASSUME TypeOK, OrderInv, UNCHANGED <<order, next>>,
           \A t \in Tasks : (state'[t] = "READY" <=> state[t] = "READY")
                            /\ (Returned(t) => Returned(t)')
                            /\ (state[t] = "DEAD" => state'[t] = "DEAD"),
           \A q \in Qids : \A i, j \in DOMAIN order[q] : \A t, u \in Tasks :
               /\ i < j /\ order[q][i] = t /\ order[q][j] = u
               /\ AtToken(u)' \/ Returned(u)'
               => AtToken(u) \/ Returned(u) \/ Returned(t)
    PROVE  OrderInv'
<1>1. \A q \in Qids : \A i \in DOMAIN order[q] : order[q][i] \in Tasks
  BY OrderType
<1>2. Pushes'
  BY <1>1 DEF OrderInv, Pushes
<1>3. Links'
  BY <1>1 DEF OrderInv, Links
<1>4. Before'
  BY DEF OrderInv, Before
<1> QED BY <1>2, <1>3, <1>4 DEF OrderInv

LEMMA FinaliseOrder ==
    ASSUME IInv, OrderInv, NEW t \in Tasks, Finalise(t)
    PROVE  OrderInv'
<1>1. /\ state[t] = "DONE" /\ state' = [state EXCEPT ![t] = "DEAD"]
      /\ UNCHANGED <<next, last_in_queue, pc, task, next_local, order>>
  BY DEF Finalise
<1>2. state'[t] = "DEAD" /\ \A u \in Tasks : u # t => state'[u] = state[u]
  BY <1>1 DEF IInv, TypeOK
<1>3. \A u \in Tasks : Returned(u)' <=> Returned(u)
  BY <1>1, <1>2 DEF Returned
<1>4. \A u \in Tasks : AtToken(u)' => AtToken(u) \/ (u = next[t] /\ t \in last_in_queue)
  <2>1. \A u \in Tasks : Parked(u)' => Parked(u)
    BY <1>1, <1>2 DEF Parked
  <2>2. \A u \in Tasks : InFifo(u)' => InFifo(u) \/ (u = next[t] /\ t \in last_in_queue)
    <3>1. CASE t \in last_in_queue /\ next[t] # NULL
      <4>1. fifo' = Append(fifo, next[t]) /\ next[t] \in Tasks /\ fifo \in Seq(Tasks)
        BY <3>1 DEF Finalise, IInv, TypeOK
      <4> QED BY <3>1, <4>1, AppendFacts DEF InFifo
    <3>2. CASE ~(t \in last_in_queue /\ next[t] # NULL)
      BY <3>2 DEF Finalise, InFifo
    <3> QED BY <3>1, <3>2
  <2> QED BY <1>1, <2>1, <2>2 DEF AtToken, Carries
<1>5. t \in last_in_queue => AtToken(t) /\ Returned(t)
  BY <1>1 DEF AtToken, Parked, Returned
<1>6. \A q \in Qids : \A i, j \in DOMAIN order[q] : \A v, u \in Tasks :
               /\ i < j /\ order[q][i] = v /\ order[q][j] = u
               /\ AtToken(u)' \/ Returned(u)'
               => AtToken(u) \/ Returned(u) \/ Returned(v)
  BY <1>3, <1>4, <1>5, SuccessorOrder, NullAssumption
<1> QED BY <1>1, <1>2, <1>3, <1>6, SameOrder DEF IInv

LEMMA RunnerOrder ==
    ASSUME IInv, OrderInv, NEW r \in Runners, Runner(r)
    PROVE  OrderInv'
<1>1. CASE Pull(r)
  <2>1. /\ pc[r] = "pull" /\ fifo # << >> /\ fifo \in Seq(Tasks)
        /\ task' = [task EXCEPT ![r] = Head(fifo)] /\ fifo' = Tail(fifo)
        /\ pc' = [pc EXCEPT ![r] = "next"]
        /\ UNCHANGED <<state, next, last_in_queue, next_local, order>>
    BY <1>1 DEF Pull, IInv, TypeOK
  <2>2. InFifo(Head(fifo)) /\ \A u \in Tasks : InFifo(u)' => InFifo(u)
    BY <2>1, TailFacts DEF InFifo
  <2>3. /\ task'[r] = Head(fifo)
        /\ \A s \in Runners : s # r => task'[s] = task[s] /\ pc'[s] = pc[s]
    BY <2>1 DEF IInv, TypeOK
  <2>4. \A u \in Tasks : AtToken(u)' => AtToken(u)
    BY <2>1, <2>2, <2>3 DEF AtToken, Carries, Parked
  <2> QED BY <2>1, <2>4, SameOrder DEF IInv, Returned
<1>2. CASE ReadNext(r) \/ SetLastInQueue(r)
  <2>1. /\ pc[r] \in {"next", "flag"} /\ UNCHANGED <<state, next, fifo, task, order>>
        /\ \A s \in Runners : s # r => pc'[s] = pc[s] /\ next_local'[s] = next_local[s]
        /\ last_in_queue' \in {last_in_queue, last_in_queue \cup {task[r]}}
    BY <1>2 DEF ReadNext, SetLastInQueue, IInv, TypeOK
  <2>2. Carries(r) /\ state[task[r]] = "RUNNING"
    BY <2>1 DEF Carries, IInv, RunnerState
  <2>3. \A u \in Tasks : AtToken(u)' => AtToken(u)
    BY <2>1, <2>2 DEF AtToken, InFifo, Carries, Parked
  <2> QED BY <2>1, <2>3, SameOrder DEF IInv, Returned
<1>3. CASE RunDone(r)
  <2> PICK t \in Tasks : t = task[r]
    BY <1>3 DEF RunDone, IInv, RunnerState
  <2>1. /\ pc[r] = "run" /\ state' = [state EXCEPT ![t] = "DONE"]
        /\ pc' = [pc EXCEPT ![r] = "push"]
        /\ UNCHANGED <<next, last_in_queue, fifo, task, next_local, order>>
    BY <1>3 DEF RunDone
  <2>2. Carries(r) /\ AtToken(t) /\ state[t] = "RUNNING"
    BY <2>1 DEF Carries, AtToken, IInv, RunnerState
  <2>3. state'[t] = "DONE" /\ \A u \in Tasks : u # t => state'[u] = state[u]
    BY <2>1 DEF IInv, TypeOK
  <2>4. \A u \in Tasks : AtToken(u)' \/ Returned(u)' => AtToken(u) \/ Returned(u)
    <3>1. \A s \in Runners : s # r => pc'[s] = pc[s]
      BY <2>1 DEF IInv, TypeOK
    <3> QED BY <2>1, <2>2, <2>3, <3>1 DEF AtToken, InFifo, Carries, Parked, Returned
  <2>5. \A u \in Tasks : /\ state'[u] = "READY" <=> state[u] = "READY"
                         /\ Returned(u) => Returned(u)'
                         /\ state[u] = "DEAD" => state'[u] = "DEAD"
    BY <2>2, <2>3 DEF Returned
  <2> QED BY <2>1, <2>4, <2>5, SameOrder DEF IInv
<1>4. CASE PushNext(r)
  <2> PICK t \in Tasks : t = task[r]
    BY <1>4 DEF PushNext, IInv, RunnerState
  <2>1. /\ pc[r] = "push" /\ pc'[r] = "pull"
        /\ \A s \in Runners : s # r => /\ pc'[s] = pc[s] /\ task'[s] = task[s]
                                       /\ next_local'[s] = next_local[s]
        /\ fifo' = IF next_local[r] # NULL THEN Append(fifo, next_local[r]) ELSE fifo
        /\ UNCHANGED <<state, next, last_in_queue, order>>
    BY <1>4 DEF PushNext, IInv, TypeOK
  <2>2. next_local[r] # NULL => AtToken(t) /\ Returned(t) /\ next[t] = next_local[r]
    BY <2>1 DEF AtToken, Carries, Returned, IInv, RunnerState
  <2>3. \A u \in Tasks : InFifo(u)' => InFifo(u) \/ (u = next_local[r])
    <3>1. CASE next_local[r] # NULL
      <4>1. fifo \in Seq(Tasks) /\ next_local[r] \in Tasks
        BY <3>1 DEF IInv, TypeOK
      <4> QED BY <2>1, <3>1, <4>1, AppendFacts DEF InFifo
    <3>2. CASE next_local[r] = NULL
      BY <2>1, <3>2 DEF InFifo
    <3> QED BY <3>1, <3>2
  <2>4. \A u \in Tasks : AtToken(u)' => AtToken(u) \/ (u = next_local[r])
    BY <2>1, <2>3 DEF AtToken, Carries, Parked
  <2>5. \A q \in Qids : \A i, j \in DOMAIN order[q] : \A v, u \in Tasks :
               /\ i < j /\ order[q][i] = v /\ order[q][j] = u
               /\ AtToken(u)' \/ Returned(u)'
               => AtToken(u) \/ Returned(u) \/ Returned(v)
    BY <2>1, <2>2, <2>4, SuccessorOrder, NullAssumption DEF Returned
  <2> QED BY <2>1, <2>5, SameOrder DEF IInv, Returned
<1> QED BY <1>1, <1>2, <1>3, <1>4 DEF Runner

LEMMA StepOrder == IInv /\ OrderInv /\ [Next]_vars => OrderInv'
<1> SUFFICES ASSUME IInv, OrderInv, [Next]_vars PROVE OrderInv'
  OBVIOUS
<1>1. CASE \E t \in Tasks : Push(t) \/ Finalise(t)
  BY <1>1, PushOrder, FinaliseOrder
<1>2. CASE \E r \in Runners : Runner(r)
  BY <1>2, RunnerOrder
<1>3. CASE UNCHANGED vars
  <2>1. UNCHANGED <<state, last_in_queue, fifo, pc, task, next_local, next, order>>
    BY <1>3 DEF vars
  <2>2. \A u \in Tasks : AtToken(u)' => AtToken(u)
    BY <2>1 DEF AtToken, InFifo, Carries, Parked
  <2> QED BY <2>1, <2>2, SameOrder DEF IInv, Returned
<1> QED BY <1>1, <1>2, <1>3 DEF Next

-----------------------------------------------------------------------------
(* The refinement mapping *)

Started == Completed \cup InRun

(* The position of the last element of s that is in S *)
Divides(n, s, S) ==
    /\ n \in 0 .. Len(s)
    /\ n > 0 => s[n] \in S
    /\ \A i \in n + 1 .. Len(s) : s[i] \notin S

Divided == \A q \in Qids : \E n \in 0 .. Len(order[q]) : Divides(n, order[q], Started)

LEMMA BehindIs ==
    ASSUME NEW T, NEW s \in Seq(T), NEW S, NEW n, Divides(n, s, S)
    PROVE  Behind(s, S) = SubSeq(s, n + 1, Len(s))
<1> DEFINE Last(m) == /\ m > 0 => s[m] \in S
                      /\ \A i \in m + 1 .. Len(s) : s[i] \notin S
<1>1. Len(s) \in Nat /\ n \in 0 .. Len(s) /\ Last(n)
  BY DEF Divides
<1>2. \A m \in 0 .. Len(s) : Last(m) => m = n
  BY <1>1
<1>3. (CHOOSE m \in 0 .. Len(s) : Last(m)) = n
  <2> HIDE DEF Last
  <2> QED BY <1>1, <1>2
<1> QED BY <1>3 DEF Behind

LEMMA BehindAppend ==
    ASSUME NEW T, NEW s \in Seq(T), NEW x \in T, NEW S, x \notin S,
           NEW n, Divides(n, s, S)
    PROVE  /\ Divides(n, Append(s, x), S)
           /\ Behind(Append(s, x), S) = Append(Behind(s, S), x)
<1> DEFINE a == Append(s, x)
           l == Len(s)
<1>1. /\ l \in Nat /\ n \in 0 .. l /\ a \in Seq(T) /\ Len(a) = l + 1
      /\ a[l + 1] = x /\ \A i \in 1 .. l : a[i] = s[i] /\ s[i] \in T
  BY AppendProperties DEF Divides
<1>2. Divides(n, a, S)
  BY <1>1 DEF Divides
<1> HIDE DEF a
<1>3. Behind(s, S) = SubSeq(s, n + 1, l) /\ Behind(a, S) = SubSeq(a, n + 1, l + 1)
  BY <1>1, <1>2, BehindIs
<1>4. /\ SubSeq(s, n + 1, l) \in Seq(T) /\ Len(SubSeq(s, n + 1, l)) = l - n
      /\ \A i \in 1 .. l - n : SubSeq(s, n + 1, l)[i] = s[n + i]
  <2>1. \A i \in n + 1 .. l : s[i] \in T
    BY <1>1
  <2> QED BY <1>1, <2>1, SubSeqProperties
<1>5. /\ SubSeq(a, n + 1, l + 1) \in Seq(T) /\ Len(SubSeq(a, n + 1, l + 1)) = l + 1 - n
      /\ \A i \in 1 .. l + 1 - n : SubSeq(a, n + 1, l + 1)[i] = a[n + i]
  <2>1. \A i \in n + 1 .. l + 1 : a[i] \in T
    BY <1>1
  <2> QED BY <1>1, <2>1, SubSeqProperties
<1> DEFINE b == SubSeq(s, n + 1, l)
           c == SubSeq(a, n + 1, l + 1)
<1> HIDE DEF b, c
<1>6. /\ Append(b, x) \in Seq(T) /\ Len(Append(b, x)) = l + 1 - n
      /\ \A i \in 1 .. l - n : Append(b, x)[i] = s[n + i]
      /\ Append(b, x)[l - n + 1] = x
  BY <1>1, <1>4, AppendProperties DEF b
<1>7. \A i \in 1 .. l + 1 - n : Append(b, x)[i] = a[n + i]
  <2> SUFFICES ASSUME NEW i \in 1 .. l + 1 - n PROVE Append(b, x)[i] = a[n + i]
    OBVIOUS
  <2>1. CASE i = l - n + 1
    BY <1>1, <1>6, <2>1
  <2>2. CASE i # l - n + 1
    <3>1. i \in 1 .. l - n /\ n + i \in 1 .. l
      BY <1>1, <2>2
    <3> QED BY <1>1, <1>6, <3>1
  <2> QED BY <2>1, <2>2
<1>8. c = Append(b, x)
  BY <1>5, <1>6, <1>7, SeqEqual DEF c
<1> QED BY <1>2, <1>3, <1>8 DEF a, b, c

(* What is behind position n begins with the element at n + 1. *)
LEMMA BehindHead ==
    ASSUME NEW T, NEW s \in Seq(T), NEW S, NEW R, NEW n,
           Divides(n, s, S), Divides(n + 1, s, R)
    PROVE  /\ Behind(s, S) # << >> /\ Head(Behind(s, S)) = s[n + 1]
           /\ Behind(s, R) = Tail(Behind(s, S))
<1> DEFINE l == Len(s)
           b == SubSeq(s, n + 1, l)
           c == SubSeq(s, n + 2, l)
<1>1. l \in Nat /\ n \in 0 .. l - 1 /\ \A i \in 1 .. l : s[i] \in T
  BY DEF Divides
<1>2. Behind(s, S) = b /\ Behind(s, R) = c
  <2>1. Behind(s, R) = SubSeq(s, (n + 1) + 1, l)
    BY BehindIs
  <2>2. (n + 1) + 1 = n + 2
    BY <1>1
  <2> QED BY <2>1, <2>2, BehindIs
<1>3. b \in Seq(T) /\ Len(b) = l - n /\ \A i \in 1 .. l - n : b[i] = s[n + i]
  <2>1. \A i \in n + 1 .. l : s[i] \in T
    BY <1>1
  <2> QED BY <1>1, <2>1, SubSeqProperties
<1>4. c \in Seq(T) /\ Len(c) = l - n - 1 /\ \A i \in 1 .. l - n - 1 : c[i] = s[n + 1 + i]
  <2>1. \A i \in n + 2 .. l : s[i] \in T
    BY <1>1
  <2> QED BY <1>1, <2>1, SubSeqProperties
<1> HIDE DEF b, c
<1>5. b # << >> /\ Head(b) = s[n + 1]
  BY <1>1, <1>3
<1>6. /\ Tail(b) \in Seq(T) /\ Len(Tail(b)) = l - n - 1
      /\ \A i \in 1 .. l - n - 1 : Tail(b)[i] = s[n + 1 + i]
  BY <1>1, <1>3, <1>5, HeadTailProperties
<1>7. c = Tail(b)
  BY <1>4, <1>6, SeqEqual
<1> QED BY <1>2, <1>5, <1>7

(* Who starts is the first of its queue that has not: all before it have   *)
(* returned, none behind it has, and nobody is in Run() for the queue.     *)
LEMMA StartDivides ==
    ASSUME IInv, OrderInv, NEW r \in Runners, pc[r] \in {"next", "flag"},
           NEW q \in Qids, q = Qid[task[r]]
    PROVE  \E n \in 0 .. Len(order[q]) - 1 :
              /\ order[q][n + 1] = task[r]
              /\ Divides(n, order[q], Started)
              /\ Divides(n + 1, order[q], Started \cup {task[r]})
<1> PICK t \in Tasks : t = task[r]
  BY DEF IInv, RunnerState
<1>1. state[t] = "RUNNING" /\ Carries(r) /\ AtToken(t) /\ ~ Returned(t)
  BY DEF IInv, RunnerState, Carries, AtToken, Returned
<1>2. PICK j \in DOMAIN order[q] : order[q][j] = t
  BY <1>1 DEF OrderInv, Pushes
<1>3. /\ Len(order[q]) \in Nat /\ j \in 1 .. Len(order[q]) /\ DOMAIN order[q] = 1 .. Len(order[q])
      /\ \A i \in 1 .. Len(order[q]) : order[q][i] \in Tasks
  BY <1>2, OrderType DEF IInv
<1>4. \A i \in 1 .. j - 1 : order[q][i] \in Started
  <2> SUFFICES ASSUME NEW i \in 1 .. j - 1 PROVE order[q][i] \in Started
    OBVIOUS
  <2>1. i \in DOMAIN order[q] /\ i < j /\ order[q][i] \in Tasks
    BY <1>3
  <2>2. Returned(order[q][i])
    BY <1>1, <1>2, <2>1 DEF OrderInv, Before
  <2> QED BY <2>1, <2>2 DEF Returned, Started, Completed
<1>5. \A i \in j + 1 .. Len(order[q]) : order[q][i] \notin Completed
  BY <1>1, <1>2, <1>3 DEF OrderInv, Before, Returned, Completed
<1>6. \A i \in 1 .. Len(order[q]) : order[q][i] \notin InRun
  <2> SUFFICES ASSUME NEW s \in Runners, pc[s] = "run", Qid[task[s]] = q PROVE FALSE
    BY <1>3 DEF InRun, OrderInv, Pushes
  <2>1. Carries(s)
    BY DEF Carries
  <2> QED BY <1>1, <2>1 DEF IInv, OneToken
<1>7. t \notin Completed
  BY <1>1 DEF Completed
<1>8. \A i \in j + 1 .. Len(order[q]) : order[q][i] # t
  BY <1>2, <1>3 DEF OrderInv, Pushes
<1> DEFINE n == j - 1
<1>9. n \in 0 .. Len(order[q]) - 1 /\ n + 1 = j
  BY <1>3
<1>10. Divides(n, order[q], Started)
  BY <1>2, <1>3, <1>4, <1>5, <1>6, <1>7 DEF Divides, Started
<1>11. Divides(n + 1, order[q], Started \cup {t})
  BY <1>2, <1>3, <1>5, <1>6, <1>8, <1>9 DEF Divides, Started
<1> QED BY <1>2, <1>9, <1>10, <1>11

(* The map of the waiting tasks when the tasks that have started change.   *)
LEMMA OthersDivided ==
    ASSUME IInv, OrderInv, NEW t \in Tasks, NEW q \in Qids, q # Qid[t]
    PROVE  /\ Behind(order[q], Started \cup {t}) = Behind(order[q], Started)
           /\ \A n : Divides(n, order[q], Started) => Divides(n, order[q], Started \cup {t})
<1>1. \A i \in 1 .. Len(order[q]) : order[q][i] # t
  BY OrderType DEF IInv, OrderInv, Pushes
<1>2. Len(order[q]) \in Nat
  BY OrderType DEF IInv
<1>3. \A n : Divides(n, order[q], Started) <=> Divides(n, order[q], Started \cup {t})
  BY <1>1, <1>2 DEF Divides
<1>4. \A n \in 0 .. Len(order[q]) :
          (/\ n > 0 => order[q][n] \in Started \cup {t}
           /\ \A i \in n + 1 .. Len(order[q]) : order[q][i] \notin Started \cup {t})
          <=> (/\ n > 0 => order[q][n] \in Started
               /\ \A i \in n + 1 .. Len(order[q]) : order[q][i] \notin Started)
  BY <1>3 DEF Divides
<1>5. (CHOOSE n \in 0 .. Len(order[q]) :
          /\ n > 0 => order[q][n] \in Started \cup {t}
          /\ \A i \in n + 1 .. Len(order[q]) : order[q][i] \notin Started \cup {t})
      = (CHOOSE n \in 0 .. Len(order[q]) :
          /\ n > 0 => order[q][n] \in Started
          /\ \A i \in n + 1 .. Len(order[q]) : order[q][i] \notin Started)
  BY <1>4
<1> QED BY <1>3, <1>5 DEF Behind

-----------------------------------------------------------------------------
(* The step simulation *)

LEMMA InitSimulation == Init => Serial!Init /\ Divided
<1> SUFFICES ASSUME Init PROVE Serial!Init /\ Divided
  OBVIOUS
<1>1. InRun = {} /\ Completed = {} /\ \A q \in Qids : order[q] = << >>
  BY DEF Init, InRun, Completed
<1>2. << >> \in Seq(Tasks) /\ Len(<< >>) = 0
  OBVIOUS
<1>3. \A S : Divides(0, << >>, S)
  BY <1>2 DEF Divides
<1>4. Behind(<< >>, Completed \cup InRun) = << >>
  <2>1. ASSUME NEW S PROVE Behind(<< >>, S) = SubSeq(<< >>, 0 + 1, Len(<< >>))
    <3>1. Divides(0, << >>, S)
      BY <1>3
    <3> QED BY ONLY <1>2, <3>1, BehindIs
  <2>2. SubSeq(<< >>, 0 + 1, Len(<< >>)) = << >>
    BY <1>2, SubSeqEmpty
  <2> QED BY <2>1, <2>2
<1>5. Serial!Init
  BY <1>1, <1>4 DEF Serial!Init
<1>6. Divided
  <2>1. ASSUME NEW q \in Qids PROVE \E n \in 0 .. Len(order[q]) : Divides(n, order[q], Started)
    <3>1. Divides(0, order[q], Started) /\ 0 \in 0 .. Len(order[q])
      BY <1>1, <1>2, <1>3
    <3> QED BY <3>1
  <2> QED BY <2>1 DEF Divided
<1> QED BY <1>5, <1>6

LEMMA PushSimulation ==
    ASSUME IInv, OrderInv, Divided, NEW t \in Tasks, Push(t)
    PROVE  Serial!Push(t) /\ Divided'
<1> DEFINE q == Qid[t]
<1>1. /\ q \in Qids /\ state[t] = "READY" /\ state' = [state EXCEPT ![t] = "RUNNING"]
      /\ order' = [order EXCEPT ![q] = Append(order[q], t)]
      /\ UNCHANGED <<pc, task>>
  BY QidAssumption DEF Push
<1>2. Completed' = Completed /\ InRun' = InRun
  BY <1>1 DEF Completed, InRun, IInv, TypeOK
<1>3. t \notin Completed /\ t \notin InRun
  BY <1>1 DEF Completed, InRun, IInv, RunnerState
<1>4. order'[q] = Append(order[q], t) /\ \A p \in Qids : p # q => order'[p] = order[p]
  BY <1>1 DEF IInv, TypeOK
<1>5. order[q] \in Seq(Tasks)
  BY <1>1, OrderType DEF IInv
<1>6. PICK n \in 0 .. Len(order[q]) : Divides(n, order[q], Started)
  BY <1>1 DEF Divided
<1>7. /\ Divides(n, order'[q], Started)
      /\ Behind(order'[q], Started) = Append(Behind(order[q], Started), t)
  <2> DEFINE s == order[q]
             S == Started
  <2>1. s \in Seq(Tasks) /\ t \notin S /\ Divides(n, s, S)
    BY <1>3, <1>5, <1>6 DEF Started
  <2> HIDE DEF s, S
  <2>2. Divides(n, Append(s, t), S) /\ Behind(Append(s, t), S) = Append(Behind(s, S), t)
    BY <2>1, BehindAppend
  <2> QED BY <1>4, <2>2 DEF s, S
<1>8. Divided'
  <2>1. Started' = Started
    BY <1>2 DEF Started
  <2>2. n \in 0 .. Len(order'[q])
    BY <1>7 DEF Divides
  <2>3. \A p \in Qids : \E m \in 0 .. Len(order'[p]) : Divides(m, order'[p], Started)
    BY <1>4, <1>7, <2>2 DEF Divided
  <2> QED BY <2>1, <2>3 DEF Divided
<1>9. [p \in Qids |-> Behind(order[p], Completed \cup InRun)]'
      = [[p \in Qids |-> Behind(order[p], Completed \cup InRun)] EXCEPT
            ![q] = Append(@, t)]
  <2>1. \A p \in Qids : Behind(order'[p], Started)
                         = IF p = q THEN Append(Behind(order[q], Started), t)
                                    ELSE Behind(order[p], Started)
    BY <1>4, <1>7
  <2>2. Completed' \cup InRun' = Started /\ Completed \cup InRun = Started
    BY <1>2 DEF Started
  <2> QED BY <1>1, <2>1, <2>2
<1>10. \A i \in DOMAIN Behind(order[q], Started) : Behind(order[q], Started)[i] # t
  <2>1. \A i \in n + 1 .. Len(order[q]) : order[q][i] \in Tasks /\ order[q][i] # t
    BY <1>1, <1>6, OrderType DEF IInv, OrderInv, Pushes
  <2>2. Behind(order[q], Started) = SubSeq(order[q], n + 1, Len(order[q]))
    BY <1>5, <1>6, BehindIs
  <2>3. /\ SubSeq(order[q], n + 1, Len(order[q])) \in Seq(Tasks \ {t})
    BY <1>5, <1>6, <2>1, SubSeqProperties
  <2> QED BY <2>2, <2>3
<1> QED
  BY <1>1, <1>2, <1>3, <1>8, <1>9, <1>10 DEF Serial!Push, Started

(* Reading "next" lets a task begin, and so does setting the flag of the   *)
(* last one.                                                               *)
LEMMA StartSimulation ==
    ASSUME IInv, OrderInv, Divided, NEW r \in Runners, pc[r] \in {"next", "flag"},
           pc' = [pc EXCEPT ![r] = "run"], UNCHANGED <<state, task, order>>
    PROVE  Serial!Start(task[r]) /\ Divided'
<1> PICK t \in Tasks : t = task[r]
  BY DEF IInv, RunnerState
<1> DEFINE q == Qid[t]
<1>1. q \in Qids
  BY QidAssumption
<1>2. Completed' = Completed /\ InRun' = InRun \cup {t}
  <2>1. pc'[r] = "run" /\ \A s \in Runners : s # r => pc'[s] = pc[s]
    BY DEF IInv, TypeOK
  <2> QED BY <2>1 DEF Completed, InRun
<1>3. PICK n \in 0 .. Len(order[q]) - 1 :
         /\ order[q][n + 1] = t
         /\ Divides(n, order[q], Started)
         /\ Divides(n + 1, order[q], Started \cup {t})
  BY <1>1, StartDivides
<1>4. order[q] \in Seq(Tasks)
  BY <1>1, OrderType DEF IInv
<1>5. /\ Behind(order[q], Started) # << >> /\ Head(Behind(order[q], Started)) = t
      /\ Behind(order[q], Started \cup {t}) = Tail(Behind(order[q], Started))
  <2> DEFINE s == order[q]
             S == Started
             R == Started \cup {t}
  <2>1. s \in Seq(Tasks) /\ s[n + 1] = t /\ Divides(n, s, S) /\ Divides(n + 1, s, R)
    BY <1>3, <1>4
  <2> HIDE DEF s, S, R
  <2>2. /\ Behind(s, S) # << >> /\ Head(Behind(s, S)) = t
        /\ Behind(s, R) = Tail(Behind(s, S))
    BY <2>1, BehindHead
  <2> QED BY <2>2 DEF s, S, R
<1>6. \A p \in Qids : p # q =>
          /\ Behind(order[p], Started \cup {t}) = Behind(order[p], Started)
          /\ \A m : Divides(m, order[p], Started) => Divides(m, order[p], Started \cup {t})
  BY OthersDivided
<1>7. Started' = Started \cup {t}
  BY <1>2 DEF Started
<1>8. Divided'
  <2>1. n + 1 \in 0 .. Len(order[q])
    BY <1>3 DEF Divides
  <2>2. \A p \in Qids : \E m \in 0 .. Len(order[p]) : Divides(m, order[p], Started \cup {t})
    BY <1>3, <1>6, <2>1 DEF Divided
  <2> QED BY <1>7, <2>2 DEF Divided
<1>9. [p \in Qids |-> Behind(order[p], Completed \cup InRun)]'
      = [[p \in Qids |-> Behind(order[p], Completed \cup InRun)] EXCEPT
            ![q] = Tail(@)]
  BY <1>1, <1>5, <1>6, <1>7 DEF Started
<1>10. \A u \in InRun : Qid[u] # q
  <2> SUFFICES ASSUME NEW s \in Runners, pc[s] = "run", Qid[task[s]] = q PROVE FALSE
    BY DEF InRun
  <2>1. Carries(s) /\ Carries(r)
    BY DEF Carries
  <2> QED BY <2>1 DEF IInv, OneToken
<1> QED
  BY <1>1, <1>2, <1>5, <1>8, <1>9, <1>10 DEF Serial!Start, Started

(* The end of Run() lets it complete; the started tasks are the same.      *)
LEMMA CompleteSimulation ==
    ASSUME IInv, OrderInv, Divided, NEW r \in Runners, RunDone(r)
    PROVE  Serial!Complete(task[r]) /\ Divided'
<1> PICK t \in Tasks : t = task[r]
  BY DEF IInv, RunnerState, RunDone
<1>1. /\ pc[r] = "run" /\ state' = [state EXCEPT ![t] = "DONE"]
      /\ pc' = [pc EXCEPT ![r] = "push"] /\ UNCHANGED <<task, order>>
  BY DEF RunDone
<1>2. \A s \in Runners : s # r /\ pc[s] # "pull" => task[s] # t
  BY <1>1, ActiveIsAlone
<1>3. pc'[r] = "push" /\ \A s \in Runners : s # r => pc'[s] = pc[s]
  BY <1>1 DEF IInv, TypeOK
<1>4. t \in InRun /\ InRun' = InRun \ {t}
  BY <1>1, <1>2, <1>3 DEF InRun
<1>5. Completed' = Completed \cup {t}
  BY <1>1 DEF Completed, IInv, TypeOK
<1>6. Completed' \cup InRun' = Completed \cup InRun
  BY <1>4, <1>5
<1>7. Divided'
  BY <1>1, <1>6 DEF Divided, Started
<1> QED BY <1>1, <1>4, <1>5, <1>6, <1>7 DEF Serial!Complete

LEMMA Stutters ==
    ASSUME Divided, UNCHANGED order, Completed' = Completed, InRun' = InRun
    PROVE  UNCHANGED Serial!vars /\ Divided'
  BY DEF Serial!vars, Divided, Started

(* Every step of the pool is a step of its queues, or of none.             *)
LEMMA StepSimulation ==
    ASSUME IInv, OrderInv, Divided, [Next]_vars
    PROVE  [Serial!Next]_(Serial!vars) /\ Divided'
<1>1. ASSUME NEW t \in Tasks, Push(t)
      PROVE  [Serial!Next]_(Serial!vars) /\ Divided'
  BY <1>1, PushSimulation DEF Serial!Next
<1>2. ASSUME NEW t \in Tasks, Finalise(t)
      PROVE  [Serial!Next]_(Serial!vars) /\ Divided'
  <2>1. Completed' = Completed /\ InRun' = InRun /\ UNCHANGED order
    BY <1>2 DEF Finalise, Completed, InRun, IInv, TypeOK
  <2> QED BY <2>1, Stutters
<1>3. ASSUME NEW r \in Runners, Pull(r) \/ PushNext(r)
      PROVE  [Serial!Next]_(Serial!vars) /\ Divided'
  <2>1. UNCHANGED <<state, order>> /\ pc[r] # "run" /\ pc'[r] # "run"
        /\ \A s \in Runners : s # r => pc'[s] = pc[s] /\ task'[s] = task[s]
    BY <1>3 DEF Pull, PushNext, IInv, TypeOK
  <2>2. Completed' = Completed /\ InRun' = InRun
    BY <2>1 DEF Completed, InRun
  <2> QED BY <2>1, <2>2, Stutters
<1>4. ASSUME NEW r \in Runners, ReadNext(r) \/ SetLastInQueue(r)
      PROVE  [Serial!Next]_(Serial!vars) /\ Divided'
  <2>1. /\ pc[r] \in {"next", "flag"} /\ UNCHANGED <<state, task, order>>
        /\ pc' \in {[pc EXCEPT ![r] = "run"], [pc EXCEPT ![r] = "flag"]}
    BY <1>4 DEF ReadNext, SetLastInQueue
  <2>2. CASE pc' = [pc EXCEPT ![r] = "run"]
    <3>1. task[r] \in Tasks
      BY <2>1 DEF IInv, RunnerState
    <3> QED BY <2>1, <2>2, <3>1, StartSimulation DEF Serial!Next
  <2>3. CASE pc' = [pc EXCEPT ![r] = "flag"]
    <3>1. pc'[r] = "flag" /\ \A s \in Runners : s # r => pc'[s] = pc[s]
      BY <2>3 DEF IInv, TypeOK
    <3>2. Completed' = Completed /\ InRun' = InRun
      BY <2>1, <3>1 DEF Completed, InRun
    <3> QED BY <2>1, <3>2, Stutters
  <2> QED BY <2>1, <2>2, <2>3
<1>5. ASSUME NEW r \in Runners, RunDone(r)
      PROVE  [Serial!Next]_(Serial!vars) /\ Divided'
  <2>1. task[r] \in Tasks
    BY <1>5 DEF RunDone, IInv, RunnerState
  <2> QED BY <1>5, <2>1, CompleteSimulation DEF Serial!Next
<1>6. CASE UNCHANGED vars
  <2>1. Completed' = Completed /\ InRun' = InRun /\ UNCHANGED order
    BY <1>6 DEF vars, Completed, InRun
  <2> QED BY <2>1, Stutters
<1> QED BY <1>1, <1>2, <1>3, <1>4, <1>5, <1>6 DEF Next, Runner

(* TaskThreadsQ implements SerialQueues: whatever runners and manager do,  *)
(* the tasks of a queue start in the order of the Push() calls, each when  *)
(* the one before has returned from Run().                                 *)
THEOREM PoolIsSerialQueues == Spec => ImplementsSerialQueues
<1> DEFINE AllInv == IInv /\ OrderInv /\ Divided
<1>1. Init => AllInv /\ Serial!Init
  BY InitInv, InitOrder, InitSimulation
<1>2. AllInv /\ [Next]_vars => AllInv' /\ [Serial!Next]_(Serial!vars)
  BY StepInv, StepOrder, StepSimulation
<1> HIDE DEF AllInv
<1> QED BY <1>1, <1>2, PTL DEF Spec, ImplementsSerialQueues, Serial!Spec

=============================================================================
