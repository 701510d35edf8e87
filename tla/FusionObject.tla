---------------------------- MODULE FusionObject ----------------------------
(***************************************************************************)
(* Fusion objects and their reference counters in the single application   *)
(* build (FUSION_BUILD_MULTI = 0): src/lib/fusion/object.c and the second  *)
(* half of src/lib/fusion/ref.c.                                           *)
(*                                                                         *)
(* An object lives in a pool.  The thread that takes the last reference    *)
(* away has the pool's call object_reference_watcher() executed: posted to *)
(* the Fusion dispatcher thread, or executed directly, with the lock of    *)
(* the reference still held, if it is the dispatcher thread.  The watcher  *)
(* locks the counter at zero, takes the object out of the pool and calls   *)
(* the destructor, which drops the references the object itself holds.     *)
(*                                                                         *)
(* A thread is a stack of frames: procedures that may block or be          *)
(* preempted between two steps have one frame with a program counter.      *)
(***************************************************************************)
EXTENDS Naturals, Sequences, FiniteSets

CONSTANTS
    Users,          \* threads of the application
    Dispatcher,     \* the thread "Fusion Dispatch"
    Objects,        \* objects, each created at most once (ids are not reused)
    Pools,
    PoolOf,         \* PoolOf[o]: the pool of o
    Child,          \* Child[o]: object that o links (fusion_object_link)
    Destroyable,    \* pools destroyed while the program goes on to shut down
    NoObject,
    NoThread,
    MaxRefs,        \* bound on the references a thread holds on one object
    MaxCalls        \* bound on the calls in the queue when an object is looked up

Threads == Users \cup {Dispatcher}

ASSUME ThreadAssumption == Dispatcher \notin Users /\ NoThread \notin Threads
ASSUME ObjectAssumption == NoObject \notin Objects
ASSUME PoolAssumption == PoolOf \in [Objects -> Pools] /\ Destroyable \subseteq Pools
ASSUME ChildAssumption == Child \in [Objects -> Objects \cup {NoObject}]
ASSUME FiniteAssumption == IsFiniteSet(Users) /\ IsFiniteSet(Objects)
ASSUME BoundAssumption == MaxRefs \in Nat \ {0} /\ MaxCalls \in Nat

VARIABLES
    memory,     \* memory[o]: not yet allocated, allocated, freed
    state,      \* FusionObject::state
    refs,       \* FusionRef::single.refs
    locked,     \* FusionRef::single.locked # 0
    ref_lock,   \* owner of FusionRef::single.lock (recursive)
    objects,    \* FusionObjectPool::objects of all pools
    pool_lock,  \* owner of FusionObjectPool::lock
    pools,      \* pools[p]: in use, its call destroyed, freed
    calls,      \* calls posted to the dispatcher, by the object they are about
    stack,      \* stack[t]: frames of thread t, innermost first
    owns        \* owns[t][o]: references on o that thread t has to drop

vars == <<memory, state, refs, locked, ref_lock, objects, pool_lock, pools,
          calls, stack, owns>>

Frame == [pc : {"get_stat", "get_up", "get_dead", "get_null", "down", "down_unlock",
                "watch", "watch_locked", "destructor", "destroy", "zombies", "wild"},
          obj : Objects \cup Pools]

TypeOK ==
    /\ memory \in [Objects -> {"none", "live", "freed"}]
    /\ state \in [Objects -> {"INIT", "ACTIVE", "DEINIT"}]
    /\ refs \in [Objects -> Nat]
    /\ locked \in SUBSET Objects
    /\ ref_lock \in [Objects -> Threads \cup {NoThread}]
    /\ objects \in SUBSET Objects
    /\ pool_lock \in [Pools -> Threads \cup {NoThread}]
    /\ pools \in [Pools -> {"open", "closing", "freed"}]
    /\ calls \in Seq(Objects)
    /\ stack \in [Threads -> Seq(Frame)]
    /\ owns \in [Threads -> [Objects -> 0..MaxRefs]]

Init ==
    /\ memory = [o \in Objects |-> "none"]
    /\ state = [o \in Objects |-> "INIT"]
    /\ refs = [o \in Objects |-> 0]
    /\ locked = {}
    /\ ref_lock = [o \in Objects |-> NoThread]
    /\ objects = {}
    /\ pool_lock = [p \in Pools |-> NoThread]
    /\ pools = [p \in Pools |-> "open"]
    /\ calls = << >>
    /\ stack = [t \in Threads |-> << >>]
    /\ owns = [t \in Threads |-> [o \in Objects |-> 0]]

-----------------------------------------------------------------------------
(* Frames and locks *)

F(l, o) == [pc |-> l, obj |-> o]

At(t, l) == stack[t] # << >> /\ Head(stack[t]).pc = l

Idle(t) == stack[t] = << >>

Obj(t) == Head(stack[t]).obj

Replace(t, frames) == stack' = [stack EXCEPT ![t] = frames \o Tail(@)]

Return(t) == Replace(t, << >>)

(* direct_mutex_lock() on the counter's recursive mutex can return. *)
RefLockFree(t, o) == ref_lock[o] \in {NoThread, t}

PoolLockFree(t, o) == pool_lock[PoolOf[o]] = NoThread

(* fusion_skirmish_prevail() and fusion_skirmish_dismiss() on the pool.    *)
Prevail(t, o) ==
    /\ PoolLockFree(t, o)
    /\ pool_lock' = [pool_lock EXCEPT ![PoolOf[o]] = t]

Dismiss(o) == pool_lock' = [pool_lock EXCEPT ![PoolOf[o]] = NoThread]

-----------------------------------------------------------------------------
(* References: fusion_ref_up(), fusion_ref_down() *)

(* Mutated form of Up: the reference is given out but not counted. *)
UpUncounted(o) == refs' = refs

Up(o) == refs' = [refs EXCEPT ![o] = @ + 1]

Down(o) == refs' = [refs EXCEPT ![o] = @ - 1]

(* fusion_object_ref() by a thread that holds a reference already. *)
RefUp(u, o) ==
    /\ Idle(u) /\ owns[u][o] \in 1..(MaxRefs - 1)
    /\ RefLockFree(u, o)
    /\ o \notin locked
    /\ Up(o)
    /\ owns' = [owns EXCEPT ![u][o] = @ + 1]
    /\ UNCHANGED <<memory, state, locked, ref_lock, objects, pool_lock, pools, calls, stack>>

(* A reference passes from one application thread to another: the pointer  *)
(* is handed over, the counter does not change.                            *)
HandOver(u, v, o) ==
    /\ u # v /\ Idle(u) /\ Idle(v) /\ state[o] = "ACTIVE"
    /\ owns[u][o] > 0 /\ owns[v][o] < MaxRefs
    /\ owns' = [owns EXCEPT ![u][o] = @ - 1, ![v][o] = @ + 1]
    /\ UNCHANGED <<memory, state, refs, locked, ref_lock, objects, pool_lock, pools, calls, stack>>

(* fusion_object_unref(): a call of fusion_ref_down(). *)
Unref(u, o) ==
    /\ Idle(u) /\ owns[u][o] > 0
    /\ stack' = [stack EXCEPT ![u] = <<F("down", o)>>]
    /\ UNCHANGED <<memory, state, refs, locked, ref_lock, objects, pool_lock, pools, calls, owns>>

(* Mutated form of WatchCall: the call is lost. *)
LoseWatchCall(o) == calls' = calls

(* fusion_call_execute( call, FCEF_NODIRECT | FCEF_ONEWAY, call_arg ) on   *)
(* another thread than the dispatcher: posts the watcher's call unless     *)
(* the call has been destroyed with the pool.                              *)
WatchCall(o) == calls' = IF pools[PoolOf[o]] = "open" THEN Append(calls, o) ELSE calls

(* fusion_ref_down(): lock, decrease (with no reference left, D_BUG() and  *)
(* DR_BUG instead), and when zero is reached execute the call.  On         *)
(* the dispatcher thread fusion_call_execute() calls the watcher directly  *)
(* and the lock is released when it has returned.  A frame on its own      *)
(* drops a reference of the thread, else it is the destructor that drops   *)
(* the reference of the object it destroys.                                *)
RefDown(t) ==
    LET o == Obj(t) IN
    /\ At(t, "down")
    /\ RefLockFree(t, o)
    /\ IF refs[o] = 0 THEN refs' = refs ELSE Down(o)
    /\ owns' = IF Len(stack[t]) = 1 THEN [owns EXCEPT ![t][o] = @ - 1] ELSE owns
    /\ \/ /\ refs[o] # 1 /\ Return(t)
          /\ UNCHANGED <<calls, ref_lock>>
       \/ /\ refs[o] = 1 /\ t \in Users
          /\ WatchCall(o) /\ Return(t)
          /\ ref_lock' = ref_lock
       \/ /\ refs[o] = 1 /\ t = Dispatcher
          /\ ref_lock' = [ref_lock EXCEPT ![o] = t]
          /\ Replace(t, <<F("watch", o), F("down_unlock", o)>>)
          /\ calls' = calls
    /\ UNCHANGED <<memory, state, locked, objects, pool_lock, pools>>

(* direct_mutex_unlock( &ref->single.lock ) after the direct call. *)
RefDownUnlock(t) ==
    LET o == Obj(t) IN
    /\ At(t, "down_unlock")
    /\ ref_lock' = [ref_lock EXCEPT ![o] = NoThread]
    /\ Return(t)
    /\ UNCHANGED <<memory, state, refs, locked, objects, pool_lock, pools, calls, owns>>

-----------------------------------------------------------------------------
(* Creating and getting objects *)

(* fusion_object_create(): everything happens under the pool lock, on an   *)
(* object no other thread knows.  The new object holds a reference on its  *)
(* child.                                                                  *)
Create(u, o) ==
    LET c == Child[o] IN
    /\ Idle(u) /\ memory[o] = "none" /\ pools[PoolOf[o]] = "open"
    /\ PoolLockFree(u, o)
    /\ c # NoObject => owns[u][c] > 0 /\ state[c] = "ACTIVE" /\ RefLockFree(u, c)
    /\ memory' = [memory EXCEPT ![o] = "live"]
    /\ objects' = objects \cup {o}
    /\ refs' = [p \in Objects |-> IF p = o THEN 1 ELSE IF p = c THEN refs[p] + 1 ELSE refs[p]]
    /\ owns' = [owns EXCEPT ![u][o] = 1]
    /\ UNCHANGED <<state, locked, ref_lock, pool_lock, pools, calls, stack>>

(* fusion_object_activate() by the creator. *)
Activate(u, o) ==
    /\ Idle(u) /\ owns[u][o] > 0 /\ state[o] = "INIT"
    /\ state' = [state EXCEPT ![o] = "ACTIVE"]
    /\ UNCHANGED <<memory, refs, locked, ref_lock, objects, pool_lock, pools, calls, stack, owns>>

(* fusion_object_get(): locks the pool.  The id was given out when the     *)
(* object became active; the object may be gone.                           *)
Get(u, o) ==
    /\ Idle(u) /\ state[o] # "INIT" /\ pools[PoolOf[o]] = "open"
    /\ owns[u][o] < MaxRefs /\ Len(calls) < MaxCalls
    /\ Prevail(u, o)
    /\ stack' = [stack EXCEPT ![u] = <<F("get_stat", o)>>]
    /\ UNCHANGED <<memory, state, refs, locked, ref_lock, objects, pools, calls, owns>>

(* Looks the object up and reads the counter without its lock.  "get_null" *)
(* is the return of DR_OK without an object, "get_dead" of DR_DEAD.        *)
GetStat(u) ==
    LET o == Obj(u) IN
    /\ At(u, "get_stat")
    /\ Replace(u, <<F(IF o \notin objects THEN "get_null"
                      ELSE IF refs[o] > 0 THEN "get_up" ELSE "get_dead", o)>>)
    /\ UNCHANGED <<memory, state, refs, locked, ref_lock, objects, pool_lock, pools, calls, owns>>

(* fusion_object_ref() in fusion_object_get(), and its return: DR_LOCKED   *)
(* if the watcher has locked the counter, otherwise a reference.           *)
GetUp(u) ==
    LET o == Obj(u) IN
    /\ At(u, "get_up")
    /\ RefLockFree(u, o)
    /\ IF o \in locked
         THEN UNCHANGED <<refs, owns>>
         ELSE /\ Up(o)
              /\ owns' = [owns EXCEPT ![u][o] = @ + 1]
    /\ Dismiss(o) /\ Return(u)
    /\ UNCHANGED <<memory, state, locked, ref_lock, objects, pools, calls>>

(* Returns DR_DEAD, or DR_OK without an object. *)
GetNothing(u) ==
    /\ At(u, "get_dead") \/ At(u, "get_null")
    /\ Dismiss(Obj(u)) /\ Return(u)
    /\ UNCHANGED <<memory, state, refs, locked, ref_lock, objects, pools, calls, owns>>

-----------------------------------------------------------------------------
(* The watcher and the destructor *)

(* The dispatcher takes the next call, event_dispatcher_loop(). *)
Dispatch ==
    /\ Idle(Dispatcher) /\ calls # << >>
    /\ stack' = [stack EXCEPT ![Dispatcher] = <<F("watch", Head(calls))>>]
    /\ calls' = Tail(calls)
    /\ UNCHANGED <<memory, state, refs, locked, ref_lock, objects, pool_lock, pools, owns>>

(* object_reference_watcher(): locks the pool. *)
Watch(t) ==
    /\ At(t, "watch")
    /\ Prevail(t, Obj(t))
    /\ Replace(t, <<F("watch_locked", Obj(t))>>)
    /\ UNCHANGED <<memory, state, refs, locked, ref_lock, objects, pools, calls, owns>>

(* Mutated form of AtZero: the counter is not looked at again. *)
AtAnyCount(o) == TRUE

(* fusion_ref_zero_trylock() returns DR_OK. *)
AtZero(o) == o \notin locked /\ refs[o] = 0

Unpool(o) == objects' = objects \ {o}

(* The object is looked up, its counter locked at zero (else the call is   *)
(* ignored), it leaves the pool, and the pool is unlocked.  The destructor *)
(* is called, except for an object that was not activated.  ("dead" is     *)
(* only counted by the multi application build's fusion_ref_down().)       *)
WatchLocked(t) ==
    LET o == Obj(t) IN
    /\ At(t, "watch_locked")
    /\ o \in objects => RefLockFree(t, o)
    /\ Dismiss(o)
    /\ IF o \in objects /\ AtZero(o)
         THEN /\ locked' = locked \cup {o}
              /\ Unpool(o)
              /\ IF state[o] = "INIT"
                   THEN state' = state /\ Return(t)
                   ELSE /\ state' = [state EXCEPT ![o] = "DEINIT"]
                        /\ Replace(t, <<F("destructor", o)>>)
         ELSE /\ Return(t)
              /\ UNCHANGED <<locked, objects, state>>
    /\ UNCHANGED <<memory, refs, ref_lock, pools, calls, owns>>

(* The pool's destructor drops the reference on the child, then calls      *)
(* fusion_object_destroy().                                                *)
Destructor(t) ==
    LET c == Child[Obj(t)] IN
    /\ At(t, "destructor")
    /\ Replace(t, (IF c = NoObject THEN << >> ELSE <<F("down", c)>>)
                  \o <<F("destroy", Obj(t))>>)
    /\ UNCHANGED <<memory, state, refs, locked, ref_lock, objects, pool_lock, pools, calls, owns>>

(* fusion_object_destroy() of an object that is out of its pool:           *)
(* fusion_ref_destroy() and SHFREE().                                      *)
Destroy(t) ==
    /\ At(t, "destroy")
    /\ memory' = [memory EXCEPT ![Obj(t)] = "freed"]
    /\ Return(t)
    /\ UNCHANGED <<state, refs, locked, ref_lock, objects, pool_lock, pools, calls, owns>>

(* A watcher call queued before its pool was destroyed still has the pool  *)
(* as its context: it locks and searches it, and calls pool->destructor,   *)
(* after SHFREE().  As long as nobody else got the memory it goes on as if *)
(* the pool were empty (the actions above); otherwise this model does not  *)
(* know what the dispatcher thread does, which is the frame "wild".        *)
UseFreedPool ==
    /\ At(Dispatcher, "watch") \/ At(Dispatcher, "destructor")
    /\ pools[PoolOf[Obj(Dispatcher)]] = "freed"
    /\ Replace(Dispatcher, <<F("wild", Obj(Dispatcher))>>)
    /\ UNCHANGED <<memory, state, refs, locked, ref_lock, objects, pool_lock, pools, calls, owns>>

(* The creator gives up: fusion_object_destroy() of an incomplete object,  *)
(* which takes it out of the pool under the pool lock.                     *)
DestroyIncomplete(u, o) ==
    /\ Idle(u) /\ state[o] = "INIT" /\ memory[o] = "live" /\ owns[u][o] = 1
    /\ refs[o] = 1
    /\ PoolLockFree(u, o)
    /\ state' = [state EXCEPT ![o] = "DEINIT"]
    /\ Unpool(o)
    /\ stack' = [stack EXCEPT ![u] = <<F("destructor", o)>>]
    /\ owns' = [owns EXCEPT ![u][o] = 0]
    /\ UNCHANGED <<memory, refs, locked, ref_lock, pool_lock, pools, calls>>

(* fusion_object_pool_destroy() at shutdown, when no thread uses an object *)
(* of the pool any more: locks the pool and destroys the call.  The call   *)
(* fusion_sync() before it does nothing in this build, so watcher calls of *)
(* the pool may be in the queue.                                           *)
DestroyPool(u, p) ==
    /\ \A v \in Users : Idle(v) /\ \A o \in Objects : PoolOf[o] = p => owns[v][o] = 0
    /\ p \in Destroyable /\ pools[p] = "open"
    /\ pool_lock[p] = NoThread
    /\ pool_lock' = [pool_lock EXCEPT ![p] = u]
    /\ pools' = [pools EXCEPT ![p] = "closing"]
    /\ stack' = [stack EXCEPT ![u] = <<F("zombies", p)>>]
    /\ UNCHANGED <<memory, state, refs, locked, ref_lock, objects, calls, owns>>

(* The loop over the objects that are left: the destructor is called for   *)
(* each, and takes it out of the pool.  In the end the pool is freed.      *)
DestroyZombie(u) ==
    LET p == Obj(u)
        zombies == {o \in objects : PoolOf[o] = p}
    IN
    /\ At(u, "zombies")
    /\ \/ \E o \in zombies :
             /\ state' = [state EXCEPT ![o] = "DEINIT"]
             /\ Unpool(o)
             /\ Replace(u, <<F("destructor", o), F("zombies", p)>>)
             /\ UNCHANGED <<pool_lock, pools>>
       \/ /\ zombies = {}
          /\ pools' = [pools EXCEPT ![p] = "freed"]
          /\ pool_lock' = [pool_lock EXCEPT ![p] = NoThread]
          /\ Return(u)
          /\ UNCHANGED <<state, objects>>
    /\ UNCHANGED <<memory, refs, locked, ref_lock, calls, owns>>

-----------------------------------------------------------------------------
(* Steps of a call that is under way, and what application threads start. *)
Step(t) ==
    \/ RefDown(t) \/ RefDownUnlock(t)
    \/ Watch(t) \/ WatchLocked(t) \/ Destructor(t) \/ Destroy(t)
    \/ GetStat(t) \/ GetUp(t) \/ GetNothing(t)
    \/ DestroyZombie(t)

Next ==
    \/ \E t \in Threads : Step(t)
    \/ Dispatch \/ UseFreedPool
    \/ \E u \in Users, o \in Objects :
          \/ Create(u, o) \/ Activate(u, o) \/ DestroyIncomplete(u, o)
          \/ RefUp(u, o) \/ Unref(u, o) \/ Get(u, o)
          \/ \E v \in Users : HandOver(u, v, o)
    \/ \E u \in Users, p \in Pools : DestroyPool(u, p)

Spec == Init /\ [][Next]_vars

(* Threads run on: a thread that is in a call takes its next step unless a *)
(* lock keeps it waiting, and the dispatcher takes the next call.  Strong  *)
(* fairness: a mutex that is free again and again is obtained.             *)
Fairness == WF_vars(Dispatch) /\ \A t \in Threads : SF_vars(Step(t))

FairSpec == Spec /\ Fairness

-----------------------------------------------------------------------------
(* Properties *)

(* A watcher call has used the memory of a pool that was freed. *)
Wild == At(Dispatcher, "wild")

(* A thread that has got a reference by any sequence of ref, get and hand  *)
(* over keeps a complete object: neither the watcher nor another thread's  *)
(* last unref destroys it (fusion_ref_zero_trylock() against               *)
(* fusion_ref_up()).  Again as long as no freed pool has been used.        *)
NeverDestroyedWhileHeld ==
    \A t \in Threads, o \in Objects :
        owns[t][o] > 0 /\ ~ Wild => memory[o] = "live" /\ state[o] # "DEINIT"

(* The references on o that threads have to drop, each with its number.    *)
Held(o) == {x \in Threads \X (1..MaxRefs) : x[2] <= owns[x[1]][o]}

(* The link of object p to its child has not been dropped yet. *)
Linked(p) ==
    /\ memory[p] = "live"
    /\ \A t \in Threads : \A i \in DOMAIN stack[t] :
          stack[t][i] = F("destroy", p) => i > 1 /\ stack[t][i - 1] = F("down", Child[p])

(* The counter of a live object is the number of references that threads   *)
(* and other objects have to drop: none is lost or counted twice.  (An     *)
(* incomplete object destroyed by its creator keeps the count of 1, as do  *)
(* zombies.)                                                               *)
CountsReferences ==
    \A o \in Objects :
        memory[o] = "live" /\ state[o] # "DEINIT" =>
            refs[o] = Cardinality(Held(o))
                      + Cardinality({p \in Objects : Child[p] = o /\ Linked(p)})

(* What fusion_object_get() and the watcher find in the hash of a pool has *)
(* not been freed.                                                         *)
PooledIsAllocated == \A o \in objects : memory[o] = "live"

(* Two locks taken in both orders: a thread in fusion_object_get() holds   *)
(* the lock of a pool and waits for that of a counter, which the           *)
(* dispatcher thread holds on its way to the lock of the pool, in a direct *)
(* call of the watcher.  Neither gets any further.                         *)
LockInversion ==
    \E u \in Users :
        /\ At(u, "get_up") /\ ref_lock[Obj(u)] = Dispatcher
        /\ At(Dispatcher, "watch") /\ PoolOf[Obj(Dispatcher)] = PoolOf[Obj(u)]

(* An active object without references is destroyed, unless a concurrent   *)
(* fusion_object_get() revives it: the watcher's call is never lost.  Two  *)
(* things the code does not exclude end this: the inversion of locks       *)
(* between a lookup by id and the dispatcher thread dropping the last      *)
(* reference on an object of that pool (ref.c:1702, object.c:484-497), and *)
(* the use of a freed pool.                                                *)
UnreferencedIsFreed ==
    \A o \in Objects :
        (memory[o] = "live" /\ state[o] # "INIT" /\ refs[o] = 0)
            ~> (memory[o] = "freed" \/ refs[o] > 0 \/ LockInversion \/ Wild)

(* References and pools: counters, states and the hash of a pool always    *)
(* agree with the references and the memory there are, as long as no       *)
(* watcher call has used a freed pool.                                     *)
Consistent == TypeOK /\ (Wild \/ (CountsReferences /\ PooledIsAllocated))
=============================================================================
