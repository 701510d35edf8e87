---------------------------- MODULE SurfaceBuffer ----------------------------
(***************************************************************************)
(* The allocations of a surface buffer and their synchronisation without   *)
(* the task manager: src/src/core/surface_buffer.c,                        *)
(* surface_allocation.cpp, surface_pool.c and ISurface_Real in             *)
(* CoreSurface_real.cpp.                                                   *)
(*                                                                         *)
(* A buffer may have an allocation in each of several pools.  Serials tell *)
(* which of them are up to date; an access to another one updates it from  *)
(* buffer->written first.  A serial only matters by being equal to the one *)
(* of the buffer, so "current" is the set of allocations for which it is.  *)
(* The surface lock makes every operation one step; only the displacement  *)
(* of an allocation by another surface marks it before it has that lock.   *)
(* Locked memory is used after the surface lock has been given back, by    *)
(* the CPU at once and by the GPU at some later time.                      *)
(***************************************************************************)
EXTENDS Naturals, FiniteSets

CONSTANTS
    Clients,        \* threads that lock, read and write the surface
    Pools,          \* surface pools
    PoolAccess,     \* PoolAccess[p][x]: access of x \in {"CPU", "GPU"} to pool p
    Callable,       \* Callable[p]: accesses that p has a function for
    Volatile,       \* pools whose allocations are CSALF_VOLATILE
    Backup,         \* Backup[p]: pool that takes what is mucked out of p, or NULL
    Setups,         \* values of "setup"
    Accesses,       \* accesses that are asked for
    MaxAllocs,      \* bound on the allocations that exist at a time
    MaxCalls,       \* bound on the calls of PreLockBuffer() and its kin
    NULL

ASSUME PoolAssumption ==
    /\ Backup \in [Pools -> Pools \cup {NULL}] /\ Volatile \subseteq Pools
    /\ \A p \in Pools : Backup[p] # NULL => Backup[Backup[p]] = NULL   \* a single backup pool
    /\ PoolAccess \in [Pools -> [{"CPU", "GPU"} -> SUBSET {"read", "write"}]]
    /\ Callable \in [Pools -> SUBSET {"read", "write"}]
    /\ MaxAllocs \in Nat /\ MaxCalls \in Nat
    /\ Accesses \subseteq SUBSET {"read", "write"} \ {{}}

(* Configuration "thrifty-surface-buffers", and whether drivers may fail. *)
AllSetups == [thrifty : BOOLEAN, faults : BOOLEAN]

ASSUME SetupAssumption == Setups \subseteq AllSetups

Allocs == 1..MaxAllocs

Locks == [alloc : Allocs, accessor : {"CPU", "GPU"}, access : SUBSET {"read", "write"}, mapped : BOOLEAN]

ASSUME NullAssumption == NULL \notin Pools /\ NULL \notin Allocs /\ NULL \notin Locks

VARIABLES
    setup,
    buf,            \* the buffer, its allocations and the surface
    lock,           \* lock[c]: what client c has locked, or NULL
    displacing,     \* allocation marked by a displacement in its pool, or NULL
    calls           \* calls of PreLockBuffer() so far

vars == <<setup, buf, lock, displacing, calls>>

(* allocs        the allocations of the buffer                              *)
(* before        their order in the buffer's vector, as pairs               *)
(* pool[a]       the pool that memory was taken from, or NULL               *)
(* accessed[a]   allocation->accessed                                       *)
(* content       "none" if nothing has been written, "spoiled" if a driver  *)
(*               failed to transfer or to prelock or something was copied   *)
(*               while it was being written, else "known"                   *)
(* latest        allocations that hold the content, if it is known          *)
(* gpu[a]        the GPU's unfinished work on a                             *)
(* texture       memory that the GPU's texture cache is outdated for        *)
Buffers ==
    [allocs : SUBSET Allocs, before : SUBSET (Allocs \X Allocs), pool : [Allocs -> Pools \cup {NULL}],
     current : SUBSET Allocs, latest : SUBSET Allocs, written : Allocs \cup {NULL}, read : Allocs \cup {NULL},
     accessed : [Allocs -> SUBSET {"cpu", "gpu_read", "gpu_write"}],
     gpu : [Allocs -> SUBSET {"read", "write"}],
     texture : SUBSET Allocs, destroyed : BOOLEAN, content : {"none", "known", "spoiled"}]

(* x is the first of the allocations s in the order of the vector. *)
IsFirst(b, s, x) == x \in s /\ \A y \in s \ {x} : <<x, y>> \in b.before

IsLast(b, s, x) == x \in s /\ \A y \in s \ {x} : <<y, x>> \in b.before

Ordered(b) ==
    /\ b.before \subseteq b.allocs \X b.allocs
    /\ \A s \in SUBSET b.allocs : s # {} => (\E x \in s : IsFirst(b, s, x)) /\ \E x \in s : IsLast(b, s, x)

TypeOK ==
    /\ setup \in Setups
    /\ buf \in Buffers
    /\ buf.current \subseteq buf.allocs /\ buf.latest \subseteq buf.allocs
    /\ Ordered(buf)
    /\ lock \in [Clients -> Locks \cup {NULL}]
    /\ displacing \in Allocs \cup {NULL}
    /\ calls \in 0..MaxCalls

Init ==
    /\ setup \in Setups
    /\ buf = [allocs |-> {}, before |-> {}, pool |-> [a \in Allocs |-> NULL],
              current |-> {}, latest |-> {}, written |-> NULL, read |-> NULL,
              accessed |-> [a \in Allocs |-> {}], gpu |-> [a \in Allocs |-> {}],
              texture |-> {}, destroyed |-> FALSE, content |-> "none"]
    /\ lock = [c \in Clients |-> NULL]
    /\ displacing = NULL
    /\ calls = 0

LockedBy(a) == {c \in Clients : lock[c] # NULL /\ lock[c].alloc = a}

(* dfb_surface_allocation_locks() # 0 *)
Locked(a) == LockedBy(a) # {}

BeingWritten(b, a) ==
    \/ "write" \in b.gpu[a]
    \/ \E c \in LockedBy(a) : "write" \in lock[c].access

(* dfb_gfxcard_wait_serial() with a driver that waits for an idle engine. *)
GpuIdle(b) == [b EXCEPT !.gpu = [a \in Allocs |-> {}]]

First(b, s) == IF s = {} THEN NULL ELSE CHOOSE x \in s : IsFirst(b, s, x)

Latest(b, s) == IF s = {} THEN NULL ELSE CHOOSE x \in s : IsLast(b, s, x)

-----------------------------------------------------------------------------
(* dfb_surface_pool_deallocate(), but memory that is locked is left to the *)
(* destructor.                                                             *)
Deallocate(b, s) ==
    LET freed == {a \in s : ~ Locked(a)}
    IN  [(IF \E a \in freed : b.accessed[a] \cap {"gpu_read", "gpu_write"} # {} THEN GpuIdle(b) ELSE b)
            EXCEPT !.pool = [a \in Allocs |-> IF a \in freed THEN NULL ELSE @[a]],
                   !.accessed = [a \in Allocs |-> IF a \in freed THEN {} ELSE @[a]],
                   !.texture = @ \ freed]

(* Mutated form of NextWritten: whatever allocation is left. *)
NextWrittenAny(b, rest) == First(b, rest)

NextWritten(b, rest) == First(b, rest \cap b.current)

(* dfb_surface_allocation_decouple() of all allocations s: the last one    *)
(* written is replaced as often as it is decoupled.                        *)
Decouple(b, s) ==
    LET rest == b.allocs \ s
    IN  [Deallocate(b, s) EXCEPT
            !.allocs = rest, !.before = @ \cap (rest \X rest),
            !.current = @ \ s, !.latest = @ \ s,
            !.read = IF @ \in s THEN NULL ELSE @,
            !.written = IF @ \in s THEN NextWritten(b, rest) ELSE @]

(* dfb_surface_pool_allocate() *)
Allocate(b, a, p) ==
    [b EXCEPT !.allocs = @ \cup {a}, !.before = @ \cup (b.allocs \X {a}), !.pool[a] = p,
              !.accessed[a] = {"cpu"}, !.gpu[a] = {}, !.texture = @ \cup {a}]

CanDo(b, a, accessor, access) == access \subseteq PoolAccess[b.pool[a]][accessor]

(* Update: allocations the CPU reads and writes when src is copied to a. *)
CopiedBy(b, a, src) ==
    (IF CanDo(b, a, "CPU", {"write"}) THEN {a} ELSE {})
        \cup (IF CanDo(b, src, "CPU", {"read"}) THEN {src} ELSE {})

Spoiled(b) == [b EXCEPT !.content = "spoiled", !.latest = {}]

(* dfb_surface_allocation_update(): the copying between allocations. *)
Transfer(b, a, src) ==
    [(IF BeingWritten(b, src) THEN Spoiled(b) ELSE b) EXCEPT
        !.current = @ \cup {a},
        !.latest = IF src \in @ THEN @ \cup {a} ELSE @ \ {a},
        !.accessed = [x \in Allocs |-> IF x \in CopiedBy(b, a, src) THEN @[x] \cup {"cpu"} ELSE @[x]],
        !.texture = IF a \in CopiedBy(b, a, src) THEN @ \cup {a} ELSE @]

(* Mutated form of Synchronize: the serial is updated, nothing copied. *)
SynchronizeSerial(b, a) == [b EXCEPT !.current = @ \cup {a}]

Synchronize(b, a) ==
    IF a \in b.current \/ b.written = NULL THEN [b EXCEPT !.current = @ \cup {a}]
                                            ELSE Transfer(b, a, b.written)

(* The serial is updated before the transfer, and stays when that fails. *)
SynchronizeFails(b, a) ==
    [Spoiled(b) EXCEPT !.current = @ \cup {a}]

Volatiles(b, a) == {x \in b.allocs : x # a /\ b.pool[x] \in Volatile}

MarkWritten(b, a) ==
    Decouple([b EXCEPT !.current = {a}, !.written = a, !.read = NULL], Volatiles(b, a))

(* All other allocations but what is being mucked out are given up. *)
Zap(b, a) ==
    Decouple([b EXCEPT !.written = a, !.read = a], b.allocs \ {a, displacing})

(* dfb_surface_allocation_update() *)
Update(b, a, access) ==
    LET b1 == Synchronize(b, a)
        b2 == IF "write" \in access THEN MarkWritten(b1, a) ELSE [b1 EXCEPT !.read = a]
    IN  IF setup.thrifty THEN Zap(b2, a) ELSE b2

(* dfb_surface_buffer_find_allocation() *)
Find(b, accessor, access, locking) ==
    LET usable == {x \in b.allocs : CanDo(b, x, accessor, access)}
    IN  IF usable \cap b.current # {} THEN First(b, usable \cap b.current)
        ELSE IF b.current # {} /\ ~ locking THEN Latest(b, b.current) ELSE Latest(b, usable)

(* PreReadBuffer() and PreWriteBuffer() try the last allocation written or *)
(* read first.                                                             *)
Choice(b, op) ==
    LET preferred == CASE op.how = "read" -> b.written [] op.how = "write" -> b.read [] OTHER -> NULL
    IN  IF preferred # NULL /\ preferred \in b.current THEN preferred
        ELSE Find(b, op.accessor, op.access, op.how = "lock")

GpuFlags(access) ==
    (IF "read" \in access THEN {"gpu_read"} ELSE {}) \cup (IF "write" \in access THEN {"gpu_write"} ELSE {})

(* Mutated form of Interlock: flags are cleared in spite of other locks. *)
InterlockForgets(b, a, accessor, access) ==
    LET waits == accessor = "CPU" /\ b.accessed[a] \cap {"gpu_write", "gpu_read"} # {}
    IN  [(IF waits THEN GpuIdle(b) ELSE b) EXCEPT
            !.accessed[a] = IF accessor = "CPU" THEN {"cpu"} ELSE GpuFlags(access),
            !.texture = IF accessor = "GPU" /\ "cpu" \in b.accessed[a] THEN {} ELSE @]

(* manage_interlocks() *)
Interlock(b, a, accessor, access) ==
    LET old == b.accessed[a]
        afterWrite == accessor = "CPU" /\ "gpu_write" \in old
        afterRead == accessor = "CPU" /\ "write" \in access /\ "gpu_read" \in old
        flushes == accessor = "GPU" /\ "cpu" \in old
        cleared == (IF afterWrite THEN {"gpu_write", "gpu_read"} ELSE {})
                       \cup (IF afterRead THEN {"gpu_read"} ELSE {})
                       \cup (IF flushes THEN {"cpu"} ELSE {})
        added == IF accessor = "CPU" THEN {"cpu"} ELSE GpuFlags(access)
    IN  [(IF afterWrite \/ afterRead THEN GpuIdle(b) ELSE b) EXCEPT
            !.accessed[a] = (IF Locked(a) THEN old ELSE old \ cleared) \cup added,
            !.texture = IF flushes THEN {} ELSE @]

(* Whether the allocation is prelocked and mapped: always to lock it, and  *)
(* to read or write if the pool has no function for that.                  *)
Maps(b, a, op) ==
    op.how = "lock" \/ (IF "write" \in op.access THEN "write" ELSE "read") \notin Callable[b.pool[a]]

(* The lock of a pool is held while one of its allocations is displaced:   *)
(* nothing is allocated or deallocated in it meanwhile.                    *)
PoolLockFree(b) ==
    displacing # NULL =>
        \A a \in Allocs : b.pool[a] # buf.pool[a] =>
            buf.pool[displacing] \notin {b.pool[a], buf.pool[a]}

Unused(b) == LET free == {a \in Allocs : b.pool[a] = NULL}
             IN  {a \in free : \A x \in free : a <= x}

(* PreLockBuffer() and PreLockBuffer2() with and without "lock",           *)
(* PreReadBuffer() and PreWriteBuffer().                                   *)
Ops ==
    [how : {"lock"}, accessor : {"CPU", "GPU"}, access : Accesses]
        \cup [how : {"nolock"}, accessor : {"CPU"}, access : {{"read"}, {"write"}}]
        \cup {[how |-> x, accessor |-> "CPU", access |-> {x}] : x \in {"read", "write"}}

(* The buffer with the allocation for an access, an existing one or one    *)
(* from a pool that is not out of memory: [b, a, allocated].               *)
Candidates(op) ==
    LET a == Choice(buf, op)
    IN  IF a # NULL THEN {[b |-> buf, a |-> a, allocated |-> FALSE]}
        ELSE {[b |-> Allocate(buf, x, p), a |-> x, allocated |-> TRUE] :
                 x \in Unused(buf),
                 p \in {q \in Pools : op.access \subseteq PoolAccess[q][op.accessor]}}

(* DFB_DESTROYED is returned for a destroyed surface; reading needs an     *)
(* allocation.                                                             *)
Called(c, op) ==
    /\ lock[c] = NULL /\ ~ buf.destroyed
    /\ op.how # "lock" /\ "read" \in op.access => buf.allocs # {}
    /\ calls < MaxCalls /\ calls' = calls + 1

PreLock(c, op) ==
    /\ Called(c, op)
    /\ \E k \in Candidates(op) :
        LET b == Update(k.b, k.a, op.access)
            mapped == Maps(b, k.a, op)
        IN  /\ buf' = IF mapped THEN Interlock(b, k.a, op.accessor, op.access) ELSE b
            /\ lock' = [lock EXCEPT ![c] = [alloc |-> k.a, accessor |-> op.accessor,
                                            access |-> op.access, mapped |-> mapped]]
    /\ PoolLockFree(buf')
    /\ UNCHANGED <<setup, displacing>>

(* The transfer fails, or it succeeds and the driver fails to prelock. *)
Failures(k, op) ==
    (IF k.a \notin k.b.current /\ k.b.written # NULL THEN {SynchronizeFails(k.b, k.a)} ELSE {})
        \cup (IF Maps(k.b, k.a, op) THEN {Update(k.b, k.a, op.access)} ELSE {})

(* An allocation that was made for the access is given up. *)
PreLockFails(c, op) ==
    /\ setup.faults /\ Called(c, op)
    /\ \E k \in Candidates(op) :
        \E b \in Failures(k, op) :
            buf' = Spoiled(IF k.allocated THEN Decouple(b, {k.a}) ELSE b)
    /\ PoolLockFree(buf')
    /\ UNCHANGED <<setup, lock, displacing>>

-----------------------------------------------------------------------------
(* A client uses what it has locked, with the CPU or by commands for the   *)
(* GPU, and changes the pixels if it has locked them for writing.          *)
Use(c) ==
    /\ lock[c] # NULL
    /\ LET a == lock[c].alloc
           gpu == lock[c].accessor = "GPU"
           writes == "write" \in lock[c].access
           changed == writes /\ a \in buf.allocs /\ buf.content # "spoiled"
       IN  buf' = [buf EXCEPT
               !.latest = IF changed THEN {a} ELSE @,
               !.content = IF changed THEN "known" ELSE @,
               !.gpu[a] = IF gpu THEN @ \cup lock[c].access ELSE @,
               !.texture = IF writes /\ ~ gpu /\ lock[c].mapped THEN @ \cup {a} ELSE @]
    /\ UNCHANGED <<setup, lock, displacing, calls>>

(* The GPU has nothing left to do. *)
GpuDone ==
    /\ \E a \in Allocs : buf.gpu[a] # {}
    /\ buf' = GpuIdle(buf)
    /\ UNCHANGED <<setup, lock, displacing, calls>>

(* dfb_surface_buffer_unlock() *)
Unlock(c) ==
    /\ lock[c] # NULL
    /\ lock' = [lock EXCEPT ![c] = NULL]
    /\ UNCHANGED <<setup, buf, displacing, calls>>

(* surface_allocation_destructor(), after the last reference is gone. *)
Destructor(a) ==
    /\ buf.pool[a] # NULL /\ a \notin buf.allocs /\ ~ Locked(a)
    /\ buf' = [buf EXCEPT !.pool[a] = NULL, !.accessed[a] = {}, !.gpu[a] = {}, !.texture = @ \ {a}]
    /\ PoolLockFree(buf')
    /\ UNCHANGED <<setup, lock, displacing, calls>>

(* dfb_surface_deallocate_buffers(), as dfb_surface_reconfig() with a new  *)
(* buffer in place of the old one: what was written is given up.           *)
Deallocated == [Decouple(buf, buf.allocs) EXCEPT !.content = "none"]

DeallocateBuffers ==
    /\ ~ buf.destroyed /\ buf.allocs # {}
    /\ buf' = Deallocated
    /\ PoolLockFree(buf')
    /\ UNCHANGED <<setup, lock, displacing, calls>>

(* dfb_surface_destroy() *)
Destroy ==
    /\ ~ buf.destroyed
    /\ buf' = [Deallocated EXCEPT !.destroyed = TRUE]
    /\ PoolLockFree(buf')
    /\ UNCHANGED <<setup, lock, displacing, calls>>

-----------------------------------------------------------------------------
(* Another surface needs memory: MuckOut() of the pool marks an allocation *)
(* that is not locked.                                                     *)
MuckOut(a) ==
    /\ displacing = NULL
    /\ a \in buf.allocs /\ ~ Locked(a) /\ Backup[buf.pool[a]] # NULL
    /\ displacing' = a
    /\ UNCHANGED <<setup, buf, lock, calls>>

(* Mutated form of NeedsBackup: nothing is backed up. *)
NeedsNoBackup(b, a) == FALSE

(* backup_allocation(): a is the only allocation that is up to date. *)
NeedsBackup(b, a) == a \in b.current /\ \A x \in b.current : b.pool[x] = b.pool[a]

(* backup_allocation(): the results [b, ok].  Attempts to update others    *)
(* fail before one succeeds, in the order of the vector.                   *)
BackupResults(a) ==
    LET others == {x \in buf.allocs : buf.pool[x] # buf.pool[a]}
        failed == {s \in SUBSET others : \A x \in s, y \in others \ s : <<x, y>> \in buf.before}
        attempts == IF setup.faults THEN failed ELSE {{}}
        after(s) == IF s = {} THEN buf ELSE [Spoiled(buf) EXCEPT !.current = @ \cup s]
        updated == {[b |-> Update(after(s), First(buf, others \ s), {}), ok |-> TRUE] :
                       s \in attempts \ {others}}
        all == after(others)
        fresh(x) == Allocate(all, x, Backup[buf.pool[a]])
        allocated == {[b |-> Update(fresh(x), x, {}), ok |-> TRUE] : x \in Unused(all)}
        refused == {[b |-> all, ok |-> FALSE]}
        broken == IF setup.faults
                  THEN {[b |-> Decouple(SynchronizeFails(fresh(x), x), {x}), ok |-> FALSE] : x \in Unused(all)}
                  ELSE {}
    IN  IF ~ NeedsBackup(buf, a) THEN {[b |-> buf, ok |-> TRUE]}
        ELSE updated \cup (IF others \in attempts THEN allocated \cup refused \cup broken ELSE {})

(* dfb_surface_pool_displace(): backed up and decoupled under the lock of  *)
(* its surface, by now perhaps locked.                                     *)
Displace ==
    /\ displacing # NULL
    /\ \E r \in BackupResults(displacing) : buf' = IF r.ok THEN Decouple(r.b, {displacing}) ELSE r.b
    /\ displacing' = NULL
    /\ UNCHANGED <<setup, lock, calls>>

(* dfb_surface_pool_displace(): DFB_LOCKED, others keep the surface lock. *)
GiveUp ==
    /\ displacing # NULL
    /\ displacing' = NULL
    /\ UNCHANGED <<setup, buf, lock, calls>>

Operation(c) == \E op \in Ops : PreLock(c, op) \/ PreLockFails(c, op)

Next ==
    \/ \E c \in Clients : Operation(c) \/ Use(c) \/ Unlock(c)
    \/ \E a \in Allocs : Destructor(a) \/ MuckOut(a)
    \/ GpuDone \/ DeallocateBuffers \/ Destroy \/ Displace \/ GiveUp

Spec == Init /\ [][Next]_vars

-----------------------------------------------------------------------------
(* buffer->written, from which others are updated, is an allocation of the *)
(* buffer that is up to date, and buffer->read is one of the buffer: the   *)
(* source of a transfer is never its target, outdated or freed memory,     *)
(* even after drivers have failed.                                         *)
WrittenIsUpToDate ==
    /\ buf.written # NULL => buf.written \in buf.current
    /\ buf.read # NULL => buf.read \in buf.allocs

(* Unless a driver failed or a copy was made while somebody was writing,   *)
(* an allocation whose serial is that of the buffer holds what was last    *)
(* written by anybody, through whatever pools it went.                     *)
UpToDateIsLatest ==
    buf.content = "known" => buf.current \subseteq buf.latest

(* With the same provisos what was written is never lost, by displacement, *)
(* volatile pools or thrifty buffers.                                      *)
ContentIsKept ==
    buf.content = "known" => buf.written # NULL /\ buf.written \in buf.latest

(* Memory stays allocated while it is locked, although its allocation may  *)
(* be zapped, displaced or deallocated with the surface at any time.       *)
LockedIsAllocated == \A c \in Clients : lock[c] # NULL => buf.pool[lock[c].alloc] # NULL

(* When PreLockBuffer() and its kin give the CPU a mapped allocation, the  *)
(* GPU has finished writing to it, and for write access reading from it,   *)
(* with any other locks on it.                                             *)
CpuWaitsForGpu ==
    \A c \in Clients :
        lock[c] = NULL /\ lock'[c] # NULL /\ lock'[c].accessor = "CPU" /\ lock'[c].mapped =>
            LET work == buf'.gpu[lock'[c].alloc]
            IN  "write" \notin work /\ ("write" \in lock'[c].access => work = {})

(* When they give it to the GPU, its texture cache has been flushed since  *)
(* the CPU last wrote there.                                               *)
GpuSeesCpuWrites ==
    \A c \in Clients :
        lock[c] = NULL /\ lock'[c] # NULL /\ lock'[c].accessor = "GPU" =>
            lock'[c].alloc \notin buf'.texture

(* An allocation that dfb_surface_allocation_decouple() deallocates has no *)
(* work left for the GPU.                                                  *)
FreesIdleMemory ==
    \A a \in buf.allocs : buf'.pool[a] = NULL => buf'.gpu[a] = {}

(* The pointers of the buffer and the locks lead to allocations that are   *)
(* up to date and to memory that is there.                                 *)
Consistent == TypeOK /\ WrittenIsUpToDate /\ LockedIsAllocated

(* Locks taken by manage_interlocks(), and the deallocation of allocations *)
(* of the buffer, wait for the other side.  Nothing is said of transfers,  *)
(* which wait for nobody, so that they copy what is not finished (content  *)
(* "spoiled"), and of memory that the destructor frees because it was      *)
(* locked when its allocation was decoupled: the GPU may still work on it. *)
LocksInterlock == [][CpuWaitsForGpu /\ GpuSeesCpuWrites /\ FreesIdleMemory]_vars
=============================================================================
