---------------------------- MODULE SurfaceProofs ----------------------------
(***************************************************************************)
(* Proofs about surfaces: the allocations of a buffer without the task     *)
(* manager, for any clients, pools, failures of drivers and displacements, *)
(* and at the end the lock tasks of clients with the task manager.         *)
(*                                                                         *)
(* An operation of SurfaceBuffer is composed of operators from buffers to  *)
(* buffers.  What each of them needs and keeps is proved first (Sound,     *)
(* Content); a step of the specification is then the composition of two to *)
(* four of them.                                                           *)
(***************************************************************************)
EXTENDS SurfaceBuffer, TLAPS

(* Memory of the buffer's allocations, and memory that is locked, is there. *)
Memory(b, l) ==
    /\ \A a \in b.allocs : b.pool[a] # NULL
    /\ \A c \in Clients : l[c] # NULL => b.pool[l[c].alloc] # NULL

Serials(b) ==
    /\ b.current \subseteq b.allocs /\ b.latest \subseteq b.allocs
    /\ b.written # NULL => b.written \in b.current
    /\ b.read # NULL => b.read \in b.allocs

(* Who holds a lock for writing is the only one that is up to date: a copy *)
(* made meanwhile spoils the content.                                      *)
Writers(b, l) ==
    \A c \in Clients :
        l[c] # NULL /\ "write" \in l[c].access /\ l[c].alloc \in b.allocs /\ b.content # "spoiled" =>
            b.current = {l[c].alloc} /\ b.written = l[c].alloc

(* Work of the GPU and data in CPU caches are announced by flags.          *)
Flags(b) ==
    \A a \in Allocs : b.pool[a] # NULL =>
        /\ "write" \in b.gpu[a] => "gpu_write" \in b.accessed[a]
        /\ "read" \in b.gpu[a] => "gpu_read" \in b.accessed[a]
        /\ a \in b.texture => "cpu" \in b.accessed[a]

(* A lock keeps the flags of its accesses.                                 *)
LockFlags(b, l) ==
    \A c \in Clients : l[c] # NULL =>
        /\ l[c].accessor = "GPU" => GpuFlags(l[c].access) \subseteq b.accessed[l[c].alloc]
        /\ l[c].accessor = "CPU" /\ l[c].mapped => "cpu" \in b.accessed[l[c].alloc]

Sound(b, l) ==
    /\ b \in Buffers /\ Ordered(b)
    /\ Memory(b, l) /\ Serials(b) /\ Writers(b, l) /\ Flags(b) /\ LockFlags(b, l)

(* What is current holds the content.                                      *)
Content(b) ==
    b.content = "known" => b.written # NULL /\ b.current \subseteq b.latest

(* The types of all variables but the buffer. *)
SetupOK ==
    /\ setup \in Setups /\ lock \in [Clients -> Locks \cup {NULL}]
    /\ displacing \in Allocs \cup {NULL} /\ calls \in 0..MaxCalls

(* What is being displaced stays in its pool, which has a backup. *)
Displacement ==
    displacing # NULL => buf.pool[displacing] # NULL /\ Backup[buf.pool[displacing]] # NULL

IInv == SetupOK /\ Sound(buf, lock) /\ Content(buf) /\ Displacement

(* What every step does. *)
Steps == CpuWaitsForGpu /\ GpuSeesCpuWrites /\ FreesIdleMemory

(* The GPU's work only gets less, and what is freed has none left. *)
Frees(b, d) ==
    \A a \in Allocs :
        /\ d.gpu[a] \subseteq b.gpu[a]
        /\ b.pool[a] # NULL /\ d.pool[a] = NULL => d.gpu[a] = {}

-----------------------------------------------------------------------------
LEMMA FirstIn ==
    ASSUME NEW b, Ordered(b), NEW s \in SUBSET b.allocs, s # {}
    PROVE  First(b, s) \in s /\ Latest(b, s) \in s
<1>1. \E x \in s : IsFirst(b, s, x)
  BY DEF Ordered
<1>2. \E x \in s : IsLast(b, s, x)
  BY DEF Ordered
<1>3. (CHOOSE x \in s : IsFirst(b, s, x)) \in s
  BY <1>1
<1>4. (CHOOSE x \in s : IsLast(b, s, x)) \in s
  BY <1>2
<1> QED BY <1>3, <1>4 DEF First, Latest

(* An order of allocations stays one when some of them are removed. *)
LEMMA RestrictOrder ==
    ASSUME NEW b, NEW d, Ordered(b), d.allocs \subseteq b.allocs,
           d.before = b.before \cap (d.allocs \X d.allocs)
    PROVE  Ordered(d)
<1>1. ASSUME NEW s \in SUBSET d.allocs, NEW x \in s
      PROVE  /\ IsFirst(b, s, x) => IsFirst(d, s, x)
             /\ IsLast(b, s, x) => IsLast(d, s, x)
  <2>1. \A y \in s : <<x, y>> \in d.allocs \X d.allocs /\ <<y, x>> \in d.allocs \X d.allocs
    OBVIOUS
  <2> QED BY <2>1 DEF IsFirst, IsLast
<1>2. ASSUME NEW s \in SUBSET d.allocs, s # {}
      PROVE  (\E x \in s : IsFirst(d, s, x)) /\ \E x \in s : IsLast(d, s, x)
  <2>1. s \in SUBSET b.allocs
    OBVIOUS
  <2>2. (\E x \in s : IsFirst(b, s, x)) /\ \E x \in s : IsLast(b, s, x)
    BY <1>2, <2>1 DEF Ordered
  <2> QED BY <1>1, <2>2
<1> QED BY <1>2 DEF Ordered

(* So it does when one is appended. *)
LEMMA AppendOrder ==
    ASSUME NEW b, NEW d, NEW a, Ordered(b), a \notin b.allocs,
           d.allocs = b.allocs \cup {a}, d.before = b.before \cup (b.allocs \X {a})
    PROVE  Ordered(d)
<1>1. d.before \subseteq d.allocs \X d.allocs
  BY DEF Ordered
<1>2. ASSUME NEW s \in SUBSET d.allocs, s # {}
      PROVE  \E x \in s : IsFirst(d, s, x)
  <2>1. CASE s = {a}
    BY <2>1 DEF IsFirst
  <2>2. CASE s # {a}
    <3>1. s \ {a} \in SUBSET b.allocs /\ s \ {a} # {}
      BY <1>2, <2>2
    <3>2. PICK x \in s \ {a} : IsFirst(b, s \ {a}, x)
      BY <3>1 DEF Ordered
    <3>3. \A y \in s \ {x} : <<x, y>> \in d.before
      <4> TAKE y \in s \ {x}
      <4>1. CASE y = a
        <5>1. <<x, a>> \in b.allocs \X {a}
          BY <3>1
        <5> QED BY <5>1, <4>1
      <4>2. CASE y # a
        BY <3>2, <4>2 DEF IsFirst
      <4> QED BY <4>1, <4>2
    <3> QED BY <3>3 DEF IsFirst
  <2> QED BY <2>1, <2>2
<1>3. ASSUME NEW s \in SUBSET d.allocs, s # {}
      PROVE  \E x \in s : IsLast(d, s, x)
  <2>1. CASE a \in s
    <3>1. \A y \in s \ {a} : <<y, a>> \in b.allocs \X {a}
      OBVIOUS
    <3> QED BY <2>1, <3>1 DEF IsLast
  <2>2. CASE a \notin s
    <3>1. s \in SUBSET b.allocs
      BY <2>2
    <3>2. PICK x \in s : IsLast(b, s, x)
      BY <1>3, <3>1 DEF Ordered
    <3> QED BY <3>2 DEF IsLast
  <2> QED BY <2>1, <2>2
<1> QED BY <1>1, <1>2, <1>3 DEF Ordered

-----------------------------------------------------------------------------
(* The GPU has ended its work: nothing else changes. *)
LEMMA IdleFields ==
    ASSUME NEW b \in Buffers, NEW d, d = GpuIdle(b)
    PROVE  /\ d \in Buffers
           /\ d.gpu = [a \in Allocs |-> {}]
           /\ d.pool = b.pool /\ d.accessed = b.accessed /\ d.texture = b.texture
           /\ d.allocs = b.allocs /\ d.before = b.before /\ d.current = b.current
           /\ d.latest = b.latest /\ d.written = b.written /\ d.read = b.read
           /\ d.destroyed = b.destroyed /\ d.content = b.content
  BY DEF Buffers, GpuIdle

(* What decoupling does to the fields of a buffer. *)
Decoupled(b, s, d) ==
    /\ d \in Buffers
    /\ d.allocs = b.allocs \ s /\ d.before = b.before \cap (d.allocs \X d.allocs)
    /\ \A a \in Allocs :
         /\ a \in s /\ ~ Locked(a) => d.pool[a] = NULL /\ d.accessed[a] = {} /\ a \notin d.texture
         /\ a \notin s \/ Locked(a) =>
              /\ d.pool[a] = b.pool[a] /\ d.accessed[a] = b.accessed[a]
              /\ a \in d.texture <=> a \in b.texture
         /\ d.gpu[a] \subseteq b.gpu[a]
         /\ /\ a \in s /\ ~ Locked(a)
            /\ "gpu_read" \in b.accessed[a] \/ "gpu_write" \in b.accessed[a]
            => d.gpu[a] = {}
    /\ d.current = b.current \ s /\ d.latest = b.latest \ s
    /\ d.read = IF b.read \in s THEN NULL ELSE b.read
    /\ d.written = IF b.written \in s THEN First(b, d.allocs \cap b.current) ELSE b.written
    /\ d.destroyed = b.destroyed /\ d.content = b.content

LEMMA DecoupleFields ==
    ASSUME NEW b \in Buffers, NEW s \in SUBSET Allocs, Ordered(b), NEW d, d = Decouple(b, s)
    PROVE  Decoupled(b, s, d)
<1> DEFINE freed == {a \in s : ~ Locked(a)}
           rest == b.allocs \ s
           flagged == \E a \in freed : b.accessed[a] \cap {"gpu_read", "gpu_write"} # {}
<1>1. First(b, rest \cap b.current) \in Allocs \cup {NULL}
  <2>1. CASE rest \cap b.current = {}
    BY <2>1 DEF First
  <2>2. CASE rest \cap b.current # {}
    <3>1. rest \cap b.current \in SUBSET b.allocs /\ b.allocs \subseteq Allocs
      BY DEF Buffers
    <3>2. First(b, rest \cap b.current) \in rest \cap b.current
      BY <2>2, <3>1, FirstIn
    <3> QED BY <3>1, <3>2
  <2> QED BY <2>1, <2>2
<1>2. DEFINE e == IF flagged THEN GpuIdle(b) ELSE b
             P == [a \in Allocs |-> IF a \in freed THEN NULL ELSE e.pool[a]]
             A == [a \in Allocs |-> IF a \in freed THEN {} ELSE e.accessed[a]]
             T == e.texture \ freed
             f == [e EXCEPT !.pool = P, !.accessed = A, !.texture = T]
             W == IF b.written \in s THEN First(b, rest \cap b.current) ELSE b.written
             R == IF b.read \in s THEN NULL ELSE b.read
<1>3. /\ e \in Buffers /\ e.gpu = IF flagged THEN [a \in Allocs |-> {}] ELSE b.gpu
      /\ e.pool = b.pool /\ e.accessed = b.accessed /\ e.texture = b.texture
      /\ e.allocs = b.allocs /\ e.before = b.before /\ e.current = b.current
      /\ e.latest = b.latest /\ e.written = b.written /\ e.read = b.read
      /\ e.destroyed = b.destroyed /\ e.content = b.content
  BY IdleFields
<1>4. Deallocate(b, s) = f
  BY DEF Deallocate
<1>5. /\ P \in [Allocs -> Pools \cup {NULL}] /\ T \in SUBSET Allocs
      /\ A \in [Allocs -> SUBSET {"cpu", "gpu_read", "gpu_write"}]
  BY <1>3 DEF Buffers
<1> HIDE DEF e, P, A, T, f
<1>6. /\ f \in Buffers /\ f.pool = P /\ f.accessed = A /\ f.texture = T
      /\ f.allocs = b.allocs /\ f.before = b.before /\ f.current = b.current
      /\ f.latest = b.latest /\ f.written = b.written /\ f.read = b.read
      /\ f.gpu = e.gpu /\ f.destroyed = b.destroyed /\ f.content = b.content
  <2>1. e \in Buffers
    BY <1>3
  <2>2. /\ f \in Buffers /\ f.pool = P /\ f.accessed = A /\ f.texture = T
        /\ f.allocs = e.allocs /\ f.before = e.before /\ f.current = e.current
        /\ f.latest = e.latest /\ f.written = e.written /\ f.read = e.read
        /\ f.gpu = e.gpu /\ f.destroyed = e.destroyed /\ f.content = e.content
    <3>1. f = [e EXCEPT !.pool = P, !.accessed = A, !.texture = T]
      BY DEF f, P, A, T
    <3> QED BY ONLY <2>1, <3>1, <1>5 DEF Buffers
  <2> QED BY <1>3, <2>2, Zenon
<1>7. d = [f EXCEPT !.allocs = rest, !.before = b.before \cap (rest \X rest),
                    !.current = b.current \ s, !.latest = b.latest \ s, !.read = R, !.written = W]
  BY <1>4, <1>6 DEF Decouple, NextWritten
<1>8. /\ rest \in SUBSET Allocs /\ b.before \cap (rest \X rest) \in SUBSET (Allocs \X Allocs)
      /\ b.current \ s \in SUBSET Allocs /\ b.latest \ s \in SUBSET Allocs
      /\ R \in Allocs \cup {NULL} /\ W \in Allocs \cup {NULL}
  BY <1>1 DEF Buffers
<1> HIDE DEF W, R, rest
<1>9. /\ d \in Buffers
      /\ d.allocs = rest /\ d.before = b.before \cap (rest \X rest)
      /\ d.current = b.current \ s /\ d.latest = b.latest \ s /\ d.read = R /\ d.written = W
      /\ d.pool = P /\ d.accessed = A /\ d.texture = T
      /\ d.gpu = e.gpu /\ d.destroyed = b.destroyed /\ d.content = b.content
  <2>1. f \in Buffers
    BY <1>6
  <2>2. /\ d \in Buffers
        /\ d.allocs = rest /\ d.before = b.before \cap (rest \X rest)
        /\ d.current = b.current \ s /\ d.latest = b.latest \ s /\ d.read = R /\ d.written = W
        /\ d.pool = f.pool /\ d.accessed = f.accessed /\ d.texture = f.texture
        /\ d.gpu = f.gpu /\ d.destroyed = f.destroyed /\ d.content = f.content
    BY ONLY <2>1, <1>7, <1>8 DEF Buffers
  <2> QED BY <1>6, <2>2, Zenon
<1>10. \A a \in Allocs :
        /\ a \in s /\ ~ Locked(a) => d.pool[a] = NULL /\ d.accessed[a] = {} /\ a \notin d.texture
        /\ a \notin s \/ Locked(a) =>
             /\ d.pool[a] = b.pool[a] /\ d.accessed[a] = b.accessed[a]
             /\ a \in d.texture <=> a \in b.texture
        /\ d.gpu[a] \subseteq b.gpu[a]
        /\ /\ a \in s /\ ~ Locked(a)
           /\ "gpu_read" \in b.accessed[a] \/ "gpu_write" \in b.accessed[a]
           => d.gpu[a] = {}
  BY <1>3, <1>9 DEF P, A, T
<1> QED BY <1>9, <1>10 DEF Decoupled, W, R, rest

LEMMA DecoupleSound ==
    ASSUME NEW b, NEW s \in SUBSET Allocs, Sound(b, lock), SetupOK, NEW d, d = Decouple(b, s)
    PROVE  Sound(d, lock) /\ Frees(b, d)
<1>1. b \in Buffers /\ Ordered(b) /\ b.allocs \in SUBSET Allocs
  BY DEF Sound, Buffers
<1>2. /\ d \in Buffers
      /\ d.allocs = b.allocs \ s /\ d.before = b.before \cap (d.allocs \X d.allocs)
      /\ \A a \in Allocs :
           /\ a \in s /\ ~ Locked(a) => d.pool[a] = NULL /\ d.accessed[a] = {} /\ a \notin d.texture
           /\ a \notin s \/ Locked(a) =>
                /\ d.pool[a] = b.pool[a] /\ d.accessed[a] = b.accessed[a]
                /\ a \in d.texture <=> a \in b.texture
           /\ d.gpu[a] \subseteq b.gpu[a]
           /\ /\ a \in s /\ ~ Locked(a)
              /\ "gpu_read" \in b.accessed[a] \/ "gpu_write" \in b.accessed[a]
              => d.gpu[a] = {}
      /\ d.current = b.current \ s /\ d.latest = b.latest \ s
      /\ d.read = IF b.read \in s THEN NULL ELSE b.read
      /\ d.written = IF b.written \in s THEN First(b, d.allocs \cap b.current) ELSE b.written
      /\ d.content = b.content
  BY <1>1, DecoupleFields DEF Decoupled
<1>6. d.allocs \cap b.current # {} => First(b, d.allocs \cap b.current) \in d.allocs \cap b.current
  BY <1>1, <1>2, FirstIn
<1>7. \A c \in Clients : lock[c] # NULL => lock[c].alloc \in Allocs /\ Locked(lock[c].alloc)
  BY DEF SetupOK, Locked, LockedBy, Locks
<1>8. Ordered(d)
  BY <1>1, <1>2, RestrictOrder
<1>9. Memory(d, lock)
  <2>1. \A a \in d.allocs : d.pool[a] # NULL
    BY <1>1, <1>2 DEF Sound, Memory
  <2>2. \A c \in Clients : lock[c] # NULL => d.pool[lock[c].alloc] # NULL
    BY <1>2, <1>7 DEF Sound, Memory
  <2> QED BY <2>1, <2>2 DEF Memory
<1>10. Serials(d)
  <2>1. First(b, {}) = NULL
    BY DEF First
  <2>2. Serials(b)
    BY DEF Sound
  <2>3. d.current \subseteq d.allocs /\ d.latest \subseteq d.allocs
    BY <1>2, <2>2 DEF Serials
  <2>4. d.read # NULL => d.read \in d.allocs
    BY <1>2, <2>2 DEF Serials
  <2>5. d.written # NULL => d.written \in d.current
    <3>1. CASE b.written \in s
      <4>1. d.written = First(b, d.allocs \cap b.current)
        BY <1>2, <3>1
      <4>2. d.allocs \cap b.current \subseteq d.current
        BY <1>2
      <4> QED BY <1>6, <2>1, <4>1, <4>2
    <3>2. CASE b.written \notin s
      BY <1>2, <2>2, <3>2 DEF Serials
    <3> QED BY <3>1, <3>2
  <2> QED BY <2>3, <2>4, <2>5 DEF Serials
<1>11. Writers(d, lock)
  <2> SUFFICES ASSUME NEW c \in Clients, lock[c] # NULL, "write" \in lock[c].access,
                      lock[c].alloc \in d.allocs, d.content # "spoiled"
               PROVE  d.current = {lock[c].alloc} /\ d.written = lock[c].alloc
    BY DEF Writers
  <2>1. lock[c].alloc \in b.allocs /\ lock[c].alloc \notin s
    BY <1>2
  <2>2. b.current = {lock[c].alloc} /\ b.written = lock[c].alloc
    BY <1>2, <2>1 DEF Sound, Writers
  <2> QED BY <1>2, <2>1, <2>2
<1>12. Flags(d)
  BY <1>2 DEF Sound, Flags
<1>13. LockFlags(d, lock)
  <2> SUFFICES ASSUME NEW c \in Clients, lock[c] # NULL
               PROVE  d.accessed[lock[c].alloc] = b.accessed[lock[c].alloc]
    BY DEF Sound, LockFlags
  <2> QED BY <1>2, <1>7
<1>14. Frees(b, d)
  <2> SUFFICES ASSUME NEW a \in Allocs, b.pool[a] # NULL, d.pool[a] = NULL
               PROVE  d.gpu[a] = {}
    BY <1>2 DEF Frees
  <2>1. a \in s /\ ~ Locked(a)
    BY <1>2
  <2>2. b.gpu[a] \subseteq {"read", "write"}
    BY <1>1 DEF Buffers
  <2>3. b.gpu[a] = {} \/ "gpu_read" \in b.accessed[a] \/ "gpu_write" \in b.accessed[a]
    BY <2>2 DEF Sound, Flags
  <2> QED BY <1>2, <2>1, <2>3
<1>15. Sound(d, lock)
  BY <1>2, <1>8, <1>9, <1>10, <1>11, <1>12, <1>13 DEF Sound
<1> QED BY <1>14, <1>15

LEMMA DecoupleContent ==
    ASSUME NEW b, NEW s \in SUBSET Allocs, Sound(b, lock), Content(b),
           b.content = "known" => b.current \ s # {}, NEW d, d = Decouple(b, s)
    PROVE  Content(d)
<1>1. b \in Buffers /\ Ordered(b) /\ b.allocs \in SUBSET Allocs /\ b.current \subseteq b.allocs
  BY DEF Sound, Buffers, Serials
<1>2. /\ d.allocs = b.allocs \ s /\ d.current = b.current \ s /\ d.latest = b.latest \ s
      /\ d.written = IF b.written \in s THEN First(b, d.allocs \cap b.current) ELSE b.written
      /\ d.content = b.content
  BY <1>1, DecoupleFields DEF Decoupled
<1>3. d.allocs \cap b.current # {} => First(b, d.allocs \cap b.current) \in d.allocs \cap b.current
  BY <1>1, <1>2, FirstIn
<1>4. NULL \notin Allocs
  BY NullAssumption
<1>5. ASSUME b.content = "known"
      PROVE  d.written # NULL /\ d.current \subseteq d.latest
  <2>1. b.written # NULL /\ b.current \subseteq b.latest
    BY <1>5 DEF Content
  <2>2. d.allocs \cap b.current # {}
    BY <1>1, <1>2, <1>5
  <2>3. First(b, d.allocs \cap b.current) # NULL
    BY <1>1, <1>3, <1>4, <2>2
  <2> QED BY <1>2, <2>1, <2>3
<1> QED BY <1>2, <1>5 DEF Content

LEMMA AllocateFields ==
    ASSUME NEW b \in Buffers, NEW a \in Allocs, NEW p \in Pools, NEW d, d = Allocate(b, a, p)
    PROVE  /\ d \in Buffers
           /\ d.allocs = b.allocs \cup {a} /\ d.before = b.before \cup (b.allocs \X {a})
           /\ d.pool[a] = p /\ d.accessed[a] = {"cpu"} /\ d.gpu[a] = {}
           /\ \A x \in Allocs : x # a =>
                /\ d.pool[x] = b.pool[x] /\ d.accessed[x] = b.accessed[x] /\ d.gpu[x] = b.gpu[x]
                /\ x \in d.texture <=> x \in b.texture
           /\ d.current = b.current /\ d.latest = b.latest
           /\ d.read = b.read /\ d.written = b.written
           /\ d.destroyed = b.destroyed /\ d.content = b.content
<1> DEFINE A == b.allocs \cup {a}
           O == b.before \cup (b.allocs \X {a})
           P == [b.pool EXCEPT ![a] = p]
           F == [b.accessed EXCEPT ![a] = {"cpu"}]
           G == [b.gpu EXCEPT ![a] = {}]
           T == b.texture \cup {a}
<1>1. d = [b EXCEPT !.allocs = A, !.before = O, !.pool = P, !.accessed = F, !.gpu = G, !.texture = T]
  BY DEF Allocate
<1>2. /\ A \in SUBSET Allocs /\ O \in SUBSET (Allocs \X Allocs) /\ T \in SUBSET Allocs
      /\ P \in [Allocs -> Pools \cup {NULL}] /\ G \in [Allocs -> SUBSET {"read", "write"}]
      /\ F \in [Allocs -> SUBSET {"cpu", "gpu_read", "gpu_write"}]
  BY DEF Buffers
<1>3. /\ P[a] = p /\ F[a] = {"cpu"} /\ G[a] = {}
      /\ \A x \in Allocs : x # a =>
           /\ P[x] = b.pool[x] /\ F[x] = b.accessed[x] /\ G[x] = b.gpu[x]
           /\ x \in T <=> x \in b.texture
  BY DEF Buffers
<1> HIDE DEF A, O, P, F, G, T
<1>4. /\ d \in Buffers /\ d.allocs = A /\ d.before = O /\ d.pool = P /\ d.accessed = F
      /\ d.gpu = G /\ d.texture = T /\ d.current = b.current /\ d.latest = b.latest
      /\ d.read = b.read /\ d.written = b.written
      /\ d.destroyed = b.destroyed /\ d.content = b.content
  BY ONLY <1>1, <1>2, b \in Buffers DEF Buffers
<1> QED BY <1>3, <1>4 DEF A, O

LEMMA AllocateSound ==
    ASSUME NEW b, Sound(b, lock), SetupOK, NEW a \in Allocs, b.pool[a] = NULL,
           NEW p \in Pools, NEW d, d = Allocate(b, a, p)
    PROVE  /\ Sound(d, lock) /\ Frees(b, d)
           /\ Content(b) => Content(d)
           /\ a \in d.allocs /\ a \notin d.current
<1>1. b \in Buffers /\ Ordered(b) /\ a \notin b.allocs
  BY DEF Sound, Memory
<1>2. /\ d \in Buffers
      /\ d.allocs = b.allocs \cup {a} /\ d.before = b.before \cup (b.allocs \X {a})
      /\ d.pool[a] = p /\ d.accessed[a] = {"cpu"} /\ d.gpu[a] = {}
      /\ \A x \in Allocs : x # a =>
           /\ d.pool[x] = b.pool[x] /\ d.accessed[x] = b.accessed[x] /\ d.gpu[x] = b.gpu[x]
           /\ x \in d.texture <=> x \in b.texture
      /\ d.current = b.current /\ d.latest = b.latest
      /\ d.read = b.read /\ d.written = b.written
      /\ d.destroyed = b.destroyed /\ d.content = b.content
  BY ONLY <1>1, a \in Allocs, p \in Pools, d = Allocate(b, a, p), AllocateFields
<1>3. \A c \in Clients : lock[c] # NULL => lock[c].alloc \in Allocs /\ lock[c].alloc # a
  BY DEF SetupOK, Sound, Memory, Locks
<1>4. p # NULL
  BY NullAssumption
<1>5. Ordered(d)
  BY <1>1, <1>2, AppendOrder
<1>6. Memory(d, lock)
  <2>1. \A x \in d.allocs : d.pool[x] # NULL
    BY <1>1, <1>2, <1>4 DEF Sound, Memory, Buffers
  <2>2. \A c \in Clients : lock[c] # NULL => d.pool[lock[c].alloc] # NULL
    BY <1>2, <1>3 DEF Sound, Memory
  <2> QED BY <2>1, <2>2 DEF Memory
<1>7. Serials(d) /\ Writers(d, lock)
  BY <1>2, <1>3 DEF Sound, Serials, Writers
<1>8. Flags(d)
  <2> SUFFICES ASSUME NEW x \in Allocs, d.pool[x] # NULL
               PROVE  /\ "write" \in d.gpu[x] => "gpu_write" \in d.accessed[x]
                      /\ "read" \in d.gpu[x] => "gpu_read" \in d.accessed[x]
                      /\ x \in d.texture => "cpu" \in d.accessed[x]
    BY DEF Flags
  <2>1. CASE x = a
    BY <1>2, <2>1
  <2>2. CASE x # a
    BY <1>2, <2>2 DEF Sound, Flags
  <2> QED BY <2>1, <2>2
<1>9. LockFlags(d, lock)
  <2> SUFFICES ASSUME NEW c \in Clients, lock[c] # NULL
               PROVE  d.accessed[lock[c].alloc] = b.accessed[lock[c].alloc]
    BY DEF Sound, LockFlags
  <2> QED BY <1>2, <1>3
<1>10. Frees(b, d)
  BY <1>1, <1>2, <1>4 DEF Frees
<1>11. Sound(d, lock)
  BY <1>2, <1>5, <1>6, <1>7, <1>8, <1>9 DEF Sound
<1>12. a \in d.allocs /\ a \notin d.current
  BY <1>1, <1>2 DEF Sound, Serials
<1> QED BY <1>2, <1>10, <1>11, <1>12 DEF Content

(* Serials that are updated although nothing was copied, or nothing for a  *)
(* transfer that failed: nobody relies on spoiled content.                 *)
SpoiledWith(b, s) == [Spoiled(b) EXCEPT !.current = @ \cup s]

SpoilsWith(b, s, d) ==
    /\ Sound(d, lock) /\ Frees(b, d) /\ Content(d)
    /\ d.allocs = b.allocs /\ d.before = b.before /\ d.pool = b.pool
    /\ d.current = b.current \cup s /\ d.content = "spoiled"

LEMMA SpoiledSound ==
    ASSUME NEW b, Sound(b, lock), NEW s \in SUBSET b.allocs, NEW d, d = SpoiledWith(b, s)
    PROVE  SpoilsWith(b, s, d)
<1>1. b \in Buffers /\ b.current \subseteq Allocs /\ s \subseteq Allocs
  BY DEF Sound, Buffers
<1> DEFINE C == b.current \cup s
<1>2. d = [b EXCEPT !.content = "spoiled", !.latest = {}, !.current = C] /\ C \in SUBSET Allocs
  BY <1>1 DEF Spoiled, SpoiledWith, Buffers
<1> HIDE DEF C
<1>3. /\ d \in Buffers /\ d.allocs = b.allocs /\ d.before = b.before /\ d.pool = b.pool
      /\ d.accessed = b.accessed /\ d.gpu = b.gpu /\ d.texture = b.texture
      /\ d.current = C /\ d.latest = {} /\ d.read = b.read /\ d.written = b.written
      /\ d.content = "spoiled"
  BY ONLY <1>1, <1>2 DEF Buffers
<1>4. Ordered(d)
  BY <1>3 DEF Sound, Ordered, IsFirst, IsLast
<1>5. Serials(d)
  BY <1>3 DEF Sound, Serials, C
<1>6. Memory(d, lock) /\ Writers(d, lock) /\ Flags(d) /\ LockFlags(d, lock)
  BY <1>3 DEF Sound, Memory, Writers, Flags, LockFlags
<1>7. Frees(b, d) /\ Content(d)
  BY <1>3 DEF Frees, Content
<1> QED BY <1>3, <1>4, <1>5, <1>6, <1>7 DEF SpoilsWith, Sound, C

(* What a transfer from src to a does to the fields of a buffer. *)
Transferred(b, a, src, d) ==
    /\ d \in Buffers
    /\ d.allocs = b.allocs /\ d.before = b.before /\ d.pool = b.pool /\ d.gpu = b.gpu
    /\ d.read = b.read /\ d.written = b.written /\ d.destroyed = b.destroyed
    /\ d.current = b.current \cup {a}
    /\ \A x \in Allocs :
         /\ b.accessed[x] \subseteq d.accessed[x]
         /\ x \in d.texture => x \in b.texture \/ "cpu" \in d.accessed[x]
    /\ BeingWritten(b, src) => d.content = "spoiled"
    /\ ~ BeingWritten(b, src) => d.content = b.content
    /\ ~ BeingWritten(b, src) /\ src \in b.latest => d.latest = b.latest \cup {a}
    /\ d.latest \subseteq b.latest \cup {a}

LEMMA TransferFields ==
    ASSUME NEW b \in Buffers, NEW a \in Allocs, NEW src \in Allocs, NEW d, d = Transfer(b, a, src)
    PROVE  Transferred(b, a, src, d)
<1> DEFINE X == CopiedBy(b, a, src)
           A == [x \in Allocs |-> IF x \in X THEN b.accessed[x] \cup {"cpu"} ELSE b.accessed[x]]
           T == IF a \in X THEN b.texture \cup {a} ELSE b.texture
           C == b.current \cup {a}
           L == IF src \in b.latest THEN b.latest \cup {a} ELSE b.latest \ {a}
<1>1. /\ A \in [Allocs -> SUBSET {"cpu", "gpu_read", "gpu_write"}] /\ T \in SUBSET Allocs
      /\ C \in SUBSET Allocs /\ L \in SUBSET Allocs
  BY DEF Buffers
<1>2. \A x \in Allocs :
        /\ b.accessed[x] \subseteq A[x]
        /\ x \in T => x \in b.texture \/ "cpu" \in A[x]
  OBVIOUS
<1>3. CASE BeingWritten(b, src)
  <2>1. Spoiled(b) \in Buffers
    BY DEF Spoiled, Buffers
  <2>2. d = [b EXCEPT !.content = "spoiled", !.current = C, !.latest = {}, !.accessed = A, !.texture = T]
    <3>1. /\ Spoiled(b).current = b.current /\ Spoiled(b).accessed = b.accessed
          /\ Spoiled(b).texture = b.texture /\ Spoiled(b).latest = {}
      BY DEF Spoiled, Buffers
    <3>2. d = [Spoiled(b) EXCEPT !.current = C, !.latest = {} , !.accessed = A, !.texture = T]
      BY <1>3, <3>1 DEF Transfer
    <3> HIDE DEF A, T, C
    <3> QED BY <3>2 DEF Spoiled
  <2> HIDE DEF A, T, C, L
  <2>3. /\ d \in Buffers /\ d.allocs = b.allocs /\ d.before = b.before /\ d.pool = b.pool
        /\ d.gpu = b.gpu /\ d.read = b.read /\ d.written = b.written /\ d.destroyed = b.destroyed
        /\ d.current = C /\ d.accessed = A /\ d.texture = T /\ d.content = "spoiled" /\ d.latest = {}
    BY ONLY <1>1, <2>2, b \in Buffers DEF Buffers
  <2> QED BY <1>2, <1>3, <2>3 DEF Transferred, C
<1>4. CASE ~ BeingWritten(b, src)
  <2>1. d = [b EXCEPT !.current = C, !.latest = L, !.accessed = A, !.texture = T]
    BY <1>4 DEF Transfer
  <2> HIDE DEF A, T, C, L
  <2>2. /\ d \in Buffers /\ d.allocs = b.allocs /\ d.before = b.before /\ d.pool = b.pool
        /\ d.gpu = b.gpu /\ d.read = b.read /\ d.written = b.written /\ d.destroyed = b.destroyed
        /\ d.current = C /\ d.accessed = A /\ d.texture = T /\ d.content = b.content /\ d.latest = L
    BY ONLY <1>1, <2>1, b \in Buffers DEF Buffers
  <2> QED BY <1>2, <1>4, <2>2 DEF Transferred, C, L
<1> QED BY <1>3, <1>4

LEMMA SynchronizeSound ==
    ASSUME NEW b, Sound(b, lock), SetupOK, NEW a \in b.allocs, NEW d, d = Synchronize(b, a)
    PROVE  /\ Sound(d, lock) /\ Frees(b, d)
           /\ Content(b) => Content(d)
           /\ d.allocs = b.allocs /\ d.pool = b.pool /\ a \in d.current
<1>1. /\ b \in Buffers /\ a \in Allocs /\ NULL \notin Allocs
      /\ b.current \subseteq b.allocs /\ b.allocs \subseteq Allocs /\ b.latest \subseteq b.allocs
  BY NullAssumption DEF Sound, Buffers, Serials
<1>2. \A c \in Clients : lock[c] # NULL => lock[c].alloc \in Allocs
  BY DEF SetupOK, Locks
<1>3. CASE a \in b.current \/ b.written = NULL
  <2> DEFINE C == b.current \cup {a}
  <2>1. d = [b EXCEPT !.current = C] /\ C \in SUBSET Allocs
    BY <1>1, <1>3 DEF Synchronize
  <2> HIDE DEF C
  <2>2. /\ d \in Buffers /\ d.allocs = b.allocs /\ d.before = b.before /\ d.pool = b.pool
        /\ d.accessed = b.accessed /\ d.gpu = b.gpu /\ d.texture = b.texture
        /\ d.current = C /\ d.latest = b.latest /\ d.read = b.read /\ d.written = b.written
        /\ d.content = b.content
    BY ONLY <1>1, <2>1 DEF Buffers
  <2>3. Ordered(d)
    BY <2>2 DEF Sound, Ordered, IsFirst, IsLast
  <2>4. Serials(d)
    BY <2>2 DEF Sound, Serials, C
  <2>5. Writers(d, lock)
    BY <1>1, <1>2, <1>3, <2>2 DEF Sound, Writers, C
  <2>6. Memory(d, lock) /\ Flags(d) /\ LockFlags(d, lock)
    BY <2>2 DEF Sound, Memory, Flags, LockFlags
  <2>7. Content(b) => Content(d)
    BY <1>3, <2>2 DEF Content, C
  <2>8. Frees(b, d)
    BY <2>2 DEF Frees
  <2> QED BY <2>2, <2>3, <2>4, <2>5, <2>6, <2>7, <2>8 DEF Sound, C
<1>4. CASE a \notin b.current /\ b.written # NULL
  <2> DEFINE src == b.written
  <2>1. d = Transfer(b, a, src) /\ src \in Allocs /\ src \in b.current
    BY <1>1, <1>4 DEF Synchronize, Sound, Serials
  <2> HIDE DEF src
  <2>2. Transferred(b, a, src, d)
    BY <1>1, <2>1, TransferFields
  <2>3. Ordered(d)
    BY <2>2 DEF Transferred, Sound, Ordered, IsFirst, IsLast
  <2>4. Serials(d)
    BY <1>1, <2>2 DEF Transferred, Sound, Serials
  <2>5. Writers(d, lock)
    <3> SUFFICES ASSUME NEW c \in Clients, lock[c] # NULL, "write" \in lock[c].access,
                        lock[c].alloc \in b.allocs, ~ BeingWritten(b, src), b.content # "spoiled"
                 PROVE  FALSE
      BY <2>2 DEF Transferred, Writers
    <3>1. lock[c].alloc = src
      BY DEF Sound, Writers, src
    <3> QED BY <3>1 DEF BeingWritten, LockedBy
  <2>6. Memory(d, lock)
    BY <2>2 DEF Transferred, Sound, Memory
  <2>7. Flags(d)
    BY <2>2 DEF Transferred, Sound, Flags
  <2>8. LockFlags(d, lock)
    BY <1>2, <2>2 DEF Transferred, Sound, LockFlags
  <2>9. ASSUME Content(b), d.content = "known" PROVE d.written # NULL /\ d.current \subseteq d.latest
    <3>1. ~ BeingWritten(b, src) /\ b.content = "known"
      BY <2>2, <2>9 DEF Transferred
    <3>2. b.current \subseteq b.latest
      BY <2>9, <3>1 DEF Content
    <3> QED BY <1>4, <2>1, <2>2, <3>1, <3>2 DEF Transferred
  <2>10. Frees(b, d)
    BY <2>2 DEF Transferred, Frees
  <2> QED BY <2>2, <2>3, <2>4, <2>5, <2>6, <2>7, <2>8, <2>9, <2>10 DEF Transferred, Sound, Content
<1> QED BY <1>3, <1>4

LEMMA FreesTransitive ==
    ASSUME NEW b, NEW d, NEW e, Frees(b, d), Frees(d, e)
    PROVE  Frees(b, e)
<1> SUFFICES ASSUME NEW a \in Allocs
             PROVE  /\ e.gpu[a] \subseteq b.gpu[a]
                    /\ b.pool[a] # NULL /\ e.pool[a] = NULL => e.gpu[a] = {}
  BY DEF Frees
<1>1. d.gpu[a] \subseteq b.gpu[a] /\ e.gpu[a] \subseteq d.gpu[a]
  BY DEF Frees
<1>2. CASE d.pool[a] = NULL
  BY <1>1, <1>2 DEF Frees
<1>3. CASE d.pool[a] # NULL
  BY <1>1, <1>3 DEF Frees
<1> QED BY <1>2, <1>3

(* A buffer whose pointers are set to a. *)
Point(b, a, C, R) == [b EXCEPT !.current = C, !.written = a, !.read = R]

Pointed(b, a, C, e) ==
    /\ Sound(e, lock) /\ Frees(b, e)
    /\ Content(b) => Content(e)
    /\ e.allocs = b.allocs /\ e.pool = b.pool /\ e.current = C /\ e.written = a

(* Whoever is up to date may become the last one written: if somebody else  *)
(* is writing nobody else is up to date.                                    *)
LEMMA PointersSound ==
    ASSUME NEW b, Sound(b, lock), SetupOK, NEW a \in b.current, NEW C \in {b.current, {a}},
           NEW R \in {a, NULL}, NEW e, e = Point(b, a, C, R)
    PROVE  Pointed(b, a, C, e)
<1>1. /\ b \in Buffers /\ a \in Allocs /\ a \in b.allocs /\ NULL \notin Allocs
      /\ C \in SUBSET Allocs /\ C \subseteq b.current /\ a \in C /\ R \in Allocs \cup {NULL}
  BY NullAssumption DEF Sound, Buffers, Serials
<1>2. e = [b EXCEPT !.current = C, !.written = a, !.read = R]
  BY DEF Point
<1>3. /\ e \in Buffers /\ e.allocs = b.allocs /\ e.before = b.before /\ e.pool = b.pool
      /\ e.accessed = b.accessed /\ e.gpu = b.gpu /\ e.texture = b.texture
      /\ e.current = C /\ e.latest = b.latest /\ e.read = R /\ e.written = a
      /\ e.content = b.content
  BY ONLY <1>1, <1>2 DEF Buffers
<1>4. Ordered(e)
  BY <1>3 DEF Sound, Ordered, IsFirst, IsLast
<1>5. Serials(e)
  BY <1>1, <1>3 DEF Sound, Serials
<1>6. Writers(e, lock)
  <2> SUFFICES ASSUME NEW c \in Clients, lock[c] # NULL, "write" \in lock[c].access,
                      lock[c].alloc \in b.allocs, b.content # "spoiled"
               PROVE  C = {lock[c].alloc} /\ a = lock[c].alloc
    BY <1>3 DEF Writers
  <2>1. b.current = {lock[c].alloc}
    BY DEF Sound, Writers
  <2> QED BY <1>1, <2>1
<1>7. Memory(e, lock) /\ Flags(e) /\ LockFlags(e, lock)
  BY <1>3 DEF Sound, Memory, Flags, LockFlags
<1>8. Content(b) => Content(e)
  BY <1>1, <1>3 DEF Content
<1>9. Frees(b, e)
  BY <1>3 DEF Frees
<1> QED BY <1>3, <1>4, <1>5, <1>6, <1>7, <1>8, <1>9 DEF Sound, Pointed

(* What an update of a leaves: a is allocated as before and up to date, and *)
(* the only one that is if it is going to be written.                       *)
Updated(b, a, access, d) ==
    /\ Sound(d, lock) /\ Frees(b, d)
    /\ Content(b) => Content(d)
    /\ a \in d.allocs /\ a \in d.current /\ d.pool[a] = b.pool[a]
    /\ "write" \in access => d.current = {a} /\ d.written = a

LEMMA MarkWrittenUpdates ==
    ASSUME NEW b, Sound(b, lock), SetupOK, NEW a \in b.current, NEW access, NEW d, d = MarkWritten(b, a)
    PROVE  Updated(b, a, access, d)
<1> DEFINE e == [b EXCEPT !.current = {a}, !.written = a, !.read = NULL]
           V == Volatiles(b, a)
<1>1. /\ b \in Buffers /\ a \in b.allocs /\ b.allocs \subseteq Allocs /\ NULL \notin Allocs
  BY NullAssumption DEF Sound, Buffers, Serials
<1>2. V \in SUBSET Allocs /\ a \notin V
  BY <1>1 DEF Volatiles
<1>3. d = Decouple(e, V)
  BY DEF MarkWritten
<1> HIDE DEF e, V
<1>4. /\ Sound(e, lock) /\ Frees(b, e)
      /\ Content(b) => Content(e)
      /\ e.allocs = b.allocs /\ e.pool = b.pool /\ e.current = {a} /\ e.written = a
  <2>1. e = Point(b, a, {a}, NULL)
    BY DEF e, Point
  <2>2. {a} \in {b.current, {a}} /\ NULL \in {a, NULL}
    OBVIOUS
  <2> QED BY <2>1, <2>2, PointersSound DEF Pointed
<1>5. Sound(d, lock) /\ Frees(e, d)
  BY <1>2, <1>3, <1>4, DecoupleSound
<1>6. Content(e) => Content(d)
  BY <1>2, <1>3, <1>4, DecoupleContent
<1>7. /\ d.allocs = e.allocs \ V /\ d.current = e.current \ V /\ d.pool[a] = e.pool[a]
      /\ d.written = e.written
  <2>1. e \in Buffers /\ Ordered(e) /\ a \in Allocs
    BY <1>1, <1>4 DEF Sound
  <2>2. /\ d.allocs = e.allocs \ V /\ d.current = e.current \ V
        /\ \A x \in Allocs : x \notin V => d.pool[x] = e.pool[x]
        /\ d.written = IF e.written \in V THEN First(e, d.allocs \cap e.current) ELSE e.written
    BY <1>2, <1>3, <2>1, DecoupleFields DEF Decoupled
  <2> QED BY <1>2, <1>4, <2>1, <2>2
<1>8. Frees(b, d)
  BY <1>4, <1>5, FreesTransitive
<1> QED BY <1>1, <1>2, <1>4, <1>5, <1>6, <1>7, <1>8 DEF Updated

LEMMA ZapUpdates ==
    ASSUME NEW b, Sound(b, lock), SetupOK, NEW a \in b.current, NEW access,
           "write" \in access => b.current = {a}, NEW d, d = Zap(b, a)
    PROVE  Updated(b, a, access, d)
<1> DEFINE e == [b EXCEPT !.written = a, !.read = a]
           V == b.allocs \ {a, displacing}
<1>1. /\ b \in Buffers /\ a \in b.allocs /\ b.allocs \subseteq Allocs /\ NULL \notin Allocs
  BY NullAssumption DEF Sound, Buffers, Serials
<1>2. V \in SUBSET Allocs /\ a \notin V
  BY <1>1
<1>3. d = Decouple(e, V)
  BY DEF Zap
<1> HIDE DEF e, V
<1>4. /\ Sound(e, lock) /\ Frees(b, e)
      /\ Content(b) => Content(e)
      /\ e.allocs = b.allocs /\ e.pool = b.pool /\ e.current = b.current /\ e.written = a
  <2>1. e = Point(b, a, b.current, a)
    <3>1. e = [b EXCEPT !.current = b.current, !.written = a, !.read = a]
      BY <1>1 DEF e, Buffers
    <3> QED BY <3>1 DEF Point
  <2>2. b.current \in {b.current, {a}} /\ a \in {a, NULL}
    OBVIOUS
  <2>3. Pointed(b, a, b.current, e)
    BY <2>1, <2>2, PointersSound
  <2> QED BY <2>3 DEF Pointed
<1>5. Sound(d, lock) /\ Frees(e, d)
  BY <1>2, <1>3, <1>4, DecoupleSound
<1>6. Content(e) => Content(d)
  BY <1>2, <1>3, <1>4, DecoupleContent
<1>7. /\ d.allocs = e.allocs \ V /\ d.current = e.current \ V /\ d.pool[a] = e.pool[a]
      /\ d.written = e.written
  <2>1. e \in Buffers /\ Ordered(e) /\ a \in Allocs
    BY <1>1, <1>4 DEF Sound
  <2>2. /\ d.allocs = e.allocs \ V /\ d.current = e.current \ V
        /\ \A x \in Allocs : x \notin V => d.pool[x] = e.pool[x]
        /\ d.written = IF e.written \in V THEN First(e, d.allocs \cap e.current) ELSE e.written
    BY <1>2, <1>3, <2>1, DecoupleFields DEF Decoupled
  <2> QED BY <1>2, <1>4, <2>1, <2>2
<1>8. Frees(b, d)
  BY <1>4, <1>5, FreesTransitive
<1> QED BY <1>1, <1>2, <1>4, <1>5, <1>6, <1>7, <1>8 DEF Updated

(* dfb_surface_allocation_update() *)
LEMMA UpdateUpdates ==
    ASSUME NEW b, Sound(b, lock), SetupOK, NEW a \in b.allocs, NEW access, NEW d, d = Update(b, a, access)
    PROVE  Updated(b, a, access, d)
<1> DEFINE b1 == Synchronize(b, a)
           b2 == IF "write" \in access THEN MarkWritten(b1, a) ELSE [b1 EXCEPT !.read = a]
<1>1. /\ Sound(b1, lock) /\ Frees(b, b1)
      /\ Content(b) => Content(b1)
      /\ b1.allocs = b.allocs /\ b1.pool = b.pool /\ a \in b1.current
  BY SynchronizeSound
<1>2. d = IF setup.thrifty THEN Zap(b2, a) ELSE b2
  BY DEF Update
<1> HIDE DEF b1
<1>3. Updated(b1, a, access, b2)
  <2>1. CASE "write" \in access
    <3>1. b2 = MarkWritten(b1, a)
      BY <2>1
    <3> HIDE DEF b2
    <3> QED BY <1>1, <3>1, MarkWrittenUpdates
  <2>2. CASE "write" \notin access
    <3>1. b2 = [b1 EXCEPT !.read = a]
      BY <2>2
    <3>2. b1 \in Buffers /\ a \in Allocs
      BY <1>1 DEF Sound, Buffers
    <3> HIDE DEF b2
    <3>3. /\ b2 \in Buffers /\ b2.allocs = b1.allocs /\ b2.before = b1.before /\ b2.pool = b1.pool
          /\ b2.accessed = b1.accessed /\ b2.gpu = b1.gpu /\ b2.texture = b1.texture
          /\ b2.current = b1.current /\ b2.latest = b1.latest /\ b2.read = a
          /\ b2.written = b1.written /\ b2.content = b1.content
      BY ONLY <3>1, <3>2 DEF Buffers
    <3>4. Ordered(b2)
      BY <1>1, <3>3 DEF Sound, Ordered, IsFirst, IsLast
    <3>5. Serials(b2)
      BY <1>1, <3>3 DEF Sound, Serials
    <3>6. Memory(b2, lock) /\ Writers(b2, lock) /\ Flags(b2) /\ LockFlags(b2, lock)
      BY <1>1, <3>3 DEF Sound, Memory, Writers, Flags, LockFlags
    <3>7. Frees(b1, b2)
      BY <3>3 DEF Frees
    <3>8. Content(b1) => Content(b2)
      BY <3>3 DEF Content
    <3>9. Sound(b2, lock)
      BY <3>3, <3>4, <3>5, <3>6 DEF Sound
    <3> QED BY <1>1, <2>2, <3>3, <3>7, <3>8, <3>9 DEF Updated
  <2> QED BY <2>1, <2>2
<1> HIDE DEF b2
<1>4. Updated(b1, a, access, d)
  <2>1. CASE setup.thrifty
    <3>1. /\ Sound(b2, lock) /\ a \in b2.current /\ Frees(b1, b2) /\ b2.pool[a] = b1.pool[a]
          /\ "write" \in access => b2.current = {a}
      BY <1>3 DEF Updated
    <3>2. Updated(b2, a, access, d)
      BY <1>2, <2>1, <3>1, ZapUpdates
    <3>3. Frees(b1, d)
      BY <3>1, <3>2, FreesTransitive DEF Updated
    <3> QED BY <1>3, <3>1, <3>2, <3>3 DEF Updated
  <2>2. CASE ~ setup.thrifty
    BY <1>2, <1>3, <2>2
  <2> QED BY <2>1, <2>2
<1>5. Frees(b, d)
  BY <1>1, <1>4, FreesTransitive DEF Updated
<1> QED BY <1>1, <1>4, <1>5 DEF Updated

-----------------------------------------------------------------------------
(* What is found is an allocation of the buffer. *)
LEMMA ChoiceIn ==
    ASSUME NEW b, Sound(b, lock), NEW op
    PROVE  Choice(b, op) \in b.allocs \cup {NULL}
<1>1. /\ Ordered(b) /\ b.current \subseteq b.allocs
  BY DEF Sound, Serials
<1>2. ASSUME NEW s \in SUBSET b.allocs
      PROVE  First(b, s) \in b.allocs \cup {NULL} /\ Latest(b, s) \in b.allocs \cup {NULL}
  <2>1. CASE s = {}
    BY <2>1 DEF First, Latest
  <2>2. CASE s # {}
    BY <1>1, <2>2, FirstIn
  <2> QED BY <2>1, <2>2
<1>3. Find(b, op.accessor, op.access, op.how = "lock") \in b.allocs \cup {NULL}
  <2> DEFINE usable == {x \in b.allocs : CanDo(b, x, op.accessor, op.access)}
  <2>1. usable \in SUBSET b.allocs /\ usable \cap b.current \in SUBSET b.allocs
        /\ b.current \in SUBSET b.allocs
    BY <1>1
  <2>2. Find(b, op.accessor, op.access, op.how = "lock") =
          IF usable \cap b.current # {} THEN First(b, usable \cap b.current)
          ELSE IF b.current # {} /\ ~ (op.how = "lock") THEN Latest(b, b.current) ELSE Latest(b, usable)
    BY DEF Find
  <2> HIDE DEF usable
  <2> QED BY <1>2, <2>1, <2>2
<1> DEFINE preferred == CASE op.how = "read" -> b.written [] op.how = "write" -> b.read [] OTHER -> NULL
<1>4. Choice(b, op) = IF preferred # NULL /\ preferred \in b.current THEN preferred
                      ELSE Find(b, op.accessor, op.access, op.how = "lock")
  BY DEF Choice
<1> HIDE DEF preferred
<1> QED BY <1>1, <1>3, <1>4

LEMMA SpoiledIsSound ==
    ASSUME NEW b, Sound(b, lock), NEW d, d = Spoiled(b)
    PROVE  SpoilsWith(b, {}, d)
<1>1. b \in Buffers
  BY DEF Sound
<1>2. Spoiled(b) \in Buffers
  BY <1>1 DEF Spoiled, Buffers
<1>3. d = SpoiledWith(b, {})
  <2>1. Spoiled(b) = [Spoiled(b) EXCEPT !.current = Spoiled(b).current]
    BY <1>2 DEF Buffers
  <2>2. Spoiled(b).current \cup {} = Spoiled(b).current
    OBVIOUS
  <2> QED BY <2>1, <2>2 DEF SpoiledWith
<1> QED BY <1>3, SpoiledSound

(* What manage_interlocks() leaves for the access it is called for. *)
Interlocks(b, a, accessor, access, d) ==
    /\ Sound(d, lock) /\ Frees(b, d)
    /\ Content(b) => Content(d)
    /\ d.allocs = b.allocs /\ d.pool = b.pool /\ d.current = b.current /\ d.written = b.written
    /\ accessor = "CPU" =>
         /\ "cpu" \in d.accessed[a] /\ "write" \notin d.gpu[a]
         /\ "write" \in access => d.gpu[a] = {}
    /\ accessor = "GPU" => GpuFlags(access) \subseteq d.accessed[a] /\ a \notin d.texture

LEMMA InterlockInterlocks ==
    ASSUME NEW b, Sound(b, lock), SetupOK, NEW a \in b.allocs, NEW accessor \in {"CPU", "GPU"},
           NEW access \in SUBSET {"read", "write"}, NEW d, d = Interlock(b, a, accessor, access)
    PROVE  Interlocks(b, a, accessor, access, d)
<1> DEFINE old == b.accessed[a]
           afterWrite == accessor = "CPU" /\ "gpu_write" \in old
           afterRead == accessor = "CPU" /\ "write" \in access /\ "gpu_read" \in old
           flushes == accessor = "GPU" /\ "cpu" \in old
           cleared == (IF afterWrite THEN {"gpu_write", "gpu_read"} ELSE {})
                        \cup (IF afterRead THEN {"gpu_read"} ELSE {})
                        \cup (IF flushes THEN {"cpu"} ELSE {})
           added == IF accessor = "CPU" THEN {"cpu"} ELSE GpuFlags(access)
           e == IF afterWrite \/ afterRead THEN GpuIdle(b) ELSE b
           new == (IF Locked(a) THEN old ELSE old \ cleared) \cup added
           F == [b.accessed EXCEPT ![a] = new]
           T == IF flushes THEN {} ELSE b.texture
<1>1. /\ b \in Buffers /\ a \in Allocs /\ b.pool[a] # NULL
      /\ b.accessed \in [Allocs -> SUBSET {"cpu", "gpu_read", "gpu_write"}]
      /\ b.gpu \in [Allocs -> SUBSET {"read", "write"}] /\ b.texture \in SUBSET Allocs
  BY DEF Sound, Buffers, Memory
<1>2. /\ e \in Buffers /\ e.gpu = IF afterWrite \/ afterRead THEN [x \in Allocs |-> {}] ELSE b.gpu
      /\ e.pool = b.pool /\ e.accessed = b.accessed /\ e.texture = b.texture
      /\ e.allocs = b.allocs /\ e.before = b.before /\ e.current = b.current
      /\ e.latest = b.latest /\ e.written = b.written /\ e.read = b.read
      /\ e.content = b.content
  BY <1>1, IdleFields
<1>3. d = [e EXCEPT !.accessed = F, !.texture = T]
  <2>1. d = [e EXCEPT !.accessed[a] = new, !.texture = IF flushes THEN {} ELSE @]
    BY DEF Interlock
  <2> HIDE DEF e, new, flushes
  <2> QED BY <1>2, <2>1
<1>4. added \subseteq {"cpu", "gpu_read", "gpu_write"}
  BY DEF GpuFlags
<1>5. F \in [Allocs -> SUBSET {"cpu", "gpu_read", "gpu_write"}] /\ T \in SUBSET Allocs
  <2>1. new \subseteq {"cpu", "gpu_read", "gpu_write"}
    BY <1>1, <1>4
  <2> HIDE DEF new
  <2> QED BY <1>1, <2>1
<1>6. F[a] = new /\ \A x \in Allocs : x # a => F[x] = b.accessed[x]
  BY <1>1
<1> HIDE DEF F, T, e
<1>7. /\ d \in Buffers /\ d.accessed = F /\ d.texture = T
      /\ d.pool = e.pool /\ d.gpu = e.gpu
      /\ d.allocs = e.allocs /\ d.before = e.before /\ d.current = e.current
      /\ d.latest = e.latest /\ d.written = e.written /\ d.read = e.read
      /\ d.content = e.content
  <2>1. e \in Buffers
    BY <1>2
  <2> QED BY ONLY <2>1, <1>3, <1>5 DEF Buffers
<1>8. \A x \in Allocs : d.gpu[x] \subseteq b.gpu[x]
  BY <1>1, <1>2, <1>7
<1>9. afterWrite \/ afterRead => \A x \in Allocs : d.gpu[x] = {}
  BY <1>2, <1>7
<1>10. Ordered(d)
  BY <1>2, <1>7 DEF Sound, Ordered, IsFirst, IsLast
<1>11. Serials(d) /\ Memory(d, lock) /\ Writers(d, lock)
  BY <1>2, <1>7 DEF Sound, Serials, Memory, Writers
<1>12. Flags(d)
  <2> SUFFICES ASSUME NEW x \in Allocs, b.pool[x] # NULL
               PROVE  /\ "write" \in d.gpu[x] => "gpu_write" \in d.accessed[x]
                      /\ "read" \in d.gpu[x] => "gpu_read" \in d.accessed[x]
                      /\ x \in d.texture => "cpu" \in d.accessed[x]
    BY <1>2, <1>7 DEF Flags
  <2>1. /\ "write" \in b.gpu[x] => "gpu_write" \in b.accessed[x]
        /\ "read" \in b.gpu[x] => "gpu_read" \in b.accessed[x]
        /\ x \in b.texture => "cpu" \in b.accessed[x]
    BY DEF Sound, Flags
  <2>2. x \in d.texture => x \in b.texture /\ ~ flushes
    BY <1>7 DEF T
  <2>3. CASE x # a
    BY <1>6, <1>7, <1>8, <2>1, <2>2, <2>3
  <2>4. CASE x = a
    BY <1>6, <1>7, <1>8, <1>9, <2>1, <2>2, <2>4
  <2> QED BY <2>3, <2>4
<1>13. LockFlags(d, lock)
  <2> SUFFICES ASSUME NEW c \in Clients, lock[c] # NULL
               PROVE  b.accessed[lock[c].alloc] \subseteq d.accessed[lock[c].alloc]
    BY DEF Sound, LockFlags
  <2>1. lock[c].alloc \in Allocs /\ Locked(lock[c].alloc)
    BY DEF SetupOK, Locks, Locked, LockedBy
  <2> QED BY <1>6, <1>7, <2>1
<1>14. Frees(b, d)
  BY <1>2, <1>7, <1>8 DEF Frees
<1>15. Content(b) => Content(d)
  BY <1>2, <1>7 DEF Content
<1>16. ASSUME accessor = "CPU"
       PROVE  /\ "cpu" \in d.accessed[a] /\ "write" \notin d.gpu[a]
              /\ "write" \in access => d.gpu[a] = {}
  <2>1. "cpu" \in d.accessed[a]
    BY <1>6, <1>7, <1>16
  <2>2. /\ "write" \in b.gpu[a] => "gpu_write" \in b.accessed[a]
        /\ "read" \in b.gpu[a] => "gpu_read" \in b.accessed[a]
    BY <1>1 DEF Sound, Flags
  <2>3. CASE afterWrite \/ afterRead
    BY <1>1, <1>9, <2>1, <2>3
  <2>4. CASE ~ (afterWrite \/ afterRead)
    <3>1. d.gpu[a] \subseteq b.gpu[a] /\ b.gpu[a] \subseteq {"read", "write"}
      BY <1>1, <1>8
    <3> QED BY <1>16, <2>1, <2>2, <2>4, <3>1
  <2> QED BY <2>3, <2>4
<1>17. ASSUME accessor = "GPU"
       PROVE  GpuFlags(access) \subseteq d.accessed[a] /\ a \notin d.texture
  <2>1. GpuFlags(access) \subseteq d.accessed[a]
    BY <1>6, <1>7, <1>17
  <2>2. a \in b.texture => "cpu" \in b.accessed[a]
    BY <1>1 DEF Sound, Flags
  <2> QED BY <1>7, <1>17, <2>1, <2>2 DEF T
<1>18. Sound(d, lock)
  BY <1>7, <1>10, <1>11, <1>12, <1>13 DEF Sound
<1> QED BY <1>2, <1>7, <1>14, <1>15, <1>16, <1>17, <1>18 DEF Interlocks

-----------------------------------------------------------------------------
(* A step that leaves the locks alone. *)
LEMMA BufferStep ==
    ASSUME IInv, NEW d, Sound(d, lock), Content(d), Frees(buf, d), buf' = d, UNCHANGED <<setup, lock>>,
           calls' \in 0..MaxCalls, displacing' \in {displacing, NULL},
           displacing' # NULL => d.pool[displacing] = buf.pool[displacing]
    PROVE  IInv' /\ Steps
<1>1. Sound(buf, lock)' /\ Content(buf)'
  OBVIOUS
<1>2. SetupOK' /\ Displacement'
  BY DEF IInv, SetupOK, Displacement
<1>3. CpuWaitsForGpu /\ GpuSeesCpuWrites
  BY DEF CpuWaitsForGpu, GpuSeesCpuWrites
<1>4. FreesIdleMemory
  BY DEF IInv, Sound, Buffers, Memory, Frees, FreesIdleMemory
<1> QED BY <1>1, <1>2, <1>3, <1>4 DEF IInv, Steps

(* The pool lock keeps what is being displaced in its pool. *)
LEMMA PoolLockKeeps ==
    ASSUME SetupOK, NEW d, PoolLockFree(d), displacing # NULL
    PROVE  d.pool[displacing] = buf.pool[displacing]
  BY DEF SetupOK, PoolLockFree

CandidateOK(k) ==
    /\ Sound(k.b, lock) /\ Content(k.b) /\ Frees(buf, k.b) /\ k.a \in k.b.allocs

LEMMA FreesReflexive == ASSUME NEW b, Sound(b, lock) PROVE Frees(b, b)
  BY DEF Sound, Buffers, Flags, Frees

LEMMA CandidatesSound ==
    ASSUME IInv, NEW op, NEW k \in Candidates(op)
    PROVE  CandidateOK(k)
<1> DEFINE a == Choice(buf, op)
<1>1. Sound(buf, lock) /\ Content(buf) /\ SetupOK
  BY DEF IInv
<1>2. a \in buf.allocs \cup {NULL}
  BY <1>1, ChoiceIn
<1>3. Candidates(op) = IF a # NULL THEN {[b |-> buf, a |-> a, allocated |-> FALSE]}
        ELSE {[b |-> Allocate(buf, x, p), a |-> x, allocated |-> TRUE] :
                 x \in Unused(buf),
                 p \in {q \in Pools : op.access \subseteq PoolAccess[q][op.accessor]}}
  BY DEF Candidates
<1> HIDE DEF a
<1>4. CASE a # NULL
  <2>1. k.b = buf /\ k.a = a
    BY <1>3, <1>4
  <2> QED BY <1>1, <1>2, <1>4, <2>1, FreesReflexive DEF CandidateOK
<1>5. CASE a = NULL
  <2>1. PICK x \in Unused(buf), p \in Pools : k = [b |-> Allocate(buf, x, p), a |-> x, allocated |-> TRUE]
    BY <1>3, <1>5
  <2>2. x \in Allocs /\ buf.pool[x] = NULL
    BY DEF Unused
  <2>3. k.a = x /\ k.b = Allocate(buf, x, p)
    BY <2>1
  <2> QED BY <1>1, <2>2, <2>3, AllocateSound DEF CandidateOK
<1> QED BY <1>4, <1>5

(* A client that gets a lock on an allocation of the buffer. *)
LEMMA LockStep ==
    ASSUME IInv, NEW d, Sound(d, lock), Content(d), Frees(buf, d), NEW c \in Clients, NEW r \in Locks,
           lock[c] = NULL, lock' = [lock EXCEPT ![c] = r], r.alloc \in d.allocs,
           "write" \in r.access => d.current = {r.alloc} /\ d.written = r.alloc,
           r.accessor = "CPU" /\ r.mapped =>
               /\ "cpu" \in d.accessed[r.alloc] /\ "write" \notin d.gpu[r.alloc]
               /\ "write" \in r.access => d.gpu[r.alloc] = {},
           r.accessor = "GPU" =>
               GpuFlags(r.access) \subseteq d.accessed[r.alloc] /\ r.alloc \notin d.texture,
           buf' = d, PoolLockFree(d), UNCHANGED <<setup, displacing>>, calls' \in 0..MaxCalls
    PROVE  IInv' /\ Steps
<1>1. /\ lock \in [Clients -> Locks \cup {NULL}] /\ r # NULL /\ lock'[c] = r
      /\ \A x \in Clients : x # c => lock'[x] = lock[x]
  BY NullAssumption DEF IInv, SetupOK
<1>2. Memory(d, lock')
  <2>1. \A x \in Clients : lock'[x] # NULL => d.pool[lock'[x].alloc] # NULL
    <3> TAKE x \in Clients
    <3>1. CASE x = c
      BY <1>1, <3>1 DEF Sound, Memory
    <3>2. CASE x # c
      BY <1>1, <3>2 DEF Sound, Memory
    <3> QED BY <3>1, <3>2
  <2> QED BY <2>1 DEF Sound, Memory
<1>3. Writers(d, lock')
  <2> SUFFICES ASSUME NEW x \in Clients, lock'[x] # NULL, "write" \in lock'[x].access,
                      lock'[x].alloc \in d.allocs, d.content # "spoiled"
               PROVE  d.current = {lock'[x].alloc} /\ d.written = lock'[x].alloc
    BY DEF Writers
  <2>1. CASE x = c
    BY <1>1, <2>1
  <2>2. CASE x # c
    BY <1>1, <2>2 DEF Sound, Writers
  <2> QED BY <2>1, <2>2
<1>4. LockFlags(d, lock')
  <2> SUFFICES ASSUME NEW x \in Clients, lock'[x] # NULL
               PROVE  /\ lock'[x].accessor = "GPU" => GpuFlags(lock'[x].access) \subseteq d.accessed[lock'[x].alloc]
                      /\ lock'[x].accessor = "CPU" /\ lock'[x].mapped => "cpu" \in d.accessed[lock'[x].alloc]
    BY DEF LockFlags
  <2>1. CASE x = c
    BY <1>1, <2>1
  <2>2. CASE x # c
    BY <1>1, <2>2 DEF Sound, LockFlags
  <2> QED BY <2>1, <2>2
<1>5. Sound(buf, lock)' /\ Content(buf)'
  BY <1>2, <1>3, <1>4 DEF Sound
<1>6. SetupOK'
  BY DEF IInv, SetupOK
<1>7. Displacement'
  BY PoolLockKeeps DEF IInv, Displacement
<1>8. CpuWaitsForGpu
  <2> SUFFICES ASSUME NEW x \in Clients, lock[x] = NULL, lock'[x] # NULL, lock'[x].accessor = "CPU",
                      lock'[x].mapped
               PROVE  /\ "write" \notin buf'.gpu[lock'[x].alloc]
                      /\ "write" \in lock'[x].access => buf'.gpu[lock'[x].alloc] = {}
    BY DEF CpuWaitsForGpu
  <2>1. x = c
    BY <1>1
  <2> QED BY <1>1, <2>1
<1>9. GpuSeesCpuWrites
  <2> SUFFICES ASSUME NEW x \in Clients, lock[x] = NULL, lock'[x] # NULL, lock'[x].accessor = "GPU"
               PROVE  lock'[x].alloc \notin buf'.texture
    BY DEF GpuSeesCpuWrites
  <2>1. x = c
    BY <1>1
  <2> QED BY <1>1, <2>1
<1>10. FreesIdleMemory
  BY DEF IInv, Sound, Buffers, Memory, Frees, FreesIdleMemory
<1> QED BY <1>5, <1>6, <1>7, <1>8, <1>9, <1>10 DEF IInv, Steps

LEMMA OpTypes ==
    ASSUME NEW op \in Ops
    PROVE  /\ op.accessor \in {"CPU", "GPU"} /\ op.access \in SUBSET {"read", "write"}
           /\ op.accessor = "GPU" => op.how = "lock"
<1>1. CASE op \in [how : {"lock"}, accessor : {"CPU", "GPU"}, access : Accesses]
  BY <1>1, PoolAssumption
<1>2. CASE op \in [how : {"nolock"}, accessor : {"CPU"}, access : {{"read"}, {"write"}}]
  BY <1>2
<1>3. CASE op \in {[how |-> x, accessor |-> "CPU", access |-> {x}] : x \in {"read", "write"}}
  BY <1>3
<1> QED BY <1>1, <1>2, <1>3 DEF Ops

LEMMA PreLockStep ==
    ASSUME IInv, NEW c \in Clients, NEW op \in Ops, PreLock(c, op)
    PROVE  IInv' /\ Steps
<1>1. PICK k \in Candidates(op) :
        LET b == Update(k.b, k.a, op.access)
            mapped == Maps(b, k.a, op)
        IN  /\ buf' = IF mapped THEN Interlock(b, k.a, op.accessor, op.access) ELSE b
            /\ lock' = [lock EXCEPT ![c] = [alloc |-> k.a, accessor |-> op.accessor,
                                            access |-> op.access, mapped |-> mapped]]
  BY DEF PreLock
<1> DEFINE a == k.a
           b == Update(k.b, a, op.access)
           mapped == Maps(b, a, op)
           d == IF mapped THEN Interlock(b, a, op.accessor, op.access) ELSE b
           r == [alloc |-> a, accessor |-> op.accessor, access |-> op.access, mapped |-> mapped]
<1>2. buf' = d /\ lock' = [lock EXCEPT ![c] = r]
  BY <1>1
<1>3. CandidateOK(k)
  BY CandidatesSound
<1>4. Updated(k.b, a, op.access, b)
  BY <1>3, UpdateUpdates DEF CandidateOK, IInv
<1>5. mapped \in BOOLEAN /\ (op.how = "lock" => mapped)
  BY DEF Maps
<1>6. /\ op.accessor \in {"CPU", "GPU"} /\ op.access \in SUBSET {"read", "write"}
      /\ op.accessor = "GPU" => op.how = "lock"
  BY OpTypes
<1> HIDE DEF a, b, mapped
<1>7. /\ Sound(b, lock) /\ Content(b) /\ Frees(buf, b)
      /\ a \in b.allocs /\ a \in Allocs
      /\ "write" \in op.access => b.current = {a} /\ b.written = a
  <2>1. Frees(buf, b)
    BY <1>3, <1>4, FreesTransitive DEF CandidateOK, Updated
  <2> QED BY <1>3, <1>4, <2>1 DEF CandidateOK, Updated, Sound, Buffers
<1>8. /\ Sound(d, lock) /\ Content(d) /\ Frees(buf, d) /\ a \in d.allocs
      /\ "write" \in op.access => d.current = {a} /\ d.written = a
      /\ op.accessor = "CPU" /\ mapped =>
           /\ "cpu" \in d.accessed[a] /\ "write" \notin d.gpu[a]
           /\ "write" \in op.access => d.gpu[a] = {}
      /\ op.accessor = "GPU" => GpuFlags(op.access) \subseteq d.accessed[a] /\ a \notin d.texture
  <2>1. CASE mapped
    <3>1. d = Interlock(b, a, op.accessor, op.access)
      BY <2>1
    <3> HIDE DEF d
    <3>2. Interlocks(b, a, op.accessor, op.access, d)
      BY <1>6, <1>7, <3>1, InterlockInterlocks DEF IInv
    <3>3. Frees(buf, d)
      BY <1>7, <3>2, FreesTransitive DEF Interlocks
    <3> QED BY <1>7, <3>2, <3>3 DEF Interlocks
  <2>2. CASE ~ mapped
    BY <1>5, <1>6, <1>7, <2>2
  <2> QED BY <2>1, <2>2
<1>9. r \in Locks /\ r.alloc = a /\ r.accessor = op.accessor /\ r.access = op.access /\ r.mapped = mapped
  BY <1>5, <1>6, <1>7 DEF Locks
<1> HIDE DEF d, r
<1>10. /\ lock[c] = NULL /\ PoolLockFree(d) /\ UNCHANGED <<setup, displacing>>
       /\ calls' \in 0..MaxCalls
  <2>1. PoolLockFree(buf')
    BY DEF PreLock
  <2>2. lock[c] = NULL /\ UNCHANGED <<setup, displacing>>
    BY DEF PreLock, Called
  <2>3. calls' \in 0..MaxCalls
    BY PoolAssumption DEF PreLock, Called, IInv, SetupOK
  <2> QED BY <1>2, <2>1, <2>2, <2>3
<1> QED BY <1>2, <1>8, <1>9, <1>10, LockStep

LEMMA PreLockFailsStep ==
    ASSUME IInv, NEW c \in Clients, NEW op \in Ops, PreLockFails(c, op)
    PROVE  IInv' /\ Steps
<1>1. PICK k \in Candidates(op) : \E b \in Failures(k, op) :
        buf' = Spoiled(IF k.allocated THEN Decouple(b, {k.a}) ELSE b)
  BY DEF PreLockFails
<1>2. PICK b \in Failures(k, op) : buf' = Spoiled(IF k.allocated THEN Decouple(b, {k.a}) ELSE b)
  BY <1>1
<1>3. CandidateOK(k) /\ SetupOK
  BY CandidatesSound DEF IInv
<1>4. Sound(b, lock) /\ Frees(k.b, b)
  <2>1. CASE b = SynchronizeFails(k.b, k.a)
    <3>1. b = SpoiledWith(k.b, {k.a}) /\ {k.a} \in SUBSET k.b.allocs
      BY <1>3, <2>1 DEF SynchronizeFails, SpoiledWith, CandidateOK
    <3>2. SpoilsWith(k.b, {k.a}, b)
      BY <1>3, <3>1, SpoiledSound DEF CandidateOK
    <3> QED BY <3>2 DEF SpoilsWith
  <2>2. CASE b = Update(k.b, k.a, op.access)
    <3>1. Updated(k.b, k.a, op.access, b)
      BY <1>3, <2>2, UpdateUpdates DEF CandidateOK
    <3> QED BY <3>1 DEF Updated
  <2> QED BY <2>1, <2>2 DEF Failures
<1> DEFINE e == IF k.allocated THEN Decouple(b, {k.a}) ELSE b
<1>5. Sound(e, lock) /\ Frees(b, e)
  <2>1. CASE k.allocated
    <3>1. e = Decouple(b, {k.a}) /\ {k.a} \in SUBSET Allocs
      BY <1>3, <2>1 DEF CandidateOK, Sound, Buffers
    <3> HIDE DEF e
    <3> QED BY <1>3, <1>4, <3>1, DecoupleSound
  <2>2. CASE ~ k.allocated
    BY <1>4, <2>2, FreesReflexive
  <2> QED BY <2>1, <2>2
<1> HIDE DEF e
<1>6. SpoilsWith(e, {}, Spoiled(e))
  BY <1>5, SpoiledIsSound
<1>7. Frees(buf, Spoiled(e))
  <2>1. Frees(buf, b)
    BY <1>3, <1>4, FreesTransitive DEF CandidateOK
  <2>2. Frees(buf, e)
    BY <1>5, <2>1, FreesTransitive
  <2> QED BY <1>6, <2>2, FreesTransitive DEF SpoilsWith
<1>8. Sound(Spoiled(e), lock) /\ Content(Spoiled(e))
  BY <1>6 DEF SpoilsWith
<1>9. buf' = Spoiled(e)
  BY <1>2 DEF e
<1>10. /\ UNCHANGED <<setup, lock>> /\ displacing' = displacing /\ calls' \in 0..MaxCalls
       /\ PoolLockFree(buf')
  BY PoolAssumption DEF PreLockFails, Called, IInv, SetupOK
<1>11. displacing' # NULL => buf'.pool[displacing] = buf.pool[displacing]
  BY <1>3, <1>10, PoolLockKeeps
<1> QED BY <1>7, <1>8, <1>9, <1>10, <1>11, BufferStep

LEMMA UseStep ==
    ASSUME IInv, NEW c \in Clients, Use(c)
    PROVE  IInv' /\ Steps
<1> DEFINE a == lock[c].alloc
           gpu == lock[c].accessor = "GPU"
           writes == "write" \in lock[c].access
           changed == writes /\ a \in buf.allocs /\ buf.content # "spoiled"
           L == IF changed THEN {a} ELSE buf.latest
           N == IF changed THEN "known" ELSE buf.content
           G == [buf.gpu EXCEPT ![a] = IF gpu THEN @ \cup lock[c].access ELSE @]
           T == IF writes /\ ~ gpu /\ lock[c].mapped THEN buf.texture \cup {a} ELSE buf.texture
<1>1. /\ buf \in Buffers /\ lock[c] \in Locks /\ NULL \notin Allocs /\ a \in Allocs
      /\ gpu \/ lock[c].accessor = "CPU"
      /\ Sound(buf, lock) /\ Content(buf) /\ buf.pool[a] # NULL
  BY NullAssumption DEF IInv, SetupOK, Use, Sound, Memory, Locks
<1>2. buf' = [buf EXCEPT !.latest = L, !.content = N, !.gpu = G, !.texture = T]
  BY DEF Use
<1>3. /\ L \in SUBSET Allocs /\ N \in {"none", "known", "spoiled"} /\ T \in SUBSET Allocs
      /\ G \in [Allocs -> SUBSET {"read", "write"}]
  <2>1. lock[c].access \in SUBSET {"read", "write"}
    BY <1>1 DEF Locks
  <2> QED BY <1>1, <2>1 DEF Buffers
<1>4. /\ \A x \in Allocs : x # a => G[x] = buf.gpu[x] /\ (x \in T <=> x \in buf.texture)
      /\ G[a] = IF gpu THEN buf.gpu[a] \cup lock[c].access ELSE buf.gpu[a]
  BY <1>1 DEF Buffers
<1> HIDE DEF L, N, G
<1>5. /\ buf' \in Buffers /\ buf'.latest = L /\ buf'.content = N /\ buf'.gpu = G /\ buf'.texture = T
      /\ buf'.allocs = buf.allocs /\ buf'.before = buf.before /\ buf'.pool = buf.pool
      /\ buf'.accessed = buf.accessed /\ buf'.current = buf.current
      /\ buf'.read = buf.read /\ buf'.written = buf.written
  BY <1>1, <1>2, <1>3 DEF Buffers
<1>6. /\ UNCHANGED <<setup, lock, displacing, calls>> /\ lock[c] # NULL
  BY DEF Use
<1>7. changed => buf.current = {a} /\ buf.written = a
  BY <1>1, <1>6 DEF Sound, Writers
<1>8. Ordered(buf')
  BY <1>1, <1>5 DEF Sound, Ordered, IsFirst, IsLast
<1>9. Serials(buf')
  BY <1>1, <1>5 DEF Sound, Serials, L
<1>10. Memory(buf', lock) /\ LockFlags(buf', lock)
  BY <1>1, <1>5 DEF Sound, Memory, LockFlags
<1>11. Writers(buf', lock)
  <2>1. buf'.content # "spoiled" => buf.content # "spoiled"
    BY <1>5 DEF N
  <2> QED BY <1>1, <1>5, <2>1 DEF Sound, Writers
<1>12. Flags(buf')
  <2> SUFFICES ASSUME NEW x \in Allocs, buf.pool[x] # NULL
               PROVE  /\ "write" \in G[x] => "gpu_write" \in buf.accessed[x]
                      /\ "read" \in G[x] => "gpu_read" \in buf.accessed[x]
                      /\ x \in T => "cpu" \in buf.accessed[x]
    BY <1>5 DEF Flags
  <2>1. /\ "write" \in buf.gpu[x] => "gpu_write" \in buf.accessed[x]
        /\ "read" \in buf.gpu[x] => "gpu_read" \in buf.accessed[x]
        /\ x \in buf.texture => "cpu" \in buf.accessed[x]
    BY <1>1 DEF Sound, Flags
  <2>2. CASE x # a
    BY <1>4, <2>1, <2>2
  <2>3. CASE x = a
    <3>1. /\ gpu => GpuFlags(lock[c].access) \subseteq buf.accessed[a]
          /\ lock[c].accessor = "CPU" /\ lock[c].mapped => "cpu" \in buf.accessed[a]
      BY <1>1, <1>6 DEF Sound, LockFlags
    <3>2. gpu => /\ "write" \in lock[c].access => "gpu_write" \in buf.accessed[a]
                 /\ "read" \in lock[c].access => "gpu_read" \in buf.accessed[a]
      BY <3>1 DEF GpuFlags
    <3>3. x \in T => "cpu" \in buf.accessed[x]
      BY <1>1, <2>1, <2>3, <3>1
    <3> QED BY <1>4, <2>1, <2>3, <3>2, <3>3
  <2> QED BY <2>2, <2>3
<1>13. Content(buf')
  <2>1. CASE changed
    BY <1>1, <1>5, <1>7, <2>1 DEF Content, L
  <2>2. CASE ~ changed
    BY <1>1, <1>5, <2>2 DEF Content, L, N
  <2> QED BY <2>1, <2>2
<1>14. Sound(buf', lock)
  BY <1>5, <1>8, <1>9, <1>10, <1>11, <1>12 DEF Sound
<1>15. IInv'
  <2>1. Sound(buf, lock)' /\ Content(buf)'
    BY <1>6, <1>13, <1>14
  <2>2. SetupOK' /\ Displacement'
    BY <1>5, <1>6 DEF IInv, SetupOK, Displacement
  <2> QED BY <2>1, <2>2 DEF IInv
<1>16. CpuWaitsForGpu /\ GpuSeesCpuWrites
  BY <1>6 DEF CpuWaitsForGpu, GpuSeesCpuWrites
<1>17. FreesIdleMemory
  BY <1>1, <1>5 DEF FreesIdleMemory, Sound, Memory
<1> QED BY <1>15, <1>16, <1>17 DEF Steps

LEMMA GpuDoneStep ==
    ASSUME IInv, GpuDone
    PROVE  IInv' /\ Steps
<1>1. buf \in Buffers /\ Sound(buf, lock) /\ Content(buf)
  BY DEF IInv, Sound
<1> DEFINE d == GpuIdle(buf)
<1>2. /\ d \in Buffers /\ d.gpu = [a \in Allocs |-> {}]
      /\ d.pool = buf.pool /\ d.accessed = buf.accessed /\ d.texture = buf.texture
      /\ d.allocs = buf.allocs /\ d.before = buf.before /\ d.current = buf.current
      /\ d.latest = buf.latest /\ d.written = buf.written /\ d.read = buf.read
      /\ d.content = buf.content
  BY <1>1, IdleFields
<1> HIDE DEF d
<1>3. Ordered(d)
  BY <1>1, <1>2 DEF Sound, Ordered, IsFirst, IsLast
<1>4. Serials(d) /\ Memory(d, lock) /\ Writers(d, lock) /\ LockFlags(d, lock)
  BY <1>1, <1>2 DEF Sound, Serials, Memory, Writers, LockFlags
<1>5. Flags(d)
  BY <1>1, <1>2 DEF Sound, Flags
<1>6. Sound(d, lock)
  BY <1>2, <1>3, <1>4, <1>5 DEF Sound
<1>7. Content(d) /\ Frees(buf, d)
  BY <1>1, <1>2 DEF Content, Frees
<1>8. buf' = d /\ UNCHANGED <<setup, lock, displacing, calls>> /\ d.pool = buf.pool /\ calls' \in 0..MaxCalls
  BY <1>2 DEF GpuDone, d, IInv, SetupOK
<1> QED BY <1>6, <1>7, <1>8, BufferStep

LEMMA UnlockStep ==
    ASSUME IInv, NEW c \in Clients, Unlock(c)
    PROVE  IInv' /\ Steps
<1>1. /\ lock \in [Clients -> Locks \cup {NULL}] /\ UNCHANGED <<setup, buf, displacing, calls>>
      /\ lock' \in [Clients -> Locks \cup {NULL}]
      /\ \A x \in Clients : lock'[x] = NULL \/ lock'[x] = lock[x]
  BY DEF IInv, SetupOK, Unlock
<1>2. Memory(buf, lock') /\ Writers(buf, lock') /\ LockFlags(buf, lock')
  <2>1. Memory(buf, lock')
    BY <1>1 DEF IInv, Sound, Memory
  <2>2. Writers(buf, lock')
    BY <1>1 DEF IInv, Sound, Writers
  <2>3. LockFlags(buf, lock')
    BY <1>1 DEF IInv, Sound, LockFlags
  <2> QED BY <2>1, <2>2, <2>3
<1>3. Sound(buf, lock)' /\ Content(buf)'
  BY <1>1, <1>2 DEF IInv, Sound
<1>4. SetupOK' /\ Displacement'
  BY <1>1 DEF IInv, SetupOK, Displacement
<1>5. CpuWaitsForGpu /\ GpuSeesCpuWrites
  BY <1>1 DEF CpuWaitsForGpu, GpuSeesCpuWrites
<1>6. FreesIdleMemory
  BY <1>1 DEF IInv, Sound, Memory, FreesIdleMemory
<1> QED BY <1>3, <1>4, <1>5, <1>6 DEF IInv, Steps

LEMMA DestructorStep ==
    ASSUME IInv, NEW a \in Allocs, Destructor(a)
    PROVE  IInv' /\ Steps
<1> DEFINE P == [buf.pool EXCEPT ![a] = NULL]
           F == [buf.accessed EXCEPT ![a] = {}]
           G == [buf.gpu EXCEPT ![a] = {}]
           T == buf.texture \ {a}
<1>1. /\ buf \in Buffers /\ Sound(buf, lock) /\ Content(buf) /\ SetupOK
      /\ a \notin buf.allocs /\ ~ Locked(a) /\ PoolLockFree(buf')
      /\ UNCHANGED <<setup, lock, displacing, calls>>
  BY DEF IInv, Sound, Destructor
<1>2. buf' = [buf EXCEPT !.pool = P, !.accessed = F, !.gpu = G, !.texture = T]
  BY DEF Destructor
<1>3. /\ P \in [Allocs -> Pools \cup {NULL}] /\ T \in SUBSET Allocs
      /\ F \in [Allocs -> SUBSET {"cpu", "gpu_read", "gpu_write"}]
      /\ G \in [Allocs -> SUBSET {"read", "write"}]
      /\ P[a] = NULL /\ G[a] = {}
      /\ \A x \in Allocs : x # a =>
           /\ P[x] = buf.pool[x] /\ F[x] = buf.accessed[x] /\ G[x] = buf.gpu[x]
           /\ x \in T <=> x \in buf.texture
  BY <1>1 DEF Buffers
<1> HIDE DEF P, F, G, T
<1>4. /\ buf' \in Buffers /\ buf'.pool = P /\ buf'.accessed = F /\ buf'.gpu = G /\ buf'.texture = T
      /\ buf'.allocs = buf.allocs /\ buf'.before = buf.before /\ buf'.current = buf.current
      /\ buf'.latest = buf.latest /\ buf'.written = buf.written /\ buf'.read = buf.read
      /\ buf'.content = buf.content
  BY <1>1, <1>2, <1>3 DEF Buffers
<1>5. \A c \in Clients : lock[c] # NULL => lock[c].alloc \in Allocs /\ lock[c].alloc # a
  BY <1>1 DEF SetupOK, Locks, Locked, LockedBy
<1>6. Ordered(buf')
  BY <1>1, <1>4 DEF Sound, Ordered, IsFirst, IsLast
<1>7. Serials(buf') /\ Writers(buf', lock)
  BY <1>1, <1>4 DEF Sound, Serials, Writers
<1>8. Memory(buf', lock)
  <2>1. \A x \in buf.allocs : P[x] # NULL
    BY <1>1, <1>3 DEF Sound, Memory, Buffers
  <2>2. \A c \in Clients : lock[c] # NULL => P[lock[c].alloc] # NULL
    BY <1>1, <1>3, <1>5 DEF Sound, Memory
  <2> QED BY <1>4, <2>1, <2>2 DEF Memory
<1>9. LockFlags(buf', lock)
  <2>1. \A c \in Clients : lock[c] # NULL => F[lock[c].alloc] = buf.accessed[lock[c].alloc]
    BY <1>3, <1>5
  <2> QED BY <1>1, <1>4, <2>1 DEF Sound, LockFlags
<1>10. Flags(buf')
  <2> SUFFICES ASSUME NEW x \in Allocs, P[x] # NULL
               PROVE  /\ "write" \in G[x] => "gpu_write" \in F[x]
                      /\ "read" \in G[x] => "gpu_read" \in F[x]
                      /\ x \in T => "cpu" \in F[x]
    BY <1>4 DEF Flags
  <2>1. x # a
    BY <1>3
  <2> QED BY <1>1, <1>3, <2>1 DEF Sound, Flags
<1>11. Sound(buf', lock)
  BY <1>4, <1>6, <1>7, <1>8, <1>9, <1>10 DEF Sound
<1>12. Content(buf') /\ Frees(buf, buf')
  BY <1>1, <1>3, <1>4 DEF Content, Frees
<1>13. displacing' # NULL => buf'.pool[displacing] = buf.pool[displacing]
  BY <1>1, PoolLockKeeps
<1>14. calls' \in 0..MaxCalls /\ displacing' \in {displacing, NULL}
  BY <1>1 DEF SetupOK
<1> QED BY <1>1, <1>11, <1>12, <1>13, <1>14, BufferStep

(* Nothing is left of the buffer but memory that is locked. *)
LEMMA DeallocatedSound ==
    ASSUME IInv, NEW d,
           \/ d = Deallocated
           \/ d = [Deallocated EXCEPT !.destroyed = TRUE]
    PROVE  Sound(d, lock) /\ Content(d) /\ Frees(buf, d)
<1> DEFINE e == Decouple(buf, buf.allocs)
<1>1. /\ SetupOK /\ Sound(buf, lock) /\ buf \in Buffers /\ Ordered(buf)
      /\ buf.allocs \in SUBSET Allocs
  BY DEF IInv, Sound, Buffers
<1>2. Sound(e, lock) /\ Frees(buf, e)
  BY <1>1, DecoupleSound
<1>3. Decoupled(buf, buf.allocs, e)
  BY <1>1, DecoupleFields
<1>4. e \in Buffers /\ e.allocs = {}
  BY <1>3 DEF Decoupled
<1>5. d = [e EXCEPT !.content = "none"] \/ d = [[e EXCEPT !.content = "none"] EXCEPT !.destroyed = TRUE]
  BY DEF Deallocated
<1> HIDE DEF e
<1>6. [e EXCEPT !.content = "none"] \in Buffers
  BY <1>4 DEF Buffers
<1>7. /\ d \in Buffers /\ d.allocs = e.allocs /\ d.before = e.before /\ d.pool = e.pool
      /\ d.accessed = e.accessed /\ d.gpu = e.gpu /\ d.texture = e.texture
      /\ d.current = e.current /\ d.latest = e.latest /\ d.read = e.read
      /\ d.written = e.written /\ d.content = "none"
  <2>1. CASE d = [e EXCEPT !.content = "none"]
    BY ONLY <2>1, <1>4 DEF Buffers
  <2>2. CASE d = [[e EXCEPT !.content = "none"] EXCEPT !.destroyed = TRUE]
    <3>1. d = [e EXCEPT !.content = "none", !.destroyed = TRUE]
      BY <2>2
    <3> QED BY ONLY <3>1, <1>4 DEF Buffers
  <2> QED BY <1>5, <2>1, <2>2
<1>8. Ordered(d)
  BY <1>2, <1>7 DEF Sound, Ordered, IsFirst, IsLast
<1>9. Serials(d) /\ Memory(d, lock) /\ Flags(d) /\ LockFlags(d, lock)
  BY <1>2, <1>7 DEF Sound, Serials, Memory, Flags, LockFlags
<1>10. Writers(d, lock)
  BY <1>4, <1>7 DEF Writers
<1>11. Content(d) /\ Frees(buf, d)
  BY <1>2, <1>7 DEF Content, Frees
<1> QED BY <1>7, <1>8, <1>9, <1>10, <1>11 DEF Sound

LEMMA DeallocateStep ==
    ASSUME IInv, DeallocateBuffers \/ Destroy
    PROVE  IInv' /\ Steps
<1>1. /\ buf' = Deallocated \/ buf' = [Deallocated EXCEPT !.destroyed = TRUE]
      /\ PoolLockFree(buf') /\ UNCHANGED <<setup, lock, displacing, calls>>
  BY DEF DeallocateBuffers, Destroy
<1>2. Sound(buf', lock) /\ Content(buf') /\ Frees(buf, buf')
  BY <1>1, DeallocatedSound
<1>3. displacing' # NULL => buf'.pool[displacing] = buf.pool[displacing]
  BY <1>1, PoolLockKeeps DEF IInv
<1>4. calls' \in 0..MaxCalls /\ displacing' \in {displacing, NULL}
  BY <1>1 DEF IInv, SetupOK
<1> QED BY <1>1, <1>2, <1>3, <1>4, BufferStep

LEMMA MuckOutStep ==
    ASSUME IInv, NEW a \in Allocs, MuckOut(a)
    PROVE  IInv' /\ Steps
<1>1. UNCHANGED <<setup, buf, lock, calls>> /\ displacing' = a /\ a \in buf.allocs
      /\ Backup[buf.pool[a]] # NULL
  BY DEF MuckOut
<1>2. Sound(buf, lock)' /\ Content(buf)'
  BY <1>1 DEF IInv
<1>3. SetupOK' /\ Displacement'
  BY <1>1 DEF IInv, SetupOK, Displacement, Sound, Memory
<1>4. CpuWaitsForGpu /\ GpuSeesCpuWrites /\ FreesIdleMemory
  BY <1>1 DEF CpuWaitsForGpu, GpuSeesCpuWrites, FreesIdleMemory, IInv, Sound, Memory
<1> QED BY <1>2, <1>3, <1>4 DEF IInv, Steps

-----------------------------------------------------------------------------
(* The results of backup_allocation(), one by one. *)
After(s) == IF s = {} THEN buf ELSE SpoiledWith(buf, s)

Others(a) == {x \in buf.allocs : buf.pool[x] # buf.pool[a]}

Fresh(a, x) == Allocate(After(Others(a)), x, Backup[buf.pool[a]])

LEMMA BackupResultsCases ==
    ASSUME NEW a, NEW r \in BackupResults(a)
    PROVE  \/ ~ NeedsBackup(buf, a) /\ r.b = buf
           \/ \E s \in SUBSET Others(a) :
                s # Others(a) /\ r.b = Update(After(s), First(buf, Others(a) \ s), {})
           \/ \E x \in Unused(After(Others(a))) :
                \/ r.b = Update(Fresh(a, x), x, {})
                \/ ~ r.ok /\ r.b = Decouple(SynchronizeFails(Fresh(a, x), x), {x})
           \/ ~ r.ok /\ r.b = After(Others(a))
<1> DEFINE failed == {s \in SUBSET Others(a) : \A x \in s, y \in Others(a) \ s : <<x, y>> \in buf.before}
           attempts == IF setup.faults THEN failed ELSE {{}}
           updated == {[b |-> Update(After(s), First(buf, Others(a) \ s), {}), ok |-> TRUE] :
                          s \in attempts \ {Others(a)}}
           allocated == {[b |-> Update(Fresh(a, x), x, {}), ok |-> TRUE] : x \in Unused(After(Others(a)))}
           refused == {[b |-> After(Others(a)), ok |-> FALSE]}
           broken == IF setup.faults
                     THEN {[b |-> Decouple(SynchronizeFails(Fresh(a, x), x), {x}), ok |-> FALSE] :
                              x \in Unused(After(Others(a)))}
                     ELSE {}
<1>1. BackupResults(a) =
        IF ~ NeedsBackup(buf, a) THEN {[b |-> buf, ok |-> TRUE]}
        ELSE updated \cup (IF Others(a) \in attempts THEN allocated \cup refused \cup broken ELSE {})
  BY DEF BackupResults, After, Others, Fresh, SpoiledWith
<1>2. \A s \in attempts : s \in SUBSET Others(a)
  OBVIOUS
<1> HIDE DEF attempts
<1>3. CASE r \in updated
  BY <1>2, <1>3
<1>4. CASE r \in allocated
  BY <1>4
<1>5. CASE r \in refused
  BY <1>5
<1>6. CASE r \in broken
  <2>1. CASE setup.faults
    <3>1. PICK x \in Unused(After(Others(a))) :
            r = [b |-> Decouple(SynchronizeFails(Fresh(a, x), x), {x}), ok |-> FALSE]
      BY <1>6, <2>1
    <3>2. ~ r.ok /\ r.b = Decouple(SynchronizeFails(Fresh(a, x), x), {x})
      BY <3>1
    <3> QED BY <3>2
  <2>2. CASE ~ setup.faults
    BY <1>6, <2>2
  <2> QED BY <2>1, <2>2
<1>7. CASE ~ NeedsBackup(buf, a) /\ r = [b |-> buf, ok |-> TRUE]
  BY <1>7
<1> HIDE DEF updated, allocated, refused, broken
<1> QED BY <1>1, <1>3, <1>4, <1>5, <1>6, <1>7

(* After failing attempts nobody relies on the content. *)
LEMMA AfterSound ==
    ASSUME IInv, NEW s \in SUBSET buf.allocs, NEW e, e = After(s)
    PROVE  /\ Sound(e, lock) /\ Content(e) /\ Frees(buf, e)
           /\ e.allocs = buf.allocs /\ e.pool = buf.pool /\ e.before = buf.before
<1>1. Sound(buf, lock) /\ Content(buf)
  BY DEF IInv
<1>2. CASE s = {}
  BY <1>1, <1>2, FreesReflexive DEF After
<1>3. CASE s # {}
  <2>1. SpoilsWith(buf, s, e)
    BY <1>1, <1>3, SpoiledSound DEF After
  <2> QED BY <2>1 DEF SpoilsWith
<1> QED BY <1>2, <1>3

(* Whatever becomes of the backup, what is displaced after it succeeded is *)
(* not the only allocation that is up to date.                             *)
BackedUp(a, r) ==
    /\ Sound(r.b, lock) /\ Content(r.b) /\ Frees(buf, r.b)
    /\ r.ok /\ r.b.content = "known" => r.b.current \ {a} # {}

LEMMA BackupSound ==
    ASSUME IInv, displacing # NULL, NEW r \in BackupResults(displacing)
    PROVE  BackedUp(displacing, r)
<1> DEFINE a == displacing
           all == After(Others(a))
<1>1. /\ Sound(buf, lock) /\ Content(buf) /\ SetupOK /\ a \in Allocs /\ buf.pool[a] # NULL
      /\ Ordered(buf) /\ buf.current \subseteq buf.allocs /\ buf.allocs \subseteq Allocs
      /\ buf.pool[a] \in Pools /\ Backup[buf.pool[a]] \in Pools
  BY PoolAssumption DEF IInv, SetupOK, Displacement, Sound, Buffers, Serials
<1>2. Others(a) \in SUBSET buf.allocs /\ a \notin Others(a)
  BY DEF Others
<1>3. /\ Sound(all, lock) /\ Content(all) /\ Frees(buf, all) /\ all.pool = buf.pool
  BY <1>2, AfterSound
<1>4. ASSUME NEW x \in Unused(all)
      PROVE  /\ x # a /\ Sound(Fresh(a, x), lock) /\ Content(Fresh(a, x)) /\ Frees(buf, Fresh(a, x))
             /\ x \in Fresh(a, x).allocs /\ x \in Allocs
  <2>1. x \in Allocs /\ all.pool[x] = NULL
    BY DEF Unused
  <2>2. /\ Sound(Fresh(a, x), lock) /\ Frees(all, Fresh(a, x))
        /\ Content(all) => Content(Fresh(a, x))
        /\ x \in Fresh(a, x).allocs
    BY <1>1, <1>3, <2>1, AllocateSound DEF Fresh
  <2>3. Frees(buf, Fresh(a, x))
    BY <1>3, <2>2, FreesTransitive
  <2> QED BY <1>1, <1>3, <2>1, <2>2, <2>3
<1>5. ASSUME ~ NeedsBackup(buf, a), r.b = buf
      PROVE  BackedUp(a, r)
  <2>1. buf.content = "known" => buf.current \ {a} # {}
    BY <1>1, <1>5 DEF NeedsBackup, Content, Sound, Serials
  <2> QED BY <1>1, <1>5, <2>1, FreesReflexive DEF BackedUp
<1>6. ASSUME NEW s \in SUBSET Others(a), s # Others(a),
             r.b = Update(After(s), First(buf, Others(a) \ s), {})
      PROVE  BackedUp(a, r)
  <2> DEFINE x == First(buf, Others(a) \ s)
             e == After(s)
  <2>1. Others(a) \ s \in SUBSET buf.allocs /\ Others(a) \ s # {}
    BY <1>2, <1>6
  <2>2. x \in Others(a) \ s
    BY <1>1, <2>1, FirstIn
  <2>3. /\ Sound(e, lock) /\ Content(e) /\ Frees(buf, e) /\ e.allocs = buf.allocs
    BY <1>2, AfterSound
  <2> HIDE DEF x, e
  <2>4. x \in e.allocs /\ x # a
    BY <1>2, <2>2, <2>3
  <2>5. r.b = Update(e, x, {})
    BY <1>6 DEF x, e
  <2>6. Updated(e, x, {}, r.b)
    BY <1>1, <2>3, <2>4, <2>5, UpdateUpdates
  <2>7. Frees(buf, r.b)
    BY <2>3, <2>6, FreesTransitive DEF Updated
  <2>8. x \in r.b.current \ {a}
    BY <2>4, <2>6 DEF Updated
  <2> QED BY <2>3, <2>6, <2>7, <2>8 DEF Updated, BackedUp
<1>7. ASSUME NEW x \in Unused(all), r.b = Update(Fresh(a, x), x, {})
      PROVE  BackedUp(a, r)
  <2>1. Updated(Fresh(a, x), x, {}, r.b)
    BY <1>1, <1>4, <1>7, UpdateUpdates
  <2>2. Frees(buf, r.b)
    BY <1>4, <2>1, FreesTransitive DEF Updated
  <2>3. x \in r.b.current \ {a}
    BY <1>4, <2>1 DEF Updated
  <2> QED BY <1>4, <2>1, <2>2, <2>3 DEF Updated, BackedUp
<1>8. ASSUME NEW x \in Unused(all), ~ r.ok, r.b = Decouple(SynchronizeFails(Fresh(a, x), x), {x})
      PROVE  BackedUp(a, r)
  <2> DEFINE f == Fresh(a, x)
             e == SynchronizeFails(f, x)
  <2>1. e = SpoiledWith(f, {x}) /\ {x} \in SUBSET f.allocs
    BY <1>4 DEF SynchronizeFails, SpoiledWith
  <2> HIDE DEF e, f
  <2>2. /\ Sound(f, lock) /\ Frees(buf, f) /\ r.b = Decouple(e, {x}) /\ {x} \in SUBSET Allocs
    BY <1>4, <1>8 DEF e, f
  <2>3. SpoilsWith(f, {x}, e)
    BY <2>1, <2>2, SpoiledSound
  <2>4. Sound(e, lock) /\ Ordered(e) /\ e \in Buffers /\ e.content = "spoiled" /\ Frees(f, e)
    BY <2>3 DEF SpoilsWith, Sound
  <2>5. Sound(r.b, lock) /\ Frees(e, r.b)
    BY <1>1, <2>2, <2>4, DecoupleSound
  <2>6. Decoupled(e, {x}, r.b)
    BY <2>2, <2>4, DecoupleFields
  <2>7. Content(r.b)
    BY <2>4, <2>6 DEF Decoupled, Content
  <2>8. Frees(buf, e)
    BY <2>2, <2>4, FreesTransitive
  <2>9. Frees(buf, r.b)
    BY <2>5, <2>8, FreesTransitive
  <2> QED BY <1>8, <2>5, <2>7, <2>9 DEF BackedUp
<1>9. ASSUME ~ r.ok, r.b = all
      PROVE  BackedUp(a, r)
  BY <1>3, <1>9 DEF BackedUp
<1> HIDE DEF a, all
<1>10. \/ ~ NeedsBackup(buf, a) /\ r.b = buf
       \/ \E s \in SUBSET Others(a) :
            s # Others(a) /\ r.b = Update(After(s), First(buf, Others(a) \ s), {})
       \/ \E x \in Unused(all) :
            \/ r.b = Update(Fresh(a, x), x, {})
            \/ ~ r.ok /\ r.b = Decouple(SynchronizeFails(Fresh(a, x), x), {x})
       \/ ~ r.ok /\ r.b = all
  BY BackupResultsCases DEF a, all
<1>11. BackedUp(a, r)
  BY <1>5, <1>6, <1>7, <1>8, <1>9, <1>10
<1> QED BY <1>11 DEF a

LEMMA DisplaceStep ==
    ASSUME IInv, Displace
    PROVE  IInv' /\ Steps
<1>1. PICK r \in BackupResults(displacing) : buf' = IF r.ok THEN Decouple(r.b, {displacing}) ELSE r.b
  BY DEF Displace
<1>2. displacing # NULL /\ displacing' = NULL /\ UNCHANGED <<setup, lock, calls>> /\ calls' \in 0..MaxCalls
      /\ SetupOK /\ {displacing} \in SUBSET Allocs
  BY DEF Displace, IInv, SetupOK
<1>3. BackedUp(displacing, r)
  BY <1>2, BackupSound
<1>4. Sound(buf', lock) /\ Content(buf') /\ Frees(buf, buf')
  <2>1. CASE r.ok
    <3>1. buf' = Decouple(r.b, {displacing})
      BY <1>1, <2>1
    <3>2. Sound(buf', lock) /\ Frees(r.b, buf')
      BY <1>2, <1>3, <3>1, DecoupleSound DEF BackedUp
    <3>3. Content(buf')
      BY <1>2, <1>3, <2>1, <3>1, DecoupleContent DEF BackedUp
    <3>4. Frees(buf, buf')
      BY <1>3, <3>2, FreesTransitive DEF BackedUp
    <3> QED BY <3>2, <3>3, <3>4
  <2>2. CASE ~ r.ok
    BY <1>1, <1>3, <2>2 DEF BackedUp
  <2> QED BY <2>1, <2>2
<1> QED BY <1>2, <1>4, BufferStep

LEMMA GiveUpStep ==
    ASSUME IInv, GiveUp
    PROVE  IInv' /\ Steps
<1>1. /\ displacing' = NULL /\ UNCHANGED <<setup, buf, lock, calls>> /\ calls' \in 0..MaxCalls
      /\ Sound(buf, lock) /\ Content(buf)
  BY DEF GiveUp, IInv, SetupOK
<1> QED BY <1>1, FreesReflexive, BufferStep

LEMMA StutterStep ==
    ASSUME IInv, UNCHANGED vars
    PROVE  IInv' /\ Steps
<1>1. /\ UNCHANGED <<setup, buf, lock, displacing, calls>> /\ calls' \in 0..MaxCalls
      /\ Sound(buf, lock) /\ Content(buf)
  BY DEF vars, IInv, SetupOK
<1> QED BY <1>1, FreesReflexive, BufferStep

-----------------------------------------------------------------------------
LEMMA InitInv == Init => IInv
<1> SUFFICES ASSUME Init PROVE IInv
  OBVIOUS
<1>1. /\ buf \in Buffers /\ buf.allocs = {} /\ buf.before = {}
      /\ buf.current = {} /\ buf.latest = {} /\ buf.written = NULL /\ buf.read = NULL
      /\ buf.content = "none" /\ buf.pool = [a \in Allocs |-> NULL]
  BY DEF Init, Buffers
<1>2. SetupOK /\ Displacement /\ \A c \in Clients : lock[c] = NULL
  BY PoolAssumption DEF Init, SetupOK, Displacement
<1>3. Ordered(buf)
  BY <1>1 DEF Ordered
<1>4. Memory(buf, lock) /\ Serials(buf) /\ Writers(buf, lock) /\ LockFlags(buf, lock)
  BY <1>1, <1>2 DEF Memory, Serials, Writers, LockFlags
<1>5. Flags(buf) /\ Content(buf)
  BY <1>1 DEF Flags, Content
<1> QED BY <1>1, <1>2, <1>3, <1>4, <1>5 DEF IInv, Sound

LEMMA StepInv ==
    ASSUME IInv, [Next]_vars
    PROVE  IInv' /\ Steps
<1>1. ASSUME NEW c \in Clients, NEW op \in Ops, PreLock(c, op) PROVE IInv' /\ Steps
  BY <1>1, PreLockStep
<1>2. ASSUME NEW c \in Clients, NEW op \in Ops, PreLockFails(c, op) PROVE IInv' /\ Steps
  BY <1>2, PreLockFailsStep
<1>3. ASSUME NEW c \in Clients, Use(c) PROVE IInv' /\ Steps
  BY <1>3, UseStep
<1>4. ASSUME NEW c \in Clients, Unlock(c) PROVE IInv' /\ Steps
  BY <1>4, UnlockStep
<1>5. ASSUME NEW a \in Allocs, Destructor(a) PROVE IInv' /\ Steps
  BY <1>5, DestructorStep
<1>6. ASSUME NEW a \in Allocs, MuckOut(a) PROVE IInv' /\ Steps
  BY <1>6, MuckOutStep
<1>7. CASE GpuDone
  BY <1>7, GpuDoneStep
<1>8. CASE DeallocateBuffers \/ Destroy
  BY <1>8, DeallocateStep
<1>9. CASE Displace
  BY <1>9, DisplaceStep
<1>10. CASE GiveUp
  BY <1>10, GiveUpStep
<1>11. CASE UNCHANGED vars
  BY <1>11, StutterStep
<1> QED BY <1>1, <1>2, <1>3, <1>4, <1>5, <1>6, <1>7, <1>8, <1>9, <1>10, <1>11 DEF Next, Operation

LEMMA InvProperties == IInv => Consistent /\ UpToDateIsLatest /\ ContentIsKept
<1> SUFFICES ASSUME IInv PROVE Consistent /\ UpToDateIsLatest /\ ContentIsKept
  OBVIOUS
<1>1. TypeOK
  BY DEF IInv, SetupOK, Sound, Serials, TypeOK
<1>2. WrittenIsUpToDate /\ LockedIsAllocated
  BY DEF IInv, Sound, Serials, Memory, WrittenIsUpToDate, LockedIsAllocated
<1>3. UpToDateIsLatest /\ ContentIsKept
  BY DEF IInv, Content, Sound, Serials, UpToDateIsLatest, ContentIsKept
<1> QED BY <1>1, <1>2, <1>3 DEF Consistent

LEMMA Invariant == Spec => []IInv
<1>1. IInv /\ [Next]_vars => IInv'
  BY StepInv
<1> QED BY <1>1, InitInv, PTL DEF Spec

(* buffer->written and buffer->read are allocations of the buffer, what is *)
(* written last is up to date, and memory stays while it is locked: the    *)
(* pointers that dfb_surface_allocation_decouple() repairs, after failures  *)
(* of drivers and displacements too.                                       *)
THEOREM BufferIsConsistent == Spec => []Consistent
  BY Invariant, InvProperties, PTL

(* Equal serials mean equal pixels: dfb_surface_allocation_update() copies *)
(* from where the content is before it sets the serial.                    *)
THEOREM SerialsTellTheTruth == Spec => []UpToDateIsLatest
  BY Invariant, InvProperties, PTL

(* backup_allocation(), volatile pools and thrifty-surface-buffers never   *)
(* give up the last allocation that holds what was written.                *)
THEOREM NothingWrittenIsLost == Spec => []ContentIsKept
  BY Invariant, InvProperties, PTL

(* manage_interlocks() and dfb_surface_allocation_decouple(): CPU and GPU   *)
(* are given locks of an allocation only when the other has finished       *)
(* there, and decoupling frees no memory the GPU works on.                 *)
THEOREM LocksWaitForEachOther == Spec => LocksInterlock
<1>1. IInv /\ [Next]_vars => [CpuWaitsForGpu /\ GpuSeesCpuWrites /\ FreesIdleMemory]_vars
  BY StepInv DEF Steps
<1> QED BY <1>1, Invariant, PTL DEF Spec, LocksInterlock

-----------------------------------------------------------------------------
(* CPU locks with the task manager: the LockTask that PreLockBuffer()      *)
(* flushes for each of the clients.                                        *)
CONSTANT MaxLocks

VARIABLES pc, pushed, timeout, runs, done, locks

Task == INSTANCE LockTask

(* Until the client is out of Wait(), and until the manager has run it,    *)
(* nobody has ended the task; a client that leaves the loop with a lock    *)
(* finds the task run and has not set timeout.                             *)
NotEndedYet ==
    \A c \in Clients :
        /\ c \in runs => done[c] = 0 /\ c \notin pushed
        /\ pc[c] \in {"wait", "expired", "leave"} => done[c] = 0 /\ c \notin timeout
        /\ pc[c] = "leave" => c \in pushed

LockInv == Task!TypeOK /\ Task!DoneOnce /\ NotEndedYet

LEMMA LockTaskInit ==
    ASSUME MaxLocks \in Nat, Task!Init
    PROVE  LockInv
  BY DEF LockInv, NotEndedYet, Task!Init, Task!TypeOK, Task!DoneOnce

LEMMA LockTaskStep ==
    ASSUME MaxLocks \in Nat, LockInv, [Task!Next]_(Task!vars)
    PROVE  LockInv'
<1> USE DEF LockInv, NotEndedYet, Task!TypeOK, Task!DoneOnce
<1>1. ASSUME NEW c \in Clients, Task!Flush(c) PROVE LockInv'
  BY <1>1 DEF Task!Flush
<1>2. ASSUME NEW c \in Clients, Task!Pushed(c) PROVE LockInv'
  BY <1>2 DEF Task!Pushed
<1>3. ASSUME NEW c \in Clients, Task!Expire(c) PROVE LockInv'
  BY <1>3 DEF Task!Expire
<1>4. ASSUME NEW c \in Clients, Task!GiveUp(c) PROVE LockInv'
  BY <1>4 DEF Task!GiveUp
<1>5. ASSUME NEW c \in Clients, Task!ClientDone(c) PROVE LockInv'
  BY <1>5 DEF Task!ClientDone
<1>6. ASSUME NEW c \in Clients, Task!Run(c) PROVE LockInv'
  <2>1. CASE c \in timeout
    BY <1>6, <2>1 DEF Task!Run, Task!RunEnds
  <2>2. CASE c \notin timeout
    BY <1>6, <2>2 DEF Task!Run, Task!RunEnds
  <2> QED BY <2>1, <2>2
<1>7. CASE UNCHANGED Task!vars
  BY <1>7 DEF Task!vars
<1> QED BY <1>1, <1>2, <1>3, <1>4, <1>5, <1>6, <1>7 DEF Task!Next, Task!Client

(* LockTask: Run() of the manager and the client whose wait is over or has *)
(* timed out never both call Done() on a task, whoever gets the mutex      *)
(* first, for any number of clients and locks.                             *)
THEOREM LockTaskEndsOnce ==
    ASSUME MaxLocks \in Nat
    PROVE  Task!Spec => []Task!Consistent
<1>1. Task!Init => LockInv
  BY LockTaskInit
<1>2. LockInv /\ [Task!Next]_(Task!vars) => LockInv'
  BY LockTaskStep
<1>3. LockInv => Task!Consistent
  BY DEF LockInv, Task!Consistent
<1> QED BY <1>1, <1>2, <1>3, PTL DEF Task!Spec
=============================================================================
