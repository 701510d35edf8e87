------------------------- MODULE FusionObjectProofs -------------------------
(***************************************************************************)
(* What holds of objects and references in every execution, for any number *)
(* of threads, objects and pools.                                          *)
(*                                                                         *)
(* The counter of an object is the number of references on it because the  *)
(* stacks of the threads are of one shape: a destructor that is about to   *)
(* drop a link stands directly above the fusion_object_destroy() of its    *)
(* object, and no object is destroyed by two frames.  With the counter     *)
(* exact, the watcher that finds 0 under the locks of the pool and of the  *)
(* counter knows that no thread holds a reference, and the lock of the     *)
(* pool keeps the object from being found while it is taken out.           *)
(***************************************************************************)
EXTENDS FusionObject, FiniteSetTheorems, TLAPS

Gets == {"get_stat", "get_up", "get_dead", "get_null"}

Inner == {"down_unlock", "destroy", "zombies"}

(* What frame f of thread t relies on until it runs. *)
Fits(t, f) ==
    /\ f.pc = "zombies" =>
          /\ f.obj \in Pools /\ t \in Users
          /\ pool_lock[f.obj] = t /\ pools[f.obj] = "closing"
    /\ f.pc # "zombies" => f.obj \in Objects
    /\ f.pc \in Gets =>
          /\ t \in Users /\ owns[t][f.obj] < MaxRefs
          /\ pool_lock[PoolOf[f.obj]] = t /\ pools[PoolOf[f.obj]] = "open"
    /\ f.pc = "get_up" => f.obj \in objects
    /\ f.pc \in {"watch", "watch_locked", "down_unlock"} => t = Dispatcher
    /\ f.pc = "watch_locked" => pool_lock[PoolOf[f.obj]] = t
    /\ f.pc \in {"destructor", "destroy"} =>
          memory[f.obj] = "live" /\ state[f.obj] = "DEINIT"

FramesFit == \A t \in Threads : \A i \in DOMAIN stack[t] : Fits(t, stack[t][i])

(* The shape of the stack s of thread t. *)
Nests(t, s) ==
    /\ \A i \in DOMAIN s : i > 1 => s[i].pc \in Inner
    /\ \A i \in DOMAIN s : s[i].pc = "zombies" => i = Len(s)
    /\ s # << >> /\ s[1].pc = "down" =>
          \/ Len(s) = 1 /\ t \in Users /\ owns[t][s[1].obj] > 0
          \/ Len(s) > 1 /\ s[2].pc = "destroy" /\ Child[s[2].obj] = s[1].obj

StacksNest == \A t \in Threads : Nests(t, stack[t])

Ends(f, o) == f.pc \in {"destructor", "destroy"} /\ f.obj = o

EndedOnce ==
    \A o \in Objects : \A t, v \in Threads :
        \A i \in DOMAIN stack[t], j \in DOMAIN stack[v] :
            Ends(stack[t][i], o) /\ Ends(stack[v][j], o) => t = v /\ i = j

PooledIsWhole == \A o \in objects : memory[o] = "live" /\ state[o] # "DEINIT"

HeldIsWhole ==
    \A t \in Threads, o \in Objects :
        owns[t][o] > 0 => memory[o] = "live" /\ state[o] # "DEINIT"

UnbornIsUnknown ==
    \A o \in Objects : memory[o] = "none" =>
        state[o] = "INIT" /\ \A t \in Threads : owns[t][o] = 0

ChildIsOlder ==
    \A p \in Objects :
        memory[p] # "none" /\ Child[p] # NoObject => memory[Child[p]] # "none"

DispatcherHasNone == \A o \in Objects : owns[Dispatcher][o] = 0

ClosedIsUnused ==
    \A o \in Objects, t \in Threads : pools[PoolOf[o]] # "open" => owns[t][o] = 0

(* The objects whose link to o has not been dropped. *)
Links(o) == {p \in Objects : Child[p] = o /\ Linked(p)}

(* Everything but the types and the stacks. *)
Books ==
    /\ PooledIsWhole
    /\ UnbornIsUnknown
    /\ ChildIsOlder
    /\ DispatcherHasNone
    /\ ClosedIsUnused
    /\ HeldIsWhole
    /\ CountsReferences

IInv ==
    /\ TypeOK
    /\ FramesFit
    /\ StacksNest
    /\ EndedOnce
    /\ Books

(* Frame f of thread v stays when the first frame of t is replaced. *)
Below(t, v, f) == \E j \in DOMAIN stack[v] : stack[v][j] = f /\ (v = t => j > 1)

(* The frames fr take the place of the first frame of thread t, if any. *)
Renewed(t, fr) ==
    LET k == Len(fr)
        n == IF stack[t] = << >> THEN 0 ELSE Len(stack[t]) - 1
    IN  /\ stack' \in [Threads -> Seq(Frame)]
        /\ \A v \in Threads \ {t} : stack'[v] = stack[v]
        /\ Len(stack'[t]) = k + n
        /\ \A i \in 1..k : stack'[t][i] = fr[i]
        /\ \A i \in 1..n : stack'[t][k + i] = stack[t][i + 1]

-----------------------------------------------------------------------------
(* The frames of the next state *)

LEMMA ReplaceRenews ==
  ASSUME stack \in [Threads -> Seq(Frame)], NEW t \in Threads, stack[t] # << >>,
         NEW fr \in Seq(Frame), Replace(t, fr)
  PROVE  Renewed(t, fr)
<1> DEFINE s == stack[t]
<1>1. s \in Seq(Frame) /\ Tail(s) \in Seq(Frame) /\ Len(Tail(s)) = Len(s) - 1
      /\ \A i \in 1..(Len(s) - 1) : Tail(s)[i] = s[i + 1]
  OBVIOUS
<1>2. stack' = [stack EXCEPT ![t] = fr \o Tail(s)]
  BY DEF Replace
<1>3. fr \o Tail(s) \in Seq(Frame)
  BY <1>1
<1>4. stack' \in [Threads -> Seq(Frame)] /\ stack'[t] = fr \o Tail(s)
      /\ \A v \in Threads \ {t} : stack'[v] = stack[v]
  BY <1>2, <1>3
<1>5. PICK q \in Seq(Frame) : q = Tail(s)
  BY <1>1
<1>6. Len(fr \o q) = Len(fr) + Len(q)
      /\ (\A i \in 1..Len(fr) : (fr \o q)[i] = fr[i])
      /\ (\A i \in 1..Len(q) : (fr \o q)[Len(fr) + i] = q[i])
  OBVIOUS
<1>7. stack'[t] = fr \o q /\ Len(q) = Len(s) - 1
      /\ \A i \in 1..(Len(s) - 1) : q[i] = s[i + 1]
  BY <1>1, <1>4, <1>5
<1> QED
  BY <1>4, <1>6, <1>7 DEF Renewed

LEMMA StartRenews ==
  ASSUME stack \in [Threads -> Seq(Frame)], NEW t \in Threads, stack[t] = << >>,
         NEW f \in Frame, stack' = [stack EXCEPT ![t] = <<f>>]
  PROVE  Renewed(t, <<f>>)
<1>1. <<f>> \in Seq(Frame) /\ Len(<<f>>) = 1 /\ <<f>>[1] = f
  OBVIOUS
<1>2. stack' \in [Threads -> Seq(Frame)] /\ stack'[t] = <<f>>
      /\ \A v \in Threads \ {t} : stack'[v] = stack[v]
  BY <1>1
<1> QED
  BY <1>1, <1>2 DEF Renewed

(* A frame of the next state is new, or was there below the first one. *)
LEMMA FrameWas ==
  ASSUME stack \in [Threads -> Seq(Frame)], NEW t \in Threads,
         NEW fr \in Seq(Frame), Renewed(t, fr), NEW i \in DOMAIN stack'[t]
  PROVE  \/ i \in DOMAIN fr /\ stack'[t][i] = fr[i]
         \/ /\ i > Len(fr) /\ i - Len(fr) + 1 \in DOMAIN stack[t]
            /\ i - Len(fr) + 1 > 1
            /\ stack'[t][i] = stack[t][i - Len(fr) + 1]
            /\ stack[t] # << >>
<1>1. stack[t] \in Seq(Frame) /\ stack'[t] \in Seq(Frame)
  BY DEF Renewed
<1>2. PICK k \in Nat : k = Len(fr)
  OBVIOUS
<1>3. i \in Nat /\ i >= 1 /\ i <= Len(stack'[t])
  BY <1>1
<1>4. CASE i <= k
  BY <1>2, <1>3, <1>4 DEF Renewed
<1>5. CASE i > k
  <2>1. stack[t] # << >> /\ Len(stack'[t]) = k + (Len(stack[t]) - 1)
    BY <1>1, <1>2, <1>3, <1>5 DEF Renewed
  <2>2. i - k \in 1..(Len(stack[t]) - 1)
    BY <1>1, <1>3, <1>5, <2>1
  <2>3. stack'[t][k + (i - k)] = stack[t][(i - k) + 1]
    BY <1>2, <2>1, <2>2 DEF Renewed
  <2>4. k + (i - k) = i /\ (i - k) + 1 = i - k + 1 /\ i - k + 1 \in DOMAIN stack[t]
        /\ i - k + 1 > 1
    BY <1>1, <1>3, <1>5, <2>2
  <2> QED
    BY <1>2, <1>5, <2>1, <2>3, <2>4
<1> QED
  BY <1>3, <1>4, <1>5

LEMMA FitAfter ==
  ASSUME stack \in [Threads -> Seq(Frame)], FramesFit, StacksNest,
         NEW t \in Threads, NEW fr \in Seq(Frame), Renewed(t, fr),
         \A i \in DOMAIN fr : Fits(t, fr[i])',
         \A v \in Threads, f \in Frame :
            Fits(v, f) /\ Below(t, v, f) /\ (v = t => f.pc \in Inner) => Fits(v, f)'
  PROVE  FramesFit'
<1> SUFFICES ASSUME NEW v \in Threads, NEW i \in DOMAIN stack'[v]
             PROVE  Fits(v, stack[v][i])'
  BY DEF FramesFit
<1>1. stack[v] \in Seq(Frame) /\ stack[t] \in Seq(Frame)
  OBVIOUS
<1>2. CASE v # t
  <2>1. stack'[v] = stack[v] /\ i \in DOMAIN stack[v]
    BY <1>2 DEF Renewed
  <2>2. PICK f \in Frame : f = stack[v][i] /\ f = stack'[v][i]
    BY <1>1, <2>1
  <2>3. Fits(v, f) /\ Below(t, v, f)
    BY <1>2, <2>1, <2>2 DEF FramesFit, Below
  <2>4. Fits(v, f)'
    BY <1>2, <2>3
  <2> QED
    BY <2>2, <2>4 DEF Fits
<1>3. CASE v = t
  <2>1. CASE i \in DOMAIN fr /\ stack'[t][i] = fr[i]
    <3>1. Fits(t, fr[i])'
      BY <2>1
    <3> QED
      BY <1>3, <2>1, <3>1 DEF Fits
  <2>2. CASE \E j \in DOMAIN stack[t] : j > 1 /\ stack'[t][i] = stack[t][j]
    <3>1. PICK j \in DOMAIN stack[t] : j > 1 /\ stack'[t][i] = stack[t][j]
      BY <2>2
    <3>2. PICK f \in Frame : f = stack[t][j] /\ f = stack'[t][i]
      BY <1>1, <3>1
    <3>3. Fits(t, f) /\ Below(t, t, f) /\ f.pc \in Inner
      BY <3>1, <3>2 DEF FramesFit, StacksNest, Nests, Below
    <3>4. Fits(t, f)'
      BY <3>3
    <3> QED
      BY <1>3, <3>2, <3>4 DEF Fits
  <2> QED
    BY <1>3, <2>1, <2>2, FrameWas
<1> QED
  BY <1>2, <1>3

(* The shape is kept when nobody else's references change and no dropping  *)
(* of a reference begins but above its destroy().                          *)
LEMMA NestAfter ==
  ASSUME stack \in [Threads -> Seq(Frame)], StacksNest,
         NEW t \in Threads, NEW fr \in Seq(Frame), Renewed(t, fr),
         \A i \in DOMAIN fr : i > 1 => fr[i].pc \in Inner,
         \A i \in DOMAIN fr : fr[i].pc = "zombies" => i = Len(fr) /\ Len(stack[t]) <= 1,
         fr # << >> /\ fr[1].pc = "down" =>
            \/ Len(fr) = 1 /\ stack[t] = << >> /\ t \in Users /\ owns'[t][fr[1].obj] > 0
            \/ Len(fr) > 1 /\ fr[2].pc = "destroy" /\ Child[fr[2].obj] = fr[1].obj,
         \A v \in Threads \ {t}, f \in Frame :
            stack[v] # << >> /\ f.pc = "down" => owns'[v][f.obj] = owns[v][f.obj]
  PROVE  StacksNest'
<1> SUFFICES ASSUME NEW v \in Threads PROVE Nests(v, stack[v])'
  BY DEF StacksNest
<1>1. stack[v] \in Seq(Frame) /\ stack[t] \in Seq(Frame) /\ stack'[v] \in Seq(Frame)
  BY DEF Renewed
<1>2. Nests(v, stack[v])
  BY DEF StacksNest
<1>3. CASE v # t
  <2>1. stack'[v] = stack[v]
    BY <1>3 DEF Renewed
  <2>2. stack[v] # << >> => stack[v][1] \in Frame
    BY <1>1
  <2>3. stack[v] # << >> /\ stack[v][1].pc = "down" =>
           owns'[v][stack[v][1].obj] = owns[v][stack[v][1].obj]
    BY <1>3, <2>2
  <2> QED
    BY <1>2, <2>1, <2>3 DEF Nests
<1>4. CASE v = t
  <2>1. \A i \in DOMAIN stack'[t] : i > 1 => stack'[t][i].pc \in Inner
    <3> SUFFICES ASSUME NEW i \in DOMAIN stack'[t], i > 1
                 PROVE  stack'[t][i].pc \in Inner
      OBVIOUS
    <3>1. CASE i \in DOMAIN fr /\ stack'[t][i] = fr[i]
      BY <3>1
    <3>2. CASE \E j \in DOMAIN stack[t] : j > 1 /\ stack'[t][i] = stack[t][j]
      BY <1>2, <1>4, <3>2 DEF Nests
    <3> QED
      BY <3>1, <3>2, FrameWas
  <2>2. \A i \in DOMAIN stack'[t] : stack'[t][i].pc = "zombies" => i = Len(stack'[t])
    <3> SUFFICES ASSUME NEW i \in DOMAIN stack'[t], stack'[t][i].pc = "zombies"
                 PROVE  i = Len(stack'[t])
      OBVIOUS
    <3>1. CASE i \in DOMAIN fr /\ stack'[t][i] = fr[i]
      <4>1. i = Len(fr) /\ Len(stack[t]) <= 1
        BY <3>1
      <4>2. PICK s \in Seq(Frame) : s = stack[t]
        BY <1>1
      <4>3. s # << >> => Len(s) = 1
        <5>1. Len(s) \in Nat /\ Len(s) <= 1
          BY <4>1, <4>2
        <5>2. s # << >> => Len(s) # 0
          OBVIOUS
        <5>3. PICK n \in Nat : n = Len(s) /\ n <= 1
          BY <5>1
        <5>4. n = 0 \/ n = 1
          BY <5>3
        <5> QED
          BY <5>2, <5>3, <5>4
      <4>4. CASE s = << >>
        <5>1. Len(stack'[t]) = Len(fr) + 0
          BY <4>2, <4>4 DEF Renewed
        <5> QED
          BY <4>1, <5>1
      <4>5. CASE s # << >>
        <5>1. Len(stack'[t]) = Len(fr) + (Len(s) - 1)
          BY <4>2, <4>5 DEF Renewed
        <5>2. Len(s) - 1 = 0 /\ Len(fr) + 0 = Len(fr)
          BY <4>3, <4>5
        <5> QED
          BY <4>1, <5>1, <5>2
      <4> QED
        BY <4>4, <4>5
    <3>2. CASE /\ i > Len(fr) /\ i - Len(fr) + 1 \in DOMAIN stack[t]
               /\ stack'[t][i] = stack[t][i - Len(fr) + 1]
               /\ stack[t] # << >>
      <4>1. i - Len(fr) + 1 = Len(stack[t])
        BY <1>2, <1>4, <3>2 DEF Nests
      <4>2. Len(stack'[t]) = Len(fr) + (Len(stack[t]) - 1)
        BY <3>2 DEF Renewed
      <4>3. i \in Int /\ Len(fr) \in Int /\ Len(stack[t]) \in Int
        BY <1>1, <1>4
      <4> QED
        BY <4>1, <4>2, <4>3
    <3> QED
      BY <3>1, <3>2, FrameWas
  <2>3. ASSUME stack'[t] # << >>, stack'[t][1].pc = "down"
        PROVE  \/ Len(stack'[t]) = 1 /\ t \in Users /\ owns'[t][stack'[t][1].obj] > 0
               \/ /\ Len(stack'[t]) > 1 /\ stack'[t][2].pc = "destroy"
                  /\ Child[stack'[t][2].obj] = stack'[t][1].obj
    <3>1. 1 \in DOMAIN stack'[t]
      BY <1>1, <1>4, <2>3
    <3>2. 1 \in DOMAIN fr /\ stack'[t][1] = fr[1]
      <4>1. ~ \E j \in DOMAIN stack[t] : j > 1 /\ stack'[t][1] = stack[t][j]
        BY <1>2, <1>4, <2>3 DEF Nests, Inner
      <4> QED
        BY <3>1, <4>1, FrameWas
    <3>3. fr # << >> /\ fr[1].pc = "down" /\ Len(fr) \in Nat
      BY <2>3, <3>2
    <3>4. CASE Len(fr) = 1 /\ stack[t] = << >> /\ t \in Users /\ owns'[t][fr[1].obj] > 0
      <4>1. Len(stack'[t]) = 1 + 0
        BY <3>4 DEF Renewed
      <4> QED
        BY <3>2, <3>4, <4>1
    <3>5. CASE Len(fr) > 1 /\ fr[2].pc = "destroy" /\ Child[fr[2].obj] = fr[1].obj
      <4>1. 2 \in 1..Len(fr)
        BY <3>3, <3>5
      <4>2. stack'[t][2] = fr[2]
        BY <4>1 DEF Renewed
      <4>3. Len(stack'[t]) >= Len(fr)
        BY <1>1, <3>3 DEF Renewed
      <4>4. Len(stack'[t]) > 1
        BY <1>1, <1>4, <3>3, <3>5, <4>3
      <4> QED
        BY <3>2, <3>5, <4>2, <4>4
    <3> QED
      BY <3>3, <3>4, <3>5
  <2> QED
    BY <1>4, <2>1, <2>2, <2>3 DEF Nests
<1> QED
  BY <1>3, <1>4

LEMMA EndedOnceAfter ==
  ASSUME stack \in [Threads -> Seq(Frame)], EndedOnce,
         NEW t \in Threads, NEW fr \in Seq(Frame), Renewed(t, fr),
         \A o \in Objects : \A i, j \in DOMAIN fr :
            Ends(fr[i], o) /\ Ends(fr[j], o) => i = j,
         \A o \in Objects : \A i \in DOMAIN fr : Ends(fr[i], o) =>
            \/ stack[t] # << >> /\ Ends(stack[t][1], o)
            \/ \A v \in Threads : \A j \in DOMAIN stack[v] : ~Ends(stack[v][j], o)
  PROVE  EndedOnce'
<1> SUFFICES ASSUME NEW o \in Objects, NEW v \in Threads, NEW w \in Threads,
                    NEW i \in DOMAIN stack'[v], NEW j \in DOMAIN stack'[w],
                    Ends(stack'[v][i], o), Ends(stack'[w][j], o)
             PROVE  v = w /\ i = j
  BY DEF EndedOnce, Ends
<1> DEFINE new(x, m) == x = t /\ m \in DOMAIN fr /\ stack'[x][m] = fr[m]
<1> DEFINE pos(x, m) == IF x = t THEN m - Len(fr) + 1 ELSE m
<1> DEFINE old(x, m) == /\ pos(x, m) \in DOMAIN stack[x]
                        /\ stack'[x][m] = stack[x][pos(x, m)]
                        /\ x = t => pos(x, m) > 1 /\ stack[t] # << >>
<1>1. ASSUME NEW x \in Threads, NEW m \in DOMAIN stack'[x]
      PROVE  new(x, m) \/ old(x, m)
  <2>1. CASE x = t
    BY <2>1, FrameWas
  <2>2. CASE x # t
    BY <2>2 DEF Renewed
  <2> QED
    BY <2>1, <2>2
<1>2. CASE old(v, i) /\ old(w, j)
  <2>1. v = w /\ pos(v, i) = pos(w, j)
    BY <1>2 DEF EndedOnce
  <2>2. i \in Int /\ j \in Int /\ Len(fr) \in Int
    BY DEF Renewed
  <2> QED
    BY <2>1, <2>2
<1>3. CASE new(v, i) /\ new(w, j)
  BY <1>3
<1>4. ASSUME NEW x \in Threads, NEW m, new(x, m), Ends(stack'[x][m], o),
             NEW y \in Threads, NEW n, old(y, n), Ends(stack'[y][n], o)
      PROVE  FALSE
  <2>1. m \in DOMAIN fr /\ Ends(fr[m], o)
    BY <1>4
  <2>2. pos(y, n) \in DOMAIN stack[y] /\ Ends(stack[y][pos(y, n)], o)
    BY <1>4
  <2>3. stack[t] # << >> /\ Ends(stack[t][1], o)
    BY <2>1, <2>2
  <2>4. 1 \in DOMAIN stack[t]
    BY <2>3
  <2>5. y = t /\ pos(y, n) = 1
    BY <2>2, <2>3, <2>4 DEF EndedOnce
  <2> QED
    BY <1>4, <2>5
<1> QED
  BY <1>1, <1>2, <1>3, <1>4

-----------------------------------------------------------------------------
(* Links and references that are held *)

(* Only the frames of p and what is above them say whether its link has    *)
(* been dropped.                                                           *)
LEMMA LinkedAfter ==
  ASSUME stack \in [Threads -> Seq(Frame)], StacksNest,
         NEW t \in Threads, NEW fr \in Seq(Frame), Renewed(t, fr),
         NEW p \in Objects, memory'[p] = memory[p],
         \A i \in DOMAIN fr : fr[i] # F("destroy", p),
         stack[t] # << >> => stack[t][1] # F("destroy", p),
         Len(stack[t]) > 1 /\ stack[t][1].pc = "down" => stack[t][2] # F("destroy", p),
         fr # << >> /\ Len(stack[t]) > 1 => fr[Len(fr)].pc # "down"
  PROVE  Linked(p)' <=> Linked(p)
<1>1. stack[t] \in Seq(Frame) /\ stack'[t] \in Seq(Frame) /\ Nests(t, stack[t])
  BY DEF Renewed, StacksNest
<1>2. PICK k \in Nat : k = Len(fr)
  OBVIOUS
<1>3. \A j \in DOMAIN stack[t] : j > 1 /\ stack[t][j] = F("destroy", p) =>
         stack[t][j - 1] # F("down", Child[p])
  <2> SUFFICES ASSUME NEW j \in DOMAIN stack[t], j > 1, stack[t][j] = F("destroy", p),
                      stack[t][j - 1] = F("down", Child[p])
               PROVE  FALSE
    OBVIOUS
  <2>1. j \in Nat /\ j <= Len(stack[t]) /\ stack[t][j - 1].pc = "down"
    BY <1>1 DEF F
  <2>2. CASE j = 2
    BY <2>1, <2>2
  <2>3. CASE j > 2
    <3>1. j - 1 \in DOMAIN stack[t] /\ j - 1 > 1
      BY <1>1, <2>1, <2>3
    <3> QED
      BY <1>1, <2>1, <3>1 DEF Nests, Inner
  <2> QED
    BY <2>1, <2>2, <2>3
<1>4. ASSUME Linked(p) PROVE Linked(p)'
  <2> SUFFICES ASSUME NEW v \in Threads, NEW i \in DOMAIN stack'[v],
                      stack'[v][i] = F("destroy", p)
               PROVE  i > 1 /\ stack'[v][i - 1] = F("down", Child[p])
    BY <1>4 DEF Linked, F
  <2>1. CASE v # t
    BY <1>4, <2>1 DEF Renewed, Linked
  <2>2. CASE v = t
    <3>1. PICK j \in DOMAIN stack[t] : j > 1 /\ stack[t][j] = F("destroy", p)
      BY <2>2, FrameWas
    <3> QED
      BY <1>3, <1>4, <3>1 DEF Linked
  <2> QED
    BY <2>1, <2>2
<1>5. ASSUME Linked(p)' PROVE Linked(p)
  <2> SUFFICES ASSUME NEW v \in Threads, NEW i \in DOMAIN stack[v],
                      stack[v][i] = F("destroy", p)
               PROVE  i > 1 /\ stack[v][i - 1] = F("down", Child[p])
    BY <1>5 DEF Linked
  <2>1. CASE v # t
    <3>1. stack'[v] = stack[v]
      BY <2>1 DEF Renewed
    <3> QED
      BY <1>5, <3>1 DEF Linked, F
  <2>2. CASE v = t
    <3>1. stack[t] # << >> /\ i \in Nat /\ i > 1 /\ i <= Len(stack[t])
      <4>1. stack[t] # << >> /\ i \in Nat /\ i >= 1 /\ i <= Len(stack[t])
        BY <1>1, <2>2
      <4>2. i # 1
        BY <2>2, <4>1
      <4> QED
        BY <4>1, <4>2
    <3>2. i - 1 \in 1..(Len(stack[t]) - 1) /\ (i - 1) + 1 = i
      BY <1>1, <3>1
    <3>3. stack'[t][k + (i - 1)] = F("destroy", p)
      BY <1>2, <2>2, <3>1, <3>2 DEF Renewed
    <3>4. k + (i - 1) \in DOMAIN stack'[t]
      <4>1. Len(stack'[t]) = k + (Len(stack[t]) - 1)
        BY <1>2, <3>1 DEF Renewed
      <4> QED
        BY <1>1, <3>1, <4>1
    <3>5. k + (i - 1) > 1 /\ stack'[t][(k + (i - 1)) - 1] = F("down", Child[p])
      BY <1>5, <3>3, <3>4 DEF Linked, F
    <3>6. stack'[t][(k + (i - 1)) - 1].pc = "down"
      BY <3>5 DEF F
    <3>7. CASE i = 2
      <4>1. k > 0 /\ (k + (i - 1)) - 1 = k
        BY <3>5, <3>7
      <4>2. k \in 1..k /\ fr # << >> /\ Len(stack[t]) > 1
        BY <1>1, <1>2, <3>1, <4>1
      <4>3. stack'[t][k] = fr[k]
        BY <1>2, <4>2 DEF Renewed
      <4> QED
        BY <1>2, <3>6, <4>1, <4>2, <4>3
    <3>8. CASE i > 2
      <4>1. i - 2 \in 1..(Len(stack[t]) - 1) /\ (i - 2) + 1 = i - 1
            /\ (k + (i - 1)) - 1 = k + (i - 2) /\ i - 1 \in DOMAIN stack[t] /\ i - 1 > 1
        BY <1>1, <3>1, <3>8
      <4>2. stack'[t][k + (i - 2)] = stack[t][i - 1]
        BY <1>2, <3>1, <4>1 DEF Renewed
      <4> QED
        BY <1>1, <3>6, <4>1, <4>2 DEF Nests, Inner
    <3> QED
      BY <3>1, <3>7, <3>8
  <2> QED
    BY <2>1, <2>2
<1> QED
  BY <1>4, <1>5

(* References as elements of a set: the n-th reference of thread t. *)
Tokens(w) == {x \in Threads \X (1..MaxRefs) : x[2] <= w[x[1]]}

LEMMA HeldTokens ==
  ASSUME NEW o
  PROVE  /\ Held(o) = Tokens([t \in Threads |-> owns[t][o]])
         /\ Held(o)' = Tokens([t \in Threads |-> owns'[t][o]])
BY DEF Held, Tokens

LEMMA TokensFinite ==
  ASSUME NEW w
  PROVE  IsFiniteSet(Tokens(w)) /\ Cardinality(Tokens(w)) \in Nat
<1>1. IsFiniteSet(Threads)
  BY FiniteAssumption, FS_AddElement DEF Threads
<1>2. IsFiniteSet(1..MaxRefs)
  BY BoundAssumption, FS_Interval
<1>3. IsFiniteSet(Threads \X (1..MaxRefs))
  BY <1>1, <1>2, FS_Product
<1>4. Tokens(w) \in SUBSET (Threads \X (1..MaxRefs))
  BY DEF Tokens
<1> QED
  BY <1>3, <1>4, FS_Subset, FS_CardinalityType

LEMMA TokensOf ==
  ASSUME NEW w \in [Threads -> 0..MaxRefs]
  PROVE  /\ \A t \in Threads, n \in Nat : <<t, n>> \in Tokens(w) <=> n >= 1 /\ n <= w[t]
         /\ \A x \in Tokens(w) : \E t \in Threads, n \in Nat : x = <<t, n>>
<1>1. MaxRefs \in Nat
  BY BoundAssumption
<1>2. ASSUME NEW t \in Threads, NEW n \in Nat
      PROVE  <<t, n>> \in Tokens(w) <=> n >= 1 /\ n <= w[t]
  <2>1. w[t] \in 0..MaxRefs
    OBVIOUS
  <2>2. n >= 1 /\ n <= w[t] => n \in 1..MaxRefs
    BY <1>1, <2>1
  <2>3. n \in 1..MaxRefs => n >= 1
    BY <1>1
  <2>4. <<t, n>> \in Threads \X (1..MaxRefs) <=> n \in 1..MaxRefs
    OBVIOUS
  <2>5. <<t, n>>[1] = t /\ <<t, n>>[2] = n
    OBVIOUS
  <2>6. <<t, n>> \in Tokens(w) <=>
           <<t, n>> \in Threads \X (1..MaxRefs) /\ <<t, n>>[2] <= w[<<t, n>>[1]]
    BY DEF Tokens
  <2> QED
    BY <2>2, <2>3, <2>4, <2>5, <2>6
<1>3. ASSUME NEW x \in Tokens(w)
      PROVE  \E t \in Threads, n \in Nat : x = <<t, n>>
  BY <1>1 DEF Tokens
<1> QED
  BY <1>2, <1>3

LEMMA TokensZero ==
  ASSUME NEW w \in [Threads -> 0..MaxRefs]
  PROVE  Cardinality(Tokens(w)) = 0 <=> \A t \in Threads : w[t] = 0
<1>1. MaxRefs \in Nat /\ \A t \in Threads : w[t] \in Nat
  BY BoundAssumption
<1>2. Cardinality(Tokens(w)) = 0 <=> Tokens(w) = {}
  BY TokensFinite, FS_EmptySet
<1>3. ASSUME Tokens(w) = {}, NEW t \in Threads PROVE w[t] = 0
  <2>1. <<t, 1>> \in Tokens(w) <=> 1 >= 1 /\ 1 <= w[t]
    BY TokensOf
  <2>2. PICK n \in Nat : n = w[t]
    BY <1>1
  <2>3. ~(1 <= n)
    BY <1>3, <2>1, <2>2
  <2> QED
    BY <2>2, <2>3
<1>4. ASSUME \A t \in Threads : w[t] = 0 PROVE Tokens(w) = {}
  <2> SUFFICES ASSUME NEW x \in Tokens(w) PROVE FALSE
    OBVIOUS
  <2>1. PICK t \in Threads, n \in Nat : x = <<t, n>>
    BY TokensOf
  <2>2. n >= 1 /\ n <= w[t]
    BY <2>1, TokensOf
  <2> QED
    BY <1>4, <2>2
<1> QED
  BY <1>2, <1>3, <1>4

LEMMA TokensAdd ==
  ASSUME NEW w \in [Threads -> 0..MaxRefs], NEW w2 \in [Threads -> 0..MaxRefs],
         NEW t \in Threads, w2[t] = w[t] + 1,
         \A v \in Threads \ {t} : w2[v] = w[v]
  PROVE  Cardinality(Tokens(w2)) = Cardinality(Tokens(w)) + 1
<1>1. MaxRefs \in Nat /\ w[t] \in Nat /\ w2[t] \in Nat
  BY BoundAssumption
<1>2. PICK y : y = <<t, w2[t]>>
  OBVIOUS
<1>3. y \notin Tokens(w) /\ y \in Tokens(w2)
  BY <1>1, <1>2, TokensOf
<1>4. ASSUME NEW x PROVE x \in Tokens(w2) <=> x \in Tokens(w) \/ x = y
  <2>1. ASSUME NEW v \in Threads, NEW n \in Nat, x = <<v, n>>
        PROVE  x \in Tokens(w2) <=> x \in Tokens(w) \/ x = y
    <3>1. x \in Tokens(w2) <=> n >= 1 /\ n <= w2[v]
      BY <2>1, TokensOf
    <3>2. x \in Tokens(w) <=> n >= 1 /\ n <= w[v]
      BY <2>1, TokensOf
    <3>3. CASE v # t
      <4>1. x # y
        BY <1>2, <2>1, <3>3
      <4> QED
        BY <3>1, <3>2, <3>3, <4>1
    <3>4. CASE v = t
      <4>1. x = y <=> n = w2[t]
        BY <1>2, <2>1, <3>4
      <4> QED
        BY <1>1, <3>1, <3>2, <3>4, <4>1
    <3> QED
      BY <3>3, <3>4
  <2>2. x \in Tokens(w2) \/ x \in Tokens(w) \/ x = y =>
           \E v \in Threads, n \in Nat : x = <<v, n>>
    BY <1>1, <1>2, TokensOf
  <2> QED
    BY <2>1, <2>2
<1>5. Tokens(w2) = Tokens(w) \cup {y}
  BY <1>4
<1> QED
  BY <1>3, <1>5, TokensFinite, FS_AddElement

LEMMA LinksFinite ==
  ASSUME NEW o
  PROVE  IsFiniteSet(Links(o)) /\ Cardinality(Links(o)) \in Nat
<1>1. Links(o) \in SUBSET Objects
  BY DEF Links
<1> QED
  BY <1>1, FiniteAssumption, FS_Subset, FS_CardinalityType

-----------------------------------------------------------------------------
(* What the invariant says of the frame that runs *)

LEMMA FirstFrame ==
  ASSUME IInv, NEW t \in Threads, stack[t] # << >>
  PROVE  /\ 1 \in DOMAIN stack[t] /\ stack[t][1] \in Frame
         /\ Head(stack[t]) = stack[t][1]
         /\ Obj(t) = stack[t][1].obj
         /\ Fits(t, stack[t][1]) /\ Nests(t, stack[t])
         /\ stack \in [Threads -> Seq(Frame)]
<1>1. stack[t] \in Seq(Frame)
  BY DEF IInv, TypeOK
<1>2. 1 \in DOMAIN stack[t] /\ stack[t][1] \in Frame /\ Head(stack[t]) = stack[t][1]
  BY <1>1
<1> QED
  BY <1>2 DEF IInv, TypeOK, FramesFit, StacksNest, Obj

(* Nobody destroys an object that is not marked for it. *)
LEMMA NobodyEnds ==
  ASSUME IInv, NEW o \in Objects, state[o] # "DEINIT"
  PROVE  \A v \in Threads : \A j \in DOMAIN stack[v] : ~Ends(stack[v][j], o)
BY DEF IInv, FramesFit, Fits, Ends

LEMMA SameCounts ==
  ASSUME NEW o \in Objects, \A t \in Threads : owns'[t][o] = owns[t][o],
         \A p \in Objects : Child[p] = o => (Linked(p)' <=> Linked(p))
  PROVE  Held(o)' = Held(o) /\ Links(o)' = Links(o)
<1>1. Held(o)' = Held(o)
  <2>1. [t \in Threads |-> owns'[t][o]] = [t \in Threads |-> owns[t][o]]
    OBVIOUS
  <2> QED
    BY <2>1, HeldTokens
<1>2. Links(o)' = Links(o)
  BY DEF Links
<1> QED
  BY <1>1, <1>2

(* A step that changes no reference and no object keeps the books. *)
LEMMA QuietBooks ==
  ASSUME IInv, UNCHANGED <<memory, state, refs, objects, pools, owns>>,
         \A p \in Objects : Child[p] \in Objects => (Linked(p)' <=> Linked(p))
  PROVE  Books'
<1>1. PooledIsWhole' /\ UnbornIsUnknown' /\ ChildIsOlder' /\ ClosedIsUnused'
      /\ HeldIsWhole' /\ DispatcherHasNone'
  BY DEF IInv, Books, PooledIsWhole, UnbornIsUnknown, ChildIsOlder, ClosedIsUnused,
         HeldIsWhole, DispatcherHasNone
<1>2. CountsReferences'
  <2>1. ASSUME NEW o \in Objects PROVE Held(o)' = Held(o) /\ Links(o)' = Links(o)
    BY SameCounts
  <2> QED
    BY <2>1 DEF IInv, Books, CountsReferences, Links
<1> QED
  BY <1>1, <1>2 DEF Books

LEMMA QuietFrames ==
  ASSUME IInv, NEW t \in Threads, NEW fr \in Seq(Frame), Renewed(t, fr),
         UNCHANGED <<memory, state, refs, objects, pools, owns>>,
         Len(fr) <= 1,
         \A i \in DOMAIN fr : fr[i].pc \in Gets \cup {"watch", "watch_locked"},
         stack[t] # << >> =>
            stack[t][1].pc \notin {"down", "destructor", "destroy", "zombies"}
  PROVE  StacksNest' /\ EndedOnce' /\ Books'
<1>1. stack \in [Threads -> Seq(Frame)] /\ stack[t] \in Seq(Frame)
  BY DEF IInv, TypeOK
<1>2. \A i \in DOMAIN fr : i \in Nat /\ i >= 1 /\ i <= 1
  <2>1. Len(fr) \in Nat
    OBVIOUS
  <2> QED
    BY <2>1
<1>3. \A i \in DOMAIN fr :
         fr[i].pc \notin {"down", "destructor", "destroy", "zombies"}
  BY DEF Gets
<1>4. fr # << >> => 1 \in DOMAIN fr /\ Len(fr) \in DOMAIN fr
  OBVIOUS
<1>5. StacksNest'
  <2>1. \A i \in DOMAIN fr : ~(i > 1)
    BY <1>2
  <2>2. fr # << >> => fr[1].pc # "down"
    BY <1>3, <1>4
  <2> QED
    BY <1>1, <1>3, <2>1, <2>2, NestAfter DEF IInv
<1>6. EndedOnce'
  <2>1. \A o \in Objects : \A i \in DOMAIN fr : ~Ends(fr[i], o)
    BY <1>3 DEF Ends
  <2> QED
    BY <1>1, <2>1, EndedOnceAfter DEF IInv
<1>7. ASSUME NEW p \in Objects PROVE Linked(p)' <=> Linked(p)
  <2>1. \A i \in DOMAIN fr : fr[i] # F("destroy", p)
    BY <1>3 DEF F
  <2>2. stack[t] # << >> => stack[t][1] # F("destroy", p)
    BY DEF F
  <2>3. Len(stack[t]) > 1 => stack[t][1].pc # "down"
    BY <1>1
  <2>4. fr # << >> => fr[Len(fr)].pc # "down"
    BY <1>3, <1>4
  <2>5. memory'[p] = memory[p]
    OBVIOUS
  <2> QED
    BY <1>1, <2>1, <2>2, <2>3, <2>4, <2>5, LinkedAfter DEF IInv
<1>8. Books'
  BY <1>7, QuietBooks
<1> QED
  BY <1>5, <1>6, <1>8

-----------------------------------------------------------------------------
(* Steps that change no reference *)

LEMMA RefDownUnlockStep ==
  ASSUME IInv, NEW t \in Threads, RefDownUnlock(t)
  PROVE  IInv'
<1> DEFINE fr == << >>
<1>1. /\ stack[t] # << >> /\ stack[t][1].pc = "down_unlock"
      /\ stack[t][1].obj \in Objects
      /\ stack \in [Threads -> Seq(Frame)]
  BY FirstFrame DEF RefDownUnlock, At, Fits
<1>2. fr \in Seq(Frame) /\ Len(fr) = 0 /\ DOMAIN fr = {}
  OBVIOUS
<1>3. Renewed(t, fr)
  BY <1>1, <1>2, ReplaceRenews DEF RefDownUnlock, Return
<1>4. UNCHANGED <<memory, state, refs, locked, objects, pool_lock, pools, calls, owns>>
  BY DEF RefDownUnlock
<1>5. TypeOK'
  <2>1. ref_lock' \in [Objects -> Threads \cup {NoThread}]
    BY DEF RefDownUnlock, IInv, TypeOK
  <2> QED
    BY <1>3, <1>4, <2>1 DEF IInv, TypeOK, Renewed
<1>6. FramesFit'
  <2>1. \A v \in Threads, f \in Frame : Fits(v, f) => Fits(v, f)'
    BY <1>4 DEF Fits
  <2> QED
    BY <1>1, <1>2, <1>3, <2>1, FitAfter DEF IInv
<1>7. StacksNest' /\ EndedOnce' /\ Books'
  <2> HIDE DEF fr
  <2>1. Len(fr) <= 1 /\ \A i \in DOMAIN fr : fr[i].pc \in Gets \cup {"watch", "watch_locked"}
    BY <1>2
  <2>2. stack[t][1].pc \notin {"down", "destructor", "destroy", "zombies"}
    BY <1>1
  <2>3. UNCHANGED <<memory, state, refs, objects, pools, owns>>
    BY <1>4
  <2> QED
    BY <1>2, <1>3, <2>1, <2>2, <2>3, QuietFrames
<1> QED
  BY <1>5, <1>6, <1>7 DEF IInv

LEMMA GetStep ==
  ASSUME IInv, NEW u \in Users, NEW o \in Objects, Get(u, o)
  PROVE  IInv'
<1> DEFINE f0 == F("get_stat", o)
<1> DEFINE fr == <<f0>>
<1>1. u \in Threads /\ stack[u] = << >> /\ stack \in [Threads -> Seq(Frame)]
      /\ PoolOf[o] \in Pools /\ pool_lock \in [Pools -> Threads \cup {NoThread}]
  BY PoolAssumption DEF Get, Idle, IInv, TypeOK, Threads
<1>2. f0 \in Frame /\ f0.pc = "get_stat" /\ f0.obj = o
  BY DEF F, Frame
<1> HIDE DEF f0
<1>3. fr \in Seq(Frame) /\ Len(fr) = 1 /\ DOMAIN fr = {1} /\ fr[1] = f0
  BY <1>2
<1>4. Renewed(u, fr)
  <2>1. stack' = [stack EXCEPT ![u] = <<f0>>]
    BY DEF Get, f0
  <2> QED
    BY <1>1, <1>2, <2>1, StartRenews
<1> HIDE DEF fr
<1>5. UNCHANGED <<memory, state, refs, locked, ref_lock, objects, pools, calls, owns>>
  BY DEF Get
<1>6. pool_lock[PoolOf[o]] = NoThread /\ pool_lock' = [pool_lock EXCEPT ![PoolOf[o]] = u]
  BY DEF Get, Prevail, PoolLockFree
<1>7. TypeOK'
  <2>1. pool_lock' \in [Pools -> Threads \cup {NoThread}]
    BY <1>1, <1>6
  <2> QED
    BY <1>4, <1>5, <2>1 DEF IInv, TypeOK, Renewed
<1>8. FramesFit'
  <2>1. \A p \in Pools : pool_lock[p] \in Threads => pool_lock'[p] = pool_lock[p]
    BY <1>1, <1>6, ThreadAssumption
  <2>2. \A v \in Threads, f \in Frame : Fits(v, f) => Fits(v, f)'
    BY <1>5, <2>1, PoolAssumption DEF Fits, Gets
  <2>3. Fits(u, f0)'
    BY <1>1, <1>2, <1>5, <1>6, ThreadAssumption DEF Fits, Get, Gets
  <2> QED
    BY <1>1, <1>3, <1>4, <2>2, <2>3, FitAfter DEF IInv
<1>9. StacksNest' /\ EndedOnce' /\ Books'
  <2>1. Len(fr) <= 1 /\ \A i \in DOMAIN fr : fr[i].pc \in Gets \cup {"watch", "watch_locked"}
    BY <1>2, <1>3 DEF Gets
  <2>2. UNCHANGED <<memory, state, refs, objects, pools, owns>>
    BY <1>5
  <2> QED
    BY <1>1, <1>3, <1>4, <2>1, <2>2, QuietFrames
<1> QED
  BY <1>7, <1>8, <1>9 DEF IInv

LEMMA GetStatStep ==
  ASSUME IInv, NEW t \in Threads, GetStat(t)
  PROVE  IInv'
<1>1. PICK o : o = Obj(t)
  OBVIOUS
<1>2. /\ stack[t] # << >> /\ stack[t][1].pc = "get_stat" /\ stack[t][1].obj = o
      /\ Fits(t, stack[t][1])
      /\ stack \in [Threads -> Seq(Frame)]
  BY <1>1, FirstFrame DEF GetStat, At
<1>3. /\ o \in Objects /\ t \in Users /\ owns[t][o] < MaxRefs
      /\ pool_lock[PoolOf[o]] = t /\ pools[PoolOf[o]] = "open"
  BY <1>2 DEF Fits, Gets
<1>4. PICK f0 : f0 = F(IF o \notin objects THEN "get_null"
                       ELSE IF refs[o] > 0 THEN "get_up" ELSE "get_dead", o)
  OBVIOUS
<1>5. /\ f0 \in Frame /\ f0.pc \in Gets /\ f0.obj = o
      /\ f0.pc = "get_up" => o \in objects
  BY <1>3, <1>4 DEF F, Frame, Gets
<1> DEFINE fr == <<f0>>
<1>6. fr \in Seq(Frame) /\ Len(fr) = 1 /\ DOMAIN fr = {1} /\ fr[1] = f0
  BY <1>5
<1>7. Renewed(t, fr)
  <2>1. Replace(t, <<f0>>)
    BY <1>1, <1>4 DEF GetStat
  <2> QED
    BY <1>2, <1>6, <2>1, ReplaceRenews
<1> HIDE DEF fr
<1>8. UNCHANGED <<memory, state, refs, locked, ref_lock, objects, pool_lock, pools, calls, owns>>
  BY DEF GetStat
<1>9. TypeOK'
  BY <1>7, <1>8 DEF IInv, TypeOK, Renewed
<1>10. FramesFit'
  <2>1. \A v \in Threads, f \in Frame : Fits(v, f) => Fits(v, f)'
    BY <1>8 DEF Fits
  <2>2. Fits(t, f0)'
    BY <1>3, <1>5, <1>8 DEF Fits, Gets
  <2> QED
    BY <1>2, <1>6, <1>7, <2>1, <2>2, FitAfter DEF IInv
<1>11. StacksNest' /\ EndedOnce' /\ Books'
  <2>1. Len(fr) <= 1 /\ \A i \in DOMAIN fr : fr[i].pc \in Gets \cup {"watch", "watch_locked"}
    BY <1>5, <1>6
  <2>2. stack[t][1].pc \notin {"down", "destructor", "destroy", "zombies"}
    BY <1>2
  <2>3. UNCHANGED <<memory, state, refs, objects, pools, owns>>
    BY <1>8
  <2> QED
    BY <1>6, <1>7, <2>1, <2>2, <2>3, QuietFrames
<1> QED
  BY <1>9, <1>10, <1>11 DEF IInv

(* The lock of a pool is released by a get that returns or by the watcher: *)
(* the frames that rely on it are those of its owner.                      *)
LEMMA DismissFits ==
  ASSUME IInv, NEW t \in Threads, NEW o \in Objects, Dismiss(o),
         pool_lock[PoolOf[o]] = t, t \in Users => pools[PoolOf[o]] = "open",
         UNCHANGED <<memory, pools>>,
         objects' = objects \/ objects' = objects \ {o},
         \A x \in Objects : state[x] = "DEINIT" => state'[x] = "DEINIT",
         \A v \in Threads \ {t}, p \in Objects : owns'[v][p] = owns[v][p],
         NEW v \in Threads, NEW f \in Frame, Fits(v, f), v = t => f.pc \in Inner
  PROVE  Fits(v, f)'
<1>1. /\ PoolOf[o] \in Pools /\ pool_lock \in [Pools -> Threads \cup {NoThread}]
      /\ t \in Users \/ t = Dispatcher
      /\ Dispatcher \notin Users
  BY PoolAssumption, ThreadAssumption DEF IInv, TypeOK, Threads
<1>2. pool_lock' = [pool_lock EXCEPT ![PoolOf[o]] = NoThread]
  BY DEF Dismiss
<1>3. \A p \in Pools : p # PoolOf[o] => pool_lock'[p] = pool_lock[p]
  BY <1>1, <1>2
<1>4. f.pc = "zombies" => Fits(v, f)'
  <2>1. f.pc = "zombies" => f.obj \in Pools /\ f.obj # PoolOf[o]
    BY <1>1 DEF Fits
  <2> QED
    BY <1>3, <2>1 DEF Fits, Gets
<1>5. f.pc \in Gets => Fits(v, f)'
  <2>1. f.pc \in Gets => v # t /\ f.obj \in Objects /\ pool_lock[PoolOf[f.obj]] = v
    BY DEF Fits, Gets, Inner
  <2>2. f.pc \in Gets => PoolOf[f.obj] # PoolOf[o] /\ PoolOf[f.obj] \in Pools
    BY <2>1, PoolAssumption
  <2>3. f.pc \in Gets => pool_lock'[PoolOf[f.obj]] = v
    BY <1>3, <2>1, <2>2
  <2>4. f.pc = "get_up" => f.obj \in objects'
    BY <2>2 DEF Fits, Gets
  <2> QED
    BY <2>1, <2>2, <2>3, <2>4 DEF Fits, Gets
<1>6. f.pc = "watch_locked" => Fits(v, f)'
  <2>1. f.pc = "watch_locked" => v = Dispatcher /\ v # t /\ f.obj \in Objects
                                 /\ pool_lock[PoolOf[f.obj]] = v
    BY DEF Fits, Inner
  <2>2. f.pc = "watch_locked" => PoolOf[f.obj] # PoolOf[o] /\ PoolOf[f.obj] \in Pools
    BY <2>1, PoolAssumption
  <2> QED
    BY <1>3, <2>1, <2>2 DEF Fits, Gets
<1>7. f.pc \notin Gets \cup {"zombies", "watch_locked"} => Fits(v, f)'
  BY DEF Fits, Gets
<1> QED
  BY <1>4, <1>5, <1>6, <1>7

LEMMA GetNothingStep ==
  ASSUME IInv, NEW t \in Threads, GetNothing(t)
  PROVE  IInv'
<1> DEFINE fr == << >>
<1>1. PICK o : o = Obj(t)
  OBVIOUS
<1>2. /\ stack[t] # << >> /\ stack[t][1].pc \in Gets /\ stack[t][1].obj = o
      /\ Fits(t, stack[t][1])
      /\ stack \in [Threads -> Seq(Frame)]
  BY <1>1, FirstFrame DEF GetNothing, At, Gets
<1>3. /\ o \in Objects /\ t \in Users
      /\ pool_lock[PoolOf[o]] = t /\ pools[PoolOf[o]] = "open"
  BY <1>2 DEF Fits, Gets
<1>4. fr \in Seq(Frame) /\ Len(fr) = 0 /\ DOMAIN fr = {}
  OBVIOUS
<1>5. Renewed(t, fr)
  BY <1>2, <1>4, ReplaceRenews DEF GetNothing, Return
<1> HIDE DEF fr
<1>6. UNCHANGED <<memory, state, refs, locked, ref_lock, objects, pools, calls, owns>>
      /\ Dismiss(o)
  BY <1>1 DEF GetNothing
<1>7. TypeOK'
  <2>1. pool_lock' \in [Pools -> Threads \cup {NoThread}]
    BY <1>3, <1>6, PoolAssumption DEF Dismiss, IInv, TypeOK
  <2> QED
    BY <1>5, <1>6, <2>1 DEF IInv, TypeOK, Renewed
<1>8. FramesFit'
  <2>1. /\ UNCHANGED <<memory, pools>> /\ objects' = objects
        /\ \A x \in Objects : state[x] = "DEINIT" => state'[x] = "DEINIT"
        /\ \A v \in Threads \ {t}, p \in Objects : owns'[v][p] = owns[v][p]
    BY <1>6
  <2>2. \A v \in Threads, f \in Frame :
           Fits(v, f) /\ (v = t => f.pc \in Inner) => Fits(v, f)'
    BY <1>3, <1>6, <2>1, DismissFits
  <2> QED
    BY <1>2, <1>4, <1>5, <2>2, FitAfter DEF IInv
<1>9. StacksNest' /\ EndedOnce' /\ Books'
  <2>1. Len(fr) <= 1 /\ \A i \in DOMAIN fr : fr[i].pc \in Gets \cup {"watch", "watch_locked"}
    BY <1>4
  <2>2. stack[t][1].pc \notin {"down", "destructor", "destroy", "zombies"}
    BY <1>2 DEF Gets
  <2>3. UNCHANGED <<memory, state, refs, objects, pools, owns>>
    BY <1>6
  <2> QED
    BY <1>4, <1>5, <2>1, <2>2, <2>3, QuietFrames
<1> QED
  BY <1>7, <1>8, <1>9 DEF IInv

LEMMA DispatchStep ==
  ASSUME IInv, Dispatch
  PROVE  IInv'
<1>1. Dispatcher \in Threads /\ stack[Dispatcher] = << >>
      /\ stack \in [Threads -> Seq(Frame)]
  BY DEF Dispatch, Idle, IInv, TypeOK, Threads
<1>2. PICK q \in Seq(Objects) : q = calls /\ q # << >>
  BY DEF IInv, TypeOK, Dispatch
<1>3. PICK o \in Objects : o = Head(q)
  BY <1>2
<1>4. PICK f0 : f0 = F("watch", o)
  OBVIOUS
<1>5. f0 \in Frame /\ f0.pc = "watch" /\ f0.obj = o
  BY <1>4 DEF F, Frame
<1> DEFINE fr == <<f0>>
<1>6. fr \in Seq(Frame) /\ Len(fr) = 1 /\ DOMAIN fr = {1} /\ fr[1] = f0
  BY <1>5
<1>7. Renewed(Dispatcher, fr)
  <2>1. stack' = [stack EXCEPT ![Dispatcher] = <<f0>>]
    BY <1>2, <1>3, <1>4 DEF Dispatch
  <2> QED
    BY <1>1, <1>5, <2>1, StartRenews
<1> HIDE DEF fr
<1>8. UNCHANGED <<memory, state, refs, locked, ref_lock, objects, pool_lock, pools, owns>>
  BY DEF Dispatch
<1>9. TypeOK'
  <2>1. calls' \in Seq(Objects)
    BY <1>2 DEF Dispatch
  <2> QED
    BY <1>7, <1>8, <2>1 DEF IInv, TypeOK, Renewed
<1>10. FramesFit'
  <2>1. \A v \in Threads, f \in Frame : Fits(v, f) => Fits(v, f)'
    BY <1>8 DEF Fits
  <2>2. Fits(Dispatcher, f0)'
    BY <1>5 DEF Fits, Gets
  <2> QED
    BY <1>1, <1>6, <1>7, <2>1, <2>2, FitAfter DEF IInv
<1>11. StacksNest' /\ EndedOnce' /\ Books'
  <2>1. Len(fr) <= 1 /\ \A i \in DOMAIN fr : fr[i].pc \in Gets \cup {"watch", "watch_locked"}
    BY <1>5, <1>6
  <2>2. UNCHANGED <<memory, state, refs, objects, pools, owns>>
    BY <1>8
  <2> QED
    BY <1>1, <1>6, <1>7, <2>1, <2>2, QuietFrames
<1> QED
  BY <1>9, <1>10, <1>11 DEF IInv

LEMMA WatchStep ==
  ASSUME IInv, NEW t \in Threads, Watch(t)
  PROVE  IInv'
<1>1. PICK o : o = Obj(t)
  OBVIOUS
<1>2. /\ stack[t] # << >> /\ stack[t][1].pc = "watch" /\ stack[t][1].obj = o
      /\ Fits(t, stack[t][1])
      /\ stack \in [Threads -> Seq(Frame)]
  BY <1>1, FirstFrame DEF Watch, At
<1>3. o \in Objects /\ t = Dispatcher /\ PoolOf[o] \in Pools
      /\ pool_lock \in [Pools -> Threads \cup {NoThread}]
  BY <1>2, PoolAssumption DEF Fits, IInv, TypeOK
<1>4. PICK f0 : f0 = F("watch_locked", o)
  OBVIOUS
<1>5. f0 \in Frame /\ f0.pc = "watch_locked" /\ f0.obj = o
  BY <1>3, <1>4 DEF F, Frame
<1> DEFINE fr == <<f0>>
<1>6. fr \in Seq(Frame) /\ Len(fr) = 1 /\ DOMAIN fr = {1} /\ fr[1] = f0
  BY <1>5
<1>7. Renewed(t, fr)
  <2>1. Replace(t, <<f0>>)
    BY <1>1, <1>4 DEF Watch
  <2> QED
    BY <1>2, <1>6, <2>1, ReplaceRenews
<1> HIDE DEF fr
<1>8. UNCHANGED <<memory, state, refs, locked, ref_lock, objects, pools, calls, owns>>
  BY DEF Watch
<1>9. pool_lock[PoolOf[o]] = NoThread /\ pool_lock' = [pool_lock EXCEPT ![PoolOf[o]] = t]
  BY <1>1 DEF Watch, Prevail, PoolLockFree
<1>10. TypeOK'
  <2>1. pool_lock' \in [Pools -> Threads \cup {NoThread}]
    BY <1>3, <1>9
  <2> QED
    BY <1>7, <1>8, <2>1 DEF IInv, TypeOK, Renewed
<1>11. FramesFit'
  <2>1. \A p \in Pools : pool_lock[p] \in Threads => pool_lock'[p] = pool_lock[p]
    BY <1>3, <1>9, ThreadAssumption
  <2>2. \A v \in Threads, f \in Frame : Fits(v, f) => Fits(v, f)'
    <3>1. \A v \in Users : v \in Threads
      BY DEF Threads
    <3> QED
      BY <1>8, <2>1, <3>1, PoolAssumption DEF Fits, Gets
  <2>3. Fits(t, f0)'
    BY <1>3, <1>5, <1>8, <1>9 DEF Fits, Gets
  <2> QED
    BY <1>2, <1>6, <1>7, <2>2, <2>3, FitAfter DEF IInv
<1>12. StacksNest' /\ EndedOnce' /\ Books'
  <2>1. Len(fr) <= 1 /\ \A i \in DOMAIN fr : fr[i].pc \in Gets \cup {"watch", "watch_locked"}
    BY <1>5, <1>6
  <2>2. stack[t][1].pc \notin {"down", "destructor", "destroy", "zombies"}
    BY <1>2
  <2>3. UNCHANGED <<memory, state, refs, objects, pools, owns>>
    BY <1>8
  <2> QED
    BY <1>6, <1>7, <2>1, <2>2, <2>3, QuietFrames
<1> QED
  BY <1>10, <1>11, <1>12 DEF IInv

LEMMA UnrefStep ==
  ASSUME IInv, NEW u \in Users, NEW o \in Objects, Unref(u, o)
  PROVE  IInv'
<1>1. u \in Threads /\ stack[u] = << >> /\ stack \in [Threads -> Seq(Frame)]
      /\ owns[u][o] > 0
  BY DEF Unref, Idle, IInv, TypeOK, Threads
<1>2. PICK f0 : f0 = F("down", o)
  OBVIOUS
<1>3. f0 \in Frame /\ f0.pc = "down" /\ f0.obj = o
  BY <1>2 DEF F, Frame
<1> DEFINE fr == <<f0>>
<1>4. fr \in Seq(Frame) /\ Len(fr) = 1 /\ DOMAIN fr = {1} /\ fr[1] = f0
  BY <1>3
<1>5. Renewed(u, fr)
  <2>1. stack' = [stack EXCEPT ![u] = <<f0>>]
    BY <1>2 DEF Unref
  <2> QED
    BY <1>1, <1>3, <2>1, StartRenews
<1> HIDE DEF fr
<1>6. UNCHANGED <<memory, state, refs, locked, ref_lock, objects, pool_lock, pools, calls, owns>>
  BY DEF Unref
<1>7. TypeOK'
  BY <1>5, <1>6 DEF IInv, TypeOK, Renewed
<1>8. FramesFit'
  <2>1. \A v \in Threads, f \in Frame : Fits(v, f) => Fits(v, f)'
    BY <1>6 DEF Fits
  <2>2. Fits(u, f0)'
    BY <1>3 DEF Fits, Gets
  <2> QED
    BY <1>1, <1>4, <1>5, <2>1, <2>2, FitAfter DEF IInv
<1>9. StacksNest'
  <2>1. \A i \in DOMAIN fr : ~(i > 1) /\ fr[i].pc # "zombies"
    BY <1>3, <1>4
  <2>2. Len(fr) = 1 /\ stack[u] = << >> /\ u \in Users /\ owns'[u][fr[1].obj] > 0
    BY <1>1, <1>3, <1>4, <1>6
  <2>3. \A v \in Threads \ {u}, f \in Frame :
           stack[v] # << >> /\ f.pc = "down" => owns'[v][f.obj] = owns[v][f.obj]
    BY <1>6
  <2> QED
    BY <1>1, <1>4, <1>5, <2>1, <2>2, <2>3, NestAfter DEF IInv
<1>10. EndedOnce'
  <2>1. \A p \in Objects : \A i \in DOMAIN fr : ~Ends(fr[i], p)
    BY <1>3, <1>4 DEF Ends
  <2> QED
    BY <1>1, <1>4, <1>5, <2>1, EndedOnceAfter DEF IInv
<1>11. Books'
  <2>1. ASSUME NEW p \in Objects PROVE Linked(p)' <=> Linked(p)
    <3>1. \A i \in DOMAIN fr : fr[i] # F("destroy", p)
      BY <1>3, <1>4 DEF F
    <3>2. ~(Len(stack[u]) > 1) /\ memory'[p] = memory[p]
      BY <1>1, <1>6
    <3> QED
      BY <1>1, <1>4, <1>5, <3>1, <3>2, LinkedAfter DEF IInv
  <2>2. UNCHANGED <<memory, state, refs, objects, pools, owns>>
    BY <1>6
  <2> QED
    BY <2>1, <2>2, QuietBooks
<1> QED
  BY <1>7, <1>8, <1>9, <1>10, <1>11 DEF IInv

LEMMA DestructorStep ==
  ASSUME IInv, NEW t \in Threads, Destructor(t)
  PROVE  IInv'
<1>1. PICK q : q = Obj(t)
  OBVIOUS
<1>2. /\ stack[t] # << >> /\ stack[t][1].pc = "destructor" /\ stack[t][1].obj = q
      /\ Fits(t, stack[t][1]) /\ 1 \in DOMAIN stack[t]
      /\ stack \in [Threads -> Seq(Frame)]
  BY <1>1, FirstFrame DEF Destructor, At
<1>3. q \in Objects /\ memory[q] = "live" /\ state[q] = "DEINIT"
  BY <1>2 DEF Fits
<1>4. PICK c \in Objects \cup {NoObject} : c = Child[q]
  BY <1>3, ChildAssumption
<1>5. PICK f1 : f1 = F("destroy", q)
  OBVIOUS
<1>6. f1 \in Frame /\ f1.pc = "destroy" /\ f1.obj = q
  BY <1>3, <1>5 DEF F, Frame
<1>7. UNCHANGED <<memory, state, refs, locked, ref_lock, objects, pool_lock, pools, calls, owns>>
  BY DEF Destructor
<1>8. \A v \in Threads, f \in Frame : Fits(v, f) => Fits(v, f)'
  BY <1>7 DEF Fits
<1>9. Fits(t, f1)'
  BY <1>3, <1>6, <1>7 DEF Fits, Gets
<1>10. \A v \in Threads \ {t}, f \in Frame :
          stack[v] # << >> /\ f.pc = "down" => owns'[v][f.obj] = owns[v][f.obj]
  BY <1>7
<1>11. Ends(stack[t][1], q)
  BY <1>2 DEF Ends
<1>12. UNCHANGED <<memory, state, refs, objects, pools, owns>>
  BY <1>7
<1>13. CASE c = NoObject
  <2> DEFINE fr == <<f1>>
  <2>1. fr \in Seq(Frame) /\ Len(fr) = 1 /\ DOMAIN fr = {1} /\ fr[1] = f1
    BY <1>6
  <2>2. Renewed(t, fr)
    <3>1. Replace(t, << >> \o <<F("destroy", q)>>)
      BY <1>1, <1>4, <1>13 DEF Destructor
    <3>2. << >> \o <<F("destroy", q)>> = <<f1>>
      BY <1>5, <1>6
    <3>3. Replace(t, <<f1>>)
      BY <3>1, <3>2 DEF Replace
    <3> QED
      BY <1>2, <2>1, <3>3, ReplaceRenews
  <2> HIDE DEF fr
  <2>3. FramesFit'
    BY <1>2, <1>8, <1>9, <2>1, <2>2, FitAfter DEF IInv
  <2>4. StacksNest'
    <3>1. \A i \in DOMAIN fr : ~(i > 1) /\ fr[i].pc # "zombies"
      BY <1>6, <2>1
    <3>2. fr[1].pc # "down"
      BY <1>6, <2>1
    <3> QED
      BY <1>2, <1>10, <2>1, <2>2, <3>1, <3>2, NestAfter DEF IInv
  <2>5. EndedOnce'
    <3>1. \A o \in Objects : \A i, j \in DOMAIN fr : i = j
      BY <2>1
    <3>2. \A o \in Objects : \A i \in DOMAIN fr : Ends(fr[i], o) => Ends(stack[t][1], o)
      BY <1>6, <1>11, <2>1 DEF Ends
    <3> QED
      BY <1>2, <2>1, <2>2, <3>1, <3>2, EndedOnceAfter DEF IInv
  <2>6. ASSUME NEW p \in Objects, Child[p] \in Objects PROVE Linked(p)' <=> Linked(p)
    <3>1. p # q
      BY <1>4, <1>13, <2>6, ObjectAssumption
    <3>2. \A i \in DOMAIN fr : fr[i] # F("destroy", p)
      BY <1>6, <2>1, <3>1 DEF F
    <3>3. stack[t][1] # F("destroy", p) /\ stack[t][1].pc # "down" /\ memory'[p] = memory[p]
      BY <1>2, <1>7 DEF F
    <3>4. fr[Len(fr)].pc # "down"
      BY <1>6, <2>1
    <3> QED
      BY <1>2, <2>1, <2>2, <3>2, <3>3, <3>4, LinkedAfter DEF IInv
  <2>7. Books'
    BY <1>12, <2>6, QuietBooks
  <2>8. TypeOK'
    BY <1>7, <2>2 DEF IInv, TypeOK, Renewed
  <2> QED
    BY <2>3, <2>4, <2>5, <2>7, <2>8 DEF IInv
<1>14. CASE c \in Objects
  <2>1. PICK f0 : f0 = F("down", c)
    OBVIOUS
  <2>2. f0 \in Frame /\ f0.pc = "down" /\ f0.obj = c
    BY <1>14, <2>1 DEF F, Frame
  <2> DEFINE fr == <<f0>> \o <<f1>>
  <2>3. fr \in Seq(Frame) /\ Len(fr) = 2 /\ DOMAIN fr = {1, 2} /\ fr[1] = f0 /\ fr[2] = f1
    <3>1. <<f0>> \in Seq(Frame) /\ <<f1>> \in Seq(Frame)
          /\ Len(<<f0>>) = 1 /\ Len(<<f1>>) = 1 /\ <<f0>>[1] = f0 /\ <<f1>>[1] = f1
      BY <1>6, <2>2
    <3>2. fr \in Seq(Frame) /\ Len(fr) = 2
      BY <3>1
    <3>3. fr[1] = f0
      BY <3>1
    <3>4. fr[2] = f1
      BY <3>1
    <3>5. DOMAIN fr = {1, 2}
      <4>1. DOMAIN fr = 1..2
        BY <3>2
      <4> QED
        BY <4>1
    <3> QED
      BY <3>2, <3>3, <3>4, <3>5
  <2>4. Renewed(t, fr)
    <3>1. Replace(t, <<f0>> \o <<f1>>)
      BY <1>1, <1>4, <1>5, <1>14, <2>1, ObjectAssumption DEF Destructor
    <3> QED
      BY <1>2, <2>3, <3>1, ReplaceRenews
  <2> HIDE DEF fr
  <2>5. FramesFit'
    <3>1. Fits(t, f0)'
      BY <1>14, <2>2 DEF Fits, Gets
    <3> QED
      BY <1>2, <1>8, <1>9, <2>3, <2>4, <3>1, FitAfter DEF IInv
  <2>6. StacksNest'
    <3>1. \A i \in DOMAIN fr : fr[i].pc # "zombies" /\ (i > 1 => fr[i].pc \in Inner)
      BY <1>6, <2>2, <2>3 DEF Inner
    <3>2. Len(fr) > 1 /\ fr[2].pc = "destroy" /\ Child[fr[2].obj] = fr[1].obj
      BY <1>4, <1>6, <2>2, <2>3
    <3> QED
      BY <1>2, <1>10, <2>3, <2>4, <3>1, <3>2, NestAfter DEF IInv
  <2>7. EndedOnce'
    <3>1. \A o \in Objects : \A i \in DOMAIN fr :
             Ends(fr[i], o) => i = 2 /\ Ends(stack[t][1], o)
      BY <1>6, <1>11, <2>2, <2>3 DEF Ends
    <3> QED
      BY <1>2, <2>3, <2>4, <3>1, EndedOnceAfter DEF IInv
  <2>8. ASSUME NEW p \in Objects, Child[p] \in Objects PROVE Linked(p)' <=> Linked(p)
    <3>1. CASE p # q
      <4>1. \A i \in DOMAIN fr : fr[i] # F("destroy", p)
        BY <1>6, <2>2, <2>3, <3>1 DEF F
      <4>2. stack[t][1] # F("destroy", p) /\ stack[t][1].pc # "down" /\ memory'[p] = memory[p]
        BY <1>2, <1>7 DEF F
      <4>3. fr[Len(fr)].pc # "down"
        BY <1>6, <2>3
      <4> QED
        BY <1>2, <2>3, <2>4, <4>1, <4>2, <4>3, LinkedAfter DEF IInv
    <3>2. CASE p = q
      <4>1. Linked(q)
        <5>1. \A v \in Threads : \A i \in DOMAIN stack[v] : stack[v][i] # F("destroy", q)
          <6> SUFFICES ASSUME NEW v \in Threads, NEW i \in DOMAIN stack[v],
                              stack[v][i] = F("destroy", q)
                       PROVE  FALSE
            OBVIOUS
          <6>1. Ends(stack[v][i], q)
            BY DEF Ends, F
          <6>2. v = t /\ i = 1
            BY <1>2, <1>3, <1>11, <6>1 DEF IInv, EndedOnce
          <6> QED
            BY <1>2, <6>2 DEF F
        <5> QED
          BY <1>3, <5>1 DEF Linked
      <4>2. Linked(q)'
        <5> SUFFICES ASSUME NEW v \in Threads, NEW i \in DOMAIN stack'[v],
                            stack'[v][i] = F("destroy", q)
                     PROVE  i > 1 /\ stack'[v][i - 1] = F("down", Child[q])
          BY <1>3, <1>7 DEF Linked, F
        <5>1. 1 \in DOMAIN stack'[t] /\ 2 \in DOMAIN stack'[t]
              /\ stack'[t][1] = f0 /\ stack'[t][2] = f1
          <6>1. Len(stack'[t]) >= 2 /\ stack'[t] \in Seq(Frame)
            BY <1>2, <2>3, <2>4 DEF Renewed
          <6> QED
            BY <2>3, <2>4, <6>1 DEF Renewed
        <5>2. Ends(stack'[v][i], q) /\ Ends(stack'[t][2], q)
          BY <1>6, <5>1 DEF Ends, F
        <5>3. v = t /\ i = 2
          BY <1>3, <2>7, <5>1, <5>2 DEF EndedOnce, Ends
        <5> QED
          BY <1>4, <2>1, <5>1, <5>3
      <4> QED
        BY <3>2, <4>1, <4>2
    <3> QED
      BY <3>1, <3>2
  <2>9. Books'
    BY <1>12, <2>8, QuietBooks
  <2>10. TypeOK'
    BY <1>7, <2>4 DEF IInv, TypeOK, Renewed
  <2> QED
    BY <2>5, <2>6, <2>7, <2>9, <2>10 DEF IInv
<1> QED
  BY <1>4, <1>13, <1>14

(* A thread that has used a freed pool: its frame says nothing any more. *)
LEMMA UseFreedPoolStep ==
  ASSUME IInv, UseFreedPool
  PROVE  IInv'
<1>1. PICK t \in Threads : t = Dispatcher
  BY DEF Threads
<1>2. PICK q : q = Obj(t)
  OBVIOUS
<1>3. /\ stack[t] # << >> /\ stack[t][1].pc \in {"watch", "destructor"} /\ stack[t][1].obj = q
      /\ Fits(t, stack[t][1])
      /\ stack \in [Threads -> Seq(Frame)]
  BY <1>1, <1>2, FirstFrame DEF UseFreedPool, At
<1>4. q \in Objects
  BY <1>3 DEF Fits
<1>5. PICK f0 : f0 = F("wild", q)
  OBVIOUS
<1>6. f0 \in Frame /\ f0.pc = "wild" /\ f0.obj = q
  BY <1>4, <1>5 DEF F, Frame
<1> DEFINE fr == <<f0>>
<1>7. fr \in Seq(Frame) /\ Len(fr) = 1 /\ DOMAIN fr = {1} /\ fr[1] = f0
  BY <1>6
<1>8. Renewed(t, fr)
  <2>1. Replace(t, <<f0>>)
    BY <1>1, <1>2, <1>5 DEF UseFreedPool
  <2> QED
    BY <1>3, <1>7, <2>1, ReplaceRenews
<1> HIDE DEF fr
<1>9. UNCHANGED <<memory, state, refs, locked, ref_lock, objects, pool_lock, pools, calls, owns>>
  BY DEF UseFreedPool
<1>10. TypeOK'
  BY <1>8, <1>9 DEF IInv, TypeOK, Renewed
<1>11. FramesFit'
  <2>1. \A v \in Threads, f \in Frame : Fits(v, f) => Fits(v, f)'
    BY <1>9 DEF Fits
  <2>2. Fits(t, f0)'
    BY <1>4, <1>6 DEF Fits, Gets
  <2> QED
    BY <1>3, <1>7, <1>8, <2>1, <2>2, FitAfter DEF IInv
<1>12. StacksNest'
  <2>1. \A i \in DOMAIN fr : ~(i > 1) /\ fr[i].pc # "zombies"
    BY <1>6, <1>7
  <2>2. fr[1].pc # "down"
    BY <1>6, <1>7
  <2>3. \A v \in Threads \ {t}, f \in Frame :
           stack[v] # << >> /\ f.pc = "down" => owns'[v][f.obj] = owns[v][f.obj]
    BY <1>9
  <2> QED
    BY <1>3, <1>7, <1>8, <2>1, <2>2, <2>3, NestAfter DEF IInv
<1>13. EndedOnce'
  <2>1. \A o \in Objects : \A i \in DOMAIN fr : ~Ends(fr[i], o)
    BY <1>6, <1>7 DEF Ends
  <2> QED
    BY <1>3, <1>7, <1>8, <2>1, EndedOnceAfter DEF IInv
<1>14. Books'
  <2>1. ASSUME NEW p \in Objects PROVE Linked(p)' <=> Linked(p)
    <3>1. \A i \in DOMAIN fr : fr[i] # F("destroy", p)
      BY <1>6, <1>7 DEF F
    <3>2. stack[t][1] # F("destroy", p) /\ stack[t][1].pc # "down" /\ memory'[p] = memory[p]
      BY <1>3, <1>9 DEF F
    <3>3. fr[Len(fr)].pc # "down"
      BY <1>6, <1>7
    <3> QED
      BY <1>3, <1>7, <1>8, <3>1, <3>2, <3>3, LinkedAfter DEF IInv
  <2> QED
    BY <1>9, <2>1, QuietBooks
<1> QED
  BY <1>10, <1>11, <1>12, <1>13, <1>14 DEF IInv

LEMMA DestroyStep ==
  ASSUME IInv, NEW t \in Threads, Destroy(t)
  PROVE  IInv'
<1> DEFINE fr == << >>
<1>1. PICK q : q = Obj(t)
  OBVIOUS
<1>2. /\ stack[t] # << >> /\ stack[t][1].pc = "destroy" /\ stack[t][1].obj = q
      /\ Fits(t, stack[t][1]) /\ 1 \in DOMAIN stack[t] /\ stack[t][1] \in Frame
      /\ stack \in [Threads -> Seq(Frame)]
  BY <1>1, FirstFrame DEF Destroy, At
<1>3. q \in Objects /\ memory[q] = "live" /\ state[q] = "DEINIT"
      /\ memory \in [Objects -> {"none", "live", "freed"}]
  BY <1>2 DEF Fits, IInv, TypeOK
<1>4. fr \in Seq(Frame) /\ Len(fr) = 0 /\ DOMAIN fr = {}
  OBVIOUS
<1>5. Renewed(t, fr)
  BY <1>2, <1>4, ReplaceRenews DEF Destroy, Return
<1> HIDE DEF fr
<1>6. UNCHANGED <<state, refs, locked, ref_lock, objects, pool_lock, pools, calls, owns>>
      /\ memory' = [memory EXCEPT ![q] = "freed"]
  BY <1>1 DEF Destroy
<1>7. memory' \in [Objects -> {"none", "live", "freed"}] /\ memory'[q] = "freed"
      /\ \A p \in Objects \ {q} : memory'[p] = memory[p]
  BY <1>3, <1>6
<1>8. TypeOK'
  BY <1>5, <1>6, <1>7 DEF IInv, TypeOK, Renewed
<1>9. Ends(stack[t][1], q)
  BY <1>2 DEF Ends
<1>10. FramesFit'
  <2>1. ASSUME NEW v \in Threads, NEW f \in Frame, Fits(v, f), Below(t, v, f)
        PROVE  Fits(v, f)'
    <3>1. ~Ends(f, q)
      <4>1. PICK j \in DOMAIN stack[v] : stack[v][j] = f /\ (v = t => j > 1)
        BY <2>1 DEF Below
      <4>2. Ends(f, q) => v = t /\ j = 1
        BY <1>2, <1>3, <1>9, <4>1 DEF IInv, EndedOnce
      <4> QED
        BY <4>1, <4>2
    <3>2. f.pc \in {"destructor", "destroy"} => f.obj \in Objects \ {q}
      BY <2>1, <3>1 DEF Fits, Ends
    <3>3. f.pc \in {"destructor", "destroy"} => memory'[f.obj] = memory[f.obj]
      BY <1>7, <3>2
    <3> QED
      BY <1>6, <2>1, <3>3 DEF Fits
  <2> QED
    BY <1>2, <1>4, <1>5, <2>1, FitAfter DEF IInv
<1>11. StacksNest'
  <2>1. \A v \in Threads \ {t}, f \in Frame :
           stack[v] # << >> /\ f.pc = "down" => owns'[v][f.obj] = owns[v][f.obj]
    BY <1>6
  <2>2. fr = << >>
    BY DEF fr
  <2> QED
    BY <1>2, <1>4, <1>5, <2>1, <2>2, NestAfter DEF IInv
<1>12. EndedOnce'
  BY <1>2, <1>4, <1>5, EndedOnceAfter DEF IInv
<1>13. ASSUME NEW p \in Objects PROVE Linked(p)' <=> Linked(p)
  <2>1. CASE p = q
    <3>1. ~Linked(q)'
      BY <1>7 DEF Linked
    <3>2. ~Linked(q)
      <4>1. stack[t][1] = F("destroy", q)
        BY <1>2 DEF F, Frame
      <4>2. ~(1 > 1)
        OBVIOUS
      <4> QED
        BY <1>2, <4>1, <4>2 DEF Linked
    <3> QED
      BY <2>1, <3>1, <3>2
  <2>2. CASE p # q
    <3>1. stack[t][1] # F("destroy", p) /\ stack[t][1].pc # "down"
      BY <1>2, <2>2 DEF F
    <3>2. memory'[p] = memory[p]
      BY <1>7, <2>2
    <3>3. fr = << >>
      BY DEF fr
    <3> QED
      BY <1>2, <1>4, <1>5, <3>1, <3>2, <3>3, LinkedAfter DEF IInv
  <2> QED
    BY <2>1, <2>2
<1>14. Books'
  <2>1. PooledIsWhole'
    BY <1>3, <1>6, <1>7 DEF IInv, TypeOK, Books, PooledIsWhole
  <2>2. UnbornIsUnknown'
    BY <1>6, <1>7 DEF IInv, Books, UnbornIsUnknown
  <2>3. ChildIsOlder'
    <3> SUFFICES ASSUME NEW p \in Objects, memory'[p] # "none", Child[p] # NoObject
                 PROVE  memory'[Child[p]] # "none"
      BY DEF ChildIsOlder
    <3>1. Child[p] \in Objects
      BY ChildAssumption
    <3>2. memory[p] # "none"
      BY <1>3, <1>7
    <3>3. memory[Child[p]] # "none"
      BY <3>2 DEF IInv, Books, ChildIsOlder
    <3> QED
      BY <1>7, <3>1, <3>3
  <2>4. DispatcherHasNone' /\ ClosedIsUnused'
    BY <1>6 DEF IInv, Books, DispatcherHasNone, ClosedIsUnused
  <2>5. HeldIsWhole'
    BY <1>3, <1>6, <1>7 DEF IInv, Books, HeldIsWhole
  <2>6. CountsReferences'
    <3> SUFFICES ASSUME NEW o \in Objects, memory'[o] = "live", state'[o] # "DEINIT"
                 PROVE  refs'[o] = Cardinality(Held(o)') + Cardinality(Links(o)')
      BY DEF CountsReferences, Links
    <3>1. Held(o)' = Held(o) /\ Links(o)' = Links(o)
      BY <1>6, <1>13, SameCounts
    <3>2. memory[o] = "live" /\ state[o] # "DEINIT"
      BY <1>3, <1>6, <1>7
    <3>3. refs[o] = Cardinality(Held(o)) + Cardinality(Links(o))
      BY <3>2 DEF IInv, Books, CountsReferences, Links
    <3> QED
      BY <1>6, <3>1, <3>3
  <2> QED
    BY <2>1, <2>2, <2>3, <2>4, <2>5, <2>6 DEF Books
<1> QED
  BY <1>8, <1>10, <1>11, <1>12, <1>14 DEF IInv

-----------------------------------------------------------------------------
(* A reference is taken or dropped *)

(* Counted means that one thread's references and the counter change by 1. *)
LEMMA CountedBooks ==
  ASSUME IInv, UNCHANGED <<memory, state, objects, pools>>,
         NEW t \in Users, NEW o \in Objects,
         owns' \in [Threads -> [Objects -> 0..MaxRefs]],
         refs' \in [Objects -> Nat],
         \A v \in Threads, x \in Objects : v # t \/ x # o => owns'[v][x] = owns[v][x],
         \A x \in Objects \ {o} : refs'[x] = refs[x],
         \/ /\ owns'[t][o] = owns[t][o] + 1 /\ refs'[o] = refs[o] + 1
            /\ memory[o] = "live" /\ state[o] # "DEINIT" /\ pools[PoolOf[o]] = "open"
         \/ /\ owns[t][o] = owns'[t][o] + 1
            /\ refs'[o] = IF refs[o] = 0 THEN 0 ELSE refs[o] - 1,
         \A p \in Objects : Child[p] \in Objects => (Linked(p)' <=> Linked(p))
  PROVE  Books'
<1>1. t \in Threads /\ t # Dispatcher
      /\ owns \in [Threads -> [Objects -> 0..MaxRefs]] /\ refs \in [Objects -> Nat]
      /\ MaxRefs \in Nat
  BY ThreadAssumption, BoundAssumption DEF Threads, IInv, TypeOK
<1>2. owns[t][o] \in Nat /\ owns'[t][o] \in Nat /\ refs[o] \in Nat
  BY <1>1
<1>3. memory[o] = "live" /\ state[o] # "DEINIT" /\ pools[PoolOf[o]] = "open"
  <2>1. CASE owns'[t][o] = owns[t][o] + 1
    BY <1>2, <2>1
  <2>2. CASE owns[t][o] = owns'[t][o] + 1
    <3>1. owns[t][o] > 0 /\ owns[t][o] # 0
      BY <1>2, <2>2
    <3> QED
      BY <1>1, <3>1 DEF IInv, Books, HeldIsWhole, ClosedIsUnused
  <2> QED
    BY <2>1, <2>2
<1>4. PooledIsWhole' /\ ChildIsOlder'
  BY DEF IInv, Books, PooledIsWhole, ChildIsOlder
<1>5. UnbornIsUnknown'
  <2> SUFFICES ASSUME NEW x \in Objects, memory[x] = "none"
               PROVE  state[x] = "INIT" /\ \A v \in Threads : owns'[v][x] = 0
    BY DEF UnbornIsUnknown
  <2>1. x # o
    BY <1>3
  <2> QED
    BY <2>1 DEF IInv, Books, UnbornIsUnknown
<1>6. DispatcherHasNone'
  BY <1>1 DEF IInv, Books, DispatcherHasNone, Threads
<1>7. ClosedIsUnused'
  <2> SUFFICES ASSUME NEW x \in Objects, NEW v \in Threads, pools[PoolOf[x]] # "open"
               PROVE  owns'[v][x] = 0
    BY DEF ClosedIsUnused
  <2>1. x # o
    BY <1>3
  <2> QED
    BY <2>1 DEF IInv, Books, ClosedIsUnused
<1>8. HeldIsWhole'
  <2> SUFFICES ASSUME NEW v \in Threads, NEW x \in Objects, owns'[v][x] > 0
               PROVE  memory[x] = "live" /\ state[x] # "DEINIT"
    BY DEF HeldIsWhole
  <2>1. CASE x = o
    BY <1>3, <2>1
  <2>2. CASE x # o
    BY <2>2 DEF IInv, Books, HeldIsWhole
  <2> QED
    BY <2>1, <2>2
<1>9. CountsReferences'
  <2> SUFFICES ASSUME NEW x \in Objects, memory[x] = "live", state[x] # "DEINIT"
               PROVE  refs'[x] = Cardinality(Held(x)') + Cardinality(Links(x)')
    BY DEF CountsReferences, Links
  <2>1. refs[x] = Cardinality(Held(x)) + Cardinality(Links(x))
    BY DEF IInv, Books, CountsReferences, Links
  <2>2. CASE x # o
    <3>1. Held(x)' = Held(x) /\ Links(x)' = Links(x)
      BY <2>2, SameCounts
    <3> QED
      BY <2>1, <2>2, <3>1
  <2>3. CASE x = o
    <3>1. Links(o)' = Links(o)
      BY DEF Links
    <3>2. PICK w : w = [v \in Threads |-> owns[v][o]]
      OBVIOUS
    <3>3. PICK w2 : w2 = [v \in Threads |-> owns'[v][o]]
      OBVIOUS
    <3>4. w \in [Threads -> 0..MaxRefs] /\ w2 \in [Threads -> 0..MaxRefs]
          /\ \A v \in Threads \ {t} : w2[v] = w[v] /\ w[v] = w2[v]
      BY <1>1, <3>2, <3>3
    <3>5. w[t] = owns[t][o] /\ w2[t] = owns'[t][o]
      BY <1>1, <3>2, <3>3
    <3>6. Held(o) = Tokens(w) /\ Held(o)' = Tokens(w2)
      BY <3>2, <3>3, HeldTokens
    <3>7. PICK m \in Nat : m = Cardinality(Tokens(w))
      BY TokensFinite
    <3>8. PICK m2 \in Nat : m2 = Cardinality(Tokens(w2))
      BY TokensFinite
    <3>9. PICK l \in Nat : l = Cardinality(Links(o))
      BY LinksFinite
    <3>10. CASE owns'[t][o] = owns[t][o] + 1 /\ refs'[o] = refs[o] + 1
      <4>1. m2 = m + 1
        BY <1>1, <3>4, <3>5, <3>7, <3>8, <3>10, TokensAdd
      <4> QED
        BY <2>1, <2>3, <3>1, <3>6, <3>7, <3>8, <3>9, <3>10, <4>1
    <3>11. CASE owns[t][o] = owns'[t][o] + 1
                /\ refs'[o] = IF refs[o] = 0 THEN 0 ELSE refs[o] - 1
      <4>1. m = m2 + 1
        BY <1>1, <3>4, <3>5, <3>7, <3>8, <3>11, TokensAdd
      <4>2. refs[o] = m + l /\ refs[o] # 0
        BY <2>1, <2>3, <3>6, <3>7, <3>9, <4>1
      <4>3. refs'[o] = m2 + l
        BY <3>11, <4>1, <4>2
      <4> QED
        BY <2>3, <3>1, <3>6, <3>8, <3>9, <4>3
    <3> QED
      BY <3>10, <3>11
  <2> QED
    BY <2>2, <2>3
<1> QED
  BY <1>4, <1>5, <1>6, <1>7, <1>8, <1>9 DEF Books

LEMMA RefUpStep ==
  ASSUME IInv, NEW u \in Users, NEW o \in Objects, RefUp(u, o)
  PROVE  IInv'
<1>1. /\ u \in Threads /\ stack[u] = << >> /\ MaxRefs \in Nat
      /\ owns \in [Threads -> [Objects -> 0..MaxRefs]] /\ refs \in [Objects -> Nat]
  BY BoundAssumption DEF RefUp, Idle, IInv, TypeOK, Threads
<1>2. PICK n \in Nat : n = owns[u][o] /\ n >= 1 /\ n <= MaxRefs - 1
  BY <1>1 DEF RefUp
<1>3. /\ UNCHANGED <<memory, state, locked, ref_lock, objects, pool_lock, pools, calls, stack>>
      /\ refs' = [refs EXCEPT ![o] = @ + 1]
      /\ owns' = [owns EXCEPT ![u][o] = @ + 1]
  BY DEF RefUp, Up
<1>4. refs' \in [Objects -> Nat] /\ refs'[o] = refs[o] + 1
      /\ \A x \in Objects \ {o} : refs'[x] = refs[x]
  BY <1>1, <1>3
<1>5. owns' \in [Threads -> [Objects -> 0..MaxRefs]] /\ owns'[u][o] = owns[u][o] + 1
      /\ \A v \in Threads, x \in Objects : v # u \/ x # o => owns'[v][x] = owns[v][x]
  <2>1. n + 1 \in 0..MaxRefs
    BY <1>1, <1>2
  <2> QED
    BY <1>1, <1>2, <1>3, <2>1
<1>6. TypeOK'
  BY <1>3, <1>4, <1>5 DEF IInv, TypeOK
<1>7. FramesFit'
  <2> SUFFICES ASSUME NEW v \in Threads, NEW i \in DOMAIN stack[v]
               PROVE  Fits(v, stack[v][i])'
    BY <1>3 DEF FramesFit
  <2>1. v # u /\ Fits(v, stack[v][i])
    BY <1>1 DEF IInv, FramesFit
  <2> QED
    BY <1>3, <1>5, <2>1 DEF Fits, Gets
<1>8. StacksNest'
  <2> SUFFICES ASSUME NEW v \in Threads PROVE Nests(v, stack[v])'
    BY DEF StacksNest
  <2>1. Nests(v, stack[v])
    BY DEF IInv, StacksNest
  <2>2. CASE v = u
    BY <1>1, <1>3, <2>1, <2>2 DEF Nests
  <2>3. CASE v # u
    <3>1. owns'[v] = owns[v]
      BY <1>1, <1>3, <2>3
    <3> QED
      BY <1>3, <2>1, <3>1 DEF Nests
  <2> QED
    BY <2>2, <2>3
<1>9. EndedOnce'
  BY <1>3 DEF IInv, EndedOnce, Ends
<1>10. Books'
  <2>1. n > 0
    BY <1>2
  <2>2. memory[o] = "live" /\ state[o] # "DEINIT" /\ pools[PoolOf[o]] = "open"
    BY <1>1, <1>2, <2>1 DEF IInv, Books, HeldIsWhole, ClosedIsUnused
  <2>3. \A p \in Objects : Linked(p)' <=> Linked(p)
    BY <1>3 DEF Linked
  <2>4. UNCHANGED <<memory, state, objects, pools>>
    BY <1>3
  <2> QED
    BY <1>4, <1>5, <2>2, <2>3, <2>4, CountedBooks
<1> QED
  BY <1>6, <1>7, <1>8, <1>9, <1>10 DEF IInv

LEMMA GetUpStep ==
  ASSUME IInv, NEW t \in Threads, GetUp(t)
  PROVE  IInv'
<1> DEFINE fr == << >>
<1>1. PICK o : o = Obj(t)
  OBVIOUS
<1>2. /\ stack[t] # << >> /\ stack[t][1].pc = "get_up" /\ stack[t][1].obj = o
      /\ Fits(t, stack[t][1])
      /\ stack \in [Threads -> Seq(Frame)]
  BY <1>1, FirstFrame DEF GetUp, At
<1>3. /\ o \in Objects /\ t \in Users /\ o \in objects /\ owns[t][o] < MaxRefs
      /\ pool_lock[PoolOf[o]] = t /\ pools[PoolOf[o]] = "open"
  BY <1>2 DEF Fits, Gets
<1>4. fr \in Seq(Frame) /\ Len(fr) = 0 /\ DOMAIN fr = {} /\ fr = << >>
  OBVIOUS
<1>5. Renewed(t, fr)
  BY <1>2, <1>4, ReplaceRenews DEF GetUp, Return
<1> HIDE DEF fr
<1>6. UNCHANGED <<memory, state, locked, ref_lock, objects, pools, calls>> /\ Dismiss(o)
  BY <1>1 DEF GetUp
<1>7. \/ refs' = refs /\ owns' = owns
      \/ refs' = [refs EXCEPT ![o] = @ + 1] /\ owns' = [owns EXCEPT ![t][o] = @ + 1]
  BY <1>1 DEF GetUp, Up
<1>8. /\ owns \in [Threads -> [Objects -> 0..MaxRefs]] /\ refs \in [Objects -> Nat]
      /\ MaxRefs \in Nat
  BY BoundAssumption DEF IInv, TypeOK
<1>9. /\ owns' \in [Threads -> [Objects -> 0..MaxRefs]] /\ refs' \in [Objects -> Nat]
      /\ \A v \in Threads, x \in Objects : v # t \/ x # o => owns'[v][x] = owns[v][x]
      /\ \A x \in Objects \ {o} : refs'[x] = refs[x]
      /\ \/ refs' = refs /\ owns' = owns
         \/ refs'[o] = refs[o] + 1 /\ owns'[t][o] = owns[t][o] + 1
  <2>1. CASE refs' = refs /\ owns' = owns
    BY <1>8, <2>1
  <2>2. CASE refs' = [refs EXCEPT ![o] = @ + 1] /\ owns' = [owns EXCEPT ![t][o] = @ + 1]
    <3>1. owns[t][o] + 1 \in 0..MaxRefs
      BY <1>3, <1>8
    <3>2. refs' \in [Objects -> Nat] /\ refs'[o] = refs[o] + 1
          /\ \A x \in Objects \ {o} : refs'[x] = refs[x]
      BY <1>3, <1>8, <2>2
    <3> QED
      BY <1>3, <1>8, <2>2, <3>1, <3>2
  <2> QED
    BY <1>7, <2>1, <2>2
<1>10. TypeOK'
  <2>1. pool_lock' \in [Pools -> Threads \cup {NoThread}]
    BY <1>3, <1>6, PoolAssumption DEF Dismiss, IInv, TypeOK
  <2> QED
    BY <1>5, <1>6, <1>9, <2>1 DEF IInv, TypeOK, Renewed
<1>11. FramesFit'
  <2>1. /\ UNCHANGED <<memory, pools>> /\ objects' = objects
        /\ \A x \in Objects : state[x] = "DEINIT" => state'[x] = "DEINIT"
        /\ \A v \in Threads \ {t}, p \in Objects : owns'[v][p] = owns[v][p]
    BY <1>6, <1>9
  <2>2. \A v \in Threads, f \in Frame :
           Fits(v, f) /\ (v = t => f.pc \in Inner) => Fits(v, f)'
    BY <1>3, <1>6, <2>1, DismissFits
  <2> QED
    BY <1>2, <1>4, <1>5, <2>2, FitAfter DEF IInv
<1>12. StacksNest'
  <2>1. \A v \in Threads \ {t}, f \in Frame :
           stack[v] # << >> /\ f.pc = "down" => owns'[v][f.obj] = owns[v][f.obj]
    BY <1>7, <1>8
  <2> QED
    BY <1>2, <1>4, <1>5, <2>1, NestAfter DEF IInv
<1>13. EndedOnce'
  BY <1>2, <1>4, <1>5, EndedOnceAfter DEF IInv
<1>14. ASSUME NEW p \in Objects PROVE Linked(p)' <=> Linked(p)
  <2>1. stack[t][1] # F("destroy", p) /\ stack[t][1].pc # "down" /\ memory'[p] = memory[p]
    BY <1>2, <1>6 DEF F
  <2> QED
    BY <1>2, <1>4, <1>5, <2>1, LinkedAfter DEF IInv
<1>15. Books'
  <2>1. CASE refs' = refs /\ owns' = owns
    BY <1>6, <1>14, <2>1, QuietBooks
  <2>2. CASE refs'[o] = refs[o] + 1 /\ owns'[t][o] = owns[t][o] + 1
    <3>1. memory[o] = "live" /\ state[o] # "DEINIT"
      BY <1>3 DEF IInv, Books, PooledIsWhole
    <3>2. UNCHANGED <<memory, state, objects, pools>>
      BY <1>6
    <3> QED
      BY <1>3, <1>9, <1>14, <2>2, <3>1, <3>2, CountedBooks
  <2> QED
    BY <1>9, <2>1, <2>2
<1> QED
  BY <1>10, <1>11, <1>12, <1>13, <1>15 DEF IInv

(* The reference that a destructor drops is the link of its object. *)
LEMMA DropsLink ==
  ASSUME IInv, NEW t \in Threads, Len(stack[t]) > 1, stack[t][1].pc = "down"
  PROVE  \E p \in Objects :
            /\ stack[t][2] = F("destroy", p) /\ 2 \in DOMAIN stack[t]
            /\ Child[p] = stack[t][1].obj /\ stack[t][1] = F("down", Child[p])
            /\ Linked(p)
<1>1. stack[t] \in Seq(Frame)
  BY DEF IInv, TypeOK
<1>2. stack[t] # << >> /\ 1 \in DOMAIN stack[t] /\ 2 \in DOMAIN stack[t]
      /\ stack[t][1] \in Frame /\ stack[t][2] \in Frame
  <2>1. Len(stack[t]) \in Nat /\ DOMAIN stack[t] = 1..Len(stack[t])
    BY <1>1
  <2>2. 1 \in 1..Len(stack[t]) /\ 2 \in 1..Len(stack[t])
    BY <2>1
  <2>3. stack[t] # << >>
    BY <2>2, <2>1
  <2> QED
    BY <1>1, <2>1, <2>2, <2>3
<1>3. stack[t][2].pc = "destroy" /\ Child[stack[t][2].obj] = stack[t][1].obj
  BY <1>2 DEF IInv, StacksNest, Nests
<1>4. Fits(t, stack[t][2])
  BY <1>2 DEF IInv, FramesFit
<1>5. PICK p \in Objects : p = stack[t][2].obj /\ memory[p] = "live"
  BY <1>3, <1>4 DEF Fits
<1>6. stack[t][2] = F("destroy", p) /\ stack[t][1] = F("down", Child[p])
  BY <1>2, <1>3, <1>5 DEF F, Frame
<1>7. Linked(p)
  <2> SUFFICES ASSUME NEW v \in Threads, NEW i \in DOMAIN stack[v],
                      stack[v][i] = F("destroy", p)
               PROVE  i > 1 /\ stack[v][i - 1] = F("down", Child[p])
    BY <1>5 DEF Linked
  <2>1. Ends(stack[v][i], p) /\ Ends(stack[t][2], p)
    BY <1>6 DEF Ends, F
  <2>2. v = t /\ i = 2
    BY <1>2, <2>1 DEF IInv, EndedOnce
  <2> QED
    BY <1>6, <2>2
<1> QED
  BY <1>2, <1>3, <1>5, <1>6, <1>7

(* A step of RefDown() of a destructor: the link is gone. *)
LEMMA UnlinkBooks ==
  ASSUME IInv, UNCHANGED <<memory, state, objects, pools, owns>>,
         NEW p \in Objects, NEW o \in Objects, Child[p] = o, Linked(p), ~Linked(p)',
         \A x \in Objects \ {p} : Linked(x)' <=> Linked(x),
         refs' = [refs EXCEPT ![o] = IF @ = 0 THEN 0 ELSE @ - 1]
  PROVE  Books'
<1>1. PooledIsWhole' /\ UnbornIsUnknown' /\ ChildIsOlder' /\ DispatcherHasNone'
      /\ ClosedIsUnused' /\ HeldIsWhole'
  BY DEF IInv, Books, PooledIsWhole, UnbornIsUnknown, ChildIsOlder, DispatcherHasNone,
         ClosedIsUnused, HeldIsWhole
<1>2. refs \in [Objects -> Nat]
  BY DEF IInv, TypeOK
<1>3. CountsReferences'
  <2> SUFFICES ASSUME NEW x \in Objects, memory[x] = "live", state[x] # "DEINIT"
               PROVE  refs'[x] = Cardinality(Held(x)') + Cardinality(Links(x)')
    BY DEF CountsReferences, Links
  <2>1. refs[x] = Cardinality(Held(x)) + Cardinality(Links(x))
    BY DEF IInv, Books, CountsReferences, Links
  <2>2. CASE x # o
    <3>1. Held(x)' = Held(x) /\ Links(x)' = Links(x)
      BY <2>2, SameCounts
    <3> QED
      BY <1>2, <2>1, <2>2, <3>1
  <2>3. CASE x = o
    <3>1. Held(o)' = Held(o)
      BY DEF Held
    <3>2. p \in Links(o) /\ Links(o)' = Links(o) \ {p}
      BY DEF Links
    <3>3. PICK l \in Nat : l = Cardinality(Links(o))
      BY LinksFinite
    <3>4. PICK m \in Nat : m = Cardinality(Held(o))
      BY HeldTokens, TokensFinite
    <3>5. Cardinality(Links(o)') = l - 1 /\ l # 0
      <4>1. Links(o) # {}
        BY <3>2
      <4> QED
        BY <3>2, <3>3, <4>1, LinksFinite, FS_RemoveElement, FS_EmptySet
    <3>6. refs[o] = m + l /\ refs[o] # 0
      BY <2>1, <2>3, <3>3, <3>4, <3>5
    <3>7. refs'[o] = (m + l) - 1
      BY <1>2, <3>6
    <3>8. (m + l) - 1 = m + (l - 1)
      BY <3>3, <3>4
    <3> QED
      BY <2>3, <3>1, <3>4, <3>5, <3>7, <3>8
  <2> QED
    BY <2>2, <2>3
<1> QED
  BY <1>1, <1>3 DEF Books

LEMMA RefDownStep ==
  ASSUME IInv, NEW t \in Threads, RefDown(t)
  PROVE  IInv'
<1>1. PICK o : o = Obj(t)
  OBVIOUS
<1>2. /\ stack[t] # << >> /\ stack[t][1].pc = "down" /\ stack[t][1].obj = o
      /\ Fits(t, stack[t][1]) /\ Nests(t, stack[t])
      /\ stack \in [Threads -> Seq(Frame)]
  BY <1>1, FirstFrame DEF RefDown, At
<1>3. /\ o \in Objects /\ refs \in [Objects -> Nat]
      /\ owns \in [Threads -> [Objects -> 0..MaxRefs]] /\ MaxRefs \in Nat
  BY <1>2, BoundAssumption DEF Fits, IInv, TypeOK
<1>4. UNCHANGED <<memory, state, locked, objects, pool_lock, pools>>
  BY DEF RefDown
<1>5. refs' = [refs EXCEPT ![o] = IF @ = 0 THEN 0 ELSE @ - 1]
  <2>1. CASE refs[o] = 0
    BY <1>1, <1>3, <2>1 DEF RefDown
  <2>2. CASE refs[o] # 0
    BY <1>1, <1>3, <2>2 DEF RefDown, Down
  <2> QED
    BY <2>1, <2>2
<1>6. refs' \in [Objects -> Nat] /\ refs'[o] = (IF refs[o] = 0 THEN 0 ELSE refs[o] - 1)
      /\ \A x \in Objects \ {o} : refs'[x] = refs[x]
  BY <1>3, <1>5
<1>7. \/ /\ Len(stack[t]) = 1 /\ t \in Users /\ owns[t][o] > 0
         /\ owns' = [owns EXCEPT ![t][o] = @ - 1]
      \/ Len(stack[t]) > 1 /\ owns' = owns
  <2>0. /\ owns' = IF Len(stack[t]) = 1 THEN [owns EXCEPT ![t][o] = @ - 1] ELSE owns
        /\ Len(stack[t]) \in Nat
    BY <1>1, <1>2 DEF RefDown
  <2>1. CASE Len(stack[t]) = 1 /\ t \in Users /\ owns[t][o] > 0
    BY <2>0, <2>1
  <2>2. CASE Len(stack[t]) > 1
    <3>1. Len(stack[t]) # 1
      <4>1. PICK n \in Nat : n = Len(stack[t])
        BY <2>0
      <4>2. n > 1 => n # 1
        OBVIOUS
      <4> QED
        BY <2>2, <4>1, <4>2
    <3> QED
      BY <2>0, <2>2, <3>1
  <2>3. \/ Len(stack[t]) = 1 /\ t \in Users /\ owns[t][stack[t][1].obj] > 0
        \/ Len(stack[t]) > 1
    BY <1>2 DEF Nests
  <2> QED
    BY <1>2, <2>1, <2>2, <2>3
<1>8. /\ owns' \in [Threads -> [Objects -> 0..MaxRefs]]
      /\ \A v \in Threads, x \in Objects : v # t \/ x # o => owns'[v][x] = owns[v][x]
      /\ \A v \in Threads \ {t} : owns'[v] = owns[v]
      /\ \/ Len(stack[t]) = 1 /\ t \in Users /\ owns[t][o] = owns'[t][o] + 1
         \/ Len(stack[t]) > 1 /\ owns' = owns
  <2>1. CASE Len(stack[t]) > 1 /\ owns' = owns
    BY <1>3, <2>1
  <2>2. CASE /\ Len(stack[t]) = 1 /\ t \in Users /\ owns[t][o] > 0
             /\ owns' = [owns EXCEPT ![t][o] = @ - 1]
    <3>1. owns[t][o] - 1 \in 0..MaxRefs /\ (owns[t][o] - 1) + 1 = owns[t][o]
      BY <1>3, <2>2
    <3>2. owns'[t][o] = owns[t][o] - 1
      BY <1>3, <2>2
    <3>3. /\ owns' \in [Threads -> [Objects -> 0..MaxRefs]]
          /\ \A v \in Threads, x \in Objects : v # t \/ x # o => owns'[v][x] = owns[v][x]
          /\ \A v \in Threads \ {t} : owns'[v] = owns[v]
      BY <1>3, <2>2, <3>1
    <3> QED
      BY <2>2, <3>1, <3>2, <3>3
  <2> QED
    BY <1>7, <2>1, <2>2
<1>9. PICK f0 : f0 = F("watch", o)
  OBVIOUS
<1>10. PICK f1 : f1 = F("down_unlock", o)
  OBVIOUS
<1>11. /\ f0 \in Frame /\ f0.pc = "watch" /\ f0.obj = o
       /\ f1 \in Frame /\ f1.pc = "down_unlock" /\ f1.obj = o
  BY <1>3, <1>9, <1>10 DEF F, Frame
<1>12. PICK fr \in Seq(Frame) :
          /\ Renewed(t, fr)
          /\ \/ fr = << >> /\ Len(fr) = 0 /\ DOMAIN fr = {}
             \/ /\ t = Dispatcher /\ Len(fr) = 2 /\ DOMAIN fr = {1, 2}
                /\ fr[1] = f0 /\ fr[2] = f1
  <2>1. CASE Replace(t, << >>)
    <3>1. << >> \in Seq(Frame) /\ Len(<< >>) = 0 /\ DOMAIN << >> = {}
      OBVIOUS
    <3>2. PICK fr \in Seq(Frame) : fr = << >> /\ Len(fr) = 0 /\ DOMAIN fr = {}
      BY <3>1
    <3>3. Renewed(t, fr)
      BY <1>2, <2>1, <3>2, ReplaceRenews
    <3> QED
      BY <3>2, <3>3
  <2>2. CASE t = Dispatcher /\ Replace(t, <<F("watch", o), F("down_unlock", o)>>)
    <3> DEFINE fr == <<f0, f1>>
    <3>1. fr \in Seq(Frame) /\ Len(fr) = 2 /\ DOMAIN fr = {1, 2} /\ fr[1] = f0 /\ fr[2] = f1
      BY <1>11
    <3>2. Renewed(t, fr)
      BY <1>2, <1>9, <1>10, <2>2, <3>1, ReplaceRenews
    <3> QED
      BY <2>2, <3>1, <3>2
  <2>3. Replace(t, << >>) \/ (t = Dispatcher /\ Replace(t, <<F("watch", o), F("down_unlock", o)>>))
    BY <1>1 DEF RefDown, Return
  <2> QED
    BY <2>1, <2>2, <2>3
<1>13. TypeOK'
  <2>1. calls' \in Seq(Objects)
    <3>1. calls \in Seq(Objects)
      BY DEF IInv, TypeOK
    <3>2. calls' = calls \/ calls' = Append(calls, o)
      BY <1>1 DEF RefDown, WatchCall
    <3>3. Append(calls, o) \in Seq(Objects)
      BY <1>3, <3>1
    <3> QED
      BY <3>1, <3>2, <3>3
  <2>2. ref_lock' \in [Objects -> Threads \cup {NoThread}]
    <3>1. ref_lock \in [Objects -> Threads \cup {NoThread}]
      BY DEF IInv, TypeOK
    <3>2. ref_lock' = ref_lock \/ ref_lock' = [ref_lock EXCEPT ![o] = t]
      BY <1>1 DEF RefDown
    <3> QED
      BY <3>1, <3>2
  <2> QED
    BY <1>4, <1>6, <1>8, <1>12, <2>1, <2>2 DEF IInv, TypeOK, Renewed
<1>14. FramesFit'
  <2>1. ASSUME NEW v \in Threads, NEW f \in Frame, Fits(v, f), v = t => f.pc \in Inner
        PROVE  Fits(v, f)'
    <3>1. f.pc \in Gets => owns'[v] = owns[v]
      BY <1>8, <2>1 DEF Gets, Inner
    <3> QED
      BY <1>4, <2>1, <3>1 DEF Fits
  <2>2. t = Dispatcher => Fits(t, f0)' /\ Fits(t, f1)'
    BY <1>3, <1>11 DEF Fits, Gets
  <2>3. \A i \in DOMAIN fr : Fits(t, fr[i])'
    BY <1>12, <2>2
  <2> QED
    BY <1>2, <1>12, <2>1, <2>3, FitAfter DEF IInv
<1>15. StacksNest'
  <2>1. \A i \in DOMAIN fr : fr[i].pc # "zombies" /\ (i > 1 => fr[i].pc \in Inner)
    BY <1>11, <1>12 DEF Inner
  <2>2. fr # << >> => fr[1].pc # "down"
    BY <1>11, <1>12
  <2>3. \A v \in Threads \ {t}, f \in Frame :
           stack[v] # << >> /\ f.pc = "down" => owns'[v][f.obj] = owns[v][f.obj]
    BY <1>8
  <2> QED
    BY <1>2, <1>12, <2>1, <2>2, <2>3, NestAfter DEF IInv
<1>16. EndedOnce'
  <2>1. \A x \in Objects : \A i \in DOMAIN fr : ~Ends(fr[i], x)
    BY <1>11, <1>12 DEF Ends
  <2> QED
    BY <1>2, <1>12, <2>1, EndedOnceAfter DEF IInv
<1>17. ASSUME NEW p \in Objects, Len(stack[t]) > 1 => stack[t][2] # F("destroy", p)
       PROVE  Linked(p)' <=> Linked(p)
  <2>1. \A i \in DOMAIN fr : fr[i] # F("destroy", p)
    BY <1>11, <1>12 DEF F
  <2>2. stack[t][1] # F("destroy", p) /\ memory'[p] = memory[p]
    BY <1>2, <1>4 DEF F
  <2>3. fr # << >> => fr[Len(fr)].pc # "down"
    BY <1>11, <1>12
  <2> QED
    BY <1>2, <1>12, <1>17, <2>1, <2>2, <2>3, LinkedAfter DEF IInv
<1>18. UNCHANGED <<memory, state, objects, pools>>
  BY <1>4
<1>19. Books'
  <2>1. CASE Len(stack[t]) = 1 /\ t \in Users /\ owns[t][o] = owns'[t][o] + 1
    <3>1. \A p \in Objects : Linked(p)' <=> Linked(p)
      BY <1>17, <2>1
    <3> QED
      BY <1>3, <1>6, <1>8, <1>18, <2>1, <3>1, CountedBooks
  <2>2. CASE Len(stack[t]) > 1 /\ owns' = owns
    <3>1. PICK p \in Objects :
             /\ stack[t][2] = F("destroy", p) /\ 2 \in DOMAIN stack[t]
             /\ Child[p] = o /\ Linked(p)
      BY <1>2, <2>2, DropsLink
    <3>2. \A x \in Objects \ {p} : Linked(x)' <=> Linked(x)
      <4>1. \A x \in Objects \ {p} : F("destroy", x) # F("destroy", p)
        BY DEF F
      <4> QED
        BY <1>17, <3>1, <4>1
    <3>3. ~Linked(p)'
      <4>1. PICK k \in {0, 2} : k = Len(fr) /\ (k = 2 => fr[2].pc = "down_unlock")
        BY <1>11, <1>12
      <4>2. PICK n \in Nat : n = Len(stack[t]) /\ n > 1
        BY <1>2, <2>2
      <4>3. Len(stack'[t]) = k + (n - 1) /\ stack'[t][k + 1] = F("destroy", p)
            /\ (k = 2 => stack'[t][2] = fr[2])
        <5>1. 1 \in 1..(n - 1) /\ 1 + 1 = 2
          BY <4>2
        <5>2. stack'[t][k + 1] = stack[t][1 + 1]
          BY <1>2, <1>12, <4>1, <4>2, <5>1 DEF Renewed
        <5> QED
          BY <1>2, <1>12, <3>1, <4>1, <4>2, <5>2 DEF Renewed
      <4>4. k + 1 \in DOMAIN stack'[t]
        <5>1. stack'[t] \in Seq(Frame) /\ DOMAIN stack'[t] = 1..Len(stack'[t])
          BY <1>12 DEF Renewed
        <5> QED
          BY <4>1, <4>2, <4>3, <5>1
      <4>5. SUFFICES ASSUME Linked(p)' PROVE FALSE
        OBVIOUS
      <4>6. k + 1 > 1 /\ stack'[t][(k + 1) - 1] = F("down", Child[p])
        BY <4>3, <4>4, <4>5 DEF Linked, F
      <4>7. k = 2 /\ stack'[t][2].pc = "down"
        BY <4>1, <4>6 DEF F
      <4> QED
        BY <4>1, <4>3, <4>7
    <3> QED
      BY <1>3, <1>5, <1>18, <2>2, <3>1, <3>2, <3>3, UnlinkBooks
  <2> QED
    BY <1>8, <2>1, <2>2
<1> QED
  BY <1>13, <1>14, <1>15, <1>16, <1>19 DEF IInv

-----------------------------------------------------------------------------
(* An object leaves its pool to be destroyed *)

(* Nobody has a reference on the object any more. *)
LEMMA RetiredBooks ==
  ASSUME IInv, UNCHANGED <<memory, refs>>, NEW o \in Objects,
         memory[o] = "live",
         objects' = objects \ {o},
         \/ state' = state /\ owns' = owns
         \/ state' = [state EXCEPT ![o] = "DEINIT"],
         \A t \in Threads : owns'[t][o] = 0,
         \A t \in Threads, x \in Objects \ {o} : owns'[t][x] = owns[t][x],
         \A p \in Pools : pools[p] = "open" => pools'[p] = "open",
         \A p \in Objects : Child[p] \in Objects => (Linked(p)' <=> Linked(p))
  PROVE  Books'
<1>1. \A x \in Objects \ {o} : state'[x] = state[x]
  BY DEF IInv, TypeOK
<1>2. Dispatcher \in Threads
  BY DEF Threads
<1>3. PooledIsWhole'
  BY <1>1 DEF IInv, TypeOK, Books, PooledIsWhole
<1>4. UnbornIsUnknown' /\ ChildIsOlder' /\ DispatcherHasNone'
  BY <1>1, <1>2 DEF IInv, Books, UnbornIsUnknown, ChildIsOlder, DispatcherHasNone
<1>5. ClosedIsUnused'
  BY PoolAssumption DEF IInv, Books, ClosedIsUnused
<1>6. HeldIsWhole'
  <2> SUFFICES ASSUME NEW v \in Threads, NEW x \in Objects, owns'[v][x] > 0
               PROVE  memory[x] = "live" /\ state'[x] # "DEINIT"
    BY DEF HeldIsWhole
  <2>1. x # o
    OBVIOUS
  <2> QED
    BY <1>1, <2>1 DEF IInv, Books, HeldIsWhole
<1>7. CountsReferences'
  <2> SUFFICES ASSUME NEW x \in Objects, memory[x] = "live", state'[x] # "DEINIT"
               PROVE  refs[x] = Cardinality(Held(x)') + Cardinality(Links(x)')
    BY DEF CountsReferences, Links
  <2>1. state[x] = state'[x] /\ \A t \in Threads : owns'[t][x] = owns[t][x]
    <3>1. CASE x = o
      <4>1. state'[o] # "DEINIT"
        BY <3>1
      <4>2. state' # [state EXCEPT ![o] = "DEINIT"]
        BY <4>1 DEF IInv, TypeOK
      <4> QED
        BY <4>2
    <3>2. CASE x # o
      BY <1>1, <3>2
    <3> QED
      BY <3>1, <3>2
  <2>2. Held(x)' = Held(x) /\ Links(x)' = Links(x)
    BY <2>1, SameCounts
  <2>3. refs[x] = Cardinality(Held(x)) + Cardinality(Links(x))
    BY <2>1 DEF IInv, Books, CountsReferences, Links
  <2> QED
    BY <2>2, <2>3
<1> QED
  BY <1>3, <1>4, <1>5, <1>6, <1>7 DEF Books

(* With a counter of 0 no thread has a reference. *)
LEMMA ZeroIsUnused ==
  ASSUME IInv, NEW o \in objects, refs[o] = 0
  PROVE  \A t \in Threads : owns[t][o] = 0
<1>1. o \in Objects /\ owns \in [Threads -> [Objects -> 0..MaxRefs]]
  BY DEF IInv, TypeOK
<1>2. PICK w : w = [t \in Threads |-> owns[t][o]]
  OBVIOUS
<1>3. w \in [Threads -> 0..MaxRefs] /\ Held(o) = Tokens(w)
  BY <1>1, <1>2, HeldTokens
<1>4. PICK m \in Nat : m = Cardinality(Tokens(w))
  BY TokensFinite
<1>5. PICK l \in Nat : l = Cardinality(Links(o))
  BY LinksFinite
<1>6. refs[o] = Cardinality(Held(o)) + Cardinality(Links(o))
  BY <1>1 DEF IInv, Books, PooledIsWhole, CountsReferences, Links
<1>7. m + l = 0
  BY <1>3, <1>4, <1>5, <1>6
<1>8. m = 0
  BY <1>7
<1>9. \A t \in Threads : w[t] = 0
  BY <1>3, <1>4, <1>8, TokensZero
<1> QED
  BY <1>2, <1>9

LEMMA WatchLockedStep ==
  ASSUME IInv, NEW t \in Threads, WatchLocked(t)
  PROVE  IInv'
<1>1. PICK o : o = Obj(t)
  OBVIOUS
<1>2. /\ stack[t] # << >> /\ stack[t][1].pc = "watch_locked" /\ stack[t][1].obj = o
      /\ Fits(t, stack[t][1])
      /\ stack \in [Threads -> Seq(Frame)]
  BY <1>1, FirstFrame DEF WatchLocked, At
<1>3. /\ o \in Objects /\ t = Dispatcher /\ t \notin Users
      /\ pool_lock[PoolOf[o]] = t
  BY <1>2, ThreadAssumption DEF Fits
<1>4. UNCHANGED <<memory, refs, ref_lock, pools, calls, owns>> /\ Dismiss(o)
  BY <1>1 DEF WatchLocked
<1>5. PICK f0 : f0 = F("destructor", o)
  OBVIOUS
<1>6. f0 \in Frame /\ f0.pc = "destructor" /\ f0.obj = o
  BY <1>3, <1>5 DEF F, Frame
<1>7. \/ /\ Replace(t, << >>) /\ UNCHANGED <<locked, objects, state>>
      \/ /\ o \in objects /\ refs[o] = 0
         /\ objects' = objects \ {o} /\ locked' = locked \cup {o}
         /\ \/ Replace(t, << >>) /\ state' = state
            \/ Replace(t, <<f0>>) /\ state' = [state EXCEPT ![o] = "DEINIT"]
  BY <1>1, <1>5 DEF WatchLocked, AtZero, Unpool, Return
<1>8. PICK fr \in Seq(Frame) :
          /\ Renewed(t, fr)
          /\ \/ fr = << >> /\ Len(fr) = 0 /\ DOMAIN fr = {} /\ state' = state
             \/ /\ Len(fr) = 1 /\ DOMAIN fr = {1} /\ fr[1] = f0
                /\ o \in objects /\ state' = [state EXCEPT ![o] = "DEINIT"]
  <2>1. CASE Replace(t, << >>) /\ state' = state
    <3>1. << >> \in Seq(Frame) /\ Len(<< >>) = 0 /\ DOMAIN << >> = {}
      OBVIOUS
    <3>2. PICK fr \in Seq(Frame) : fr = << >> /\ Len(fr) = 0 /\ DOMAIN fr = {}
      BY <3>1
    <3>3. Renewed(t, fr)
      BY <1>2, <2>1, <3>2, ReplaceRenews
    <3> QED
      BY <2>1, <3>2, <3>3
  <2>2. CASE /\ Replace(t, <<f0>>) /\ o \in objects
             /\ state' = [state EXCEPT ![o] = "DEINIT"]
    <3> DEFINE fr == <<f0>>
    <3>1. fr \in Seq(Frame) /\ Len(fr) = 1 /\ DOMAIN fr = {1} /\ fr[1] = f0
      BY <1>6
    <3>2. Renewed(t, fr)
      BY <1>2, <2>2, <3>1, ReplaceRenews
    <3> QED
      BY <2>2, <3>1, <3>2
  <2> QED
    BY <1>7, <2>1, <2>2
<1>9. TypeOK'
  <2>1. pool_lock' \in [Pools -> Threads \cup {NoThread}]
    BY <1>3, <1>4, PoolAssumption DEF Dismiss, IInv, TypeOK
  <2>2. state' \in [Objects -> {"INIT", "ACTIVE", "DEINIT"}]
    BY <1>7 DEF IInv, TypeOK
  <2>3. locked' \in SUBSET Objects /\ objects' \in SUBSET Objects
    BY <1>3, <1>7 DEF IInv, TypeOK
  <2> QED
    BY <1>4, <1>8, <2>1, <2>2, <2>3 DEF IInv, TypeOK, Renewed
<1>10. FramesFit'
  <2>1. /\ UNCHANGED <<memory, pools>>
        /\ objects' = objects \/ objects' = objects \ {o}
        /\ \A v \in Threads \ {t}, p \in Objects : owns'[v][p] = owns[v][p]
    BY <1>4, <1>7
  <2>2. \A x \in Objects : state[x] = "DEINIT" => state'[x] = "DEINIT"
    BY <1>7 DEF IInv, TypeOK
  <2>3. \A v \in Threads, f \in Frame :
           Fits(v, f) /\ (v = t => f.pc \in Inner) => Fits(v, f)'
    BY <1>3, <1>4, <2>1, <2>2, DismissFits
  <2>4. \A i \in DOMAIN fr : Fits(t, fr[i])'
    <3>1. CASE fr = << >> /\ DOMAIN fr = {}
      BY <3>1
    <3>2. CASE /\ DOMAIN fr = {1} /\ fr[1] = f0
               /\ o \in objects /\ state' = [state EXCEPT ![o] = "DEINIT"]
      <4>1. memory'[o] = "live" /\ state'[o] = "DEINIT"
        BY <1>3, <1>4, <3>2 DEF IInv, Books, PooledIsWhole, TypeOK
      <4>2. Fits(t, f0)'
        BY <1>3, <1>6, <4>1 DEF Fits, Gets
      <4> QED
        BY <3>2, <4>2
    <3> QED
      BY <1>8, <3>1, <3>2
  <2> QED
    BY <1>2, <1>8, <2>3, <2>4, FitAfter DEF IInv
<1>11. \A i \in DOMAIN fr : i = 1 /\ fr[i] = f0
  BY <1>8
<1>12. StacksNest'
  <2>1. \A i \in DOMAIN fr : fr[i].pc # "zombies" /\ ~(i > 1)
    BY <1>6, <1>11
  <2>2. fr # << >> => fr[1].pc # "down"
    BY <1>6, <1>8
  <2>3. \A v \in Threads \ {t}, f \in Frame :
           stack[v] # << >> /\ f.pc = "down" => owns'[v][f.obj] = owns[v][f.obj]
    BY <1>4
  <2> QED
    BY <1>2, <1>8, <2>1, <2>2, <2>3, NestAfter DEF IInv
<1>13. EndedOnce'
  <2>1. \A x \in Objects : \A i \in DOMAIN fr :
           Ends(fr[i], x) => \A v \in Threads : \A j \in DOMAIN stack[v] : ~Ends(stack[v][j], x)
    <3> SUFFICES ASSUME NEW x \in Objects, NEW i \in DOMAIN fr, Ends(fr[i], x)
                 PROVE  \A v \in Threads : \A j \in DOMAIN stack[v] : ~Ends(stack[v][j], x)
      OBVIOUS
    <3>1. x = o
      BY <1>6, <1>11 DEF Ends
    <3>2. o \in objects
      BY <1>8
    <3>3. state[o] # "DEINIT"
      BY <3>2 DEF IInv, Books, PooledIsWhole
    <3> QED
      BY <1>3, <3>1, <3>3, NobodyEnds
  <2>2. \A x \in Objects : \A i, j \in DOMAIN fr : i = j
    BY <1>11
  <2> QED
    BY <1>2, <1>8, <2>1, <2>2, EndedOnceAfter DEF IInv
<1>14. ASSUME NEW p \in Objects PROVE Linked(p)' <=> Linked(p)
  <2>1. \A i \in DOMAIN fr : fr[i] # F("destroy", p)
    BY <1>6, <1>11 DEF F
  <2>2. stack[t][1] # F("destroy", p) /\ stack[t][1].pc # "down" /\ memory'[p] = memory[p]
    BY <1>2, <1>4 DEF F
  <2>3. fr # << >> => fr[Len(fr)].pc # "down"
    BY <1>6, <1>8
  <2> QED
    BY <1>2, <1>8, <2>1, <2>2, <2>3, LinkedAfter DEF IInv
<1>15. Books'
  <2>1. CASE UNCHANGED <<objects, state>>
    BY <1>4, <1>14, <2>1, QuietBooks
  <2>2. CASE /\ o \in objects /\ refs[o] = 0 /\ objects' = objects \ {o}
             /\ state' = state \/ state' = [state EXCEPT ![o] = "DEINIT"]
    <3>1. \A v \in Threads : owns'[v][o] = 0
      BY <1>4, <2>2, ZeroIsUnused
    <3>2. memory[o] = "live"
      BY <2>2 DEF IInv, Books, PooledIsWhole
    <3>3. /\ UNCHANGED <<memory, refs>> /\ owns' = owns
          /\ \A p \in Pools : pools[p] = "open" => pools'[p] = "open"
      BY <1>4
    <3> QED
      BY <1>3, <1>14, <2>2, <3>1, <3>2, <3>3, RetiredBooks
  <2> QED
    BY <1>7, <2>1, <2>2
<1> QED
  BY <1>9, <1>10, <1>12, <1>13, <1>15 DEF IInv

LEMMA DestroyIncompleteStep ==
  ASSUME IInv, NEW u \in Users, NEW o \in Objects, DestroyIncomplete(u, o)
  PROVE  IInv'
<1>1. /\ u \in Threads /\ stack[u] = << >> /\ stack \in [Threads -> Seq(Frame)]
      /\ owns \in [Threads -> [Objects -> 0..MaxRefs]] /\ MaxRefs \in Nat
      /\ state \in [Objects -> {"INIT", "ACTIVE", "DEINIT"}]
  BY BoundAssumption DEF DestroyIncomplete, Idle, IInv, TypeOK, Threads
<1>2. /\ state[o] = "INIT" /\ memory[o] = "live" /\ owns[u][o] = 1 /\ refs[o] = 1
      /\ pool_lock[PoolOf[o]] = NoThread
      /\ state' = [state EXCEPT ![o] = "DEINIT"]
      /\ objects' = objects \ {o}
      /\ owns' = [owns EXCEPT ![u][o] = 0]
      /\ UNCHANGED <<memory, refs, locked, ref_lock, pool_lock, pools, calls>>
  BY DEF DestroyIncomplete, PoolLockFree, Unpool
<1>3. PICK f0 : f0 = F("destructor", o)
  OBVIOUS
<1>4. f0 \in Frame /\ f0.pc = "destructor" /\ f0.obj = o
  BY <1>3 DEF F, Frame
<1> DEFINE fr == <<f0>>
<1>5. fr \in Seq(Frame) /\ Len(fr) = 1 /\ DOMAIN fr = {1} /\ fr[1] = f0
  BY <1>4
<1>6. Renewed(u, fr)
  <2>1. stack' = [stack EXCEPT ![u] = <<f0>>]
    BY <1>3 DEF DestroyIncomplete
  <2> QED
    BY <1>1, <1>4, <2>1, StartRenews
<1> HIDE DEF fr
<1>7. /\ owns' \in [Threads -> [Objects -> 0..MaxRefs]] /\ owns'[u][o] = 0
      /\ \A v \in Threads, x \in Objects : v # u \/ x # o => owns'[v][x] = owns[v][x]
      /\ \A v \in Threads \ {u} : owns'[v] = owns[v]
  <2>1. 0 \in 0..MaxRefs
    BY <1>1
  <2> QED
    BY <1>1, <1>2, <2>1
<1>8. TypeOK'
  <2>1. state' \in [Objects -> {"INIT", "ACTIVE", "DEINIT"}] /\ objects' \in SUBSET Objects
    BY <1>1, <1>2 DEF IInv, TypeOK
  <2> QED
    BY <1>2, <1>6, <1>7, <2>1 DEF IInv, TypeOK, Renewed
<1>9. FramesFit'
  <2>1. ASSUME NEW v \in Threads, NEW f \in Frame, Fits(v, f), v = u => f.pc \in Inner
        PROVE  Fits(v, f)'
    <3>1. f.pc \in Gets => owns'[v] = owns[v]
      BY <1>7, <2>1 DEF Gets, Inner
    <3>2. f.pc = "get_up" => f.obj \in objects'
      <4>1. f.pc = "get_up" => pool_lock[PoolOf[f.obj]] = v
        BY <2>1 DEF Fits, Gets
      <4>2. f.pc = "get_up" => f.obj # o
        BY <1>2, <4>1, ThreadAssumption
      <4> QED
        BY <1>2, <2>1, <4>2 DEF Fits
    <3>3. f.pc \in {"destructor", "destroy"} =>
             memory'[f.obj] = "live" /\ state'[f.obj] = "DEINIT"
      BY <1>1, <1>2, <2>1 DEF Fits
    <3> QED
      BY <1>2, <2>1, <3>1, <3>2, <3>3 DEF Fits
  <2>2. Fits(u, f0)'
    BY <1>1, <1>2, <1>4 DEF Fits, Gets
  <2> QED
    BY <1>1, <1>5, <1>6, <2>1, <2>2, FitAfter DEF IInv
<1>10. StacksNest'
  <2>1. \A i \in DOMAIN fr : ~(i > 1) /\ fr[i].pc # "zombies"
    BY <1>4, <1>5
  <2>2. fr[1].pc # "down"
    BY <1>4, <1>5
  <2>3. \A v \in Threads \ {u}, f \in Frame :
           stack[v] # << >> /\ f.pc = "down" => owns'[v][f.obj] = owns[v][f.obj]
    BY <1>7
  <2> QED
    BY <1>1, <1>5, <1>6, <2>1, <2>2, <2>3, NestAfter DEF IInv
<1>11. EndedOnce'
  <2>1. \A v \in Threads : \A j \in DOMAIN stack[v] : ~Ends(stack[v][j], o)
    BY <1>2, NobodyEnds
  <2>2. \A x \in Objects : \A i \in DOMAIN fr : Ends(fr[i], x) => x = o
    BY <1>4, <1>5 DEF Ends
  <2>3. \A x \in Objects : \A i, j \in DOMAIN fr : i = j
    BY <1>5
  <2>4. \A x \in Objects : \A i \in DOMAIN fr :
           Ends(fr[i], x) => \A v \in Threads : \A j \in DOMAIN stack[v] : ~Ends(stack[v][j], x)
    BY <2>1, <2>2
  <2> QED
    BY <1>1, <1>5, <1>6, <2>3, <2>4, EndedOnceAfter DEF IInv
<1>12. ASSUME NEW p \in Objects PROVE Linked(p)' <=> Linked(p)
  <2>1. \A i \in DOMAIN fr : fr[i] # F("destroy", p)
    BY <1>4, <1>5 DEF F
  <2>2. ~(Len(stack[u]) > 1) /\ memory'[p] = memory[p]
    BY <1>1, <1>2
  <2> QED
    BY <1>1, <1>5, <1>6, <2>1, <2>2, LinkedAfter DEF IInv
<1>13. \A t \in Threads : owns'[t][o] = 0
  <2>1. PICK w : w = [t \in Threads |-> owns[t][o]]
    OBVIOUS
  <2>2. PICK w0 : w0 = [t \in Threads |-> owns'[t][o]]
    OBVIOUS
  <2>3. w \in [Threads -> 0..MaxRefs] /\ w0 \in [Threads -> 0..MaxRefs]
        /\ w[u] = w0[u] + 1 /\ \A v \in Threads \ {u} : w[v] = w0[v]
    BY <1>1, <1>2, <1>7, <2>1, <2>2
  <2>4. Held(o) = Tokens(w)
    BY <2>1, HeldTokens
  <2>5. PICK m \in Nat : m = Cardinality(Tokens(w))
    BY TokensFinite
  <2>6. PICK m0 \in Nat : m0 = Cardinality(Tokens(w0))
    BY TokensFinite
  <2>7. PICK l \in Nat : l = Cardinality(Links(o))
    BY LinksFinite
  <2>8. m = m0 + 1
    BY <1>1, <2>3, <2>5, <2>6, TokensAdd
  <2>9. refs[o] = m + l
    BY <1>2, <2>4, <2>5, <2>7 DEF IInv, Books, CountsReferences, Links
  <2>10. m0 = 0
    BY <1>2, <2>8, <2>9
  <2>11. \A t \in Threads : w0[t] = 0
    BY <2>3, <2>6, <2>10, TokensZero
  <2> QED
    BY <2>2, <2>11
<1>14. Books'
  <2>1. \A t \in Threads, x \in Objects \ {o} : owns'[t][x] = owns[t][x]
    BY <1>7
  <2>2. UNCHANGED <<memory, refs>> /\ \A p \in Pools : pools[p] = "open" => pools'[p] = "open"
    BY <1>2
  <2> QED
    BY <1>2, <1>12, <1>13, <2>1, <2>2, RetiredBooks
<1> QED
  BY <1>8, <1>9, <1>10, <1>11, <1>14 DEF IInv

LEMMA DestroyPoolStep ==
  ASSUME IInv, NEW u \in Users, NEW p \in Pools, DestroyPool(u, p)
  PROVE  IInv'
<1>1. /\ u \in Threads /\ stack[u] = << >> /\ stack \in [Threads -> Seq(Frame)]
      /\ pool_lock \in [Pools -> Threads \cup {NoThread}]
      /\ pools \in [Pools -> {"open", "closing", "freed"}]
  BY DEF DestroyPool, Idle, IInv, TypeOK, Threads
<1>2. /\ \A v \in Users, o \in Objects : PoolOf[o] = p => owns[v][o] = 0
      /\ pool_lock[p] = NoThread /\ pools[p] = "open"
      /\ pool_lock' = [pool_lock EXCEPT ![p] = u]
      /\ pools' = [pools EXCEPT ![p] = "closing"]
      /\ UNCHANGED <<memory, state, refs, locked, ref_lock, objects, calls, owns>>
  BY DEF DestroyPool
<1>3. PICK f0 : f0 = F("zombies", p)
  OBVIOUS
<1>4. f0 \in Frame /\ f0.pc = "zombies" /\ f0.obj = p
  BY <1>3 DEF F, Frame
<1> DEFINE fr == <<f0>>
<1>5. fr \in Seq(Frame) /\ Len(fr) = 1 /\ DOMAIN fr = {1} /\ fr[1] = f0
  BY <1>4
<1>6. Renewed(u, fr)
  <2>1. stack' = [stack EXCEPT ![u] = <<f0>>]
    BY <1>3 DEF DestroyPool
  <2> QED
    BY <1>1, <1>4, <2>1, StartRenews
<1> HIDE DEF fr
<1>7. TypeOK'
  BY <1>1, <1>2, <1>6 DEF IInv, TypeOK, Renewed
<1>8. FramesFit'
  <2>1. \A q \in Pools : pool_lock[q] \in Threads =>
           q # p /\ pool_lock'[q] = pool_lock[q] /\ pools'[q] = pools[q]
    BY <1>1, <1>2, ThreadAssumption
  <2>2. ASSUME NEW v \in Threads, NEW f \in Frame, Fits(v, f) PROVE Fits(v, f)'
    <3>1. f.pc = "zombies" => f.obj \in Pools /\ pool_lock[f.obj] \in Threads
      BY <2>2 DEF Fits
    <3>2. f.pc \in Gets \cup {"watch_locked"} =>
             PoolOf[f.obj] \in Pools /\ pool_lock[PoolOf[f.obj]] \in Threads
      BY <2>2, PoolAssumption DEF Fits, Gets
    <3> QED
      BY <1>2, <2>1, <2>2, <3>1, <3>2 DEF Fits
  <2>3. Fits(u, f0)'
    BY <1>1, <1>2, <1>4 DEF Fits, Gets
  <2> QED
    BY <1>1, <1>5, <1>6, <2>2, <2>3, FitAfter DEF IInv
<1>9. StacksNest'
  <2>1. \A i \in DOMAIN fr : ~(i > 1) /\ i = Len(fr) /\ Len(stack[u]) <= 1
    BY <1>1, <1>5
  <2>2. fr[1].pc # "down"
    BY <1>4, <1>5
  <2>3. \A v \in Threads \ {u}, f \in Frame :
           stack[v] # << >> /\ f.pc = "down" => owns'[v][f.obj] = owns[v][f.obj]
    BY <1>2
  <2> QED
    BY <1>1, <1>5, <1>6, <2>1, <2>2, <2>3, NestAfter DEF IInv
<1>10. EndedOnce'
  <2>1. \A x \in Objects : \A i \in DOMAIN fr : ~Ends(fr[i], x)
    BY <1>4, <1>5 DEF Ends
  <2> QED
    BY <1>1, <1>5, <1>6, <2>1, EndedOnceAfter DEF IInv
<1>11. ASSUME NEW q \in Objects PROVE Linked(q)' <=> Linked(q)
  <2>1. \A i \in DOMAIN fr : fr[i] # F("destroy", q)
    BY <1>4, <1>5 DEF F
  <2>2. ~(Len(stack[u]) > 1) /\ memory'[q] = memory[q]
    BY <1>1, <1>2
  <2> QED
    BY <1>1, <1>5, <1>6, <2>1, <2>2, LinkedAfter DEF IInv
<1>12. Books'
  <2>1. PooledIsWhole' /\ UnbornIsUnknown' /\ ChildIsOlder' /\ DispatcherHasNone'
        /\ HeldIsWhole'
    BY <1>2 DEF IInv, Books, PooledIsWhole, UnbornIsUnknown, ChildIsOlder,
                DispatcherHasNone, HeldIsWhole
  <2>2. ClosedIsUnused'
    <3> SUFFICES ASSUME NEW o \in Objects, NEW v \in Threads, pools'[PoolOf[o]] # "open"
                 PROVE  owns[v][o] = 0
      BY <1>2 DEF ClosedIsUnused
    <3>1. CASE PoolOf[o] = p
      BY <1>2, <3>1 DEF IInv, Books, DispatcherHasNone, Threads
    <3>2. CASE PoolOf[o] # p
      BY <1>1, <1>2, <3>2, PoolAssumption DEF IInv, Books, ClosedIsUnused
    <3> QED
      BY <3>1, <3>2
  <2>3. CountsReferences'
    <3>1. ASSUME NEW o \in Objects PROVE Held(o)' = Held(o) /\ Links(o)' = Links(o)
      BY <1>2, <1>11, SameCounts
    <3> QED
      BY <1>2, <3>1 DEF IInv, Books, CountsReferences, Links
  <2> QED
    BY <2>1, <2>2, <2>3 DEF Books
<1> QED
  BY <1>7, <1>8, <1>9, <1>10, <1>12 DEF IInv

LEMMA ZombieStep ==
  ASSUME IInv, NEW u \in Threads, DestroyZombie(u),
         NEW o \in objects, PoolOf[o] = Obj(u),
         state' = [state EXCEPT ![o] = "DEINIT"], Unpool(o),
         Replace(u, <<F("destructor", o), F("zombies", Obj(u))>>),
         UNCHANGED <<pool_lock, pools>>
  PROVE  IInv'
<1>1. PICK p : p = Obj(u)
  OBVIOUS
<1>2. /\ stack[u] # << >> /\ stack[u][1].pc = "zombies" /\ stack[u][1].obj = p
      /\ Fits(u, stack[u][1]) /\ Nests(u, stack[u]) /\ 1 \in DOMAIN stack[u]
      /\ stack \in [Threads -> Seq(Frame)]
  BY <1>1, FirstFrame DEF DestroyZombie, At
<1>3. /\ p \in Pools /\ u \in Users /\ pool_lock[p] = u /\ pools[p] = "closing"
      /\ PoolOf[o] = p /\ o \in Objects /\ memory[o] = "live" /\ state[o] # "DEINIT"
  BY <1>1, <1>2 DEF Fits, IInv, TypeOK, Books, PooledIsWhole
<1>4. Len(stack[u]) = 1
  BY <1>2 DEF Nests
<1>5. /\ UNCHANGED <<memory, refs, locked, ref_lock, pool_lock, pools, calls, owns>>
      /\ objects' = objects \ {o}
  BY DEF DestroyZombie, Unpool
<1>6. PICK f0 : f0 = F("destructor", o)
  OBVIOUS
<1>7. PICK f1 : f1 = F("zombies", p)
  OBVIOUS
<1>8. /\ f0 \in Frame /\ f0.pc = "destructor" /\ f0.obj = o
      /\ f1 \in Frame /\ f1.pc = "zombies" /\ f1.obj = p
  BY <1>3, <1>6, <1>7 DEF F, Frame
<1> DEFINE fr == <<f0, f1>>
<1>9. fr \in Seq(Frame) /\ Len(fr) = 2 /\ DOMAIN fr = {1, 2} /\ fr[1] = f0 /\ fr[2] = f1
  BY <1>8
<1>10. Renewed(u, fr)
  BY <1>1, <1>2, <1>6, <1>7, <1>9, ReplaceRenews
<1> HIDE DEF fr
<1>11. state' \in [Objects -> {"INIT", "ACTIVE", "DEINIT"}] /\ state'[o] = "DEINIT"
       /\ \A x \in Objects : state[x] = "DEINIT" => state'[x] = "DEINIT"
  BY <1>3 DEF IInv, TypeOK
<1>12. TypeOK'
  BY <1>5, <1>10, <1>11 DEF IInv, TypeOK, Renewed
<1>13. FramesFit'
  <2>1. ASSUME NEW v \in Threads, NEW f \in Frame, Fits(v, f) PROVE Fits(v, f)'
    <3>1. f.pc = "get_up" => f.obj \in objects'
      <4>1. f.pc = "get_up" => f.obj # o
        BY <1>3, <2>1 DEF Fits, Gets
      <4> QED
        BY <1>5, <2>1, <4>1 DEF Fits
    <3> QED
      BY <1>5, <1>11, <2>1, <3>1 DEF Fits
  <2>2. Fits(u, f0)' /\ Fits(u, f1)'
    BY <1>3, <1>5, <1>8, <1>11 DEF Fits, Gets
  <2> QED
    BY <1>2, <1>9, <1>10, <2>1, <2>2, FitAfter DEF IInv
<1>14. StacksNest'
  <2>1. \A i \in DOMAIN fr : i > 1 => fr[i].pc \in Inner
    BY <1>8, <1>9 DEF Inner
  <2>2. \A i \in DOMAIN fr : fr[i].pc = "zombies" => i = Len(fr) /\ Len(stack[u]) <= 1
    BY <1>4, <1>8, <1>9
  <2>3. fr[1].pc # "down"
    BY <1>8, <1>9
  <2>4. \A v \in Threads \ {u}, f \in Frame :
           stack[v] # << >> /\ f.pc = "down" => owns'[v][f.obj] = owns[v][f.obj]
    BY <1>5
  <2> QED
    BY <1>2, <1>9, <1>10, <2>1, <2>2, <2>3, <2>4, NestAfter DEF IInv
<1>15. EndedOnce'
  <2>1. \A v \in Threads : \A j \in DOMAIN stack[v] : ~Ends(stack[v][j], o)
    BY <1>3, NobodyEnds
  <2>2. \A x \in Objects : \A i \in DOMAIN fr : Ends(fr[i], x) => i = 1 /\ x = o
    BY <1>8, <1>9 DEF Ends
  <2>3. \A x \in Objects : \A i \in DOMAIN fr :
           Ends(fr[i], x) => \A v \in Threads : \A j \in DOMAIN stack[v] : ~Ends(stack[v][j], x)
    BY <2>1, <2>2
  <2>4. \A x \in Objects : \A i, j \in DOMAIN fr : Ends(fr[i], x) /\ Ends(fr[j], x) => i = j
    BY <2>2
  <2> QED
    BY <1>2, <1>9, <1>10, <2>3, <2>4, EndedOnceAfter DEF IInv
<1>16. ASSUME NEW q \in Objects PROVE Linked(q)' <=> Linked(q)
  <2>1. \A i \in DOMAIN fr : fr[i] # F("destroy", q)
    BY <1>8, <1>9 DEF F
  <2>2. stack[u][1] # F("destroy", q) /\ stack[u][1].pc # "down" /\ memory'[q] = memory[q]
    BY <1>2, <1>5 DEF F
  <2>3. fr[Len(fr)].pc # "down"
    BY <1>8, <1>9
  <2> QED
    BY <1>2, <1>9, <1>10, <2>1, <2>2, <2>3, LinkedAfter DEF IInv
<1>17. Books'
  <2>1. \A t \in Threads : owns'[t][o] = 0
    BY <1>3, <1>5 DEF IInv, Books, ClosedIsUnused
  <2>2. /\ UNCHANGED <<memory, refs>> /\ owns' = owns
        /\ \A q \in Pools : pools[q] = "open" => pools'[q] = "open"
    BY <1>5
  <2> QED
    BY <1>3, <1>5, <1>16, <2>1, <2>2, RetiredBooks
<1> QED
  BY <1>12, <1>13, <1>14, <1>15, <1>17 DEF IInv

LEMMA PoolFreedStep ==
  ASSUME IInv, NEW u \in Threads, DestroyZombie(u),
         pools' = [pools EXCEPT ![Obj(u)] = "freed"],
         pool_lock' = [pool_lock EXCEPT ![Obj(u)] = NoThread],
         Return(u), UNCHANGED <<state, objects>>
  PROVE  IInv'
<1> DEFINE fr == << >>
<1>1. PICK p : p = Obj(u)
  OBVIOUS
<1>2. /\ stack[u] # << >> /\ stack[u][1].pc = "zombies" /\ stack[u][1].obj = p
      /\ Fits(u, stack[u][1]) /\ Nests(u, stack[u]) /\ 1 \in DOMAIN stack[u]
      /\ stack \in [Threads -> Seq(Frame)]
  BY <1>1, FirstFrame DEF DestroyZombie, At
<1>3. p \in Pools /\ u \in Users /\ u # Dispatcher /\ pool_lock[p] = u /\ pools[p] = "closing"
  BY <1>2, ThreadAssumption DEF Fits
<1>4. DOMAIN stack[u] = {1}
  <2>1. Len(stack[u]) = 1 /\ stack[u] \in Seq(Frame)
    BY <1>2 DEF Nests
  <2>2. DOMAIN stack[u] = 1..1
    BY <2>1
  <2> QED
    BY <2>2
<1>5. /\ UNCHANGED <<memory, state, refs, locked, ref_lock, objects, calls, owns>>
      /\ pools' = [pools EXCEPT ![p] = "freed"]
      /\ pool_lock' = [pool_lock EXCEPT ![p] = NoThread]
  BY <1>1 DEF DestroyZombie
<1>6. fr \in Seq(Frame) /\ Len(fr) = 0 /\ DOMAIN fr = {} /\ fr = << >>
  OBVIOUS
<1>7. Renewed(u, fr)
  BY <1>2, <1>6, ReplaceRenews DEF Return
<1> HIDE DEF fr
<1>8. /\ pools' \in [Pools -> {"open", "closing", "freed"}]
      /\ pool_lock' \in [Pools -> Threads \cup {NoThread}]
      /\ \A q \in Pools : q # p => pool_lock'[q] = pool_lock[q] /\ pools'[q] = pools[q]
      /\ pools'[p] = "freed"
  BY <1>3, <1>5 DEF IInv, TypeOK
<1>9. TypeOK'
  BY <1>5, <1>7, <1>8 DEF IInv, TypeOK, Renewed
<1>10. FramesFit'
  <2>1. ASSUME NEW v \in Threads, NEW f \in Frame, Fits(v, f), Below(u, v, f)
        PROVE  Fits(v, f)'
    <3>1. v # u
      BY <1>4, <2>1 DEF Below
    <3>2. f.pc = "zombies" => f.obj \in Pools /\ f.obj # p
      BY <1>3, <2>1, <3>1 DEF Fits
    <3>3. f.pc \in Gets \cup {"watch_locked"} => PoolOf[f.obj] \in Pools /\ PoolOf[f.obj] # p
      BY <1>3, <2>1, <3>1, PoolAssumption DEF Fits, Gets
    <3> QED
      BY <1>5, <1>8, <2>1, <3>2, <3>3 DEF Fits
  <2> QED
    BY <1>2, <1>6, <1>7, <2>1, FitAfter DEF IInv
<1>11. StacksNest'
  <2>1. \A v \in Threads \ {u}, f \in Frame :
           stack[v] # << >> /\ f.pc = "down" => owns'[v][f.obj] = owns[v][f.obj]
    BY <1>5
  <2> QED
    BY <1>2, <1>6, <1>7, <2>1, NestAfter DEF IInv
<1>12. EndedOnce'
  BY <1>2, <1>6, <1>7, EndedOnceAfter DEF IInv
<1>13. ASSUME NEW q \in Objects PROVE Linked(q)' <=> Linked(q)
  <2>1. stack[u][1] # F("destroy", q) /\ stack[u][1].pc # "down" /\ memory'[q] = memory[q]
    BY <1>2, <1>5 DEF F
  <2> QED
    BY <1>2, <1>6, <1>7, <2>1, LinkedAfter DEF IInv
<1>14. Books'
  <2>1. PooledIsWhole' /\ UnbornIsUnknown' /\ ChildIsOlder' /\ DispatcherHasNone'
        /\ HeldIsWhole'
    BY <1>5 DEF IInv, Books, PooledIsWhole, UnbornIsUnknown, ChildIsOlder,
                DispatcherHasNone, HeldIsWhole
  <2>2. ClosedIsUnused'
    BY <1>3, <1>5, <1>8, PoolAssumption DEF IInv, Books, ClosedIsUnused
  <2>3. CountsReferences'
    <3>1. ASSUME NEW o \in Objects PROVE Held(o)' = Held(o) /\ Links(o)' = Links(o)
      BY <1>5, <1>13, SameCounts
    <3> QED
      BY <1>5, <3>1 DEF IInv, Books, CountsReferences, Links
  <2> QED
    BY <2>1, <2>2, <2>3 DEF Books
<1> QED
  BY <1>9, <1>10, <1>11, <1>12, <1>14 DEF IInv

LEMMA DestroyZombieStep ==
  ASSUME IInv, NEW u \in Threads, DestroyZombie(u)
  PROVE  IInv'
<1>1. CASE \E o \in {x \in objects : PoolOf[x] = Obj(u)} :
             /\ state' = [state EXCEPT ![o] = "DEINIT"]
             /\ Unpool(o)
             /\ Replace(u, <<F("destructor", o), F("zombies", Obj(u))>>)
             /\ UNCHANGED <<pool_lock, pools>>
  BY <1>1, ZombieStep
<1>2. CASE /\ pools' = [pools EXCEPT ![Obj(u)] = "freed"]
           /\ pool_lock' = [pool_lock EXCEPT ![Obj(u)] = NoThread]
           /\ Return(u)
           /\ UNCHANGED <<state, objects>>
  BY <1>2, PoolFreedStep
<1> QED
  BY <1>1, <1>2 DEF DestroyZombie

-----------------------------------------------------------------------------
(* Steps of idle threads *)

LEMMA HandOverStep ==
  ASSUME IInv, NEW u \in Users, NEW v \in Users, NEW o \in Objects, HandOver(u, v, o)
  PROVE  IInv'
<1>1. /\ u \in Threads /\ v \in Threads /\ u # v /\ u # Dispatcher /\ v # Dispatcher
      /\ stack[u] = << >> /\ stack[v] = << >>
      /\ owns \in [Threads -> [Objects -> 0..MaxRefs]] /\ MaxRefs \in Nat
      /\ state[o] = "ACTIVE" /\ owns[u][o] > 0 /\ owns[v][o] < MaxRefs
  BY BoundAssumption, ThreadAssumption DEF HandOver, Idle, IInv, TypeOK, Threads
<1>2. /\ owns' = [owns EXCEPT ![u][o] = @ - 1, ![v][o] = @ + 1]
      /\ UNCHANGED <<memory, state, refs, locked, ref_lock, objects, pool_lock, pools, calls, stack>>
  BY DEF HandOver
<1>3. owns[u][o] - 1 \in 0..MaxRefs /\ owns[v][o] + 1 \in 0..MaxRefs
      /\ (owns[u][o] - 1) + 1 = owns[u][o]
  BY <1>1
<1>4. /\ owns' \in [Threads -> [Objects -> 0..MaxRefs]]
      /\ owns'[u][o] = owns[u][o] - 1 /\ owns'[v][o] = owns[v][o] + 1
      /\ \A t \in Threads \ {u, v} : owns'[t] = owns[t]
      /\ \A t \in Threads, x \in Objects \ {o} : owns'[t][x] = owns[t][x]
  BY <1>1, <1>2, <1>3
<1>5. TypeOK'
  BY <1>2, <1>4 DEF IInv, TypeOK
<1>6. FramesFit'
  <2> SUFFICES ASSUME NEW t \in Threads, NEW i \in DOMAIN stack[t]
               PROVE  Fits(t, stack[t][i])'
    BY <1>2 DEF FramesFit
  <2>1. t # u /\ t # v
    BY <1>1
  <2>2. owns'[t] = owns[t] /\ Fits(t, stack[t][i])
    BY <1>4, <2>1 DEF IInv, FramesFit
  <2> QED
    BY <1>2, <2>2 DEF Fits, Gets
<1>7. StacksNest'
  <2> SUFFICES ASSUME NEW t \in Threads PROVE Nests(t, stack[t])'
    BY DEF StacksNest
  <2>1. Nests(t, stack[t]) /\ (stack[t] # << >> => owns'[t] = owns[t])
    BY <1>1, <1>4 DEF IInv, StacksNest
  <2> QED
    BY <1>2, <2>1 DEF Nests
<1>8. EndedOnce'
  BY <1>2 DEF IInv, EndedOnce, Ends
<1>9. memory[o] = "live" /\ pools[PoolOf[o]] = "open"
  <2>1. owns[u][o] # 0
    BY <1>3, <1>1
  <2> QED
    BY <1>1, <2>1 DEF IInv, Books, HeldIsWhole, ClosedIsUnused
<1>10. Books'
  <2>1. PooledIsWhole' /\ ChildIsOlder'
    BY <1>2 DEF IInv, Books, PooledIsWhole, ChildIsOlder
  <2>2. UnbornIsUnknown' /\ ClosedIsUnused'
    BY <1>2, <1>4, <1>9 DEF IInv, Books, UnbornIsUnknown, ClosedIsUnused
  <2>3. DispatcherHasNone'
    BY <1>1, <1>4 DEF IInv, Books, DispatcherHasNone, Threads
  <2>4. HeldIsWhole'
    <3> SUFFICES ASSUME NEW t \in Threads, NEW x \in Objects, owns'[t][x] > 0
                 PROVE  memory[x] = "live" /\ state[x] # "DEINIT"
      BY <1>2 DEF HeldIsWhole
    <3>1. CASE x = o
      BY <1>1, <1>9, <3>1
    <3>2. CASE x # o
      BY <1>4, <3>2 DEF IInv, Books, HeldIsWhole
    <3> QED
      BY <3>1, <3>2
  <2>5. ASSUME NEW x \in Objects
        PROVE  Cardinality(Held(x)') = Cardinality(Held(x)) /\ Links(x)' = Links(x)
    <3>1. \A p \in Objects : Linked(p)' <=> Linked(p)
      BY <1>2 DEF Linked
    <3>2. CASE x # o
      BY <1>4, <3>1, <3>2, SameCounts
    <3>3. CASE x = o
      <4>1. PICK w : w = [t \in Threads |-> owns[t][o]]
        OBVIOUS
      <4>2. PICK w2 : w2 = [t \in Threads |-> owns'[t][o]]
        OBVIOUS
      <4>3. PICK w0 : w0 = [w EXCEPT ![u] = owns[u][o] - 1]
        OBVIOUS
      <4>4. /\ w \in [Threads -> 0..MaxRefs] /\ w2 \in [Threads -> 0..MaxRefs]
            /\ w0 \in [Threads -> 0..MaxRefs]
        BY <1>1, <1>3, <1>4, <4>1, <4>2, <4>3
      <4>5. /\ w[u] = w0[u] + 1 /\ \A t \in Threads \ {u} : w[t] = w0[t]
            /\ w2[v] = w0[v] + 1 /\ \A t \in Threads \ {v} : w2[t] = w0[t]
        BY <1>1, <1>3, <1>4, <4>1, <4>2, <4>3
      <4>6. Cardinality(Tokens(w)) = Cardinality(Tokens(w0)) + 1
        BY <1>1, <4>4, <4>5, TokensAdd
      <4>7. Cardinality(Tokens(w2)) = Cardinality(Tokens(w0)) + 1
        BY <1>1, <4>4, <4>5, TokensAdd
      <4>8. Held(o) = Tokens(w) /\ Held(o)' = Tokens(w2)
        BY <4>1, <4>2, HeldTokens
      <4>9. Links(o)' = Links(o)
        BY <3>1 DEF Links
      <4> QED
        BY <3>3, <4>6, <4>7, <4>8, <4>9
    <3> QED
      BY <3>2, <3>3
  <2>6. CountsReferences'
    BY <1>2, <2>5 DEF IInv, Books, CountsReferences, Links
  <2> QED
    BY <2>1, <2>2, <2>3, <2>4, <2>6 DEF Books
<1> QED
  BY <1>5, <1>6, <1>7, <1>8, <1>10 DEF IInv

LEMMA ActivateStep ==
  ASSUME IInv, NEW u \in Users, NEW o \in Objects, Activate(u, o)
  PROVE  IInv'
<1>1. /\ u \in Threads /\ owns[u][o] > 0 /\ state[o] = "INIT"
      /\ state' = [state EXCEPT ![o] = "ACTIVE"]
      /\ state \in [Objects -> {"INIT", "ACTIVE", "DEINIT"}]
      /\ owns \in [Threads -> [Objects -> 0..MaxRefs]] /\ MaxRefs \in Nat
      /\ UNCHANGED <<memory, refs, locked, ref_lock, objects, pool_lock, pools, calls, stack, owns>>
  BY BoundAssumption DEF Activate, IInv, TypeOK, Threads
<1>2. /\ state' \in [Objects -> {"INIT", "ACTIVE", "DEINIT"}]
      /\ \A x \in Objects : state[x] = "DEINIT" <=> state'[x] = "DEINIT"
      /\ \A x \in Objects \ {o} : state'[x] = state[x]
  BY <1>1
<1>3. TypeOK'
  BY <1>1, <1>2 DEF IInv, TypeOK
<1>4. FramesFit'
  <2> SUFFICES ASSUME NEW t \in Threads, NEW i \in DOMAIN stack[t]
               PROVE  Fits(t, stack[t][i])'
    BY <1>1 DEF FramesFit
  <2>1. Fits(t, stack[t][i])
    BY DEF IInv, FramesFit
  <2> QED
    BY <1>1, <1>2, <2>1 DEF Fits
<1>5. StacksNest' /\ EndedOnce'
  BY <1>1 DEF IInv, StacksNest, Nests, EndedOnce, Ends
<1>6. Books'
  <2>1. memory[o] # "none"
    BY <1>1 DEF IInv, Books, HeldIsWhole
  <2>2. UnbornIsUnknown'
    BY <1>1, <1>2, <2>1 DEF IInv, Books, UnbornIsUnknown
  <2>3. PooledIsWhole' /\ ChildIsOlder' /\ DispatcherHasNone' /\ ClosedIsUnused'
        /\ HeldIsWhole'
    BY <1>1, <1>2 DEF IInv, TypeOK, Books, PooledIsWhole, ChildIsOlder, DispatcherHasNone,
                      ClosedIsUnused, HeldIsWhole
  <2>4. CountsReferences'
    <3>1. ASSUME NEW x \in Objects PROVE Held(x)' = Held(x) /\ Links(x)' = Links(x)
      BY <1>1 DEF Held, Links, Linked
    <3> QED
      BY <1>1, <1>2, <3>1 DEF IInv, Books, CountsReferences, Links
  <2> QED
    BY <2>2, <2>3, <2>4 DEF Books
<1> QED
  BY <1>3, <1>4, <1>5, <1>6 DEF IInv

LEMMA CreateStep ==
  ASSUME IInv, NEW u \in Users, NEW o \in Objects, Create(u, o)
  PROVE  IInv'
<1>1. PICK c \in Objects \cup {NoObject} : c = Child[o]
  BY ChildAssumption
<1>2. /\ u \in Threads /\ u # Dispatcher /\ stack[u] = << >> /\ memory[o] = "none"
      /\ pools[PoolOf[o]] = "open"
      /\ c # NoObject => owns[u][c] > 0
      /\ memory' = [memory EXCEPT ![o] = "live"]
      /\ objects' = objects \cup {o}
      /\ refs' = [p \in Objects |-> IF p = o THEN 1 ELSE IF p = c THEN refs[p] + 1 ELSE refs[p]]
      /\ owns' = [owns EXCEPT ![u][o] = 1]
      /\ UNCHANGED <<state, locked, ref_lock, pool_lock, pools, calls, stack>>
  BY <1>1, ThreadAssumption DEF Create, Idle, Threads
<1>3. /\ owns \in [Threads -> [Objects -> 0..MaxRefs]] /\ MaxRefs \in Nat \ {0}
      /\ refs \in [Objects -> Nat] /\ memory \in [Objects -> {"none", "live", "freed"}]
      /\ stack \in [Threads -> Seq(Frame)]
  BY BoundAssumption DEF IInv, TypeOK
<1>4. state[o] = "INIT" /\ \A t \in Threads : owns[t][o] = 0
  BY <1>2 DEF IInv, Books, UnbornIsUnknown
<1>5. c # NoObject => c \in Objects /\ c # o /\ memory[c] = "live"
  <2> SUFFICES ASSUME c # NoObject PROVE c \in Objects /\ c # o /\ memory[c] = "live"
    OBVIOUS
  <2>1. owns[u][c] > 0 /\ c \in Objects
    BY <1>2
  <2>2. memory[c] = "live"
    BY <1>2, <2>1 DEF IInv, Books, HeldIsWhole
  <2> QED
    BY <1>2, <2>1, <2>2
<1>6. /\ owns' \in [Threads -> [Objects -> 0..MaxRefs]] /\ owns'[u][o] = 1
      /\ \A t \in Threads, x \in Objects : t # u \/ x # o => owns'[t][x] = owns[t][x]
      /\ \A t \in Threads \ {u} : owns'[t] = owns[t]
  <2>1. 1 \in 0..MaxRefs
    BY <1>3
  <2> QED
    BY <1>2, <1>3, <2>1
<1>7. /\ memory' \in [Objects -> {"none", "live", "freed"}] /\ memory'[o] = "live"
      /\ \A x \in Objects \ {o} : memory'[x] = memory[x]
  BY <1>2, <1>3
<1>8. /\ refs' \in [Objects -> Nat] /\ refs'[o] = 1
      /\ \A x \in Objects \ {o} : refs'[x] = IF x = c THEN refs[x] + 1 ELSE refs[x]
  BY <1>2, <1>3
<1>9. TypeOK'
  BY <1>2, <1>6, <1>7, <1>8 DEF IInv, TypeOK
<1>10. FramesFit'
  <2> SUFFICES ASSUME NEW t \in Threads, NEW i \in DOMAIN stack[t]
               PROVE  Fits(t, stack[t][i])'
    BY <1>2 DEF FramesFit
  <2>1. t # u
    BY <1>2
  <2>2. owns'[t] = owns[t] /\ Fits(t, stack[t][i])
    BY <1>6, <2>1 DEF IInv, FramesFit
  <2>3. stack[t][i].pc \in {"destructor", "destroy"} => memory'[stack[t][i].obj] = "live"
    BY <1>7, <2>2 DEF Fits
  <2> QED
    BY <1>2, <2>2, <2>3 DEF Fits, Gets
<1>11. StacksNest'
  <2> SUFFICES ASSUME NEW t \in Threads PROVE Nests(t, stack[t])'
    BY DEF StacksNest
  <2>1. Nests(t, stack[t]) /\ (stack[t] # << >> => owns'[t] = owns[t])
    BY <1>2, <1>6 DEF IInv, StacksNest
  <2> QED
    BY <1>2, <2>1 DEF Nests
<1>12. EndedOnce'
  BY <1>2 DEF IInv, EndedOnce, Ends
<1>13. /\ Linked(o)'
       /\ \A p \in Objects \ {o} : Linked(p)' <=> Linked(p)
  <2>1. \A t \in Threads : \A i \in DOMAIN stack[t] : ~Ends(stack[t][i], o)
    BY <1>4, NobodyEnds
  <2>2. \A t \in Threads : \A i \in DOMAIN stack[t] : stack[t][i] # F("destroy", o)
    BY <2>1 DEF Ends, F
  <2>3. Linked(o)'
    BY <1>2, <1>7, <2>2 DEF Linked, F
  <2>4. \A p \in Objects \ {o} : Linked(p)' <=> Linked(p)
    BY <1>2, <1>7 DEF Linked, F
  <2> QED
    BY <2>3, <2>4
<1>14. Books'
  <2>1. PooledIsWhole'
    BY <1>2, <1>4, <1>7 DEF IInv, TypeOK, Books, PooledIsWhole
  <2>2. UnbornIsUnknown'
    <3> SUFFICES ASSUME NEW x \in Objects, memory'[x] = "none"
                 PROVE  state[x] = "INIT" /\ \A t \in Threads : owns'[t][x] = 0
      BY <1>2 DEF UnbornIsUnknown
    <3>1. x # o /\ memory[x] = "none"
      BY <1>7
    <3> QED
      BY <1>6, <3>1 DEF IInv, Books, UnbornIsUnknown
  <2>3. ChildIsOlder'
    <3> SUFFICES ASSUME NEW p \in Objects, memory'[p] # "none", Child[p] # NoObject
                 PROVE  memory'[Child[p]] # "none"
      BY DEF ChildIsOlder
    <3>1. Child[p] \in Objects
      BY ChildAssumption
    <3>2. CASE p = o
      BY <1>1, <1>5, <1>7, <3>2
    <3>3. CASE p # o
      <4>1. memory[Child[p]] # "none"
        BY <1>7, <3>3 DEF IInv, Books, ChildIsOlder
      <4> QED
        BY <1>7, <3>1, <4>1
    <3> QED
      BY <3>2, <3>3
  <2>4. DispatcherHasNone'
    BY <1>2, <1>6 DEF IInv, Books, DispatcherHasNone, Threads
  <2>5. ClosedIsUnused'
    <3> SUFFICES ASSUME NEW x \in Objects, NEW t \in Threads, pools[PoolOf[x]] # "open"
                 PROVE  owns'[t][x] = 0
      BY <1>2 DEF ClosedIsUnused
    <3>1. x # o
      BY <1>2
    <3> QED
      BY <1>6, <3>1 DEF IInv, Books, ClosedIsUnused
  <2>6. HeldIsWhole'
    <3> SUFFICES ASSUME NEW t \in Threads, NEW x \in Objects, owns'[t][x] > 0
                 PROVE  memory'[x] = "live" /\ state[x] # "DEINIT"
      BY <1>2 DEF HeldIsWhole
    <3>1. CASE x = o
      BY <1>4, <1>7, <3>1
    <3>2. CASE x # o
      BY <1>6, <1>7, <3>2 DEF IInv, Books, HeldIsWhole
    <3> QED
      BY <3>1, <3>2
  <2>7. CountsReferences'
    <3> SUFFICES ASSUME NEW x \in Objects, memory'[x] = "live", state[x] # "DEINIT"
                 PROVE  refs'[x] = Cardinality(Held(x)') + Cardinality(Links(x)')
      BY <1>2 DEF CountsReferences, Links
    <3>1. CASE x = o
      <4>1. Links(o)' = {}
        <5> SUFFICES ASSUME NEW p \in Objects, Child[p] = o, Linked(p)' PROVE FALSE
          BY DEF Links
        <5>1. p # o
          BY <1>1, <1>5, ObjectAssumption
        <5>2. memory[p] = "live"
          BY <1>13, <5>1 DEF Linked
        <5>3. memory[o] # "none"
          BY <5>2, ObjectAssumption DEF IInv, Books, ChildIsOlder
        <5> QED
          BY <1>2, <5>3
      <4>2. PICK w : w = [t \in Threads |-> owns[t][o]]
        OBVIOUS
      <4>3. PICK w2 : w2 = [t \in Threads |-> owns'[t][o]]
        OBVIOUS
      <4>4. w \in [Threads -> 0..MaxRefs] /\ w2 \in [Threads -> 0..MaxRefs]
            /\ w2[u] = w[u] + 1 /\ \A t \in Threads \ {u} : w2[t] = w[t]
        BY <1>2, <1>3, <1>4, <1>6, <4>2, <4>3
      <4>5. Cardinality(Tokens(w)) = 0
        <5>1. \A t \in Threads : w[t] = 0
          BY <1>4, <4>2
        <5> QED
          BY <4>4, <5>1, TokensZero
      <4>6. Cardinality(Tokens(w2)) = Cardinality(Tokens(w)) + 1
        BY <1>2, <4>4, TokensAdd
      <4>7. Held(o)' = Tokens(w2)
        BY <4>3, HeldTokens
      <4> QED
        BY <1>8, <3>1, <4>1, <4>5, <4>6, <4>7, FS_EmptySet
    <3>2. CASE x # o
      <4>1. [t \in Threads |-> owns'[t][x]] = [t \in Threads |-> owns[t][x]]
        BY <1>6, <3>2
      <4>2. Held(x)' = Held(x)
        <5>1. /\ Held(x) = Tokens([t \in Threads |-> owns[t][x]])
              /\ Held(x)' = Tokens([t \in Threads |-> owns'[t][x]])
          BY HeldTokens
        <5> QED
          BY <4>1, <5>1
      <4>3. memory[x] = "live"
        BY <1>7, <3>2
      <4>4. refs[x] = Cardinality(Held(x)) + Cardinality(Links(x))
        BY <4>3 DEF IInv, Books, CountsReferences, Links
      <4>5. CASE x = c
        <5>1. Links(x)' = Links(x) \cup {o} /\ o \notin Links(x)
          BY <1>1, <1>2, <1>13, <4>5 DEF Links, Linked
        <5>2. PICK l \in Nat : l = Cardinality(Links(x))
          BY LinksFinite
        <5>3. PICK m \in Nat : m = Cardinality(Held(x))
          BY HeldTokens, TokensFinite
        <5>4. Cardinality(Links(x)') = l + 1
          BY <5>1, <5>2, LinksFinite, FS_AddElement
        <5>5. refs'[x] = (m + l) + 1
          BY <1>8, <3>2, <4>4, <4>5, <5>2, <5>3
        <5> QED
          BY <4>2, <5>3, <5>2, <5>4, <5>5
      <4>6. CASE x # c
        <5>1. Links(x)' = Links(x)
          BY <1>1, <1>13, <4>6 DEF Links
        <5> QED
          BY <1>8, <3>2, <4>2, <4>4, <4>6, <5>1
      <4> QED
        BY <4>5, <4>6
    <3> QED
      BY <3>1, <3>2
  <2> QED
    BY <2>1, <2>2, <2>3, <2>4, <2>5, <2>6, <2>7 DEF Books
<1> QED
  BY <1>9, <1>10, <1>11, <1>12, <1>14 DEF IInv

-----------------------------------------------------------------------------

LEMMA InitInv == Init => IInv
<1> SUFFICES ASSUME Init PROVE IInv
  OBVIOUS
<1>1. \A t \in Threads : stack[t] = << >> /\ DOMAIN stack[t] = {}
  BY DEF Init
<1>2. TypeOK
  BY BoundAssumption DEF Init, TypeOK
<1>3. FramesFit /\ EndedOnce
  BY <1>1 DEF FramesFit, EndedOnce
<1>4. StacksNest
  BY <1>1 DEF StacksNest, Nests
<1>5. \A o \in Objects, t \in Threads : ~(owns[t][o] > 0)
  BY DEF Init
<1>6. Books
  <2>1. PooledIsWhole /\ UnbornIsUnknown /\ ChildIsOlder
    BY DEF Init, PooledIsWhole, UnbornIsUnknown, ChildIsOlder
  <2>2. DispatcherHasNone /\ ClosedIsUnused
    BY DEF Init, DispatcherHasNone, ClosedIsUnused, Threads
  <2>3. HeldIsWhole
    BY <1>5 DEF HeldIsWhole
  <2>4. CountsReferences
    BY DEF Init, CountsReferences
  <2> QED
    BY <2>1, <2>2, <2>3, <2>4 DEF Books
<1> QED
  BY <1>2, <1>3, <1>4, <1>6 DEF IInv

LEMMA StutterStep ==
  ASSUME IInv, UNCHANGED vars
  PROVE  IInv'
<1>1. TypeOK'
  BY DEF vars, IInv, TypeOK
<1>2. FramesFit' /\ StacksNest' /\ EndedOnce'
  BY DEF vars, IInv, FramesFit, Fits, StacksNest, Nests, EndedOnce, Ends
<1>3. Books'
  <2>1. \A p \in Objects : Linked(p)' <=> Linked(p)
    BY DEF vars, Linked
  <2> QED
    BY <2>1, QuietBooks DEF vars
<1> QED
  BY <1>1, <1>2, <1>3 DEF IInv

LEMMA NextKeepsInv ==
  ASSUME IInv, Next
  PROVE  IInv'
<1>1. ASSUME NEW t \in Threads, Step(t) PROVE IInv'
  BY <1>1, RefDownStep, RefDownUnlockStep, WatchStep, WatchLockedStep, DestructorStep,
     DestroyStep, GetStatStep, GetUpStep, GetNothingStep, DestroyZombieStep DEF Step
<1>2. ASSUME Dispatch \/ UseFreedPool PROVE IInv'
  BY <1>2, DispatchStep, UseFreedPoolStep
<1>3. ASSUME NEW u \in Users, NEW o \in Objects,
             \/ Create(u, o) \/ Activate(u, o) \/ DestroyIncomplete(u, o)
             \/ RefUp(u, o) \/ Unref(u, o) \/ Get(u, o)
             \/ \E v \in Users : HandOver(u, v, o)
      PROVE  IInv'
  BY <1>3, CreateStep, ActivateStep, DestroyIncompleteStep, RefUpStep, UnrefStep, GetStep,
     HandOverStep
<1>4. ASSUME NEW u \in Users, NEW p \in Pools, DestroyPool(u, p) PROVE IInv'
  BY <1>4, DestroyPoolStep
<1> QED
  BY <1>1, <1>2, <1>3, <1>4 DEF Next

(* The inductive invariant: the shape of the stacks, what the frames rely  *)
(* on and the count of every object.                                       *)
THEOREM AlwaysInv == Spec => []IInv
<1>1. Init => IInv
  BY InitInv
<1>2. IInv /\ [Next]_vars => IInv'
  BY NextKeepsInv, StutterStep
<1> QED
  BY <1>1, <1>2, PTL DEF Spec

(* As long as no watcher call has used a freed pool (UseFreedPool): the    *)
(* counter of a live object is the number of references that threads and   *)
(* other objects have to drop, and what the hash of a pool contains has    *)
(* not been freed (fusion_ref_up(), fusion_ref_down(),                     *)
(* fusion_object_create(), the watcher and the destructors).               *)
THEOREM ObjectsAreConsistent == Spec => []Consistent
<1>1. IInv => Consistent
  BY DEF IInv, Books, PooledIsWhole, Consistent, PooledIsAllocated
<1> QED
  BY <1>1, AlwaysInv, PTL

(* Under the same condition an object that a thread holds a reference on   *)
(* is neither freed nor being destroyed, however fusion_object_get(), the  *)
(* watcher, the last unref and the destruction of a pool interleave.       *)
THEOREM HeldIsNeverDestroyed == Spec => []NeverDestroyedWhileHeld
<1>1. IInv => NeverDestroyedWhileHeld
  BY DEF IInv, Books, HeldIsWhole, NeverDestroyedWhileHeld
<1> QED
  BY <1>1, AlwaysInv, PTL
=============================================================================
