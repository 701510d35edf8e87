----------------------- MODULE FusionDispatcherProofs -----------------------
(***************************************************************************)
(* Proofs about the event dispatcher for any number of callers and calls,  *)
(* any lengths of data and any size of the buffers: a buffer is not freed  *)
(* before a caller that waits for an answer in it has signed off or while  *)
(* the dispatcher works on a call of it, what is written to a buffer fits  *)
(* unless it is one call that is longer than a buffer, and the dispatcher  *)
(* never processes a call that is not there.                               *)
(*                                                                         *)
(* The argument: sync_calls counts the callers between posting and leaving *)
(* the buffer, pending the calls not read and the one that is processed;   *)
(* only the last buffer of the list can be written to; the dispatcher      *)
(* waits only for a list of one buffer that it has read to the end.        *)
(***************************************************************************)
EXTENDS FusionDispatcher, SequenceTheorems, FiniteSetTheorems, TLAPS

(* Callers between posting a call to buffer b and leaving it *)
Waiters(b) == {c \in Callers : pc[c] \in {"wait", "leave"} /\ msg[c][1] = b}

AtWork == dpc \in {"run", "answer", "after", "exit"}

(* The call of buffer b that is processed *)
Busy(b) == IF AtWork /\ dmsg[1] = b THEN 1 ELSE 0

Types ==
    /\ setup \in Setups
    /\ bufs \in Seq(Buffer) /\ buffers \in Seq(Nat) /\ remove \in Seq(Nat)
    /\ dispatch_stop \in BOOLEAN
    /\ pc \in [Callers -> {"idle", "retry", "throttled", "wait", "leave", "result"}]
    /\ call \in [Callers -> Calls \cup {<< >>}]
    /\ msg = [c \in Callers |-> msg[c]]
    /\ dpc \in {"loop", "wait_buffer", "woken_buffer", "wait", "woken", "locked",
                "run", "answer", "after", "exit"}
    /\ made \in [Callers -> 0..MaxCalls]
    /\ posts \in 0..MaxPosts

(* A call that can be posted *)
Postable(m) == m \in Calls /\ m.length \in Lengths \cup {0}

CallerState ==
    \A c \in Callers :
        /\ pc[c] \in {"wait", "leave", "result"} => msg[c][1] \in DOMAIN bufs
        /\ pc[c] \in {"throttled", "retry"} => Postable(call[c])

Counts ==
    \A b \in DOMAIN bufs :
        /\ IsFiniteSet(Waiters(b)) /\ bufs[b].sync_calls = Cardinality(Waiters(b))
        /\ bufs[b].read <= Len(bufs[b].calls)
        /\ bufs[b].pending + bufs[b].read = Len(bufs[b].calls) + Busy(b)
        /\ Within(bufs[b])
        /\ bufs[b].freed => bufs[b].sync_calls = 0 /\ bufs[b].pending = 0

(* Both lists hold buffers that are not freed, once; those of the first    *)
(* list but the last have been replaced.                                   *)
Lists ==
    /\ \A i \in DOMAIN buffers : buffers[i] \in DOMAIN bufs /\ ~bufs[buffers[i]].freed
    /\ \A i \in DOMAIN remove : remove[i] \in DOMAIN bufs /\ ~bufs[remove[i]].freed
    /\ \A i, j \in DOMAIN buffers : buffers[i] = buffers[j] => i = j
    /\ \A i, j \in DOMAIN remove : remove[i] = remove[j] => i = j
    /\ \A i \in DOMAIN buffers, j \in DOMAIN remove : buffers[i] # remove[j]
    /\ \A i \in DOMAIN buffers : bufs[buffers[i]].can_free <=> i # Len(buffers)

DispatcherState ==
    /\ AtWork => dmsg[1] \in DOMAIN bufs
    /\ dpc \in {"run", "answer", "after"} => dmsg[2] \in 1..Len(bufs[dmsg[1]].calls)
    /\ dpc = "wait_buffer" => buffers = << >>
    /\ dpc = "woken_buffer" => buffers # << >>
    /\ dpc = "wait" => buffers # << >> /\ Drained(buffers[1]) /\ ~bufs[buffers[1]].can_free
    /\ dpc = "woken" => buffers # << >> /\ (~Drained(buffers[1]) \/ bufs[buffers[1]].can_free)

IInv == Types /\ CallerState /\ Counts /\ Lists /\ DispatcherState

-----------------------------------------------------------------------------
(* Facts about the operators *)

LEMMA SizeFacts ==
    /\ Header \in Nat /\ Capacity \in Nat
    /\ \A l \in Lengths \cup {0} : l \in Nat
  BY SizeAssumption

LEMMA HeadIsFirst ==
    ASSUME NEW S, NEW s \in Seq(S), s # << >>
    PROVE  /\ Head(s) = s[1] /\ 1 \in DOMAIN s
           /\ Tail(s) \in Seq(S) /\ Len(Tail(s)) = Len(s) - 1 /\ Len(s) \in Nat /\ Len(s) # 0
           /\ \A i \in DOMAIN Tail(s) : i + 1 \in DOMAIN s /\ Tail(s)[i] = s[i + 1]
<1>1. /\ Len(s) \in Nat /\ Len(s) # 0 /\ Head(s) = s[1]
      /\ Tail(s) \in Seq(S) /\ Len(Tail(s)) = Len(s) - 1
      /\ \A i \in 1..Len(s) - 1 : Tail(s)[i] = s[i + 1]
  BY HeadTailProperties, EmptySeq
<1>2. DOMAIN s = 1..Len(s) /\ DOMAIN Tail(s) = 1..Len(s) - 1
  BY <1>1, LenProperties
<1> QED
  BY <1>1, <1>2

(* One buffer changes. *)
LEMMA Update ==
    ASSUME NEW s \in Seq(Buffer), NEW b \in DOMAIN s, NEW v \in Buffer
    PROVE  LET t == [s EXCEPT ![b] = v]
           IN  /\ t \in Seq(Buffer) /\ Len(t) = Len(s) /\ DOMAIN t = DOMAIN s
               /\ t[b] = v /\ \A x \in DOMAIN s : x # b => t[x] = s[x]
  BY ExceptSeq, LenProperties

LEMMA WriteFacts ==
    ASSUME NEW b \in Buffer, NEW m \in Calls
    PROVE  LET w == Write(b, m)
           IN  /\ w \in Buffer
               /\ w.calls = Append(b.calls, m) /\ Len(w.calls) = Len(b.calls) + 1
               /\ w.read = b.read /\ w.can_free = b.can_free /\ w.freed = b.freed
               /\ w.write_pos = b.write_pos + Size(m) /\ w.pending = b.pending + 1
               /\ w.sync_calls = IF m.kind = "sync" THEN b.sync_calls + 1 ELSE b.sync_calls
<1> DEFINE w == Write(b, m)
           cs == Append(b.calls, m)
           wp == b.write_pos + Size(m)
           pe == b.pending + 1
           sc == IF m.kind = "sync" THEN b.sync_calls + 1 ELSE b.sync_calls
<1>1. b.calls \in Seq(Calls) /\ cs \in Seq(Calls) /\ Len(cs) = Len(b.calls) + 1
  BY AppendProperties DEF Buffer
<1>2. wp \in Nat
  <2>1. m.length \in Nat /\ Header \in Nat
    <3>1. m.length \in Lengths \cup {0}
      BY DEF Calls
    <3> QED
      BY <3>1, SizeFacts
  <2>2. Size(m) \in Nat
    BY <2>1 DEF Size
  <2>3. b.write_pos \in Nat
    BY DEF Buffer
  <2> QED
    BY <2>2, <2>3
<1>3. pe \in Nat /\ sc \in Nat
  BY DEF Buffer
<1>4. w = [b EXCEPT !.calls = cs, !.write_pos = wp, !.pending = pe, !.sync_calls = sc]
  BY DEF Write
<1> HIDE DEF w, cs, wp, pe, sc
<1>5. /\ w \in Buffer /\ w.calls = cs /\ w.read = b.read /\ w.can_free = b.can_free
      /\ w.freed = b.freed /\ w.write_pos = wp /\ w.pending = pe /\ w.sync_calls = sc
  BY <1>1, <1>2, <1>3, <1>4 DEF Buffer
<1> QED
  BY <1>1, <1>5 DEF w, cs, wp, pe, sc

LEMMA NewBufferFacts ==
    /\ NewBuffer \in Buffer /\ Freed \in Buffer
    /\ Freed.sync_calls = 0 /\ Freed.pending = 0 /\ Freed.calls = << >>
    /\ Freed.read = 0 /\ Freed.write_pos = 0 /\ Freed.freed /\ ~Freed.can_free
<1>1. << >> \in Seq(Calls) /\ {} \in SUBSET Nat
  OBVIOUS
<1>2. NewBuffer \in Buffer
  BY <1>1 DEF NewBuffer, Buffer
<1> QED
  BY <1>1, <1>2 DEF NewBuffer, Freed, Buffer

(* The buffer a call is posted to *)
Target == buffers'[Len(buffers')]

(* What a buffer was before the step *)
Was(b) == IF b \in DOMAIN bufs THEN bufs[b] ELSE NewBuffer

(* Before Post() looks whether the call fits: the lists are in order. *)
LEMMA OpenedFacts ==
    ASSUME IInv
    PROVE  /\ Opened \in Seq(Buffer) /\ OpenedList \in Seq(Nat)
           /\ Len(Opened) \in Nat /\ Len(OpenedList) \in Nat \ {0}
           /\ DOMAIN bufs \subseteq 1..Len(Opened)
           /\ \A x \in 1..Len(Opened) : Opened[x] = Was(x)
           /\ \A i \in 1..Len(OpenedList) :
                 /\ OpenedList[i] \in 1..Len(Opened) /\ ~Opened[OpenedList[i]].freed
                 /\ Opened[OpenedList[i]].can_free <=> i # Len(OpenedList)
                 /\ \A j \in DOMAIN remove : OpenedList[i] # remove[j]
           /\ \A i, j \in 1..Len(OpenedList) : OpenedList[i] = OpenedList[j] => i = j
           /\ buffers # << >> => Opened = bufs /\ OpenedList = buffers
<1>1. /\ bufs \in Seq(Buffer) /\ Len(bufs) \in Nat /\ DOMAIN bufs = 1..Len(bufs)
      /\ buffers \in Seq(Nat) /\ Len(buffers) \in Nat /\ DOMAIN buffers = 1..Len(buffers)
  BY LenProperties DEF IInv, Types
<1>2. CASE buffers # << >>
  <2>1. Opened = bufs /\ OpenedList = buffers
    BY <1>2 DEF Opened, OpenedList
  <2>2. Len(buffers) # 0
    BY <1>1, <1>2, EmptySeq
  <2>3. \A x \in 1..Len(bufs) : bufs[x] = Was(x)
    BY <1>1 DEF Was
  <2> QED
    BY <1>1, <2>1, <2>2, <2>3 DEF IInv, Lists
<1>3. CASE buffers = << >>
  <2> DEFINE n == Len(bufs) + 1
  <2>1. Opened = Append(bufs, NewBuffer) /\ OpenedList = <<n>>
    BY <1>3 DEF Opened, OpenedList
  <2>2. /\ Opened \in Seq(Buffer) /\ Len(Opened) = n /\ Opened[n] = NewBuffer
        /\ \A x \in 1..Len(bufs) : Opened[x] = bufs[x]
    BY <1>1, <2>1, NewBufferFacts, AppendProperties
  <2>3. n \in Nat /\ n \in 1..n /\ 1..Len(bufs) \subseteq 1..n /\ n \notin 1..Len(bufs)
        /\ \A x \in 1..n : x \in 1..Len(bufs) \/ x = n
    BY <1>1
  <2> HIDE DEF n
  <2>4. /\ OpenedList \in Seq(Nat) /\ Len(OpenedList) = 1 /\ OpenedList[1] = n
        /\ \A i \in 1..1 : i = 1
    BY <2>1, <2>3
  <2>5. ~NewBuffer.freed /\ ~NewBuffer.can_free
    BY DEF NewBuffer
  <2>6. \A j \in DOMAIN remove : n # remove[j]
    BY <1>1, <2>3 DEF IInv, Lists
  <2>7. \A x \in 1..n : Opened[x] = Was(x)
    BY <1>1, <2>2, <2>3 DEF Was
  <2> QED
    BY <1>1, <1>3, <2>2, <2>3, <2>4, <2>5, <2>6, <2>7
<1> QED
  BY <1>2, <1>3

(* Post() appends the call to the last buffer of the list or to a new one. *)
LEMMA PostFacts ==
    ASSUME IInv, NEW m, Postable(m), Post(m)
    PROVE  /\ bufs' \in Seq(Buffer) /\ buffers' \in Seq(Nat) /\ buffers' # << >>
           /\ DOMAIN bufs \subseteq DOMAIN bufs'
           /\ Target \in DOMAIN bufs' /\ ~bufs'[Target].freed
           /\ Within(bufs'[Target])
           /\ \A b \in DOMAIN bufs' : b # Target =>
                 /\ bufs'[b].calls = Was(b).calls /\ bufs'[b].read = Was(b).read
                 /\ bufs'[b].pending = Was(b).pending /\ bufs'[b].freed = Was(b).freed
                 /\ bufs'[b].sync_calls = Was(b).sync_calls
                 /\ bufs'[b].write_pos = Was(b).write_pos
           /\ \A b \in DOMAIN bufs' : Was(b) \in Buffer
           /\ bufs'[Target].read = Was(Target).read
           /\ Len(bufs'[Target].calls) = Len(Was(Target).calls) + 1
           /\ bufs'[Target].pending = Was(Target).pending + 1
           /\ bufs'[Target].sync_calls = IF m.kind = "sync" THEN Was(Target).sync_calls + 1
                                         ELSE Was(Target).sync_calls
           /\ \A i \in DOMAIN buffers' :
                 /\ buffers'[i] \in DOMAIN bufs' /\ ~bufs'[buffers'[i]].freed
                 /\ bufs'[buffers'[i]].can_free <=> i # Len(buffers')
                 /\ \A j \in DOMAIN remove : buffers'[i] # remove[j]
           /\ \A i, j \in DOMAIN buffers' : buffers'[i] = buffers'[j] => i = j
           /\ buffers # << >> => /\ buffers'[1] = buffers[1]
                                 /\ \/ buffers'[1] = Target /\ Target \in DOMAIN bufs
                                    \/ bufs'[buffers'[1]].can_free
<1> DEFINE O == Opened
           L == OpenedList
           N == Len(O)
           K == Len(L)
           l == L[K]
<1>1. /\ O \in Seq(Buffer) /\ L \in Seq(Nat) /\ N \in Nat /\ K \in Nat \ {0}
      /\ DOMAIN bufs \subseteq 1..N
      /\ \A x \in 1..N : O[x] = Was(x)
      /\ \A i \in 1..K :
            /\ L[i] \in 1..N /\ ~O[L[i]].freed
            /\ O[L[i]].can_free <=> i # K
            /\ \A j \in DOMAIN remove : L[i] # remove[j]
      /\ \A i, j \in 1..K : L[i] = L[j] => i = j
      /\ buffers # << >> => O = bufs /\ L = buffers
  BY OpenedFacts
<1>2. /\ m \in Calls /\ Last(L) = l /\ DOMAIN O = 1..N /\ DOMAIN L = 1..K
  BY <1>1, LenProperties DEF Last, Postable
<1>3. IF Fits(O[l], m)
        THEN bufs' = [O EXCEPT ![l] = Write(@, m)] /\ buffers' = L
        ELSE /\ bufs' = Append([O EXCEPT ![l].can_free = TRUE], Write(NewBuffer, m))
             /\ buffers' = Append(L, N + 1)
  BY <1>2 DEF Post
<1> HIDE DEF O, L
<1>4. K \in 1..K /\ 1 \in 1..K
  BY <1>1
<1>5. \A x \in 1..N : O[x] \in Buffer /\ Was(x) \in Buffer
  <2> SUFFICES ASSUME NEW x \in 1..N PROVE O[x] \in Buffer
    BY <1>1
  <2>1. x \in DOMAIN O
    BY <1>2
  <2> QED
    BY <1>1, <2>1, ElementOfSeq
<1>6. l \in 1..N /\ O[l] \in Buffer /\ ~O[l].freed /\ ~O[l].can_free /\ O[l] = Was(l)
  BY <1>1, <1>4, <1>5
<1>7. /\ Size(m) \in Nat /\ Size(m) <= Header + m.length
      /\ m.length \in Nat /\ Header \in Nat /\ Capacity \in Nat
  <2>1. m.length \in Nat /\ Header \in Nat /\ Capacity \in Nat
    <3>1. m.length \in Lengths \cup {0}
      BY DEF Postable
    <3> QED
      BY <3>1, SizeFacts
  <2> QED
    BY <2>1 DEF Size
<1>8. buffers # << >> => 1..N = DOMAIN bufs
  BY <1>1, <1>2
<1>9. CASE Fits(O[l], m)
  <2> DEFINE w == Write(O[l], m)
  <2>1. bufs' = [O EXCEPT ![l] = w] /\ buffers' = L
    BY <1>3, <1>9
  <2>2. /\ w \in Buffer /\ Len(w.calls) = Len(O[l].calls) + 1
        /\ w.read = O[l].read /\ w.can_free = O[l].can_free /\ w.freed = O[l].freed
        /\ w.write_pos = O[l].write_pos + Size(m) /\ w.pending = O[l].pending + 1
        /\ w.sync_calls = IF m.kind = "sync" THEN O[l].sync_calls + 1
                          ELSE O[l].sync_calls
    BY <1>2, <1>6, WriteFacts
  <2> HIDE DEF w
  <2>3. /\ bufs' \in Seq(Buffer) /\ DOMAIN bufs' = 1..N
        /\ bufs'[l] = w /\ \A x \in 1..N : x # l => bufs'[x] = O[x]
    <3> HIDE DEF l, N
    <3>1. l \in DOMAIN O
      BY <1>2, <1>6
    <3>2. /\ [O EXCEPT ![l] = w] \in Seq(Buffer)
          /\ DOMAIN [O EXCEPT ![l] = w] = DOMAIN O
          /\ [O EXCEPT ![l] = w][l] = w
          /\ \A x \in DOMAIN O : x # l => [O EXCEPT ![l] = w][x] = O[x]
      BY <1>1, <2>2, <3>1, Update
    <3> QED
      BY <1>2, <2>1, <3>2
  <2>4. Target = l
    BY <2>1 DEF Target
  <2>5. Within(w)
    <3>1. O[l].write_pos \in Nat
      BY <1>6 DEF Buffer
    <3>2. O[l].write_pos + Header + m.length <= Capacity
      BY <1>9 DEF Fits
    <3>3. w.write_pos <= Capacity
      BY <1>7, <2>2, <3>1, <3>2
    <3> QED
      BY <3>3 DEF Within
  <2>6. \A x \in 1..N : bufs'[x].freed = O[x].freed /\ bufs'[x].can_free = O[x].can_free
    BY <2>2, <2>3
  <2>7. \A i \in 1..K :
           /\ L[i] \in 1..N /\ ~bufs'[L[i]].freed
           /\ bufs'[L[i]].can_free <=> i # K
           /\ \A j \in DOMAIN remove : L[i] # remove[j]
    BY <1>1, <2>6
  <2>8. L[1] = l \/ bufs'[L[1]].can_free
    BY <1>4, <2>7
  <2>9. \A b \in 1..N : b # l =>
                 /\ bufs'[b].calls = Was(b).calls /\ bufs'[b].read = Was(b).read
                 /\ bufs'[b].pending = Was(b).pending /\ bufs'[b].freed = Was(b).freed
                 /\ bufs'[b].sync_calls = Was(b).sync_calls
                 /\ bufs'[b].write_pos = Was(b).write_pos
    BY <1>1, <2>3
  <2>10. /\ w.read = Was(l).read /\ Len(w.calls) = Len(Was(l).calls) + 1
         /\ w.pending = Was(l).pending + 1 /\ ~w.freed
         /\ w.sync_calls = IF m.kind = "sync" THEN Was(l).sync_calls + 1
                           ELSE Was(l).sync_calls
    BY <1>6, <2>2
  <2>11. buffers' # << >>
    BY <1>1, <2>1, EmptySeq
  <2>12. buffers # << >> => L[1] = buffers[1] /\ l \in DOMAIN bufs
    BY <1>1, <1>6, <1>8
  <2>13. DOMAIN buffers' = 1..K /\ Len(buffers') = K /\ buffers' \in Seq(Nat)
    BY <1>1, <1>2, <2>1
  <2> HIDE DEF l, K, N
  <2> QED
    BY <1>1, <1>5, <1>6, <2>1, <2>3, <2>4, <2>5, <2>7, <2>8, <2>9, <2>10, <2>11, <2>12,
       <2>13
<1>10. CASE ~Fits(O[l], m)
  <2> DEFINE w == Write(NewBuffer, m)
             v == [O[l] EXCEPT !.can_free = TRUE]
             old == [O EXCEPT ![l] = v]
             n == N + 1
  <2>1. bufs' = Append(old, w) /\ buffers' = Append(L, n)
    BY <1>3, <1>10
  <2>2. /\ w \in Buffer /\ Len(w.calls) = 1 /\ w.calls[1] = m
        /\ w.read = 0 /\ ~w.can_free /\ ~w.freed
        /\ w.write_pos = Size(m) /\ w.pending = 1
        /\ w.sync_calls = IF m.kind = "sync" THEN 1 ELSE 0
    <3>1. /\ NewBuffer.calls = << >> /\ NewBuffer.read = 0 /\ ~NewBuffer.can_free
          /\ ~NewBuffer.freed /\ NewBuffer.write_pos = 0 /\ NewBuffer.pending = 0
          /\ NewBuffer.sync_calls = 0
      BY DEF NewBuffer
    <3>2. LET u == Write(NewBuffer, m)
          IN  /\ u \in Buffer
              /\ u.calls = Append(NewBuffer.calls, m)
              /\ Len(u.calls) = Len(NewBuffer.calls) + 1
              /\ u.read = NewBuffer.read /\ u.can_free = NewBuffer.can_free
              /\ u.freed = NewBuffer.freed
              /\ u.write_pos = NewBuffer.write_pos + Size(m)
              /\ u.pending = NewBuffer.pending + 1
              /\ u.sync_calls = IF m.kind = "sync" THEN NewBuffer.sync_calls + 1
                                ELSE NewBuffer.sync_calls
      BY <1>2, NewBufferFacts, WriteFacts
    <3>3. Len(<< >>) = 0 /\ Append(<< >>, m)[1] = m
      OBVIOUS
    <3> QED
      BY <1>7, <3>1, <3>2, <3>3
  <2> HIDE DEF w
  <2>3. /\ v \in Buffer /\ v.calls = O[l].calls /\ v.read = O[l].read
        /\ v.pending = O[l].pending /\ v.freed = O[l].freed
        /\ v.sync_calls = O[l].sync_calls /\ v.write_pos = O[l].write_pos
        /\ v.can_free
    BY <1>6 DEF Buffer
  <2> HIDE DEF v
  <2>4. /\ old \in Seq(Buffer) /\ Len(old) = N /\ old[l] = v
        /\ \A x \in 1..N : x # l => old[x] = O[x]
    <3> HIDE DEF l, N, old
    <3>1. l \in DOMAIN O
      BY <1>2, <1>6
    <3>2. /\ [O EXCEPT ![l] = v] \in Seq(Buffer)
          /\ Len([O EXCEPT ![l] = v]) = Len(O)
          /\ [O EXCEPT ![l] = v][l] = v
          /\ \A x \in DOMAIN O : x # l => [O EXCEPT ![l] = v][x] = O[x]
      BY <1>1, <2>3, <3>1, Update
    <3> QED
      BY <1>2, <3>2 DEF old, N
  <2> HIDE DEF old
  <2>5. /\ bufs' \in Seq(Buffer) /\ DOMAIN bufs' = 1..n /\ bufs'[n] = w
        /\ \A x \in 1..N : bufs'[x] = old[x]
    <3>1. /\ bufs' \in Seq(Buffer) /\ Len(bufs') = Len(old) + 1
          /\ \A i \in 1..Len(old) : bufs'[i] = old[i]
          /\ bufs'[Len(old) + 1] = w
      BY <2>1, <2>2, <2>4, AppendProperties
    <3> QED
      BY <2>4, <3>1, LenProperties
  <2>6. /\ buffers' \in Seq(Nat) /\ Len(buffers') = K + 1 /\ DOMAIN buffers' = 1..K + 1
        /\ buffers'[K + 1] = n /\ \A i \in 1..K : buffers'[i] = L[i]
    <3>1. n \in Nat
      BY <1>1
    <3> HIDE DEF n, K
    <3>2. /\ Append(L, n) \in Seq(Nat) /\ Len(Append(L, n)) = Len(L) + 1
          /\ \A i \in 1..Len(L) : Append(L, n)[i] = L[i]
          /\ Append(L, n)[Len(L) + 1] = n
      BY <1>1, <3>1, AppendProperties
    <3> QED
      BY <2>1, <3>2, LenProperties DEF K
  <2>7. Target = n
    BY <2>6 DEF Target
  <2>8. /\ 1..N \subseteq 1..n /\ n \in 1..n /\ n \notin 1..N
        /\ \A x \in 1..n : x # n => x \in 1..N
        /\ \A i \in 1..K + 1 : i \in 1..K \/ i = K + 1
        /\ \A i \in 1..K : i # K + 1
    BY <1>1
  <2>9. n \notin DOMAIN bufs /\ Was(n) = NewBuffer
    BY <1>1, <2>8 DEF Was
  <2>10. /\ Len(NewBuffer.calls) = 0 /\ NewBuffer.read = 0 /\ NewBuffer.pending = 0
         /\ NewBuffer.sync_calls = 0 /\ NewBuffer \in Buffer
    BY NewBufferFacts DEF NewBuffer
  <2>11. Within(w)
    BY <1>7, <2>2 DEF Within
  <2>12. \A i \in 1..K : bufs'[L[i]].can_free /\ ~bufs'[L[i]].freed
    <3> SUFFICES ASSUME NEW i \in 1..K
                 PROVE  bufs'[L[i]].can_free /\ ~bufs'[L[i]].freed
      OBVIOUS
    <3>1. L[i] \in 1..N /\ ~O[L[i]].freed /\ bufs'[L[i]] = old[L[i]]
      BY <1>1, <2>5
    <3>2. CASE L[i] = l
      BY <1>6, <2>3, <2>4, <3>1, <3>2
    <3>3. CASE L[i] # l
      <4>1. i # K
        BY <3>3
      <4> QED
        BY <1>1, <2>4, <3>1, <3>3, <4>1
    <3> QED
      BY <3>2, <3>3
  <2>13. \A b \in 1..N :
                 /\ bufs'[b].calls = Was(b).calls /\ bufs'[b].read = Was(b).read
                 /\ bufs'[b].pending = Was(b).pending /\ bufs'[b].freed = Was(b).freed
                 /\ bufs'[b].sync_calls = Was(b).sync_calls
                 /\ bufs'[b].write_pos = Was(b).write_pos
    <3> SUFFICES ASSUME NEW b \in 1..N
                 PROVE  /\ bufs'[b].calls = Was(b).calls /\ bufs'[b].read = Was(b).read
                        /\ bufs'[b].pending = Was(b).pending
                        /\ bufs'[b].freed = Was(b).freed
                        /\ bufs'[b].sync_calls = Was(b).sync_calls
                        /\ bufs'[b].write_pos = Was(b).write_pos
      OBVIOUS
    <3>1. O[b] = Was(b) /\ bufs'[b] = old[b]
      BY <1>1, <2>5
    <3>2. CASE b = l
      BY <2>3, <2>4, <3>1, <3>2
    <3>3. CASE b # l
      BY <2>4, <3>1, <3>3
    <3> QED
      BY <3>2, <3>3
  <2>14. \A i \in 1..K + 1 :
            /\ buffers'[i] \in 1..n /\ ~bufs'[buffers'[i]].freed
            /\ bufs'[buffers'[i]].can_free <=> i # K + 1
            /\ \A j \in DOMAIN remove : buffers'[i] # remove[j]
    <3> SUFFICES ASSUME NEW i \in 1..K + 1
                 PROVE  /\ buffers'[i] \in 1..n /\ ~bufs'[buffers'[i]].freed
                        /\ bufs'[buffers'[i]].can_free <=> i # K + 1
                        /\ \A j \in DOMAIN remove : buffers'[i] # remove[j]
      OBVIOUS
    <3>1. CASE i \in 1..K
      BY <1>1, <2>6, <2>8, <2>12, <3>1
    <3>2. CASE i = K + 1
      <4>1. \A j \in DOMAIN remove : n # remove[j]
        BY <2>9 DEF IInv, Lists
      <4>2. buffers'[i] = n
        BY <2>6, <3>2
      <4>3. ~bufs'[n].freed /\ ~bufs'[n].can_free
        BY <2>2, <2>5
      <4> HIDE DEF n
      <4> QED
        BY <2>8, <3>2, <4>1, <4>2, <4>3
    <3> QED
      BY <2>8, <3>1, <3>2
  <2>15. \A i, j \in 1..K + 1 : buffers'[i] = buffers'[j] => i = j
    <3>1. \A i \in 1..K : L[i] # n
      BY <1>1, <2>8
    <3> HIDE DEF n
    <3> QED
      BY <1>1, <2>6, <2>8, <3>1
  <2>16. buffers # << >> => buffers'[1] = buffers[1] /\ bufs'[buffers'[1]].can_free
    BY <1>1, <1>4, <2>6, <2>12
  <2>17. buffers' # << >>
    BY <1>1, <2>6, EmptySeq
  <2>18. \A b \in 1..n : Was(b) \in Buffer
    BY <1>5, <2>8, <2>9, <2>10
  <2>19. /\ w.read = Was(n).read /\ Len(w.calls) = Len(Was(n).calls) + 1
         /\ w.pending = Was(n).pending + 1
         /\ w.sync_calls = IF m.kind = "sync" THEN Was(n).sync_calls + 1
                           ELSE Was(n).sync_calls
    BY <2>2, <2>9, <2>10
  <2> HIDE DEF l, K, N, n
  <2>20. DOMAIN bufs \subseteq DOMAIN bufs'
    BY <1>1, <2>5, <2>8
  <2>21. \A b \in DOMAIN bufs' : b # Target =>
                 /\ bufs'[b].calls = Was(b).calls /\ bufs'[b].read = Was(b).read
                 /\ bufs'[b].pending = Was(b).pending /\ bufs'[b].freed = Was(b).freed
                 /\ bufs'[b].sync_calls = Was(b).sync_calls
                 /\ bufs'[b].write_pos = Was(b).write_pos
    BY <2>5, <2>7, <2>8, <2>13
  <2>22. /\ bufs'[Target].read = Was(Target).read
         /\ Len(bufs'[Target].calls) = Len(Was(Target).calls) + 1
         /\ bufs'[Target].pending = Was(Target).pending + 1
         /\ bufs'[Target].sync_calls = IF m.kind = "sync" THEN Was(Target).sync_calls + 1
                                       ELSE Was(Target).sync_calls
         /\ Target \in DOMAIN bufs' /\ ~bufs'[Target].freed /\ Within(bufs'[Target])
    BY <2>2, <2>5, <2>7, <2>8, <2>11, <2>19
  <2>23. /\ \A i \in DOMAIN buffers' :
               /\ buffers'[i] \in DOMAIN bufs' /\ ~bufs'[buffers'[i]].freed
               /\ bufs'[buffers'[i]].can_free <=> i # Len(buffers')
               /\ \A j \in DOMAIN remove : buffers'[i] # remove[j]
         /\ \A i, j \in DOMAIN buffers' : buffers'[i] = buffers'[j] => i = j
    BY <2>5, <2>6, <2>14, <2>15
  <2> QED
    BY <2>5, <2>6, <2>16, <2>17, <2>18, <2>20, <2>21, <2>22, <2>23
<1> QED
  BY <1>9, <1>10

-----------------------------------------------------------------------------
(* Parts of the steps *)

LEMMA InDomain ==
    ASSUME IInv, NEW b \in DOMAIN bufs
    PROVE  /\ bufs[b] \in Buffer /\ b \in Nat
           /\ bufs[b].calls \in Seq(Calls) /\ Len(bufs[b].calls) \in Nat
           /\ bufs[b].read \in Nat /\ bufs[b].pending \in Nat /\ bufs[b].sync_calls \in Nat
           /\ bufs[b].write_pos \in Nat /\ Busy(b) \in {0, 1}
<1>1. bufs[b] \in Buffer /\ b \in Nat
  BY ElementOfSeq, LenProperties DEF IInv, Types
<1> QED
  BY <1>1 DEF Buffer, Busy

(* Buffers and lists after Post(); c is the caller, if the call is answered *)
LEMMA PostCounts ==
    ASSUME IInv, NEW m, Postable(m), Post(m), NEW c \in Callers \cup {Nobody},
           UNCHANGED <<remove, dmsg>>, AtWork' <=> AtWork,
           \A b \in DOMAIN bufs' :
               /\ c \notin Waiters(b)
               /\ Waiters(b)' = IF m.kind = "sync" /\ b = Target
                                THEN Waiters(b) \cup {c} ELSE Waiters(b)
    PROVE  Counts' /\ Lists'
<1> DEFINE old == Was(Target)
<1>1. /\ bufs' \in Seq(Buffer) /\ buffers' \in Seq(Nat)
      /\ DOMAIN bufs \subseteq DOMAIN bufs'
      /\ Target \in DOMAIN bufs' /\ ~bufs'[Target].freed
      /\ Within(bufs'[Target])
      /\ \A b \in DOMAIN bufs' : b # Target =>
            /\ bufs'[b].calls = Was(b).calls /\ bufs'[b].read = Was(b).read
            /\ bufs'[b].pending = Was(b).pending /\ bufs'[b].freed = Was(b).freed
            /\ bufs'[b].sync_calls = Was(b).sync_calls
            /\ bufs'[b].write_pos = Was(b).write_pos
      /\ \A b \in DOMAIN bufs' : Was(b) \in Buffer
      /\ bufs'[Target].read = old.read
      /\ Len(bufs'[Target].calls) = Len(old.calls) + 1
      /\ bufs'[Target].pending = old.pending + 1
      /\ bufs'[Target].sync_calls = IF m.kind = "sync" THEN old.sync_calls + 1
                                    ELSE old.sync_calls
      /\ \A i \in DOMAIN buffers' :
            /\ buffers'[i] \in DOMAIN bufs' /\ ~bufs'[buffers'[i]].freed
            /\ bufs'[buffers'[i]].can_free <=> i # Len(buffers')
            /\ \A j \in DOMAIN remove : buffers'[i] # remove[j]
      /\ \A i, j \in DOMAIN buffers' : buffers'[i] = buffers'[j] => i = j
  BY PostFacts
<1>2. \A b \in DOMAIN bufs' : Busy(b)' = Busy(b)
  BY DEF Busy
<1>3. \A b \in DOMAIN bufs' :
         /\ IsFiniteSet(Waiters(b)) /\ Was(b).sync_calls = Cardinality(Waiters(b))
         /\ Was(b).read <= Len(Was(b).calls)
         /\ Was(b).pending + Was(b).read = Len(Was(b).calls) + Busy(b)
         /\ Within(Was(b))
         /\ Was(b).freed => Was(b).sync_calls = 0 /\ Was(b).pending = 0
  <2> SUFFICES ASSUME NEW b \in DOMAIN bufs'
               PROVE  /\ IsFiniteSet(Waiters(b)) /\ Was(b).sync_calls = Cardinality(Waiters(b))
                      /\ Was(b).read <= Len(Was(b).calls)
                      /\ Was(b).pending + Was(b).read = Len(Was(b).calls) + Busy(b)
                      /\ Within(Was(b))
                      /\ Was(b).freed => Was(b).sync_calls = 0 /\ Was(b).pending = 0
    OBVIOUS
  <2>1. CASE b \in DOMAIN bufs
    BY <2>1 DEF IInv, Counts, Was
  <2>2. CASE b \notin DOMAIN bufs
    <3>1. Waiters(b) = {}
      <4> SUFFICES ASSUME NEW x \in Waiters(b) PROVE FALSE
        OBVIOUS
      <4>1. x \in Callers /\ pc[x] \in {"wait", "leave", "result"} /\ msg[x][1] = b
        BY DEF Waiters
      <4>2. msg[x][1] \in DOMAIN bufs
        BY <4>1 DEF IInv, CallerState
      <4> QED
        BY <2>2, <4>1, <4>2
    <3>2. Busy(b) = 0
      BY <2>2 DEF IInv, DispatcherState, Busy
    <3>3. /\ Was(b).sync_calls = 0 /\ Was(b).read = 0 /\ Was(b).pending = 0
          /\ Len(Was(b).calls) = 0 /\ Was(b).write_pos = 0 /\ ~Was(b).freed
      BY <2>2 DEF NewBuffer, Was
    <3>4. Within(Was(b))
      BY <3>3, SizeFacts DEF Within
    <3> QED
      BY <3>1, <3>2, <3>3, <3>4, FS_EmptySet
  <2> QED
    BY <2>1, <2>2
<1>7. /\ IsFiniteSet(Waiters(Target)) /\ old.sync_calls = Cardinality(Waiters(Target))
      /\ old.read <= Len(old.calls)
      /\ old.pending + old.read = Len(old.calls) + Busy(Target)
      /\ old \in Buffer
  BY <1>1, <1>3
<1> HIDE DEF old
<1>4. /\ old.read \in Nat /\ old.pending \in Nat /\ Len(old.calls) \in Nat
      /\ old.sync_calls \in Nat /\ Busy(Target) \in {0, 1}
  <2>1. old \in Buffer
    BY <1>7
  <2>2. old.calls \in Seq(Calls) /\ old.read \in Nat /\ old.pending \in Nat
        /\ old.sync_calls \in Nat
    BY <2>1 DEF Buffer
  <2> QED
    BY <2>2 DEF Busy
<1>5. Counts'
  <2> SUFFICES ASSUME NEW b \in DOMAIN bufs'
               PROVE  /\ IsFiniteSet(Waiters(b)')
                      /\ bufs'[b].sync_calls = Cardinality(Waiters(b)')
                      /\ bufs'[b].read <= Len(bufs'[b].calls)
                      /\ bufs'[b].pending + bufs'[b].read = Len(bufs'[b].calls) + Busy(b)'
                      /\ Within(bufs'[b])
                      /\ bufs'[b].freed => bufs'[b].sync_calls = 0 /\ bufs'[b].pending = 0
    BY DEF Counts
  <2>1. CASE b # Target
    <3>1. Waiters(b)' = Waiters(b) /\ Busy(b)' = Busy(b)
      BY <1>2, <2>1
    <3>2. /\ bufs'[b].calls = Was(b).calls /\ bufs'[b].read = Was(b).read
          /\ bufs'[b].pending = Was(b).pending /\ bufs'[b].freed = Was(b).freed
          /\ bufs'[b].sync_calls = Was(b).sync_calls
          /\ bufs'[b].write_pos = Was(b).write_pos
      BY <1>1, <2>1
    <3>3. Within(bufs'[b])
      BY <1>3, <3>2 DEF Within
    <3> QED
      BY <1>3, <3>1, <3>2, <3>3
  <2>2. CASE b = Target
    <3>9. /\ bufs'[b].read <= Len(bufs'[b].calls)
          /\ bufs'[b].pending + bufs'[b].read = Len(bufs'[b].calls) + Busy(b)'
      <4>1. Busy(b)' = Busy(Target)
        BY <1>2, <2>2
      <4>2. /\ bufs'[b].read = old.read /\ Len(bufs'[b].calls) = Len(old.calls) + 1
            /\ bufs'[b].pending = old.pending + 1
        BY <1>1, <2>2 DEF old
      <4> QED
        BY <1>7, <1>4, <4>1, <4>2
    <3>10. Within(bufs'[b]) /\ ~bufs'[b].freed
      BY <1>1, <2>2
    <3>1. CASE m.kind = "sync"
      <4>1. Waiters(b)' = Waiters(b) \cup {c} /\ c \notin Waiters(b)
        BY <2>2, <3>1
      <4>2. IsFiniteSet(Waiters(b) \cup {c})
            /\ Cardinality(Waiters(b) \cup {c}) = Cardinality(Waiters(b)) + 1
        BY <1>7, <2>2, <4>1, FS_AddElement
      <4>3. bufs'[b].sync_calls = old.sync_calls + 1
        BY <1>1, <2>2, <3>1 DEF old
      <4> QED
        BY <1>7, <2>2, <3>9, <3>10, <4>1, <4>2, <4>3
    <3>2. CASE m.kind # "sync"
      <4>1. Waiters(b)' = Waiters(b)
        BY <2>2, <3>2
      <4>2. bufs'[b].sync_calls = old.sync_calls
        BY <1>1, <2>2, <3>2 DEF old
      <4> QED
        BY <1>7, <2>2, <3>9, <3>10, <4>1, <4>2
    <3> QED
      BY <3>1, <3>2
  <2> QED
    BY <2>1, <2>2
<1>6. Lists'
  <2>1. \A j \in DOMAIN remove : remove[j] \in DOMAIN bufs' /\ ~bufs'[remove[j]].freed
    <3> SUFFICES ASSUME NEW j \in DOMAIN remove
                 PROVE  remove[j] \in DOMAIN bufs' /\ ~bufs'[remove[j]].freed
      OBVIOUS
    <3>1. remove[j] \in DOMAIN bufs /\ ~Was(remove[j]).freed
      BY DEF IInv, Lists, Was
    <3> QED
      BY <1>1, <3>1
  <2> QED
    BY <1>1, <2>1 DEF IInv, Lists
<1> QED
  BY <1>5, <1>6

(* What the dispatcher knows survives Post(). *)
LEMMA PostDispatcher ==
    ASSUME IInv, NEW m, Postable(m), Post(m), UNCHANGED dmsg,
           dpc' = dpc \/ (dpc = "wait" /\ dpc' = "woken")
                      \/ (dpc = "wait_buffer" /\ dpc' = "woken_buffer"),
           dpc' \notin {"wait", "wait_buffer"}
    PROVE  DispatcherState'
<1>1. /\ buffers' # << >> /\ DOMAIN bufs \subseteq DOMAIN bufs'
      /\ Target \in DOMAIN bufs'
      /\ \A b \in DOMAIN bufs : b # Target => bufs'[b].calls = bufs[b].calls
      /\ Target \in DOMAIN bufs => /\ bufs'[Target].read = bufs[Target].read
                                   /\ Len(bufs'[Target].calls) = Len(bufs[Target].calls) + 1
      /\ buffers # << >> => /\ buffers'[1] = buffers[1]
                            /\ \/ buffers'[1] = Target /\ Target \in DOMAIN bufs
                               \/ bufs'[buffers'[1]].can_free
  <2>1. \A b \in DOMAIN bufs : Was(b) = bufs[b]
    BY DEF Was
  <2> QED
    BY <2>1, PostFacts
<1>2. AtWork' <=> AtWork
  BY DEF AtWork
<1>3. AtWork => dmsg[1] \in DOMAIN bufs'
  BY <1>1 DEF IInv, DispatcherState
<1>4. dpc' \in {"run", "answer", "after"} => dmsg[2] \in 1..Len(bufs'[dmsg[1]].calls)
  <2> SUFFICES ASSUME dpc' \in {"run", "answer", "after"}
               PROVE  dmsg[2] \in 1..Len(bufs'[dmsg[1]].calls)
    OBVIOUS
  <2>1. dmsg[1] \in DOMAIN bufs /\ dmsg[2] \in 1..Len(bufs[dmsg[1]].calls)
    BY DEF IInv, DispatcherState, AtWork
  <2>2. Len(bufs[dmsg[1]].calls) \in Nat
    BY <2>1, InDomain
  <2>3. CASE dmsg[1] = Target
    BY <1>1, <2>1, <2>2, <2>3
  <2>4. CASE dmsg[1] # Target
    <3>1. bufs'[dmsg[1]].calls = bufs[dmsg[1]].calls
      BY <1>1, <2>1, <2>4
    <3> QED
      BY <2>1, <3>1
  <2> QED
    BY <2>3, <2>4
<1>5. dpc' = "woken" => ~Drained(buffers[1])' \/ bufs'[buffers'[1]].can_free
  <2> SUFFICES ASSUME dpc' = "woken", ~bufs'[buffers'[1]].can_free
               PROVE  bufs'[buffers'[1]].read # Len(bufs'[buffers'[1]].calls)
    BY DEF Drained
  <2>1. buffers # << >>
    BY DEF IInv, DispatcherState
  <2>2. buffers'[1] = Target /\ Target \in DOMAIN bufs
    BY <1>1, <2>1
  <2>3. /\ bufs[Target].read <= Len(bufs[Target].calls)
        /\ bufs[Target].read \in Nat /\ Len(bufs[Target].calls) \in Nat
    BY <2>2, InDomain DEF IInv, Counts
  <2> QED
    BY <1>1, <2>2, <2>3
<1> QED
  BY <1>1, <1>2, <1>3, <1>4, <1>5 DEF DispatcherState

(* Steps that leave the buffers, and who waits in them, alone *)
LEMMA BuffersStay ==
    ASSUME IInv, UNCHANGED <<bufs, buffers, remove>>,
           \A b \in DOMAIN bufs : Waiters(b)' = Waiters(b) /\ Busy(b)' = Busy(b)
    PROVE  Counts' /\ Lists'
  BY DEF IInv, Counts, Lists

-----------------------------------------------------------------------------
(* Callers *)

LEMMA InitInv == Init => IInv
<1> SUFFICES ASSUME Init PROVE IInv
  OBVIOUS
<1>1. << >> \in Seq(Buffer) /\ << >> \in Seq(Nat) /\ DOMAIN << >> = {}
  OBVIOUS
<1>2. Types
  <2>1. /\ 0 \in 0..MaxPosts /\ 0 \in 0..MaxCalls
    BY LimitAssumption
  <2>2. /\ pc \in [Callers -> {"idle", "retry", "throttled", "wait", "leave", "result"}]
        /\ call \in [Callers -> Calls \cup {<< >>}]
        /\ msg = [c \in Callers |-> msg[c]]
        /\ made \in [Callers -> 0..MaxCalls]
    BY <2>1 DEF Init
  <2> QED
    BY <1>1, <2>1, <2>2 DEF Init, Types
<1>3. CallerState /\ Counts /\ Lists
  BY <1>1 DEF Init, CallerState, Counts, Lists
<1>4. DispatcherState
  BY DEF Init, DispatcherState, AtWork
<1> QED
  BY <1>2, <1>3, <1>4 DEF IInv

LEMMA ProcessInv ==
    ASSUME IInv, NEW c \in Callers, pc[c] \in {"idle", "retry"}, NEW m, Postable(m),
           Process(c, m), made' \in [Callers -> 0..MaxCalls]
    PROVE  IInv'
<1>1. UNCHANGED <<setup, remove, dispatch_stop, dmsg, posts>>
  BY DEF Process
<1>2. m \in Calls
  BY DEF Postable
<1>3. CASE Throttled(m)
  <2>1. /\ pc' = [pc EXCEPT ![c] = "throttled"] /\ call' = [call EXCEPT ![c] = m]
        /\ UNCHANGED <<bufs, buffers, msg, dpc>>
    BY <1>3 DEF Process
  <2>2. Types'
    BY <1>1, <1>2, <2>1 DEF IInv, Types
  <2>3. CallerState'
    BY <2>1 DEF IInv, Types, CallerState, Postable
  <2>4. Counts' /\ Lists'
    <3>1. \A b \in DOMAIN bufs : Waiters(b)' = Waiters(b)
      BY <2>1 DEF Waiters, IInv, Types
    <3>2. \A b \in DOMAIN bufs : Busy(b)' = Busy(b)
      BY <1>1, <2>1 DEF Busy, AtWork
    <3> QED
      BY <1>1, <2>1, <3>1, <3>2, BuffersStay
  <2>5. DispatcherState'
    BY <1>1, <2>1 DEF IInv, DispatcherState, AtWork, Drained
  <2> QED
    BY <2>2, <2>3, <2>4, <2>5 DEF IInv
<1>4. CASE ~Throttled(m)
  <2> DEFINE place == <<Last(buffers'), Len(bufs'[Last(buffers')].calls)>>
  <2>1. /\ Post(m) /\ Wake /\ call' = [call EXCEPT ![c] = << >>]
        /\ \/ /\ m.kind = "sync" /\ pc' = [pc EXCEPT ![c] = "wait"]
              /\ msg' = [msg EXCEPT ![c] = place]
           \/ /\ m.kind # "sync" /\ pc' = [pc EXCEPT ![c] = "idle"]
              /\ msg' = msg
    BY <1>4 DEF Process
  <2>2. /\ bufs' \in Seq(Buffer) /\ buffers' \in Seq(Nat)
        /\ DOMAIN bufs \subseteq DOMAIN bufs' /\ Target \in DOMAIN bufs'
    BY <2>1, PostFacts
  <2>3. Target \in Nat /\ Len(bufs'[Target].calls) \in Nat /\ Last(buffers') = Target
    <3>1. Target \in Nat /\ bufs'[Target] \in Buffer
      BY <2>2, ElementOfSeq, LenProperties
    <3> QED
      BY <3>1 DEF Buffer, Last, Target
  <2>12. place[1] = Target
    BY <2>3
  <2> HIDE DEF place
  <2>4. dpc' = dpc \/ (dpc = "wait" /\ dpc' = "woken")
                   \/ (dpc = "wait_buffer" /\ dpc' = "woken_buffer")
    BY <2>1 DEF Wake
  <2>5. dpc' \notin {"wait", "wait_buffer"}
    BY <2>1 DEF Wake
  <2>6. Types'
    <3>1. pc' \in [Callers -> {"idle", "retry", "throttled", "wait", "leave", "result"}]
          /\ call' \in [Callers -> Calls \cup {<< >>}]
      BY <2>1 DEF IInv, Types
    <3>2. msg' = [x \in Callers |-> msg'[x]]
      BY <2>1, <2>3 DEF IInv, Types
    <3> QED
      BY <1>1, <2>2, <2>4, <3>1, <3>2 DEF IInv, Types
  <2>7. CallerState'
    <3>1. CASE m.kind = "sync"
      <4>1. pc' = [pc EXCEPT ![c] = "wait"] /\ msg'[c][1] \in DOMAIN bufs'
            /\ \A x \in Callers : x # c => msg'[x] = msg[x]
        BY <2>1, <2>2, <2>12, <3>1 DEF IInv, Types
      <4> QED
        BY <2>1, <2>2, <4>1 DEF IInv, Types, CallerState, Postable
    <3>2. CASE m.kind # "sync"
      BY <2>1, <2>2, <3>2 DEF IInv, Types, CallerState, Postable
    <3> QED
      BY <3>1, <3>2
  <2>8. \A b \in DOMAIN bufs' :
           /\ c \notin Waiters(b)
           /\ Waiters(b)' = IF m.kind = "sync" /\ b = Target
                            THEN Waiters(b) \cup {c} ELSE Waiters(b)
    <3> SUFFICES ASSUME NEW b \in DOMAIN bufs'
                 PROVE  /\ c \notin Waiters(b)
                        /\ Waiters(b)' = IF m.kind = "sync" /\ b = Target
                                         THEN Waiters(b) \cup {c} ELSE Waiters(b)
      OBVIOUS
    <3>1. c \notin Waiters(b)
      BY DEF Waiters
    <3>2. \A x \in Callers : x # c => (x \in Waiters(b)' <=> x \in Waiters(b))
      BY <2>1 DEF Waiters, IInv, Types
    <3>3. c \in Waiters(b)' <=> m.kind = "sync" /\ b = Target
      <4>1. CASE m.kind = "sync"
        <5>1. pc'[c] = "wait" /\ msg'[c][1] = Target
          BY <2>1, <2>12, <4>1 DEF IInv, Types
        <5> QED
          BY <4>1, <5>1 DEF Waiters
      <4>2. CASE m.kind # "sync"
        <5>1. pc'[c] = "idle"
          BY <2>1, <4>2 DEF IInv, Types
        <5> QED
          BY <4>2, <5>1 DEF Waiters
      <4> QED
        BY <4>1, <4>2
    <3>4. Waiters(b) \subseteq Callers /\ Waiters(b)' \subseteq Callers
      BY DEF Waiters
    <3> QED
      BY <3>1, <3>2, <3>3, <3>4
  <2>9. AtWork' <=> AtWork
    BY <2>4 DEF AtWork
  <2>10. Counts' /\ Lists'
    <3>1. c \in Callers \cup {Nobody} /\ Post(m) /\ UNCHANGED <<remove, dmsg>>
      BY <1>1, <2>1
    <3> QED
      BY <2>8, <2>9, <3>1, PostCounts
  <2>11. DispatcherState'
    BY <1>1, <2>1, <2>4, <2>5, PostDispatcher
  <2> QED
    BY <2>6, <2>7, <2>10, <2>11 DEF IInv
<1> QED
  BY <1>3, <1>4

(* A step that leaves alone which buffers there are, and who is free *)
LEMMA ListsStay ==
    ASSUME IInv, UNCHANGED <<buffers, remove>>, DOMAIN bufs' = DOMAIN bufs,
           \A x \in DOMAIN bufs : /\ bufs'[x].freed = bufs[x].freed
                                  /\ bufs'[x].can_free = bufs[x].can_free
    PROVE  Lists'
  BY DEF IInv, Lists

(* A step of a caller that posts nothing *)
LEMMA DispatcherStays ==
    ASSUME IInv, UNCHANGED <<buffers, dpc, dmsg>>, DOMAIN bufs' = DOMAIN bufs,
           \A x \in DOMAIN bufs : /\ bufs'[x].calls = bufs[x].calls
                                  /\ bufs'[x].read = bufs[x].read
                                  /\ bufs'[x].can_free = bufs[x].can_free
    PROVE  DispatcherState'
<1>1. buffers # << >> => buffers[1] \in DOMAIN bufs
  BY HeadIsFirst DEF IInv, Types, Lists
<1>2. buffers # << >> => (Drained(buffers[1])' <=> Drained(buffers[1]))
  BY <1>1 DEF Drained
<1>3. buffers # << >> => bufs'[buffers[1]].can_free = bufs[buffers[1]].can_free
  BY <1>1
<1>4. AtWork' <=> AtWork
  BY DEF AtWork
<1>5. AtWork => dmsg[1] \in DOMAIN bufs /\ bufs'[dmsg[1]].calls = bufs[dmsg[1]].calls
  BY DEF IInv, DispatcherState
<1>6. dpc \in {"run", "answer", "after"} => dmsg[2] \in 1..Len(bufs'[dmsg[1]].calls)
  BY <1>5 DEF IInv, DispatcherState, AtWork
<1> QED
  BY <1>2, <1>3, <1>4, <1>5, <1>6 DEF IInv, DispatcherState

LEMMA ExecuteInv == ASSUME IInv, NEW c \in Callers, Execute(c) PROVE IInv'
<1>1. PICK k \in setup.kinds, l \in setup.lengths :
          Process(c, [from |-> c, nr |-> made[c] + 1, kind |-> k, length |-> l])
  BY DEF Execute
<1> DEFINE m == [from |-> c, nr |-> made[c] + 1, kind |-> k, length |-> l]
<1>2. setup \in AllSetups
  BY SetupAssumption DEF IInv, Types
<1>3. k \in {"sync", "oneway", "oneway3"} /\ l \in Lengths
  BY <1>2 DEF AllSetups
<1>4. made[c] \in 0..MaxCalls /\ made[c] < MaxCalls /\ made' = [made EXCEPT ![c] = @ + 1]
  BY DEF IInv, Types, Execute
<1>5. MaxCalls \in Nat /\ MaxPosts \in Nat
  BY LimitAssumption
<1>6. made[c] + 1 \in 1..(MaxCalls + MaxPosts) /\ made[c] + 1 \in 0..MaxCalls
  BY <1>4, <1>5
<1>7. made' \in [Callers -> 0..MaxCalls]
  BY <1>4, <1>6 DEF IInv, Types
<1>8. m \in Calls /\ m.length \in Lengths \cup {0}
  BY <1>3, <1>6 DEF Calls
<1> HIDE DEF m
<1>9. Process(c, m)
  BY <1>1 DEF m
<1> QED
  BY <1>7, <1>8, <1>9, ProcessInv DEF Execute, Postable

LEMMA RetryInv == ASSUME IInv, NEW c \in Callers, Retry(c) PROVE IInv'
<1>1. pc[c] = "retry" /\ Process(c, call[c]) /\ made' = made
  BY DEF Retry
<1>2. Postable(call[c]) /\ made' \in [Callers -> 0..MaxCalls]
  BY <1>1 DEF IInv, Types, CallerState
<1> QED
  BY <1>1, <1>2, ProcessInv

LEMMA AnsweredInv == ASSUME IInv, NEW c \in Callers, Answered(c) PROVE IInv'
<1>1. /\ pc[c] = "wait" /\ pc' = [pc EXCEPT ![c] = "leave"]
      /\ UNCHANGED <<setup, bufs, buffers, remove, dispatch_stop, call, msg, dpc, dmsg,
                     made, posts>>
  BY DEF Answered
<1>2. Types' /\ CallerState'
  BY <1>1 DEF IInv, Types, CallerState, Postable
<1>3. \A b \in DOMAIN bufs : Waiters(b)' = Waiters(b) /\ Busy(b)' = Busy(b)
  <2>1. \A b \in DOMAIN bufs : Waiters(b)' = Waiters(b)
    BY <1>1 DEF Waiters, IInv, Types
  <2>2. \A b \in DOMAIN bufs : Busy(b)' = Busy(b)
    BY <1>1 DEF Busy, AtWork
  <2> QED
    BY <2>1, <2>2
<1>4. Counts' /\ Lists'
  BY <1>1, <1>3, BuffersStay
<1>5. DispatcherState'
  BY <1>1, DispatcherStays
<1> QED
  BY <1>2, <1>4, <1>5 DEF IInv

LEMMA LeaveInv == ASSUME IInv, NEW c \in Callers, Leave(c) PROVE IInv'
<1> DEFINE b == msg[c][1]
           n == bufs[b].sync_calls - 1
           v == [bufs[b] EXCEPT !.sync_calls = n]
<1>1. /\ pc[c] = "leave" /\ pc' = [pc EXCEPT ![c] = "result"]
      /\ bufs' = [bufs EXCEPT ![b] = v]
      /\ UNCHANGED <<setup, buffers, remove, dispatch_stop, call, msg, dpc, dmsg, made,
                     posts>>
  BY DEF Leave
<1>2. b \in DOMAIN bufs /\ bufs[b] \in Buffer
  <2>1. b \in DOMAIN bufs
    BY <1>1 DEF IInv, CallerState
  <2> QED
    BY <2>1, InDomain
<1> HIDE DEF b
<1>3. /\ IsFiniteSet(Waiters(b)) /\ c \in Waiters(b)
      /\ bufs[b].sync_calls = Cardinality(Waiters(b))
  BY <1>1, <1>2 DEF IInv, Counts, Waiters, b
<1>4. /\ IsFiniteSet(Waiters(b) \ {c})
      /\ Cardinality(Waiters(b) \ {c}) = n /\ n \in Nat
  <2>1. /\ IsFiniteSet(Waiters(b) \ {c})
        /\ Cardinality(Waiters(b) \ {c}) = Cardinality(Waiters(b)) - 1
    BY <1>3, FS_RemoveElement
  <2>2. Cardinality(Waiters(b) \ {c}) \in Nat
    BY <2>1, FS_CardinalityType
  <2> QED
    BY <1>3, <2>1, <2>2
<1> HIDE DEF n
<1>5. /\ v \in Buffer /\ v.calls = bufs[b].calls /\ v.read = bufs[b].read
      /\ v.pending = bufs[b].pending /\ v.write_pos = bufs[b].write_pos
      /\ v.freed = bufs[b].freed /\ v.can_free = bufs[b].can_free /\ v.sync_calls = n
  BY <1>2, <1>4 DEF Buffer
<1> HIDE DEF v
<1>6. /\ bufs' \in Seq(Buffer) /\ DOMAIN bufs' = DOMAIN bufs /\ bufs'[b] = v
      /\ \A x \in DOMAIN bufs : x # b => bufs'[x] = bufs[x]
  BY <1>1, <1>2, <1>5, Update DEF IInv, Types
<1>7. Types'
  BY <1>1, <1>6 DEF IInv, Types
<1>8. CallerState'
  BY <1>1, <1>6 DEF IInv, Types, CallerState, Postable
<1>9. \A x \in DOMAIN bufs :
         /\ bufs'[x].calls = bufs[x].calls /\ bufs'[x].read = bufs[x].read
         /\ bufs'[x].pending = bufs[x].pending /\ bufs'[x].write_pos = bufs[x].write_pos
         /\ bufs'[x].freed = bufs[x].freed /\ bufs'[x].can_free = bufs[x].can_free
  BY <1>5, <1>6
<1>10. Lists' /\ DispatcherState'
  <2>1. Lists'
    BY <1>1, <1>6, <1>9, ListsStay
  <2>2. DispatcherState'
    BY <1>1, <1>6, <1>9, DispatcherStays
  <2> QED
    BY <2>1, <2>2
<1>11. Counts'
  <2> SUFFICES ASSUME NEW x \in DOMAIN bufs
               PROVE  /\ IsFiniteSet(Waiters(x)')
                      /\ bufs'[x].sync_calls = Cardinality(Waiters(x)')
                      /\ bufs'[x].read <= Len(bufs'[x].calls)
                      /\ bufs'[x].pending + bufs'[x].read = Len(bufs'[x].calls) + Busy(x)'
                      /\ Within(bufs'[x])
                      /\ bufs'[x].freed => bufs'[x].sync_calls = 0 /\ bufs'[x].pending = 0
    BY <1>6 DEF Counts
  <2>1. Busy(x)' = Busy(x)
    BY <1>1 DEF Busy, AtWork
  <2>2. /\ IsFiniteSet(Waiters(x)) /\ bufs[x].sync_calls = Cardinality(Waiters(x))
        /\ bufs[x].read <= Len(bufs[x].calls)
        /\ bufs[x].pending + bufs[x].read = Len(bufs[x].calls) + Busy(x)
        /\ Within(bufs[x])
        /\ bufs[x].freed => bufs[x].sync_calls = 0 /\ bufs[x].pending = 0
    BY DEF IInv, Counts
  <2>3. Waiters(x)' = IF x = b THEN Waiters(b) \ {c} ELSE Waiters(x)
    BY <1>1 DEF Waiters, IInv, Types, b
  <2>4. CASE x # b
    BY <1>6, <2>1, <2>2, <2>3, <2>4
  <2>5. CASE x = b
    <3>1. bufs[b].sync_calls # 0
      BY <1>3, FS_EmptySet
    <3>2. bufs'[x].sync_calls = n /\ ~bufs[x].freed
      BY <1>5, <1>6, <2>2, <2>5, <3>1
    <3>3. Within(bufs'[x])
      BY <1>9, <2>2 DEF Within
    <3> QED
      BY <1>4, <1>9, <2>1, <2>2, <2>3, <2>5, <3>2, <3>3
  <2> QED
    BY <2>4, <2>5
<1> QED
  BY <1>7, <1>8, <1>10, <1>11 DEF IInv

LEMMA ResultInv == ASSUME IInv, NEW c \in Callers, Result(c) PROVE IInv'
<1>1. /\ pc[c] = "result" /\ pc' = [pc EXCEPT ![c] = "idle"]
      /\ msg' = [msg EXCEPT ![c] = << >>]
      /\ UNCHANGED <<setup, bufs, buffers, remove, dispatch_stop, call, dpc, dmsg, made,
                     posts>>
  BY DEF Result
<1>2. Types' /\ CallerState'
  BY <1>1 DEF IInv, Types, CallerState, Postable
<1>3. \A b \in DOMAIN bufs : Waiters(b)' = Waiters(b) /\ Busy(b)' = Busy(b)
  <2>1. \A b \in DOMAIN bufs : Waiters(b)' = Waiters(b)
    BY <1>1 DEF Waiters, IInv, Types
  <2>2. \A b \in DOMAIN bufs : Busy(b)' = Busy(b)
    BY <1>1 DEF Busy, AtWork
  <2> QED
    BY <2>1, <2>2
<1>4. Counts' /\ Lists'
  BY <1>1, <1>3, BuffersStay
<1>5. DispatcherState'
  BY <1>1, DispatcherStays
<1> QED
  BY <1>2, <1>4, <1>5 DEF IInv

LEMMA KillInv == IInv /\ Kill => IInv'
<1> SUFFICES ASSUME IInv, Kill PROVE IInv'
  OBVIOUS
<1>1. /\ dispatch_stop' = TRUE
      /\ UNCHANGED <<setup, bufs, buffers, remove, pc, call, msg, made, dpc, dmsg, posts>>
  BY DEF Kill, callerVars
<1>2. Types' /\ CallerState'
  BY <1>1 DEF IInv, Types, CallerState, Postable
<1>3. \A b \in DOMAIN bufs : Waiters(b)' = Waiters(b) /\ Busy(b)' = Busy(b)
  BY <1>1 DEF Waiters, Busy, AtWork
<1>4. Counts' /\ Lists'
  BY <1>1, <1>3, BuffersStay
<1>5. DispatcherState'
  BY <1>1, DispatcherStays
<1> QED
  BY <1>2, <1>4, <1>5 DEF IInv

-----------------------------------------------------------------------------
(* The dispatcher *)

LEMMA LookInv == IInv /\ Look => IInv'
<1> SUFFICES ASSUME IInv, Look PROVE IInv'
  OBVIOUS
<1>1. /\ dpc \in {"loop", "woken_buffer", "locked"}
      /\ \/ buffers = << >> /\ dpc' = "wait_buffer"
         \/ /\ buffers # << >> /\ Drained(Head(buffers)) /\ ~ bufs[Head(buffers)].can_free
            /\ dpc' = "wait"
      /\ UNCHANGED <<setup, bufs, buffers, remove, dmsg, dispatch_stop, pc, call, msg, made,
                     posts>>
  BY DEF Look, dispatcherOnly, callerVars
<1>2. Types' /\ CallerState'
  BY <1>1 DEF IInv, Types, CallerState, Postable
<1>3. \A b \in DOMAIN bufs : Waiters(b)' = Waiters(b) /\ Busy(b)' = Busy(b)
  BY <1>1 DEF Waiters, Busy, AtWork
<1>4. Counts' /\ Lists'
  BY <1>1, <1>3, BuffersStay
<1>5. DispatcherState'
  <2>1. buffers # << >> => Head(buffers) = buffers[1]
    BY HeadIsFirst DEF IInv, Types
  <2> QED
    BY <1>1, <2>1 DEF DispatcherState, AtWork, Drained
<1> QED
  BY <1>2, <1>4, <1>5 DEF IInv

LEMMA SetAsideInv == IInv /\ SetAside => IInv'
<1> SUFFICES ASSUME IInv, SetAside PROVE IInv'
  OBVIOUS
<1> DEFINE h == buffers[1]
           N == Len(buffers)
           R == Len(remove)
<1>1. /\ dpc \in {"loop", "woken_buffer", "woken", "locked"} /\ dpc' = "locked"
      /\ buffers # << >> /\ buffers' = Tail(buffers) /\ remove' = Append(remove, Head(buffers))
      /\ UNCHANGED <<setup, bufs, dmsg, dispatch_stop, pc, call, msg, made, posts>>
  BY DEF SetAside, dispatcherOnly, callerVars
<1>2. /\ Head(buffers) = h /\ 1 \in DOMAIN buffers
      /\ Tail(buffers) \in Seq(Nat) /\ Len(Tail(buffers)) = N - 1 /\ N \in Nat /\ N # 0
      /\ \A i \in DOMAIN Tail(buffers) :
            i + 1 \in DOMAIN buffers /\ Tail(buffers)[i] = buffers[i + 1]
  BY <1>1, HeadIsFirst DEF IInv, Types
<1>3. DOMAIN buffers = 1..N /\ DOMAIN Tail(buffers) = 1..N - 1
  BY <1>2, LenProperties DEF IInv, Types
<1>4. h \in Nat /\ h \in DOMAIN bufs /\ ~bufs[h].freed
  <2>1. h \in DOMAIN bufs /\ ~bufs[h].freed
    BY <1>2 DEF IInv, Lists
  <2> QED
    BY <2>1, InDomain
<1>5. /\ remove' \in Seq(Nat) /\ DOMAIN remove' = 1..R + 1 /\ DOMAIN remove = 1..R /\ R \in Nat
      /\ remove'[R + 1] = h /\ \A j \in 1..R : remove'[j] = remove[j]
  <2>1. /\ R \in Nat /\ DOMAIN remove = 1..R /\ remove' = Append(remove, h)
    BY <1>1, <1>2, LenProperties DEF IInv, Types
  <2>2. /\ Append(remove, h) \in Seq(Nat) /\ Len(Append(remove, h)) = R + 1
        /\ \A j \in 1..R : Append(remove, h)[j] = remove[j]
        /\ Append(remove, h)[R + 1] = h
    BY <1>4, AppendProperties DEF IInv, Types
  <2>3. DOMAIN Append(remove, h) = 1..R + 1
    BY <2>2, LenProperties
  <2> QED
    BY <2>1, <2>2, <2>3
<1>6. Types' /\ CallerState'
  BY <1>1, <1>2, <1>5 DEF IInv, Types, CallerState, Postable
<1>7. Counts'
  <2>1. \A b \in DOMAIN bufs : Waiters(b)' = Waiters(b) /\ Busy(b)' = Busy(b)
    BY <1>1 DEF Waiters, Busy, AtWork
  <2> QED
    BY <1>1, <2>1 DEF IInv, Counts
<1>8. /\ \A i \in DOMAIN buffers : buffers[i] \in DOMAIN bufs /\ ~bufs[buffers[i]].freed
      /\ \A i \in DOMAIN remove : remove[i] \in DOMAIN bufs /\ ~bufs[remove[i]].freed
      /\ \A i, j \in DOMAIN buffers : buffers[i] = buffers[j] => i = j
      /\ \A i, j \in DOMAIN remove : remove[i] = remove[j] => i = j
      /\ \A i \in DOMAIN buffers, j \in DOMAIN remove : buffers[i] # remove[j]
      /\ \A i \in DOMAIN buffers : bufs[buffers[i]].can_free <=> i # N
  BY DEF IInv, Lists
<1> HIDE DEF N, R, h
<1>9. /\ DOMAIN buffers' = 1..N - 1 /\ Len(buffers') = N - 1
      /\ \A i \in 1..N - 1 : buffers'[i] = buffers[i + 1] /\ i + 1 \in 1..N
  BY <1>1, <1>2, <1>3
<1>10. Lists'
  <2>1. \A i \in DOMAIN buffers' :
            /\ buffers'[i] \in DOMAIN bufs /\ ~bufs[buffers'[i]].freed
            /\ bufs[buffers'[i]].can_free <=> i # Len(buffers')
    BY <1>2, <1>3, <1>8, <1>9
  <2>2. \A i \in DOMAIN remove' : remove'[i] \in DOMAIN bufs /\ ~bufs[remove'[i]].freed
    BY <1>4, <1>5, <1>8
  <2>3. \A i, j \in DOMAIN buffers' : buffers'[i] = buffers'[j] => i = j
    BY <1>2, <1>3, <1>8, <1>9
  <2>4. \A j \in DOMAIN remove : remove[j] # h
    BY <1>2, <1>8 DEF h
  <2>5. \A i, j \in DOMAIN remove' : remove'[i] = remove'[j] => i = j
    <3> SUFFICES ASSUME NEW i \in DOMAIN remove', NEW j \in DOMAIN remove',
                        remove'[i] = remove'[j]
                 PROVE  i = j
      OBVIOUS
    <3>1. (i \in 1..R \/ i = R + 1) /\ (j \in 1..R \/ j = R + 1)
      BY <1>5
    <3>2. CASE i \in 1..R /\ j \in 1..R
      BY <1>5, <1>8, <3>2
    <3>3. CASE i \in 1..R /\ j = R + 1
      BY <1>5, <2>4, <3>3
    <3>4. CASE i = R + 1 /\ j \in 1..R
      BY <1>5, <2>4, <3>4
    <3> QED
      BY <3>1, <3>2, <3>3, <3>4
  <2>6. \A i \in DOMAIN buffers', j \in DOMAIN remove' : buffers'[i] # remove'[j]
    <3> SUFFICES ASSUME NEW i \in DOMAIN buffers', NEW j \in DOMAIN remove'
                 PROVE  buffers'[i] # remove'[j]
      OBVIOUS
    <3>1. i \in 1..N - 1 /\ buffers'[i] = buffers[i + 1] /\ i + 1 \in 1..N /\ i + 1 # 1
      BY <1>2, <1>9
    <3>2. CASE j \in 1..R
      BY <1>3, <1>5, <1>8, <3>1, <3>2
    <3>3. CASE j = R + 1
      BY <1>2, <1>3, <1>5, <1>8, <3>1, <3>3 DEF h
    <3>4. j \in 1..R \/ j = R + 1
      BY <1>5
    <3> QED
      BY <3>2, <3>3, <3>4
  <2> QED
    BY <1>1, <2>1, <2>2, <2>3, <2>5, <2>6 DEF Lists
<1>11. DispatcherState'
  BY <1>1 DEF DispatcherState, AtWork
<1> QED
  BY <1>6, <1>7, <1>10, <1>11 DEF IInv

LEMMA TakeInv == IInv /\ Take => IInv'
<1> SUFFICES ASSUME IInv, Take PROVE IInv'
  OBVIOUS
<1> DEFINE b == Head(buffers)
           n == bufs[b].read + 1
           v == [bufs[b] EXCEPT !.read = n]
<1>1. /\ dpc \in {"loop", "woken_buffer", "woken", "locked"} /\ dpc' \in {"exit", "run"}
      /\ buffers # << >>
      /\ (~Drained(b) \/ (dpc = "woken" /\ ~ bufs[b].can_free))
      /\ bufs' = [bufs EXCEPT ![b] = v]
      /\ dmsg' = <<b, n>>
      /\ UNCHANGED <<setup, buffers, remove, dispatch_stop, pc, call, msg, made, posts>>
  BY DEF Take, dispatcherOnly, callerVars
<1>2. b = buffers[1] /\ b \in DOMAIN bufs /\ ~bufs[b].freed
  <2>1. b = buffers[1] /\ 1 \in DOMAIN buffers
    <3>1. buffers \in Seq(Nat)
      BY DEF IInv, Types
    <3>2. buffers # << >>
      BY <1>1
    <3> QED
      BY <3>1, <3>2, HeadIsFirst
  <2> QED
    BY <2>1 DEF IInv, Lists
<1>3. ~Drained(b)
  BY <1>1, <1>2 DEF IInv, DispatcherState
<1> HIDE DEF b
<1>4. /\ bufs[b] \in Buffer /\ bufs[b].read \in Nat /\ Len(bufs[b].calls) \in Nat
      /\ bufs[b].pending \in Nat
  BY <1>2, InDomain
<1>5. n \in Nat /\ n \in 1..Len(bufs[b].calls) /\ n = bufs[b].read + 1
  BY <1>2, <1>3, <1>4 DEF IInv, Counts, Drained
<1> HIDE DEF n
<1>6. /\ v \in Buffer /\ v.calls = bufs[b].calls /\ v.read = n
      /\ v.pending = bufs[b].pending /\ v.write_pos = bufs[b].write_pos
      /\ v.freed = bufs[b].freed /\ v.can_free = bufs[b].can_free
      /\ v.sync_calls = bufs[b].sync_calls
  BY <1>4, <1>5 DEF Buffer
<1> HIDE DEF v
<1>7. /\ bufs' \in Seq(Buffer) /\ DOMAIN bufs' = DOMAIN bufs /\ bufs'[b] = v
      /\ \A x \in DOMAIN bufs : x # b => bufs'[x] = bufs[x]
  BY <1>1, <1>2, <1>6, Update DEF IInv, Types
<1>8. Types'
  BY <1>1, <1>7 DEF IInv, Types
<1>9. CallerState'
  BY <1>1, <1>7 DEF IInv, CallerState, Postable
<1>10. Lists'
  BY <1>1, <1>6, <1>7, ListsStay
<1>11. dmsg'[1] = b /\ dmsg'[2] = n
  BY <1>1
<1>12. DispatcherState'
  BY <1>1, <1>2, <1>5, <1>6, <1>7, <1>11 DEF DispatcherState
<1>13. Counts'
  <2> SUFFICES ASSUME NEW x \in DOMAIN bufs
               PROVE  /\ IsFiniteSet(Waiters(x)')
                      /\ bufs'[x].sync_calls = Cardinality(Waiters(x)')
                      /\ bufs'[x].read <= Len(bufs'[x].calls)
                      /\ bufs'[x].pending + bufs'[x].read = Len(bufs'[x].calls) + Busy(x)'
                      /\ Within(bufs'[x])
                      /\ bufs'[x].freed => bufs'[x].sync_calls = 0 /\ bufs'[x].pending = 0
    BY <1>7 DEF Counts
  <2>1. Busy(x) = 0 /\ Busy(x)' = IF x = b THEN 1 ELSE 0
    BY <1>1, <1>11 DEF Busy, AtWork
  <2>2. /\ IsFiniteSet(Waiters(x)) /\ bufs[x].sync_calls = Cardinality(Waiters(x))
        /\ bufs[x].read <= Len(bufs[x].calls)
        /\ bufs[x].pending + bufs[x].read = Len(bufs[x].calls) + Busy(x)
        /\ Within(bufs[x])
        /\ bufs[x].freed => bufs[x].sync_calls = 0 /\ bufs[x].pending = 0
    BY DEF IInv, Counts
  <2>3. Waiters(x)' = Waiters(x)
    BY <1>1 DEF Waiters
  <2>4. CASE x # b
    BY <1>7, <2>1, <2>2, <2>3, <2>4
  <2>5. CASE x = b
    <3>1. /\ bufs'[x].calls = bufs[x].calls /\ bufs'[x].read = n
          /\ bufs'[x].pending = bufs[x].pending /\ bufs'[x].write_pos = bufs[x].write_pos
          /\ bufs'[x].freed = bufs[x].freed /\ bufs'[x].sync_calls = bufs[x].sync_calls
      BY <1>6, <1>7, <2>5
    <3>2. /\ n <= Len(bufs[x].calls)
          /\ bufs[x].pending + n = Len(bufs[x].calls) + 1
      BY <1>4, <1>5, <2>1, <2>2, <2>5
    <3>3. Within(bufs'[x])
      BY <2>2, <3>1 DEF Within
    <3> QED
      BY <2>1, <2>2, <2>3, <2>5, <3>1, <3>2, <3>3
  <2> QED
    BY <2>4, <2>5
<1> QED
  BY <1>8, <1>9, <1>10, <1>12, <1>13 DEF IInv

LEMMA RunInv == IInv /\ Run => IInv'
<1> SUFFICES ASSUME IInv, Run PROVE IInv'
  OBVIOUS
<1>1. /\ dpc = "run" /\ dpc' \in {"answer", "after"}
      /\ UNCHANGED <<setup, bufs, buffers, remove, dmsg, dispatch_stop, pc, call, msg, made,
                     posts>>
  BY DEF Run, dispatcherOnly, callerVars
<1>2. Types' /\ CallerState'
  BY <1>1 DEF IInv, Types, CallerState, Postable
<1>3. \A b \in DOMAIN bufs : Waiters(b)' = Waiters(b) /\ Busy(b)' = Busy(b)
  BY <1>1 DEF Waiters, Busy, AtWork
<1>4. Counts' /\ Lists'
  BY <1>1, <1>3, BuffersStay
<1>5. DispatcherState'
  BY <1>1 DEF IInv, DispatcherState, AtWork
<1> QED
  BY <1>2, <1>4, <1>5 DEF IInv

LEMMA RunPostsInv == IInv /\ RunPosts => IInv'
<1> SUFFICES ASSUME IInv, RunPosts PROVE IInv'
  OBVIOUS
<1> DEFINE m == [from |-> Nobody, nr |-> posts + 1, kind |-> "oneway", length |-> 0]
<1>1. /\ dpc = "run" /\ posts < setup.posts /\ Post(m) /\ posts' = posts + 1
      /\ UNCHANGED <<setup, remove, dispatch_stop, pc, call, msg, made, dpc, dmsg>>
  BY DEF RunPosts, callerVars
<1>2. posts + 1 \in 1..(MaxCalls + MaxPosts) /\ posts + 1 \in 0..MaxPosts
  <2>1. setup.posts \in 0..MaxPosts
    BY SetupAssumption DEF IInv, Types, AllSetups
  <2>2. posts \in 0..MaxPosts
    BY DEF IInv, Types
  <2>3. MaxCalls \in Nat /\ MaxPosts \in Nat
    BY LimitAssumption
  <2> QED
    BY <1>1, <2>1, <2>2, <2>3
<1>3. m \in Calls /\ m.length \in Lengths \cup {0} /\ m.kind = "oneway"
  BY <1>2 DEF Calls
<1> HIDE DEF m
<1>4. Postable(m)
  BY <1>3 DEF Postable
<1>5. bufs' \in Seq(Buffer) /\ buffers' \in Seq(Nat) /\ DOMAIN bufs \subseteq DOMAIN bufs'
  BY <1>1, <1>4, PostFacts
<1>6. Types' /\ CallerState'
  BY <1>1, <1>2, <1>5 DEF IInv, Types, CallerState, Postable
<1>7. Counts' /\ Lists'
  <2>1. AtWork' <=> AtWork
    BY <1>1 DEF AtWork
  <2>2. \A b \in DOMAIN bufs' :
           /\ Nobody \notin Waiters(b)
           /\ Waiters(b)' = IF m.kind = "sync" /\ b = Target
                            THEN Waiters(b) \cup {Nobody} ELSE Waiters(b)
    BY <1>1, <1>3, NobodyAssumption DEF Waiters
  <2>3. Nobody \in Callers \cup {Nobody} /\ Post(m) /\ UNCHANGED <<remove, dmsg>>
    BY <1>1
  <2> QED
    BY <1>4, <2>1, <2>2, <2>3, PostCounts
<1>8. DispatcherState'
  BY <1>1, <1>4, PostDispatcher
<1> QED
  BY <1>6, <1>7, <1>8 DEF IInv

LEMMA AnswerInv == IInv /\ Answer => IInv'
<1> SUFFICES ASSUME IInv, Answer PROVE IInv'
  OBVIOUS
<1> DEFINE b == dmsg[1]
           p == bufs[b].processed \cup {dmsg[2]}
           v == [bufs[b] EXCEPT !.processed = p]
<1>1. /\ dpc = "answer" /\ dpc' = "after"
      /\ bufs' = [bufs EXCEPT ![b] = v]
      /\ UNCHANGED <<setup, buffers, remove, dmsg, dispatch_stop, pc, call, msg, made, posts>>
  BY DEF Answer, dispatcherOnly, callerVars
<1>2. b \in DOMAIN bufs /\ dmsg[2] \in 1..Len(bufs[b].calls)
  BY <1>1 DEF IInv, DispatcherState, AtWork
<1>3. dmsg[2] \in Nat /\ bufs[b] \in Buffer /\ bufs[b].processed \in SUBSET Nat
  <2>1. bufs[b] \in Buffer /\ Len(bufs[b].calls) \in Nat
    BY <1>2, InDomain
  <2> QED
    BY <1>2, <2>1 DEF Buffer
<1>4. p \in SUBSET Nat
  BY <1>3
<1> HIDE DEF b, p
<1>5. /\ v \in Buffer /\ v.calls = bufs[b].calls /\ v.read = bufs[b].read
      /\ v.pending = bufs[b].pending /\ v.write_pos = bufs[b].write_pos
      /\ v.freed = bufs[b].freed /\ v.can_free = bufs[b].can_free
      /\ v.sync_calls = bufs[b].sync_calls
  BY <1>3, <1>4 DEF Buffer
<1> HIDE DEF v
<1>6. /\ bufs' \in Seq(Buffer) /\ DOMAIN bufs' = DOMAIN bufs
      /\ \A x \in DOMAIN bufs :
            /\ bufs'[x].calls = bufs[x].calls /\ bufs'[x].read = bufs[x].read
            /\ bufs'[x].pending = bufs[x].pending /\ bufs'[x].write_pos = bufs[x].write_pos
            /\ bufs'[x].freed = bufs[x].freed /\ bufs'[x].can_free = bufs[x].can_free
            /\ bufs'[x].sync_calls = bufs[x].sync_calls
  <2>1. /\ bufs' \in Seq(Buffer) /\ DOMAIN bufs' = DOMAIN bufs /\ bufs'[b] = v
        /\ \A x \in DOMAIN bufs : x # b => bufs'[x] = bufs[x]
    BY <1>1, <1>2, <1>5, Update DEF IInv, Types
  <2> QED
    BY <1>5, <2>1
<1>7. Types' /\ CallerState'
  BY <1>1, <1>6 DEF IInv, Types, CallerState, Postable
<1>8. Lists'
  BY <1>1, <1>6, ListsStay
<1>9. Counts'
  <2>1. \A x \in DOMAIN bufs : Waiters(x)' = Waiters(x) /\ Busy(x)' = Busy(x)
    BY <1>1 DEF Waiters, Busy, AtWork
  <2> QED
    BY <1>6, <2>1 DEF IInv, Counts, Within
<1>10. DispatcherState'
  BY <1>1, <1>2, <1>6 DEF DispatcherState, b
<1> QED
  BY <1>7, <1>8, <1>9, <1>10 DEF IInv

LEMMA UnthrottleFacts ==
    ASSUME IInv, Unthrottle
    PROVE  /\ pc' \in [Callers -> {"idle", "retry", "throttled", "wait", "leave", "result"}]
           /\ \A c \in Callers : pc'[c] = pc[c] \/ (pc[c] = "throttled" /\ pc'[c] = "retry")
<1>1. CASE pc' = pc
  BY <1>1 DEF IInv, Types
<1>2. CASE \E c \in Callers : pc[c] = "throttled" /\ pc' = [pc EXCEPT ![c] = "retry"]
  BY <1>2 DEF IInv, Types
<1> QED
  BY <1>1, <1>2 DEF Unthrottle

LEMMA AfterInv == IInv /\ After => IInv'
<1> SUFFICES ASSUME IInv, After PROVE IInv'
  OBVIOUS
<1> DEFINE b == dmsg[1]
           n == bufs[b].pending - 1
           v == [bufs[b] EXCEPT !.pending = n]
           done == [bufs EXCEPT ![b] = v]
           h == Head(remove)
           Frees == remove # << >> /\ Freeable(done[h])
<1>1. /\ dpc = "after" /\ dpc' = "loop" /\ Unthrottle
      /\ \/ Frees /\ bufs' = [done EXCEPT ![h] = Freed] /\ remove' = Tail(remove)
         \/ ~Frees /\ bufs' = done /\ remove' = remove
      /\ UNCHANGED <<setup, buffers, dispatch_stop, call, msg, made, posts>>
  BY DEF After
<1>2. b \in DOMAIN bufs /\ bufs[b] \in Buffer /\ bufs[b].pending \in Nat
      /\ bufs[b].read \in Nat /\ Len(bufs[b].calls) \in Nat
  <2>1. b \in DOMAIN bufs
    BY <1>1 DEF IInv, DispatcherState, AtWork
  <2> QED
    BY <2>1, InDomain
<1>3. \A x \in DOMAIN bufs : Busy(x) = (IF x = b THEN 1 ELSE 0) /\ Busy(x)' = 0
  BY <1>1 DEF Busy, AtWork
<1> HIDE DEF b
<1>4. n \in Nat /\ n + 1 = bufs[b].pending
  BY <1>2, <1>3 DEF IInv, Counts
<1> HIDE DEF n
<1>5. /\ v \in Buffer /\ v.calls = bufs[b].calls /\ v.read = bufs[b].read
      /\ v.pending = n /\ v.write_pos = bufs[b].write_pos
      /\ v.freed = bufs[b].freed /\ v.can_free = bufs[b].can_free
      /\ v.sync_calls = bufs[b].sync_calls
  BY <1>2, <1>4 DEF Buffer
<1> HIDE DEF v
<1>6. /\ done \in Seq(Buffer) /\ DOMAIN done = DOMAIN bufs /\ done[b] = v
      /\ \A x \in DOMAIN bufs : x # b => done[x] = bufs[x]
  BY <1>2, <1>5, Update DEF IInv, Types
<1> HIDE DEF done
<1>7. \A x \in DOMAIN bufs : Waiters(x)' = Waiters(x)
  BY <1>1, UnthrottleFacts DEF Waiters
(* The buffers after pending is decremented, before one is freed *)
<1>8. \A x \in DOMAIN bufs :
         /\ IsFiniteSet(Waiters(x)) /\ done[x].sync_calls = Cardinality(Waiters(x))
         /\ done[x].read <= Len(done[x].calls)
         /\ done[x].pending + done[x].read = Len(done[x].calls) + 0
         /\ Within(done[x])
         /\ done[x].freed => done[x].sync_calls = 0 /\ done[x].pending = 0
         /\ done[x].freed = bufs[x].freed /\ done[x].can_free = bufs[x].can_free
         /\ done[x] \in Buffer
  <2> SUFFICES ASSUME NEW x \in DOMAIN bufs
               PROVE  /\ IsFiniteSet(Waiters(x)) /\ done[x].sync_calls = Cardinality(Waiters(x))
                      /\ done[x].read <= Len(done[x].calls)
                      /\ done[x].pending + done[x].read = Len(done[x].calls) + 0
                      /\ Within(done[x])
                      /\ done[x].freed => done[x].sync_calls = 0 /\ done[x].pending = 0
                      /\ done[x].freed = bufs[x].freed /\ done[x].can_free = bufs[x].can_free
                      /\ done[x] \in Buffer
    OBVIOUS
  <2>1. /\ IsFiniteSet(Waiters(x)) /\ bufs[x].sync_calls = Cardinality(Waiters(x))
        /\ bufs[x].read <= Len(bufs[x].calls)
        /\ bufs[x].pending + bufs[x].read = Len(bufs[x].calls) + Busy(x)
        /\ Within(bufs[x])
        /\ bufs[x].freed => bufs[x].sync_calls = 0 /\ bufs[x].pending = 0
    BY DEF IInv, Counts
  <2>2. CASE x # b
    BY <1>3, <1>6, <2>1, <2>2, InDomain
  <2>3. CASE x = b
    <3>1. /\ n + bufs[b].read = Len(bufs[b].calls) + 0 /\ ~bufs[b].freed
      BY <1>2, <1>3, <1>4, <2>1, <2>3
    <3>2. Within(done[x])
      BY <1>5, <1>6, <2>1, <2>3 DEF Within
    <3> QED
      BY <1>5, <1>6, <2>1, <2>3, <3>1, <3>2
  <2> QED
    BY <2>2, <2>3
<1>9. DispatcherState'
  BY <1>1 DEF DispatcherState, AtWork
<1>10. /\ bufs' \in Seq(Buffer) /\ remove' \in Seq(Nat) /\ DOMAIN bufs' = DOMAIN bufs
       /\ Counts' /\ Lists'
  <2>1. CASE ~Frees
    <3>1. bufs' = done /\ remove' = remove
      BY <1>1, <2>1
    <3>2. bufs' \in Seq(Buffer) /\ remove' \in Seq(Nat) /\ DOMAIN bufs' = DOMAIN bufs
      BY <1>6, <3>1 DEF IInv, Types
    <3>3. Counts'
      BY <1>3, <1>7, <1>8, <3>1, <3>2 DEF Counts
    <3>4. Lists'
      BY <1>1, <1>8, <3>1, <3>2, ListsStay
    <3> QED
      BY <3>2, <3>3, <3>4
  <2>2. CASE Frees
    <3>1. bufs' = [done EXCEPT ![h] = Freed] /\ remove' = Tail(remove)
          /\ remove # << >> /\ done[h].sync_calls = 0 /\ done[h].pending = 0
      BY <1>1, <2>2 DEF Freeable
    <3>2. /\ h = remove[1] /\ 1 \in DOMAIN remove
          /\ Tail(remove) \in Seq(Nat)
          /\ \A i \in DOMAIN Tail(remove) :
                i + 1 \in DOMAIN remove /\ Tail(remove)[i] = remove[i + 1]
      <4>1. remove \in Seq(Nat)
        BY DEF IInv, Types
      <4> QED
        BY <3>1, <4>1, HeadIsFirst
    <3>3. h \in DOMAIN bufs
      BY <3>2 DEF IInv, Lists
    <3> HIDE DEF h, Frees
    <3>4. /\ bufs' \in Seq(Buffer) /\ DOMAIN bufs' = DOMAIN bufs /\ bufs'[h] = Freed
          /\ \A x \in DOMAIN bufs : x # h => bufs'[x] = done[x]
      BY <1>6, <3>1, <3>3, Update, NewBufferFacts
    <3>5. Counts'
      <4> SUFFICES ASSUME NEW x \in DOMAIN bufs
                   PROVE  /\ IsFiniteSet(Waiters(x)')
                          /\ bufs'[x].sync_calls = Cardinality(Waiters(x)')
                          /\ bufs'[x].read <= Len(bufs'[x].calls)
                          /\ bufs'[x].pending + bufs'[x].read
                                = Len(bufs'[x].calls) + Busy(x)'
                          /\ Within(bufs'[x])
                          /\ bufs'[x].freed => bufs'[x].sync_calls = 0 /\ bufs'[x].pending = 0
        BY <3>4 DEF Counts
      <4>1. CASE x # h
        BY <1>3, <1>7, <1>8, <3>4, <4>1
      <4>2. CASE x = h
        <5>1. Len(<< >>) = 0 /\ Capacity \in Nat
          BY SizeFacts
        <5>2. bufs'[x] = Freed /\ Waiters(x)' = Waiters(x) /\ Busy(x)' = 0
          BY <1>3, <1>7, <3>4, <4>2
        <5>3. IsFiniteSet(Waiters(x)) /\ Cardinality(Waiters(x)) = 0
          BY <1>8, <3>1, <4>2
        <5>4. Within(Freed)
          BY <5>1, NewBufferFacts DEF Within
        <5> QED
          BY <5>1, <5>2, <5>3, <5>4, NewBufferFacts
      <4> QED
        BY <4>1, <4>2
    <3>6. Lists'
      <4>1. /\ \A i \in DOMAIN buffers : buffers[i] \in DOMAIN bufs /\ ~bufs[buffers[i]].freed
            /\ \A i \in DOMAIN remove : remove[i] \in DOMAIN bufs /\ ~bufs[remove[i]].freed
            /\ \A i, j \in DOMAIN buffers : buffers[i] = buffers[j] => i = j
            /\ \A i, j \in DOMAIN remove : remove[i] = remove[j] => i = j
            /\ \A i \in DOMAIN buffers, j \in DOMAIN remove : buffers[i] # remove[j]
            /\ \A i \in DOMAIN buffers : bufs[buffers[i]].can_free <=> i # Len(buffers)
        BY DEF IInv, Lists
      <4>2. \A i \in DOMAIN buffers : bufs'[buffers[i]] = done[buffers[i]]
        BY <3>2, <3>4, <4>1
      <4>3. \A i \in DOMAIN remove' :
               /\ i \in Nat /\ i + 1 \in DOMAIN remove /\ remove'[i] = remove[i + 1]
               /\ remove'[i] # h
        <5>1. DOMAIN remove' \subseteq Nat
          BY <3>1, <3>2, LenProperties
        <5>2. \A i \in DOMAIN remove' :
                 i \in Nat /\ i # 0 /\ i + 1 \in DOMAIN remove /\ remove'[i] = remove[i + 1]
          BY <3>1, <3>2, <5>1, LenProperties
        <5>3. \A i \in DOMAIN remove' : i + 1 # 1
          BY <5>2
        <5> QED
          BY <3>2, <4>1, <5>2, <5>3
      <4>4. \A i \in DOMAIN buffers :
               /\ buffers[i] \in DOMAIN bufs /\ ~bufs'[buffers[i]].freed
               /\ bufs'[buffers[i]].can_free <=> i # Len(buffers)
        BY <1>8, <4>1, <4>2
      <4>5. \A i \in DOMAIN remove' : remove'[i] \in DOMAIN bufs /\ ~bufs'[remove'[i]].freed
        BY <1>8, <3>4, <4>1, <4>3
      <4>6. \A i, j \in DOMAIN remove' : remove'[i] = remove'[j] => i = j
        <5> SUFFICES ASSUME NEW i \in DOMAIN remove', NEW j \in DOMAIN remove',
                            remove'[i] = remove'[j]
                     PROVE  i = j
          OBVIOUS
        <5>1. i \in Nat /\ j \in Nat /\ i + 1 = j + 1
          BY <4>1, <4>3
        <5> QED
          BY <5>1
      <4> QED
        BY <1>1, <3>4, <4>1, <4>3, <4>4, <4>5, <4>6 DEF Lists
    <3> QED
      BY <3>1, <3>2, <3>4, <3>5, <3>6
  <2> QED
    BY <2>1, <2>2
<1>11. Types'
  <2>1. pc' \in [Callers -> {"idle", "retry", "throttled", "wait", "leave", "result"}]
    BY <1>1, UnthrottleFacts
  <2> QED
    BY <1>1, <1>10, <2>1 DEF IInv, Types
<1>12. CallerState'
  <2>1. \A c \in Callers : pc'[c] = pc[c] \/ (pc[c] = "throttled" /\ pc'[c] = "retry")
    BY <1>1, UnthrottleFacts
  <2> QED
    BY <1>1, <1>10, <2>1 DEF IInv, CallerState, Postable
<1> QED
  BY <1>9, <1>10, <1>11, <1>12 DEF IInv

-----------------------------------------------------------------------------
(* Theorems *)

LEMMA NextInv == IInv /\ [Next]_vars => IInv'
<1> SUFFICES ASSUME IInv, [Next]_vars PROVE IInv'
  OBVIOUS
<1>1. ASSUME NEW c \in Callers, Execute(c) \/ CallerStep(c) PROVE IInv'
  BY <1>1, ExecuteInv, RetryInv, AnsweredInv, LeaveInv, ResultInv DEF CallerStep
<1>2. CASE Dispatch
  BY <1>2, LookInv, SetAsideInv, TakeInv, RunInv, AnswerInv, AfterInv DEF Dispatch
<1>3. CASE RunPosts
  BY <1>3, RunPostsInv
<1>4. CASE Kill
  BY <1>4, KillInv
<1>5. CASE UNCHANGED vars
  <2>1. UNCHANGED <<setup, bufs, buffers, remove, dispatch_stop, pc, call, msg, dpc, dmsg,
                    made, posts>>
    BY <1>5 DEF vars
  <2>2. Types' /\ CallerState'
    BY <2>1 DEF IInv, Types, CallerState, Postable
  <2>3. \A b \in DOMAIN bufs : Waiters(b)' = Waiters(b) /\ Busy(b)' = Busy(b)
    BY <2>1 DEF Waiters, Busy, AtWork
  <2>4. Counts' /\ Lists'
    BY <2>1, <2>3, BuffersStay
  <2>5. DispatcherState'
    BY <2>1, DispatcherStays
  <2> QED
    BY <2>2, <2>4, <2>5 DEF IInv
<1> QED
  BY <1>1, <1>2, <1>3, <1>4, <1>5 DEF Next

(* The invariant holds in every reachable state. *)
THEOREM AlwaysInv == Spec => []IInv
  BY InitInv, NextInv, PTL DEF Spec

LEMMA InvConsistent == IInv => Consistent
<1> SUFFICES ASSUME IInv PROVE Consistent
  OBVIOUS
<1>1. TypeOK
  <2>1. buffers \in Seq(DOMAIN bufs) /\ remove \in Seq(DOMAIN bufs)
    <3>1. buffers \in Seq(Nat) /\ remove \in Seq(Nat)
      BY DEF IInv, Types
    <3>2. /\ Len(buffers) \in Nat /\ buffers \in [1..Len(buffers) -> Nat]
          /\ Len(remove) \in Nat /\ remove \in [1..Len(remove) -> Nat]
          /\ DOMAIN buffers = 1..Len(buffers) /\ DOMAIN remove = 1..Len(remove)
      BY <3>1, LenProperties
    <3>3. /\ \A i \in 1..Len(buffers) : buffers[i] \in DOMAIN bufs
          /\ \A i \in 1..Len(remove) : remove[i] \in DOMAIN bufs
      BY <3>2 DEF IInv, Lists
    <3>4. /\ buffers \in [1..Len(buffers) -> DOMAIN bufs]
          /\ remove \in [1..Len(remove) -> DOMAIN bufs]
      BY <3>2, <3>3
    <3> QED
      BY <3>2, <3>4, SeqDef
  <2> QED
    BY <2>1 DEF TypeOK, IInv, Types, CallerState
<1>2. WritesFit
  BY DEF IInv, Counts, WritesFit
<1>3. WakesToCall
  <2>1. dpc \in {"run", "answer", "after"} => dmsg[2] \in DOMAIN bufs[dmsg[1]].calls
    <3> SUFFICES ASSUME dpc \in {"run", "answer", "after"}
                 PROVE  dmsg[2] \in DOMAIN bufs[dmsg[1]].calls
      OBVIOUS
    <3>1. dmsg[1] \in DOMAIN bufs /\ dmsg[2] \in 1..Len(bufs[dmsg[1]].calls)
      BY DEF IInv, DispatcherState, AtWork
    <3>2. bufs[dmsg[1]].calls \in Seq(Calls)
      BY <3>1, InDomain
    <3> QED
      BY <3>1, <3>2, LenProperties
  <2> QED
    BY <2>1 DEF IInv, DispatcherState, WakesToCall
<1> QED
  BY <1>1, <1>2, <1>3 DEF Consistent

(* Whatever the callers and the handlers post: only a call that no buffer  *)
(* can hold, alone in a new one, is written past its end, and when         *)
(* event_dispatcher_loop() comes back from a wait there is a buffer, and a *)
(* call at read_pos, to go on with.  (Once a call was written past the end *)
(* the model ends.)                                                        *)
THEOREM DispatcherIsConsistent == Spec => []Consistent
  BY AlwaysInv, InvConsistent, PTL

LEMMA InvBufferKept == IInv => BufferKeptForCaller
<1> SUFFICES ASSUME IInv PROVE BufferKeptForCaller
  OBVIOUS
<1>1. ASSUME NEW c \in Callers, pc[c] \in {"wait", "leave"}
      PROVE  ~ bufs[msg[c][1]].freed
  <2> DEFINE b == msg[c][1]
  <2>1. b \in DOMAIN bufs
    BY <1>1 DEF IInv, CallerState
  <2>2. c \in Waiters(b) /\ IsFiniteSet(Waiters(b))
        /\ bufs[b].sync_calls = Cardinality(Waiters(b))
        /\ (bufs[b].freed => bufs[b].sync_calls = 0)
    BY <1>1, <2>1 DEF Waiters, IInv, Counts
  <2>3. Cardinality(Waiters(b)) # 0
    BY <2>2, FS_EmptySet
  <2> QED
    BY <2>2, <2>3
<1>2. ASSUME dpc \in {"run", "answer", "after"}
      PROVE  ~ bufs[dmsg[1]].freed
  <2> DEFINE b == dmsg[1]
  <2>1. b \in DOMAIN bufs /\ Busy(b) = 1
    BY <1>2 DEF IInv, DispatcherState, AtWork, Busy
  <2>2. /\ bufs[b].read <= Len(bufs[b].calls)
        /\ bufs[b].pending + bufs[b].read = Len(bufs[b].calls) + 1
        /\ (bufs[b].freed => bufs[b].pending = 0)
    BY <2>1 DEF IInv, Counts
  <2>3. bufs[b].read \in Nat /\ Len(bufs[b].calls) \in Nat /\ bufs[b].pending \in Nat
    BY <2>1, InDomain
  <2> QED
    BY <2>2, <2>3
<1> QED
  BY <1>1, <1>2 DEF BufferKeptForCaller

(* A buffer that was put aside is not freed while a caller waits in it for *)
(* its call to be processed and has not signed off, or the dispatcher is   *)
(* at a call of it: sync_calls and pending count exactly these.  The       *)
(* answer is read later, and that is not covered (AnswerIsReturned).       *)
THEOREM BufferIsKept == Spec => []BufferKeptForCaller
  BY AlwaysInv, InvBufferKept, PTL
=============================================================================
