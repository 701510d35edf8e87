------------------------- MODULE EventBufferProofs -------------------------
(***************************************************************************)
(* Proofs that an event buffer loses, doubles and reorders no event and    *)
(* that nobody sleeps on events, for any number of threads and events, any *)
(* capacity of the socket and every application in AllSetups.              *)
(*                                                                         *)
(* The argument: the places an event can be in (fetched, read, in the      *)
(* descriptor, in the hand of the feeding thread, in the queue, dropped)   *)
(* partition the ids posted; each place holds its ids in rising order, and *)
(* what is ahead of the queue on either way out is older than what is in   *)
(* it.  Moving the head of a place to the end of the next keeps this.      *)
(***************************************************************************)
EXTENDS EventBuffer, SequenceTheorems, TLAPS

Before(s, t) == \A x \in Ids(s), y \in Ids(t) : x < y

(* Every place is in order, and so are the two ways out of the queue. *)
Order ==
    /\ Rising(got) /\ Rising(read) /\ Rising(fd) /\ Rising(hand) /\ Rising(events)
    /\ Before(got, events)
    /\ Before(read, fd) /\ Before(read, hand) /\ Before(read, events)
    /\ Before(fd, hand) /\ Before(fd, events) /\ Before(hand, events)

Held == Ids(got) \cup Ids(read) \cup Ids(fd) \cup Ids(hand) \cup Ids(events)

(* An event is in one place. *)
Partition ==
    /\ 1 .. posted = Held \cup dropped
    /\ Held \cap dropped = {}
    /\ Ids(got) \cap (Ids(read) \cup Ids(fd) \cup Ids(hand)) = {}

(* The feeding thread, pipe mode and the release. *)
FeedState ==
    /\ feed # "write" => hand = << >>
    /\ ending = "no" /\ ~pipe => feed = "none"

(* Reset() leaves more events in the statistics than in the queue. *)
StatsState ==
    /\ \A r \in Readers : rd[r] = "reset" => "reset" \in Calls
    /\ stats.on => stats.num >= Len(events)
    /\ stats.on /\ ending # "freed" /\ "reset" \notin Calls => stats.num = Len(events)

IInv ==
    /\ TypeOK
    /\ Order
    /\ Partition
    /\ FeedState
    /\ StatsState
    /\ NobodySleepsOnEvents

-----------------------------------------------------------------------------
(* Facts about sequences of ids *)

LEMMA IdsEmpty == Ids(<< >>) = {} /\ Rising(<< >>)
  BY DEF Ids, Rising

LEMMA IdsOne ==
    ASSUME NEW e \in Nat
    PROVE  Ids(<<e>>) = {e} /\ Rising(<<e>>)
  BY DEF Ids, Rising

LEMMA IdsConcat ==
    ASSUME NEW s \in Seq(Nat), NEW t \in Seq(Nat)
    PROVE  Ids(s \o t) = Ids(s) \cup Ids(t)
<1> DEFINE w == s \o t
<1>1. /\ w \in Seq(Nat) /\ Len(w) = Len(s) + Len(t)
      /\ \A i \in 1 .. Len(s) + Len(t) : w[i] = IF i <= Len(s) THEN s[i] ELSE t[i - Len(s)]
  BY ConcatProperties
<1> HIDE DEF w
<1>2. ASSUME NEW i \in DOMAIN w PROVE w[i] \in Ids(s) \cup Ids(t)
  <2>1. CASE i <= Len(s)
    <3>1. i \in DOMAIN s /\ w[i] = s[i]
      BY <1>1, <2>1
    <3> QED
      BY <3>1 DEF Ids
  <2>2. CASE ~(i <= Len(s))
    <3>1. i - Len(s) \in DOMAIN t /\ w[i] = t[i - Len(s)]
      BY <1>1, <2>2
    <3> QED
      BY <3>1 DEF Ids
  <2> QED
    BY <2>1, <2>2
<1>3. ASSUME NEW i \in DOMAIN s PROVE s[i] \in Ids(w)
  <2>1. i \in DOMAIN w /\ w[i] = s[i]
    BY <1>1
  <2> QED
    BY <2>1 DEF Ids
<1>4. ASSUME NEW i \in DOMAIN t PROVE t[i] \in Ids(w)
  <2>1. i \in 1 .. Len(t) /\ Len(s) \in Nat /\ Len(t) \in Nat
    OBVIOUS
  <2>2. Len(s) + i \in 1 .. Len(s) + Len(t) /\ ~(Len(s) + i <= Len(s)) /\ Len(s) + i - Len(s) = i
    BY <2>1
  <2>3. DOMAIN w = 1 .. Len(s) + Len(t)
    BY <1>1, LenProperties
  <2>4. w[Len(s) + i] = t[Len(s) + i - Len(s)]
    BY <1>1, <2>2
  <2>5. Len(s) + i \in DOMAIN w /\ w[Len(s) + i] = t[i]
    BY <2>2, <2>3, <2>4
  <2> QED
    BY <2>5 DEF Ids
<1> QED
  BY <1>2, <1>3, <1>4 DEF Ids, w

LEMMA RisingConcat ==
    ASSUME NEW s \in Seq(Nat), NEW t \in Seq(Nat), Rising(s), Rising(t), Before(s, t)
    PROVE  Rising(s \o t)
<1> DEFINE w == s \o t
<1>1. /\ w \in Seq(Nat) /\ Len(w) = Len(s) + Len(t)
      /\ \A i \in 1 .. Len(s) + Len(t) : w[i] = IF i <= Len(s) THEN s[i] ELSE t[i - Len(s)]
  BY ConcatProperties
<1> HIDE DEF w
<1> SUFFICES ASSUME NEW i \in DOMAIN w, NEW j \in DOMAIN w, i < j PROVE w[i] < w[j]
  BY DEF Rising, w
<1>2. CASE j <= Len(s)
  <2>1. i \in DOMAIN s /\ j \in DOMAIN s /\ w[i] = s[i] /\ w[j] = s[j]
    BY <1>1, <1>2
  <2> QED
    BY <2>1 DEF Rising
<1>3. CASE i <= Len(s) /\ ~(j <= Len(s))
  <2>1. w[i] \in Ids(s) /\ w[j] \in Ids(t)
    <3>1. j - Len(s) \in DOMAIN t /\ w[j] = t[j - Len(s)] /\ i \in DOMAIN s /\ w[i] = s[i]
      BY <1>1, <1>3
    <3> QED
      BY <3>1 DEF Ids
  <2> QED
    BY <2>1 DEF Before
<1>4. CASE ~(i <= Len(s)) /\ ~(j <= Len(s))
  <2>1. /\ j - Len(s) \in DOMAIN t /\ w[j] = t[j - Len(s)]
        /\ i - Len(s) \in DOMAIN t /\ w[i] = t[i - Len(s)]
        /\ i - Len(s) < j - Len(s)
    BY <1>1, <1>4
  <2> QED
    BY <2>1 DEF Rising
<1> QED
  BY <1>1, <1>2, <1>3, <1>4

(* No element twice: what rises is injective, and so is a concatenation of *)
(* disjoint sequences.                                                     *)
Injective(s) == \A i, j \in DOMAIN s : s[i] = s[j] => i = j

LEMMA RisingInjective ==
    ASSUME NEW s \in Seq(Nat), Rising(s)
    PROVE  Injective(s)
<1> SUFFICES ASSUME NEW i \in DOMAIN s, NEW j \in DOMAIN s, s[i] = s[j] PROVE i = j
  BY DEF Injective
<1>1. s[i] \in Nat /\ i \in Nat /\ j \in Nat
  OBVIOUS
<1>2. ~(i < j) /\ ~(j < i)
  BY <1>1 DEF Rising
<1> QED
  BY <1>1, <1>2

LEMMA InjectiveConcat ==
    ASSUME NEW s \in Seq(Nat), NEW t \in Seq(Nat), Injective(s), Injective(t),
           Ids(s) \cap Ids(t) = {}
    PROVE  Injective(s \o t)
<1> DEFINE w == s \o t
<1>1. /\ w \in Seq(Nat) /\ Len(w) = Len(s) + Len(t)
      /\ \A i \in 1 .. Len(s) + Len(t) : w[i] = IF i <= Len(s) THEN s[i] ELSE t[i - Len(s)]
  BY ConcatProperties
<1> HIDE DEF w
<1> SUFFICES ASSUME NEW i \in DOMAIN w, NEW j \in DOMAIN w, w[i] = w[j] PROVE i = j
  BY DEF Injective, w
<1>2. ASSUME NEW k \in DOMAIN w
      PROVE  \/ k \in DOMAIN s /\ w[k] = s[k] /\ w[k] \in Ids(s)
             \/ k - Len(s) \in DOMAIN t /\ w[k] = t[k - Len(s)] /\ w[k] \in Ids(t)
  <2>1. CASE k <= Len(s)
    <3>1. k \in DOMAIN s /\ w[k] = s[k]
      BY <1>1, <2>1
    <3> QED
      BY <3>1 DEF Ids
  <2>2. CASE ~(k <= Len(s))
    <3>1. k - Len(s) \in DOMAIN t /\ w[k] = t[k - Len(s)]
      BY <1>1, <2>2
    <3> QED
      BY <3>1 DEF Ids
  <2> QED
    BY <2>1, <2>2
<1>3. CASE i \in DOMAIN s /\ w[i] = s[i] /\ w[i] \in Ids(s)
  BY <1>2, <1>3 DEF Injective
<1>4. CASE i - Len(s) \in DOMAIN t /\ w[i] = t[i - Len(s)] /\ w[i] \in Ids(t)
  <2>1. j - Len(s) \in DOMAIN t /\ w[j] = t[j - Len(s)]
    BY <1>2, <1>4
  <2>2. i - Len(s) = j - Len(s)
    BY <1>4, <2>1 DEF Injective
  <2>3. i \in Int /\ j \in Int /\ Len(s) \in Int
    BY <1>1
  <2> QED
    BY <2>2, <2>3
<1> QED
  BY <1>2, <1>3, <1>4

LEMMA BeforeDisjoint ==
    ASSUME NEW s \in Seq(Nat), NEW t \in Seq(Nat), Before(s, t)
    PROVE  Ids(s) \cap Ids(t) = {}
<1>1. Ids(s) \subseteq Nat
  BY DEF Ids
<1>2. \A x \in Ids(s) : ~ (x < x)
  BY <1>1
<1> QED
  BY <1>2 DEF Before

(* The head of a place leaves it. *)
LEMMA TakeHead ==
    ASSUME NEW s \in Seq(Nat), s # << >>, Rising(s)
    PROVE  /\ Head(s) \in Nat /\ Tail(s) \in Seq(Nat) /\ Rising(Tail(s))
           /\ Len(Tail(s)) = Len(s) - 1 /\ Len(s) > 0
           /\ Ids(s) = Ids(Tail(s)) \cup {Head(s)}
           /\ \A x \in Ids(Tail(s)) : Head(s) < x
<1> DEFINE w == Tail(s)
<1>1. /\ Len(s) \in Nat /\ Len(s) > 0 /\ Head(s) = s[1] /\ s[1] \in Nat
      /\ w \in Seq(Nat) /\ Len(w) = Len(s) - 1 /\ \A i \in 1 .. Len(s) - 1 : w[i] = s[i + 1]
  BY HeadTailProperties, EmptySeq
<1> HIDE DEF w
<1>2. Rising(w)
  <2> SUFFICES ASSUME NEW i \in DOMAIN w, NEW j \in DOMAIN w, i < j PROVE w[i] < w[j]
    BY DEF Rising
  <2>1. DOMAIN w = 1 .. Len(s) - 1 /\ DOMAIN s = 1 .. Len(s)
    BY <1>1, LenProperties
  <2>2. i + 1 \in DOMAIN s /\ j + 1 \in DOMAIN s /\ i + 1 < j + 1
    <3>1. Len(s) \in Int /\ i \in 1 .. Len(s) - 1 /\ j \in 1 .. Len(s) - 1
      BY <1>1, <2>1
    <3>2. i + 1 \in 1 .. Len(s) /\ j + 1 \in 1 .. Len(s)
      BY <3>1
    <3> QED
      BY <2>1, <3>1, <3>2
  <2>3. w[i] = s[i + 1] /\ w[j] = s[j + 1]
    BY <1>1, <2>1
  <2> QED
    BY <2>2, <2>3 DEF Rising
<1>3. ASSUME NEW i \in DOMAIN w PROVE Head(s) < w[i] /\ w[i] \in Ids(s)
  <2>1. i + 1 \in DOMAIN s /\ w[i] = s[i + 1] /\ 1 \in DOMAIN s /\ 1 < i + 1
    BY <1>1
  <2> QED
    BY <1>1, <2>1 DEF Rising, Ids
<1>4. ASSUME NEW i \in DOMAIN s PROVE s[i] \in Ids(w) \cup {Head(s)}
  <2>1. CASE i = 1
    BY <1>1, <2>1
  <2>2. CASE i # 1
    <3>1. i - 1 \in DOMAIN w /\ w[i - 1] = s[i]
      BY <1>1, <2>2
    <3> QED
      BY <3>1 DEF Ids
  <2> QED
    BY <2>1, <2>2
<1>5. Head(s) \in Ids(s)
  BY <1>1 DEF Ids
<1>6. Ids(s) = Ids(w) \cup {Head(s)}
  BY <1>3, <1>4, <1>5 DEF Ids
<1>7. \A x \in Ids(w) : Head(s) < x
  BY <1>3 DEF Ids
<1> QED
  BY <1>1, <1>2, <1>6, <1>7 DEF w

(* An element is put behind a place. *)
LEMMA PutBehind ==
    ASSUME NEW s \in Seq(Nat), NEW e \in Nat, Rising(s), \A x \in Ids(s) : x < e
    PROVE  /\ Append(s, e) \in Seq(Nat) /\ Rising(Append(s, e))
           /\ Ids(Append(s, e)) = Ids(s) \cup {e}
           /\ Len(Append(s, e)) = Len(s) + 1
<1>1. Append(s, e) = s \o <<e>> /\ <<e>> \in Seq(Nat)
  BY AppendIsConcat
<1>2. Ids(<<e>>) = {e} /\ Rising(<<e>>)
  BY IdsOne
<1>3. Before(s, <<e>>)
  BY <1>2 DEF Before
<1>4. Rising(s \o <<e>>)
  BY <1>1, <1>2, <1>3, RisingConcat
<1>5. Ids(s \o <<e>>) = Ids(s) \cup {e}
  BY <1>1, <1>2, IdsConcat
<1> QED
  BY <1>1, <1>4, <1>5, AppendProperties

(* A sequence of naturals is one of the ids it holds. *)
LEMMA IdsType ==
    ASSUME NEW n \in Nat, NEW s \in Seq(Nat), Ids(s) \subseteq 1 .. n
    PROVE  s \in Seq(1 .. n)
<1>1. s \in [1 .. Len(s) -> 1 .. n] /\ Len(s) \in Nat
  BY LenProperties DEF Ids
<1> QED
  BY <1>1, SeqDef

LEMMA TypeIds ==
    ASSUME NEW n \in Nat, NEW s \in Seq(1 .. n)
    PROVE  s \in Seq(Nat) /\ Ids(s) \subseteq 1 .. n
<1>1. 1 .. n \subseteq Nat
  OBVIOUS
<1> QED
  BY <1>1, SeqMonotonic, ElementOfSeq, LenProperties DEF Ids

-----------------------------------------------------------------------------
(* TypeOK in three parts: places, events and the rest. *)
Places ==
    /\ got \in Seq(Nat) /\ read \in Seq(Nat) /\ fd \in Seq(Nat) /\ hand \in Seq(Nat)
    /\ events \in Seq(Nat)

Rest ==
    /\ setup \in Setups
    /\ posted \in 0..MaxEvents
    /\ Len(hand) <= 1 /\ Len(fd) <= Capacity
    /\ universal \subseteq 1..posted
    /\ pipe \in BOOLEAN
    /\ feed \in {"none", "run", "write", "wait", "end"}
    /\ stats \in [on : BOOLEAN, num : Nat]
    /\ rd \in [Readers -> {"idle", "get", "reset", "woken"} \cup Waits \cup Waiting]
    /\ roused \subseteq Readers
    /\ ending \in {"no", "join", "detach", "free", "freed"}

LEMMA TypeParts ==
    ASSUME TypeOK
    PROVE  /\ Places /\ Rest /\ posted \in Nat
           /\ Held \cup dropped \subseteq 1 .. posted
<1>1. posted \in Nat
  BY EventBufferAssumption DEF TypeOK
<1>2. Rest
  BY DEF TypeOK, Rest
<1>3. Places /\ Held \subseteq 1 .. posted
  BY <1>1, TypeIds DEF TypeOK, Places, Held
<1> QED
  BY <1>1, <1>2, <1>3 DEF TypeOK

LEMMA PartsType == Places /\ Rest /\ Partition => TypeOK
<1> SUFFICES ASSUME Places, Rest, Partition PROVE TypeOK
  OBVIOUS
<1>1. posted \in Nat
  BY EventBufferAssumption DEF Rest
<1>2. /\ got \in Seq(1 .. posted) /\ read \in Seq(1 .. posted) /\ fd \in Seq(1 .. posted)
      /\ hand \in Seq(1 .. posted) /\ events \in Seq(1 .. posted)
  BY <1>1, IdsType DEF Places, Partition, Held
<1> QED
  BY <1>2 DEF Rest, TypeOK, Partition

LEMMA PartsTypeNext == Places' /\ Rest' /\ Partition' => TypeOK'
  BY PartsType, PTL

(* Steps that move no event. *)
LEMMA NothingMoves ==
    ASSUME IInv, UNCHANGED <<events, posted, dropped, hand, fd, got, read>>
    PROVE  Places' /\ Order' /\ Partition'
<1>1. Places
  BY TypeParts DEF IInv
<1> QED
  BY <1>1 DEF IInv, Places, Order, Partition, Held

LEMMA InitInv == Init => IInv
<1> SUFFICES ASSUME Init PROVE IInv
  OBVIOUS
<1>1. Ids(<< >>) = {} /\ Rising(<< >>) /\ << >> \in Seq(Nat) /\ Len(<< >>) = 0
  BY IdsEmpty
<1>2. Places /\ Order /\ Partition
  BY <1>1 DEF Init, Places, Order, Partition, Held, Before
<1>3. Rest
  <2>1. 0 \in 0 .. MaxEvents /\ 0 <= Capacity
    BY EventBufferAssumption
  <2>2. stats \in [on : BOOLEAN, num : Nat]
    BY DEF Init
  <2>3. rd \in [Readers -> {"idle", "get", "reset", "woken"} \cup Waits \cup Waiting]
    BY DEF Init
  <2>4. Len(hand) <= 1 /\ Len(fd) <= Capacity /\ posted \in 0 .. MaxEvents
    BY <1>1, <2>1 DEF Init
  <2>5. setup \in Setups /\ universal = {} /\ pipe = FALSE /\ feed = "none" /\ roused = {} /\ ending = "no"
    BY DEF Init
  <2> QED
    BY <2>2, <2>3, <2>4, <2>5 DEF Rest
<1>4. FeedState /\ StatsState /\ NobodySleepsOnEvents
  BY DEF Init, FeedState, StatsState, NobodySleepsOnEvents, Asleep, Waiting
<1> QED
  BY <1>2, <1>3, <1>4, PartsType DEF IInv

(* The next event is younger than all others. *)
LEMMA PostInv ==
    ASSUME IInv, NEW u \in BOOLEAN, Post(u)
    PROVE  IInv'
<1> DEFINE e == posted + 1
<1>1. /\ ending \in {"no", "join", "detach"} /\ posted < MaxEvents
      /\ posted' = e /\ events' = Append(events, e)
      /\ universal' = IF u THEN universal \cup {e} ELSE universal
      /\ stats' = IF stats.on THEN [stats EXCEPT !.num = @ + 1] ELSE stats
      /\ rd' = [r \in Readers |-> IF r \in Asleep THEN "woken" ELSE rd[r]]
      /\ feed' = IF feed = "wait" THEN "run" ELSE feed
      /\ UNCHANGED <<setup, dropped, pipe, hand, fd, got, read, roused, ending>>
  BY DEF Post, AddItem, Append1, Count, WakeReaders, Woken, WakeFeed
<1>2. Places /\ Rest /\ posted \in Nat /\ Held \cup dropped \subseteq 1 .. posted
  BY TypeParts DEF IInv
<1>3. /\ e \in Nat /\ 1 .. e = 1 .. posted \cup {e} /\ \A x \in 1 .. posted : x < e
  BY <1>2
<1>4. /\ events' \in Seq(Nat) /\ Rising(events') /\ Ids(events') = Ids(events) \cup {e}
      /\ Len(events') = Len(events) + 1
  BY <1>1, <1>2, <1>3, PutBehind DEF Places, Held, IInv, Order
<1>5. Places'
  BY <1>1, <1>2, <1>4 DEF Places
<1>6. Order'
  BY <1>1, <1>2, <1>3, <1>4 DEF IInv, Order, Before, Held
<1>7. Partition'
  BY <1>1, <1>2, <1>3, <1>4 DEF IInv, Partition, Held
<1>8. Rest'
  <2>1. e \in 0 .. MaxEvents /\ universal' \subseteq 1 .. e
    BY <1>1, <1>2, <1>3, EventBufferAssumption DEF Rest
  <2>2. stats' \in [on : BOOLEAN, num : Nat]
    BY <1>1, <1>2 DEF Rest
  <2>3. rd' \in [Readers -> {"idle", "get", "reset", "woken"} \cup Waits \cup Waiting]
    BY <1>1, <1>2 DEF Rest
  <2> QED
    BY <1>1, <1>2, <2>1, <2>2, <2>3 DEF Rest
<1>9. FeedState'
  BY <1>1 DEF IInv, FeedState
<1>10. StatsState'
  <2>1. \A r \in Readers : rd'[r] = "reset" => rd[r] = "reset"
    BY <1>1
  <2>2. Len(events) \in Nat /\ stats \in [on : BOOLEAN, num : Nat]
    BY <1>2 DEF Places, Rest
  <2> QED
    BY <1>1, <1>4, <2>1, <2>2 DEF IInv, StatsState, Calls
<1>11. NobodySleepsOnEvents'
  <2>1. Asleep' = {}
    BY <1>1, <1>2 DEF Asleep, Waiting, Rest
  <2> QED
    BY <1>1, <2>1 DEF NobodySleepsOnEvents
<1> QED
  BY <1>5, <1>6, <1>7, <1>8, <1>9, <1>10, <1>11, PartsTypeNext DEF IInv

LEMMA PostFilteredInv ==
    ASSUME IInv, PostFiltered
    PROVE  IInv'
<1>1. /\ posted < MaxEvents /\ posted' = posted + 1 /\ dropped' = dropped \cup {posted + 1}
      /\ UNCHANGED <<setup, events, universal, pipe, feed, hand, fd, got, read, stats, rd,
                     roused, ending>>
  BY DEF PostFiltered, feeding
<1>2. Places /\ Rest /\ posted \in Nat /\ Held \cup dropped \subseteq 1 .. posted
  BY TypeParts DEF IInv
<1>3. 1 .. posted + 1 = 1 .. posted \cup {posted + 1} /\ posted + 1 \notin 1 .. posted
  BY <1>2
<1>4. Places' /\ Order'
  BY <1>1, <1>2 DEF IInv, Places, Order
<1>5. Partition'
  BY <1>1, <1>2, <1>3 DEF IInv, Partition, Held
<1>6. Rest'
  BY <1>1, <1>2, <1>3, EventBufferAssumption DEF Rest
<1>7. FeedState' /\ StatsState' /\ NobodySleepsOnEvents'
  BY <1>1 DEF IInv, FeedState, StatsState, NobodySleepsOnEvents, Asleep, Calls
<1> QED
  BY <1>4, <1>5, <1>6, <1>7, PartsTypeNext DEF IInv

-----------------------------------------------------------------------------
(* Calls of the application *)

LEMMA BeginInv ==
    ASSUME IInv, NEW r \in Readers, NEW call \in Calls, Begin(r, call)
    PROVE  IInv'
<1>1. /\ call \in {"get", "reset"} \cup Waits
      /\ rd' = [rd EXCEPT ![r] = call]
      /\ UNCHANGED <<setup, events, posted, universal, dropped, pipe, feed, hand, fd, got,
                     read, stats, roused, ending>>
  BY DEF Begin, feeding
<1>2. Places' /\ Order' /\ Partition'
  BY <1>1, NothingMoves
<1>3. Rest
  BY TypeParts DEF IInv
<1>4. Rest'
  BY <1>1, <1>3 DEF Rest
<1>5. FeedState' /\ StatsState'
  BY <1>1, <1>3 DEF IInv, FeedState, StatsState, Calls, Rest, Waits
<1>6. Asleep' \subseteq Asleep
  BY <1>1, <1>3 DEF Asleep, Waiting, Waits, Rest
<1>7. NobodySleepsOnEvents'
  BY <1>1, <1>6 DEF IInv, NobodySleepsOnEvents
<1> QED
  BY <1>2, <1>4, <1>5, <1>7, PartsTypeNext DEF IInv

(* The part of a call's return that all calls share. *)
LEMMA ReturnFacts ==
    ASSUME IInv, NEW r \in Readers, Return(r)
    PROVE  /\ rd' \in [Readers -> {"idle", "get", "reset", "woken"} \cup Waits \cup Waiting]
           /\ roused' \subseteq Readers
           /\ Asleep' \subseteq Asleep
           /\ \A q \in Readers : rd'[q] = "reset" => rd[q] = "reset"
  BY DEF IInv, TypeOK, Return, Asleep, Waiting

LEMMA GetEventInv ==
    ASSUME IInv, NEW r \in Readers, GetEvent(r)
    PROVE  IInv'
<1>1. /\ Return(r)
      /\ UNCHANGED <<setup, posted, universal, dropped, pipe, feed, hand, fd, read, ending>>
  BY DEF GetEvent, feeding
<1>2. Places /\ Rest /\ posted \in Nat
  BY TypeParts DEF IInv
<1>3. CASE events = << >>
  <2>1. UNCHANGED <<events, got, stats>>
    BY <1>3 DEF GetEvent
  <2>2. Places' /\ Order' /\ Partition'
    BY <1>1, <2>1, NothingMoves
  <2>3. Rest' /\ FeedState' /\ StatsState' /\ NobodySleepsOnEvents'
    BY <1>1, <1>2, <2>1, ReturnFacts
    DEF IInv, Rest, FeedState, StatsState, NobodySleepsOnEvents, Calls
  <2> QED
    BY <2>2, <2>3, PartsTypeNext DEF IInv
<1>4. CASE events # << >>
  <2> DEFINE e == Head(events)
  <2>1. /\ got' = Append(got, e) /\ events' = Tail(events)
        /\ stats' = IF stats.on THEN [stats EXCEPT !.num = @ + (-1)] ELSE stats
    BY <1>4 DEF GetEvent, Untaken, Count
  <2>2. /\ e \in Nat /\ Tail(events) \in Seq(Nat) /\ Rising(Tail(events))
        /\ Len(Tail(events)) = Len(events) - 1 /\ Len(events) > 0
        /\ Ids(events) = Ids(Tail(events)) \cup {e}
        /\ \A x \in Ids(Tail(events)) : e < x
    BY <1>2, <1>4, TakeHead DEF IInv, Places, Order
  <2> HIDE DEF e
  <2>3. \A x \in Ids(got) : x < e
    BY <2>2 DEF IInv, Order, Before
  <2>4. /\ Append(got, e) \in Seq(Nat) /\ Rising(Append(got, e))
        /\ Ids(Append(got, e)) = Ids(got) \cup {e}
    BY <1>2, <2>2, <2>3, PutBehind DEF IInv, Places, Order
  <2>5. e \notin Ids(read) \cup Ids(fd) \cup Ids(hand)
    <3>1. e \in Ids(events) /\ ~(e < e)
      BY <2>2
    <3> QED
      BY <3>1 DEF IInv, Order, Before
  <2>6. Places'
    BY <1>1, <1>2, <2>1, <2>2, <2>4 DEF Places
  <2>7. Order'
    BY <1>1, <2>1, <2>2, <2>4 DEF IInv, Order, Before
  <2>8. Partition'
    BY <1>1, <2>1, <2>2, <2>4, <2>5 DEF IInv, Partition, Held
  <2>9. stats' \in [on : BOOLEAN, num : Nat]
    <3>1. stats.on => stats.num >= Len(events) /\ Len(events) \in Nat
      BY <1>2 DEF IInv, StatsState, Places
    <3>2. CASE stats.on
      <4>1. stats.num + (-1) \in Nat
        BY <1>2, <2>2, <3>1, <3>2 DEF Rest
      <4> QED
        BY <1>2, <2>1, <3>2, <4>1 DEF Rest
    <3> QED
      BY <1>2, <2>1, <3>2 DEF Rest
  <2>10. Rest'
    BY <1>1, <1>2, <2>9, ReturnFacts DEF Rest
  <2>11. StatsState'
    <3>1. Len(events) \in Nat /\ stats \in [on : BOOLEAN, num : Nat]
      BY <1>2 DEF Places, Rest
    <3> QED
      BY <1>1, <2>1, <2>2, <3>1, ReturnFacts DEF IInv, StatsState, Calls
  <2>12. FeedState' /\ NobodySleepsOnEvents'
    BY <1>1, <1>4, ReturnFacts DEF IInv, FeedState, NobodySleepsOnEvents
  <2> QED
    BY <2>6, <2>7, <2>8, <2>10, <2>11, <2>12, PartsTypeNext DEF IInv
<1> QED
  BY <1>3, <1>4

LEMMA ResetInv ==
    ASSUME IInv, NEW r \in Readers, Reset(r)
    PROVE  IInv'
<1>1. /\ rd[r] = "reset" /\ Return(r)
      /\ dropped' = dropped \cup Ids(events) /\ events' = << >>
      /\ UNCHANGED <<setup, posted, universal, pipe, feed, hand, fd, got, read, stats, ending>>
  BY DEF Reset, feeding
<1>2. Places /\ Rest /\ posted \in Nat
  BY TypeParts DEF IInv
<1>3. Ids(<< >>) = {} /\ Rising(<< >>) /\ << >> \in Seq(Nat) /\ Len(<< >>) = 0
  BY IdsEmpty
<1>4. Places' /\ Order'
  BY <1>1, <1>2, <1>3 DEF IInv, Places, Order, Before
<1>5. Partition'
  <2>1. Ids(events) \cap (Ids(got) \cup Ids(read) \cup Ids(fd) \cup Ids(hand)) = {}
    <3>1. Ids(events) \subseteq Nat
      BY <1>2, TypeParts DEF IInv, Held
    <3> QED
      BY <3>1 DEF IInv, Order, Before
  <2> QED
    BY <1>1, <1>3, <2>1 DEF IInv, Partition, Held
<1>6. Rest' /\ FeedState'
  BY <1>1, <1>2, ReturnFacts DEF IInv, Rest, FeedState
<1>7. StatsState'
  BY <1>1, <1>2, <1>3, ReturnFacts DEF IInv, StatsState, Calls, Rest
<1>8. NobodySleepsOnEvents'
  BY <1>1, ReturnFacts DEF IInv, NobodySleepsOnEvents
<1> QED
  BY <1>4, <1>5, <1>6, <1>7, <1>8, PartsTypeNext DEF IInv

LEMMA WaitForEventInv ==
    ASSUME IInv, NEW r \in Readers, WaitForEvent(r)
    PROVE  IInv'
<1>1. /\ rd[r] \in Waits
      /\ UNCHANGED <<setup, events, posted, universal, dropped, pipe, feed, hand, fd, got,
                     read, stats, ending>>
  BY DEF WaitForEvent, feeding
<1>2. Places' /\ Order' /\ Partition'
  BY <1>1, NothingMoves
<1>3. Rest
  BY TypeParts DEF IInv
<1>4. CASE events # << >>
  <2>1. Return(r)
    BY <1>4 DEF WaitForEvent
  <2>2. Rest' /\ FeedState' /\ StatsState' /\ NobodySleepsOnEvents'
    BY <1>1, <1>3, <2>1, ReturnFacts
    DEF IInv, Rest, FeedState, StatsState, NobodySleepsOnEvents, Calls
  <2> QED
    BY <1>2, <2>2, PartsTypeNext DEF IInv
<1>5. CASE events = << >>
  <2>1. /\ rd' = [rd EXCEPT ![r] = IF rd[r] = "wait" THEN "waiting" ELSE "timedwaiting"]
        /\ roused' = roused
    BY <1>5 DEF WaitForEvent
  <2>2. /\ rd' \in [Readers -> {"idle", "get", "reset", "woken"} \cup Waits \cup Waiting]
        /\ \A q \in Readers : rd'[q] = "reset" => rd[q] = "reset"
    BY <1>3, <2>1 DEF Rest, Waiting
  <2>3. Rest' /\ FeedState' /\ StatsState'
    BY <1>1, <1>3, <2>1, <2>2 DEF IInv, Rest, FeedState, StatsState, Calls
  <2>4. NobodySleepsOnEvents'
    BY <1>1, <1>5 DEF IInv, NobodySleepsOnEvents
  <2> QED
    BY <1>2, <2>3, <2>4, PartsTypeNext DEF IInv
<1> QED
  BY <1>4, <1>5

LEMMA WaitReturnsInv ==
    ASSUME IInv, NEW r \in Readers, WaitReturns(r)
    PROVE  IInv'
<1>1. /\ Return(r)
      /\ UNCHANGED <<setup, events, posted, universal, dropped, pipe, feed, hand, fd, got,
                     read, stats, ending>>
  BY DEF WaitReturns, feeding
<1>2. Places' /\ Order' /\ Partition'
  BY <1>1, NothingMoves
<1>3. Rest
  BY TypeParts DEF IInv
<1>4. Rest' /\ FeedState' /\ StatsState' /\ NobodySleepsOnEvents'
  BY <1>1, <1>3, ReturnFacts
  DEF IInv, Rest, FeedState, StatsState, NobodySleepsOnEvents, Calls
<1> QED
  BY <1>2, <1>4, PartsTypeNext DEF IInv

(* After a broadcast nobody is asleep. *)
LEMMA WakeFacts ==
    ASSUME IInv, WakeReaders
    PROVE  /\ rd' \in [Readers -> {"idle", "get", "reset", "woken"} \cup Waits \cup Waiting]
           /\ Asleep' = {}
           /\ \A q \in Readers : rd'[q] = "reset" => rd[q] = "reset"
  BY DEF IInv, TypeOK, WakeReaders, Woken, Asleep, Waiting

LEMMA WakeUpInv ==
    ASSUME IInv, WakeUp
    PROVE  IInv'
<1>1. /\ WakeReaders /\ roused' = roused \cup Asleep
      /\ UNCHANGED <<setup, events, posted, universal, dropped, pipe, feed, hand, fd, got,
                     read, stats, ending>>
  BY DEF WakeUp, feeding
<1>2. Places' /\ Order' /\ Partition'
  BY <1>1, NothingMoves
<1>3. Rest /\ Asleep \subseteq Readers
  BY TypeParts DEF IInv, Asleep
<1>4. Rest' /\ FeedState' /\ StatsState' /\ NobodySleepsOnEvents'
  BY <1>1, <1>3, WakeFacts
  DEF IInv, Rest, FeedState, StatsState, NobodySleepsOnEvents, Calls
<1> QED
  BY <1>2, <1>4, PartsTypeNext DEF IInv

LEMMA CreateFileDescriptorInv ==
    ASSUME IInv, CreateFileDescriptor
    PROVE  IInv'
<1>1. /\ WakeReaders /\ pipe' = TRUE /\ feed' = "run" /\ ending = "no" /\ ~pipe
      /\ UNCHANGED <<setup, events, posted, universal, dropped, hand, fd, got, read, stats,
                     roused, ending>>
  BY DEF CreateFileDescriptor
<1>2. Places' /\ Order' /\ Partition'
  BY <1>1, NothingMoves
<1>3. Rest
  BY TypeParts DEF IInv
<1>4. Rest' /\ StatsState' /\ NobodySleepsOnEvents'
  BY <1>1, <1>3, WakeFacts DEF IInv, Rest, StatsState, NobodySleepsOnEvents, Calls
<1>5. FeedState'
  BY <1>1 DEF IInv, FeedState
<1> QED
  BY <1>2, <1>4, <1>5, PartsTypeNext DEF IInv

LEMMA EnableStatisticsInv ==
    ASSUME IInv, NEW on \in BOOLEAN, EnableStatistics(on)
    PROVE  IInv'
<1>1. /\ stats' = [on |-> on, num |-> IF on THEN Len(events) ELSE 0]
      /\ UNCHANGED <<setup, events, posted, universal, dropped, pipe, feed, hand, fd, got,
                     read, rd, roused, ending>>
  BY DEF EnableStatistics, feeding
<1>2. Places' /\ Order' /\ Partition'
  BY <1>1, NothingMoves
<1>3. Rest /\ Len(events) \in Nat
  BY TypeParts DEF IInv, Places
<1>4. Rest' /\ FeedState' /\ StatsState' /\ NobodySleepsOnEvents'
  BY <1>1, <1>3
  DEF IInv, Rest, FeedState, StatsState, NobodySleepsOnEvents, Calls, Asleep
<1> QED
  BY <1>2, <1>4, PartsTypeNext DEF IInv

LEMMA ReadDescriptorInv ==
    ASSUME IInv, ReadDescriptor
    PROVE  IInv'
<1> DEFINE e == Head(fd)
<1>1. /\ fd # << >> /\ read' = Append(read, e) /\ fd' = Tail(fd)
      /\ UNCHANGED <<setup, events, posted, universal, dropped, pipe, feed, hand, got,
                     stats, rd, roused, ending>>
  BY DEF ReadDescriptor
<1>2. Places /\ Rest
  BY TypeParts DEF IInv
<1>3. /\ e \in Nat /\ Tail(fd) \in Seq(Nat) /\ Rising(Tail(fd))
      /\ Len(Tail(fd)) = Len(fd) - 1 /\ Len(fd) > 0
      /\ Ids(fd) = Ids(Tail(fd)) \cup {e}
      /\ \A x \in Ids(Tail(fd)) : e < x
  BY <1>1, <1>2, TakeHead DEF IInv, Places, Order
<1> HIDE DEF e
<1>4. \A x \in Ids(read) : x < e
  BY <1>3 DEF IInv, Order, Before
<1>5. /\ Append(read, e) \in Seq(Nat) /\ Rising(Append(read, e))
      /\ Ids(Append(read, e)) = Ids(read) \cup {e}
  BY <1>2, <1>3, <1>4, PutBehind DEF IInv, Places, Order
<1>6. Places'
  BY <1>1, <1>2, <1>3, <1>5 DEF Places
<1>7. Order'
  BY <1>1, <1>3, <1>5 DEF IInv, Order, Before
<1>8. Partition'
  BY <1>1, <1>3, <1>5 DEF IInv, Partition, Held
<1>9. Rest'
  <2>1. Len(fd') <= Capacity
    BY <1>1, <1>2, <1>3, EventBufferAssumption DEF Places, Rest
  <2> QED
    BY <1>1, <1>2, <2>1 DEF Rest
<1>10. FeedState' /\ StatsState' /\ NobodySleepsOnEvents'
  BY <1>1 DEF IInv, FeedState, StatsState, NobodySleepsOnEvents, Calls, Asleep
<1> QED
  BY <1>6, <1>7, <1>8, <1>9, <1>10, PartsTypeNext DEF IInv

-----------------------------------------------------------------------------
(* The feeding thread *)

LEMMA FeedTakeInv ==
    ASSUME IInv, FeedTake
    PROVE  IInv'
<1> DEFINE e == Head(events)
<1>1. /\ feed = "run" /\ pipe /\ events # << >> /\ events' = Tail(events)
      /\ stats' = IF stats.on THEN [stats EXCEPT !.num = @ + (-1)] ELSE stats
      /\ UNCHANGED <<setup, posted, universal, pipe, fd, got, read, rd, roused, ending>>
  BY DEF FeedTake, Untaken, Count
<1>2. \/ dropped' = dropped \cup {e} /\ UNCHANGED <<feed, hand>>
      \/ hand' = <<e>> /\ feed' = "write" /\ UNCHANGED dropped
  BY DEF FeedTake
<1>3. Places /\ Rest /\ hand = << >>
  BY <1>1, TypeParts DEF IInv, FeedState
<1>4. /\ e \in Nat /\ Tail(events) \in Seq(Nat) /\ Rising(Tail(events))
      /\ Len(Tail(events)) = Len(events) - 1 /\ Len(events) > 0
      /\ Ids(events) = Ids(Tail(events)) \cup {e}
      /\ \A x \in Ids(Tail(events)) : e < x
  BY <1>1, <1>3, TakeHead DEF IInv, Places, Order
<1> HIDE DEF e
<1>5. /\ \A x \in Ids(got) : x < e
      /\ \A x \in Ids(read) : x < e
      /\ \A x \in Ids(fd) : x < e
  BY <1>4 DEF IInv, Order, Before
<1>6. e \notin Ids(got) \cup Ids(read) \cup Ids(fd) \cup Ids(Tail(events)) \cup dropped
  <2>1. ~(e < e) /\ e \in Held
    BY <1>4 DEF Held
  <2> QED
    BY <1>4, <1>5, <2>1 DEF IInv, Partition
<1>7. Ids(<< >>) = {} /\ Rising(<< >>) /\ Ids(<<e>>) = {e} /\ Rising(<<e>>)
  BY <1>4, IdsEmpty, IdsOne
<1>8. Places' /\ Order' /\ Partition' /\ Len(hand') <= 1 /\ FeedState'
      /\ feed' \in {"run", "write"}
  <2>1. CASE dropped' = dropped \cup {e} /\ UNCHANGED <<feed, hand>>
    <3>1. Places' /\ Len(hand') <= 1 /\ FeedState' /\ feed' \in {"run", "write"}
      BY <1>1, <1>3, <1>4, <2>1 DEF IInv, Places, Rest, FeedState
    <3>2. Order'
      BY <1>1, <1>4, <2>1 DEF IInv, Order, Before
    <3>3. Partition'
      BY <1>1, <1>4, <1>6, <1>3, <1>7, <2>1 DEF IInv, Partition, Held
    <3> QED
      BY <3>1, <3>2, <3>3
  <2>2. CASE hand' = <<e>> /\ feed' = "write" /\ UNCHANGED dropped
    <3>1. <<e>> \in Seq(Nat) /\ Len(<<e>>) = 1
      BY <1>4
    <3>2. Places' /\ Len(hand') <= 1 /\ feed' \in {"run", "write"}
      BY <1>1, <1>3, <1>4, <2>2, <3>1 DEF Places
    <3>3. FeedState'
      BY <1>1, <2>2 DEF FeedState
    <3>4. Ids(hand') = {e} /\ Rising(hand')
      BY <1>7, <2>2
    <3>5. Order'
      BY <1>1, <1>4, <1>5, <3>4 DEF IInv, Order, Before
    <3>6. Partition'
      BY <1>1, <1>3, <1>4, <1>6, <1>7, <2>2, <3>4 DEF IInv, Partition, Held
    <3> QED
      BY <3>2, <3>3, <3>5, <3>6
  <2> QED
    BY <1>2, <2>1, <2>2
<1>9. stats' \in [on : BOOLEAN, num : Nat] /\ StatsState'
  <2>1. Len(events) \in Nat /\ stats \in [on : BOOLEAN, num : Nat]
    BY <1>3 DEF Places, Rest
  <2>2. CASE stats.on
    <3>1. stats.num >= Len(events)
      BY <2>2 DEF IInv, StatsState
    <3>2. stats.num - 1 \in Nat
      BY <1>4, <2>1, <3>1
    <3>3. stats' = [stats EXCEPT !.num = stats.num - 1]
      BY <1>1, <2>1, <2>2
    <3> QED
      BY <1>1, <1>4, <2>1, <3>2, <3>3 DEF IInv, StatsState, Calls
  <2>3. CASE ~stats.on
    BY <1>1, <2>1, <2>3 DEF IInv, StatsState, Calls
  <2> QED
    BY <2>2, <2>3
<1>10. Rest'
  BY <1>1, <1>3, <1>8, <1>9 DEF Rest
<1>11. NobodySleepsOnEvents'
  BY <1>1, <1>8 DEF IInv, NobodySleepsOnEvents, Asleep
<1> QED
  BY <1>8, <1>9, <1>10, <1>11, PartsTypeNext DEF IInv

LEMMA FeedWriteInv ==
    ASSUME IInv, FeedWrite
    PROVE  IInv'
<1>1. /\ feed = "write" /\ hand' = << >> /\ feed' = "run"
      /\ UNCHANGED <<setup, events, posted, universal, pipe, got, read, stats, rd, roused, ending>>
      /\ \/ Len(fd) < Capacity /\ fd' = fd \o hand /\ dropped' = dropped
         \/ fd' = fd /\ dropped' = dropped \cup Ids(hand)
  BY DEF FeedWrite, Written, WriteFails
<1>2. Places /\ Rest
  BY TypeParts DEF IInv
<1>3. Ids(<< >>) = {} /\ Rising(<< >>) /\ << >> \in Seq(Nat) /\ Len(<< >>) = 0
  BY IdsEmpty
<1>4. Ids(fd \o hand) = Ids(fd) \cup Ids(hand) /\ Rising(fd \o hand)
  BY <1>2, IdsConcat, RisingConcat DEF IInv, Places, Order
<1>5. fd \o hand \in Seq(Nat) /\ Len(fd \o hand) = Len(fd) + Len(hand)
  BY <1>2, ConcatProperties DEF Places
<1>6. Places' /\ Order'
  BY <1>1, <1>2, <1>3, <1>4, <1>5 DEF IInv, Places, Order, Before
<1>7. Partition'
  <2>1. CASE fd' = fd \o hand /\ dropped' = dropped
    BY <1>1, <1>3, <1>4, <2>1 DEF IInv, Partition, Held
  <2>2. CASE fd' = fd /\ dropped' = dropped \cup Ids(hand)
    <3>1. Ids(hand) \cap (Ids(got) \cup Ids(read) \cup Ids(fd) \cup Ids(events)) = {}
      BY <1>2, BeforeDisjoint DEF IInv, Places, Order, Partition
    <3> QED
      BY <1>1, <1>3, <2>2, <3>1 DEF IInv, Partition, Held
  <2> QED
    BY <1>1, <2>1, <2>2
<1>8. Rest'
  <2>1. Len(fd') <= Capacity
    BY <1>1, <1>2, <1>5, EventBufferAssumption DEF Places, Rest
  <2>2. Len(hand') <= 1
    BY <1>1, <1>3
  <2> QED
    BY <1>1, <1>2, <2>1, <2>2 DEF Rest
<1>9. FeedState' /\ StatsState' /\ NobodySleepsOnEvents'
  BY <1>1 DEF IInv, FeedState, StatsState, NobodySleepsOnEvents, Calls, Asleep
<1> QED
  BY <1>6, <1>7, <1>8, <1>9, PartsTypeNext DEF IInv

LEMMA FeedPauseInv ==
    ASSUME IInv, FeedWait \/ FeedEnd
    PROVE  IInv'
<1>1. /\ feed = "run"
      /\ \/ pipe /\ events = << >> /\ feed' = "wait"
         \/ ~pipe /\ feed' = "end"
      /\ UNCHANGED <<setup, events, posted, universal, dropped, pipe, hand, fd, got, read,
                     stats, rd, roused, ending>>
  BY DEF FeedWait, FeedEnd
<1>2. Places' /\ Order' /\ Partition'
  BY <1>1, NothingMoves
<1>3. Rest
  BY TypeParts DEF IInv
<1>4. Rest' /\ FeedState' /\ StatsState' /\ NobodySleepsOnEvents'
  BY <1>1, <1>3
  DEF IInv, Rest, FeedState, StatsState, NobodySleepsOnEvents, Calls, Asleep
<1> QED
  BY <1>2, <1>4, PartsTypeNext DEF IInv

-----------------------------------------------------------------------------
(* Release *)

LEMMA ReleaseInv ==
    ASSUME IInv, Release
    PROVE  IInv'
<1>1. /\ ending = "no" /\ pipe' = FALSE
      /\ feed' = IF feed = "wait" THEN "run" ELSE feed
      /\ ending' = IF pipe THEN "join" ELSE "detach"
      /\ \A r \in Readers : rd[r] = "idle"
      /\ UNCHANGED <<setup, events, posted, universal, dropped, hand, fd, got, read, stats,
                     rd, roused>>
  BY DEF Release, WakeFeed
<1>2. Places' /\ Order' /\ Partition'
  BY <1>1, NothingMoves
<1>3. Rest
  BY TypeParts DEF IInv
<1>4. Rest'
  BY <1>1, <1>3 DEF Rest
<1>5. FeedState' /\ StatsState'
  BY <1>1, <1>3 DEF IInv, FeedState, StatsState, Calls, Rest
<1>6. Asleep' = {}
  BY <1>1 DEF Asleep, Waiting
<1>7. NobodySleepsOnEvents'
  BY <1>1, <1>6 DEF NobodySleepsOnEvents
<1> QED
  BY <1>2, <1>4, <1>5, <1>7, PartsTypeNext DEF IInv

LEMMA JoinInv ==
    ASSUME IInv, Join
    PROVE  IInv'
<1>1. /\ ending = "join" /\ dropped' = dropped \cup Ids(fd) /\ fd' = << >>
      /\ ending' = "detach"
      /\ UNCHANGED <<setup, events, posted, universal, pipe, feed, hand, got, read, stats,
                     rd, roused>>
  BY DEF Join
<1>2. Places /\ Rest
  BY TypeParts DEF IInv
<1>3. Ids(<< >>) = {} /\ Rising(<< >>) /\ << >> \in Seq(Nat) /\ Len(<< >>) = 0
  BY IdsEmpty
<1>4. Places' /\ Order'
  BY <1>1, <1>2, <1>3 DEF IInv, Places, Order, Before
<1>5. Partition'
  <2>1. Ids(fd) \cap (Ids(got) \cup Ids(read) \cup Ids(hand) \cup Ids(events)) = {}
    <3>1. Ids(fd) \subseteq Nat
      BY <1>2, TypeParts DEF IInv, Held
    <3> QED
      BY <3>1 DEF IInv, Order, Before, Partition
  <2> QED
    BY <1>1, <1>3, <2>1 DEF IInv, Partition, Held
<1>6. Rest'
  <2>1. Len(fd') <= Capacity
    BY <1>1, <1>3, EventBufferAssumption
  <2> QED
    BY <1>1, <1>2, <2>1 DEF Rest
<1>7. FeedState' /\ StatsState' /\ NobodySleepsOnEvents'
  BY <1>1 DEF IInv, FeedState, StatsState, NobodySleepsOnEvents, Calls, Asleep
<1> QED
  BY <1>4, <1>5, <1>6, <1>7, PartsTypeNext DEF IInv

LEMMA DetachInv ==
    ASSUME IInv, Detach
    PROVE  IInv'
<1>1. /\ ending = "detach" /\ ending' = "free"
      /\ UNCHANGED <<setup, events, posted, universal, dropped, pipe, feed, hand, fd, got,
                     read, stats, rd, roused>>
  BY DEF Detach, feeding
<1>2. Places' /\ Order' /\ Partition'
  BY <1>1, NothingMoves
<1>3. Rest
  BY TypeParts DEF IInv
<1>4. Rest' /\ FeedState' /\ StatsState' /\ NobodySleepsOnEvents'
  BY <1>1, <1>3
  DEF IInv, Rest, FeedState, StatsState, NobodySleepsOnEvents, Calls, Asleep
<1> QED
  BY <1>2, <1>4, PartsTypeNext DEF IInv

LEMMA FreeInv ==
    ASSUME IInv, Free
    PROVE  IInv'
<1>1. /\ ending = "free" /\ ending' = "freed"
      /\ dropped' = dropped \cup Ids(events) /\ events' = << >>
      /\ UNCHANGED <<setup, posted, universal, pipe, feed, hand, fd, got, read, stats, rd,
                     roused>>
  BY DEF Free, feeding
<1>2. Places /\ Rest
  BY TypeParts DEF IInv
<1>3. Ids(<< >>) = {} /\ Rising(<< >>) /\ << >> \in Seq(Nat) /\ Len(<< >>) = 0
  BY IdsEmpty
<1>4. Places' /\ Order'
  BY <1>1, <1>2, <1>3 DEF IInv, Places, Order, Before
<1>5. Partition'
  <2>1. Ids(events) \cap (Ids(got) \cup Ids(read) \cup Ids(fd) \cup Ids(hand)) = {}
    <3>1. Ids(events) \subseteq Nat
      BY <1>2, TypeParts DEF IInv, Held
    <3> QED
      BY <3>1 DEF IInv, Order, Before
  <2> QED
    BY <1>1, <1>3, <2>1 DEF IInv, Partition, Held
<1>6. Rest' /\ FeedState' /\ StatsState'
  BY <1>1, <1>2, <1>3 DEF IInv, Rest, FeedState, StatsState, Calls
<1>7. NobodySleepsOnEvents'
  BY <1>1 DEF IInv, NobodySleepsOnEvents, Asleep
<1> QED
  BY <1>4, <1>5, <1>6, <1>7, PartsTypeNext DEF IInv

-----------------------------------------------------------------------------
LEMMA NextInv == IInv /\ [Next]_vars => IInv'
<1> SUFFICES ASSUME IInv, [Next]_vars PROVE IInv'
  OBVIOUS
<1>1. CASE UNCHANGED vars
  BY <1>1 DEF vars, IInv, TypeOK, Order, Partition, Held, FeedState, StatsState, Calls,
              NobodySleepsOnEvents, Asleep
<1>2. CASE \E u \in BOOLEAN : Post(u)
  BY <1>2, PostInv
<1>3. CASE PostFiltered
  BY <1>3, PostFilteredInv
<1>4. ASSUME NEW r \in Readers, (\E call \in Calls : Begin(r, call)) \/ Reader(r)
      PROVE  IInv'
  BY <1>4, BeginInv, GetEventInv, ResetInv, WaitForEventInv, WaitReturnsInv DEF Reader
<1>5. CASE WakeUp \/ CreateFileDescriptor \/ ReadDescriptor
  BY <1>5, WakeUpInv, CreateFileDescriptorInv, ReadDescriptorInv
<1>6. CASE \E on \in BOOLEAN : EnableStatistics(on)
  BY <1>6, EnableStatisticsInv
<1>7. CASE Feed
  BY <1>7, FeedTakeInv, FeedWriteInv, FeedPauseInv DEF Feed
<1>8. CASE Release \/ Destruct
  BY <1>8, ReleaseInv, JoinInv, DetachInv, FreeInv DEF Destruct
<1> QED
  BY <1>1, <1>2, <1>3, <1>4, <1>5, <1>6, <1>7, <1>8 DEF Next

(* The invariant holds in every reachable state, for any number of reading *)
(* threads, events and messages.                                           *)
THEOREM AlwaysInv == Spec => []IInv
  BY InitInv, NextInv, PTL DEF Spec

(* The counter of the statistics is the length of the queue as long as the *)
(* application does not call Reset() or release the buffer, and the state  *)
(* has its type (CollectEventStatistics()).                                *)
THEOREM EventBufferIsConsistent == Spec => []Consistent
<1>1. IInv => Consistent
  BY DEF IInv, Consistent, StatsCountQueue, StatsState
<1> QED
  BY <1>1, AlwaysInv, PTL

(* No thread sleeps in WaitForEvent() while there is an event in the       *)
(* queue, and the feeding thread neither then nor when it has to end: no   *)
(* broadcast is missed.                                                    *)
THEOREM SleepersHaveNoEvents == Spec => []NobodySleepsOnEvents
<1>1. IInv => NobodySleepsOnEvents
  BY DEF IInv
<1> QED
  BY <1>1, AlwaysInv, PTL

LEMMA BeforeConcat ==
    ASSUME NEW s \in Seq(Nat), NEW t \in Seq(Nat), NEW w \in Seq(Nat),
           Before(s, w), Before(t, w)
    PROVE  Before(s \o t, w)
  BY IdsConcat DEF Before

(* Places in order, one ahead of the other, are in order together. *)
LEMMA OrderIsInOrder ==
    ASSUME Places, Order
    PROVE  InOrder
<1>1. Rising(got \o events)
  BY RisingConcat DEF Places, Order
<1>2. read \o fd \in Seq(Nat) /\ Rising(read \o fd)
  BY RisingConcat, ConcatProperties DEF Places, Order
<1>3. Before(read \o fd, hand) /\ Before(read \o fd, events)
  BY BeforeConcat DEF Places, Order
<1>4. read \o fd \o hand \in Seq(Nat) /\ Rising(read \o fd \o hand)
  BY <1>2, <1>3, RisingConcat, ConcatProperties DEF Places, Order
<1>5. Before(read \o fd \o hand, events)
  BY <1>2, <1>3, BeforeConcat DEF Places, Order
<1>6. Rising(read \o fd \o hand \o events)
  BY <1>4, <1>5, RisingConcat DEF Places, Order
<1> QED
  BY <1>1, <1>6 DEF InOrder

LEMMA PartitionIsComplete ==
    ASSUME Places, Order, Partition
    PROVE  NoneLostOrDoubled
<1> DEFINE gr == got \o read
           gf == gr \o fd
           gh == gf \o hand
           all == gh \o events
<1>1. Ids(read) \subseteq Nat /\ Ids(fd) \subseteq Nat /\ Ids(hand) \subseteq Nat
      /\ Ids(got) \subseteq Nat
  BY ElementOfSeq, LenProperties DEF Places, Ids
<1>2. /\ Ids(read) \cap Ids(fd) = {} /\ Ids(read) \cap Ids(hand) = {}
      /\ Ids(fd) \cap Ids(hand) = {}
      /\ (Ids(got) \cup Ids(read) \cup Ids(fd) \cup Ids(hand)) \cap Ids(events) = {}
  BY <1>1 DEF Order, Before
<1>3. Injective(got) /\ Injective(read) /\ Injective(fd) /\ Injective(hand) /\ Injective(events)
  BY RisingInjective DEF Places, Order
<1>4. gr \in Seq(Nat) /\ Ids(gr) = Ids(got) \cup Ids(read) /\ Injective(gr)
  BY <1>3, IdsConcat, InjectiveConcat, ConcatProperties DEF Places, Partition
<1> HIDE DEF gr
<1>5. gf \in Seq(Nat) /\ Ids(gf) = Ids(got) \cup Ids(read) \cup Ids(fd) /\ Injective(gf)
  BY <1>2, <1>3, <1>4, IdsConcat, InjectiveConcat, ConcatProperties DEF Places, Partition
<1> HIDE DEF gf
<1>6. /\ gh \in Seq(Nat) /\ Ids(gh) = Ids(got) \cup Ids(read) \cup Ids(fd) \cup Ids(hand)
      /\ Injective(gh)
  BY <1>2, <1>3, <1>5, IdsConcat, InjectiveConcat, ConcatProperties DEF Places, Partition
<1> HIDE DEF gh
<1>7. Ids(all) = Held /\ Injective(all)
  BY <1>2, <1>3, <1>6, IdsConcat, InjectiveConcat DEF Places, Held
<1>8. all = got \o read \o fd \o hand \o events
  BY DEF all, gh, gf, gr
<1> QED
  BY <1>7, <1>8 DEF NoneLostOrDoubled, Partition, Injective

(* Every event posted is in the queue, on its way, delivered or dropped,   *)
(* exactly once, and both ways out keep the order of posting, also for     *)
(* events fetched and read across CreateFileDescriptor() and release.      *)
THEOREM EventsAreDeliveredOnce == Spec => []DeliveredOnce
<1>1. IInv => DeliveredOnce
  BY TypeParts, OrderIsInOrder, PartitionIsComplete DEF IInv, DeliveredOnce
<1> QED
  BY <1>1, AlwaysInv, PTL
=============================================================================
