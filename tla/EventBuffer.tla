---------------------------- MODULE EventBuffer ----------------------------
(***************************************************************************)
(* IDirectFBEventBuffer, src/src/input/idirectfbinputbuffer.c: the queue   *)
(* of events between the reactions of devices, windows and surfaces (or    *)
(* PostEvent()) and the threads of the application, which fetch events or, *)
(* in pipe mode, read them from a file descriptor that a feeding thread    *)
(* writes to.                                                              *)
(*                                                                         *)
(* What happens under events_mutex is one step.  "data->pipe" is looked at *)
(* before the mutex is taken, and a thread in a wait must get the mutex    *)
(* back before it goes on.                                                 *)
(***************************************************************************)
EXTENDS Integers, Sequences, FiniteSets

CONSTANTS
    Readers,        \* threads of the application
    Setups,         \* the applications considered
    MaxEvents,      \* bound on the events posted
    Capacity        \* events the socket pair holds before write() blocks

AllCalls == {"get", "reset", "wait", "timedwait", "wakeup", "fd", "stats", "release"}

AllSetups == [calls : SUBSET AllCalls,  \* calls the application makes
              threaded : BOOLEAN,       \* may a thread read the descriptor while
                                        \* another one releases the buffer?
              failing : BOOLEAN]        \* may write() to the socket fail?

ASSUME EventBufferAssumption ==
    /\ Setups \subseteq AllSetups
    /\ MaxEvents \in Nat /\ Capacity \in Nat \ {0}

VARIABLES
    setup,          \* chosen once
    events,         \* data->events: the ids of the events, in the order of the list
    posted,         \* the number of events posted so far; ids count from 1
    universal,      \* ids of the events of class DFEC_UNIVERSAL
    dropped,        \* ids of the events filtered, reset, refused, freed or not written
    pipe,           \* data->pipe
    feed,           \* the feeding thread
    hand,           \* the event the feeding thread is writing
    fd,             \* what the file descriptor holds
    got, read,      \* ids fetched with GetEvent(), read from the descriptor
    stats,          \* data->stats_enabled, data->stats.num_events
    rd,             \* rd[r]: where thread r is
    roused,         \* threads that were asleep when WakeUp() was called
    ending          \* Destruct()

vars == <<setup, events, posted, universal, dropped, pipe, feed, hand, fd, got, read,
          stats, rd, roused, ending>>

feeding == <<feed, hand, fd>>

Calls == setup.calls

Ids(s) == {s[i] : i \in DOMAIN s}

Waits == {"wait", "timedwait"}

Waiting == {"waiting", "timedwaiting"}

TypeOK ==
    /\ setup \in Setups
    /\ posted \in 0..MaxEvents
    /\ events \in Seq(1..posted) /\ hand \in Seq(1..posted) /\ fd \in Seq(1..posted)
    /\ got \in Seq(1..posted) /\ read \in Seq(1..posted)
    /\ Len(hand) <= 1 /\ Len(fd) <= Capacity
    /\ universal \subseteq 1..posted /\ dropped \subseteq 1..posted
    /\ pipe \in BOOLEAN
    /\ feed \in {"none", "run", "write", "wait", "end"}
    /\ stats \in [on : BOOLEAN, num : Nat]
    /\ rd \in [Readers -> {"idle", "get", "reset", "woken"} \cup Waits \cup Waiting]
    /\ roused \subseteq Readers
    /\ ending \in {"no", "join", "detach", "free", "freed"}

Init ==
    /\ setup \in Setups
    /\ events = <<>> /\ posted = 0 /\ universal = {} /\ dropped = {}
    /\ pipe = FALSE /\ feed = "none" /\ hand = <<>> /\ fd = <<>>
    /\ got = <<>> /\ read = <<>>
    /\ stats = [on |-> FALSE, num |-> 0]
    /\ rd = [r \in Readers |-> "idle"] /\ roused = {} /\ ending = "no"

-----------------------------------------------------------------------------
Asleep == {r \in Readers : rd[r] \in Waiting}

(* Mutated form of Woken: a signal wakes one thread. *)
OneWoken == IF Asleep = {} THEN {} ELSE {CHOOSE r \in Asleep : TRUE}

Woken == Asleep

(* direct_waitqueue_broadcast( &data->wait_condition ) *)
WakeReaders == rd' = [r \in Readers |-> IF r \in Woken THEN "woken" ELSE rd[r]]

(* Mutated form of WakeFeed: the feeding thread is not woken up. *)
NoWakeFeed == feed' = feed

WakeFeed == feed' = IF feed = "wait" THEN "run" ELSE feed

Count(n) == IF stats.on THEN [stats EXCEPT !.num = @ + n] ELSE stats

(* Mutated form of Untaken: events leave without being uncounted. *)
StillCounted == stats

(* CollectEventStatistics( ..., -1 ) *)
Untaken == Count(-1)

Append1(e) == Append(events, e)

(* IDirectFBEventBuffer_AddItem(), behind the filter *)
AddItem(e) ==
    /\ events' = Append1(e)
    /\ stats' = Count(1)
    /\ WakeReaders /\ WakeFeed

(* PostEvent() or a reaction; u: an event of class DFEC_UNIVERSAL.  The    *)
(* reactions are detached by Destruct() only after the feeding thread.     *)
Post(u) ==
    /\ ending \in {"no", "join", "detach"} /\ posted < MaxEvents
    /\ posted' = posted + 1
    /\ universal' = IF u THEN universal \cup {posted + 1} ELSE universal
    /\ AddItem(posted + 1)
    /\ UNCHANGED <<setup, dropped, pipe, hand, fd, got, read, roused, ending>>

(* The filter of the buffer keeps an event back. *)
PostFiltered ==
    /\ ending \in {"no", "join", "detach"} /\ posted < MaxEvents
    /\ posted' = posted + 1
    /\ dropped' = dropped \cup {posted + 1}
    /\ UNCHANGED <<setup, events, universal, pipe, feeding, got, read, stats, rd,
                   roused, ending>>

(* A call begins: "if (data->pipe) return DFB_UNSUPPORTED". *)
Begin(r, call) ==
    /\ ending = "no" /\ rd[r] = "idle" /\ ~pipe
    /\ call \in Calls \cap ({"get", "reset"} \cup Waits)
    /\ rd' = [rd EXCEPT ![r] = call]
    /\ UNCHANGED <<setup, events, posted, universal, dropped, pipe, feeding, got, read,
                   stats, roused, ending>>

Return(r) ==
    /\ rd' = [rd EXCEPT ![r] = "idle"]
    /\ roused' = roused \ {r}

GetEvent(r) ==
    /\ rd[r] = "get"
    /\ IF events = <<>> THEN UNCHANGED <<events, got, stats>>
       ELSE /\ got' = Append(got, Head(events))
            /\ events' = Tail(events)
            /\ stats' = Untaken
    /\ Return(r)
    /\ UNCHANGED <<setup, posted, universal, dropped, pipe, feeding, read, ending>>

Reset(r) ==
    /\ rd[r] = "reset"
    /\ dropped' = dropped \cup Ids(events)
    /\ events' = <<>>
    /\ Return(r)
    /\ UNCHANGED <<setup, posted, universal, pipe, feeding, got, read, stats, ending>>

(* WaitForEvent() and WaitForEventWithTimeout() get the mutex. *)
WaitForEvent(r) ==
    /\ rd[r] \in Waits
    /\ IF events # <<>> THEN Return(r)
       ELSE /\ rd' = [rd EXCEPT ![r] = IF @ = "wait" THEN "waiting" ELSE "timedwaiting"]
            /\ UNCHANGED roused
    /\ UNCHANGED <<setup, events, posted, universal, dropped, pipe, feeding, got, read,
                   stats, ending>>

(* They return: woken up, or the time is over. *)
WaitReturns(r) ==
    /\ rd[r] \in {"woken", "timedwaiting"}
    /\ Return(r)
    /\ UNCHANGED <<setup, events, posted, universal, dropped, pipe, feeding, got, read,
                   stats, ending>>

(* WakeUp(): a broadcast without the mutex *)
WakeUp ==
    /\ ending = "no" /\ "wakeup" \in Calls /\ ~pipe
    /\ Asleep # {}                  \* nobody hears it otherwise
    /\ WakeReaders
    /\ roused' = roused \cup Asleep
    /\ UNCHANGED <<setup, events, posted, universal, dropped, pipe, feeding, got, read,
                   stats, ending>>

CreateFileDescriptor ==
    /\ ending = "no" /\ "fd" \in Calls /\ ~pipe
    /\ pipe' = TRUE /\ feed' = "run"
    /\ WakeReaders
    /\ UNCHANGED <<setup, events, posted, universal, dropped, hand, fd, got, read, stats,
                   roused, ending>>

EnableStatistics(on) ==
    /\ ending = "no" /\ "stats" \in Calls /\ stats.on # on
    /\ stats' = [on |-> on, num |-> IF on THEN Len(events) ELSE 0]
    /\ UNCHANGED <<setup, events, posted, universal, dropped, pipe, feeding, got, read,
                   rd, roused, ending>>

(* The application reads the file descriptor. *)
ReadDescriptor ==
    /\ ending = "no" \/ (setup.threaded /\ ending = "join")
    /\ fd # <<>>
    /\ read' = Append(read, Head(fd))
    /\ fd' = Tail(fd)
    /\ UNCHANGED <<setup, events, posted, universal, dropped, pipe, feed, hand, got, stats,
                   rd, roused, ending>>

-----------------------------------------------------------------------------
(* IDirectFBEventBuffer_Feed() *)

FeedTake ==
    /\ feed = "run" /\ pipe /\ events # <<>>
    /\ stats' = Untaken
    /\ events' = Tail(events)
    /\ IF Head(events) \in universal
       THEN dropped' = dropped \cup {Head(events)} /\ UNCHANGED <<feed, hand>>
       ELSE hand' = <<Head(events)>> /\ feed' = "write" /\ UNCHANGED dropped
    /\ UNCHANGED <<setup, posted, universal, pipe, fd, got, read, rd, roused, ending>>

(* Mutated form of Written: an event is lost if the socket is full. *)
WrittenOrLost == fd' = IF Len(fd) < Capacity THEN fd \o hand ELSE fd

(* write() blocks while the socket is full. *)
Written == Len(fd) < Capacity /\ fd' = fd \o hand

(* What write() returns is ignored: an event it fails to write is gone.    *)
WriteFails == setup.failing /\ dropped' = dropped \cup Ids(hand) /\ UNCHANGED fd

FeedWrite ==
    /\ feed = "write"
    /\ \/ Written /\ UNCHANGED dropped
       \/ WriteFails
    /\ hand' = <<>> /\ feed' = "run"
    /\ UNCHANGED <<setup, events, posted, universal, pipe, got, read, stats, rd, roused,
                   ending>>

FeedWait ==
    /\ feed = "run" /\ pipe /\ events = <<>>
    /\ feed' = "wait"
    /\ UNCHANGED <<setup, events, posted, universal, dropped, pipe, hand, fd, got, read,
                   stats, rd, roused, ending>>

FeedEnd ==
    /\ feed = "run" /\ ~pipe
    /\ feed' = "end"
    /\ UNCHANGED <<setup, events, posted, universal, dropped, pipe, hand, fd, got, read,
                   stats, rd, roused, ending>>

-----------------------------------------------------------------------------
(* IDirectFBEventBuffer_Destruct(), called when no thread uses the buffer *)

Release ==
    /\ ending = "no" /\ "release" \in Calls
    /\ \A r \in Readers : rd[r] = "idle"
    /\ pipe' = FALSE
    /\ WakeFeed
    /\ ending' = IF pipe THEN "join" ELSE "detach"
    /\ UNCHANGED <<setup, events, posted, universal, dropped, hand, fd, got, read, stats,
                   rd, roused>>

(* direct_thread_join(), close() *)
Join ==
    /\ ending = "join" /\ feed = "end"
    /\ dropped' = dropped \cup Ids(fd)
    /\ fd' = <<>>
    /\ ending' = "detach"
    /\ UNCHANGED <<setup, events, posted, universal, pipe, feed, hand, got, read, stats,
                   rd, roused>>

(* Surfaces, devices and windows are detached. *)
Detach ==
    /\ ending = "detach"
    /\ ending' = "free"
    /\ UNCHANGED <<setup, events, posted, universal, dropped, pipe, feeding, got, read,
                   stats, rd, roused>>

Free ==
    /\ ending = "free"
    /\ dropped' = dropped \cup Ids(events)
    /\ events' = <<>>
    /\ ending' = "freed"
    /\ UNCHANGED <<setup, posted, universal, pipe, feeding, got, read, stats, rd, roused>>

-----------------------------------------------------------------------------
Reader(r) == GetEvent(r) \/ Reset(r) \/ WaitForEvent(r) \/ WaitReturns(r)

Feed == FeedTake \/ FeedWrite \/ FeedWait \/ FeedEnd

Destruct == Join \/ Detach \/ Free

Next ==
    \/ \E u \in BOOLEAN : Post(u)
    \/ PostFiltered
    \/ \E r \in Readers : (\E call \in Calls : Begin(r, call)) \/ Reader(r)
    \/ WakeUp \/ CreateFileDescriptor \/ ReadDescriptor
    \/ \E on \in BOOLEAN : EnableStatistics(on)
    \/ Feed \/ Release \/ Destruct

Spec == Init /\ [][Next]_vars

(* Threads in a call go on, the feeding thread and Destruct() run. *)
CodeFairness ==
    /\ \A r \in Readers : WF_vars(Reader(r))
    /\ WF_vars(Feed) /\ WF_vars(Destruct)

FairSpec == Spec /\ CodeFairness

(* The application goes on reading its file descriptor. *)
ReadingSpec == FairSpec /\ WF_vars(ReadDescriptor)

-----------------------------------------------------------------------------
Rising(s) == \A i, j \in DOMAIN s : i < j => s[i] < s[j]

(* directfb.h: "Get the next event and remove it from the FIFO": events    *)
(* are fetched in the order they were posted, and so they are read from    *)
(* the descriptor, also across the change to pipe mode.                    *)
InOrder == Rising(got \o events) /\ Rising(read \o fd \o hand \o events)

(* Every event is in one place: nothing is delivered twice, or lost but by *)
(* a write() that fails, between queue, feeding thread, descriptor and     *)
(* application.                                                            *)
NoneLostOrDoubled ==
    LET all == got \o read \o fd \o hand \o events
    IN  /\ 1..posted = Ids(all) \cup dropped
        /\ \A i, j \in DOMAIN all : all[i] = all[j] => i = j
        /\ Ids(all) \cap dropped = {}

(* No thread sleeps while there is an event for it (or, for the feeding    *)
(* thread, when it has to end).                                            *)
NobodySleepsOnEvents ==
    /\ Asleep # {} => events = <<>>
    /\ feed = "wait" => events = <<>> /\ pipe

(* directfb.h: "num_events; Total number of events in the queue."  Holds   *)
(* unless the application calls Reset(), which leaves the statistics.      *)
StatsCountQueue ==
    stats.on /\ ending = "no" /\ "reset" \notin Calls => stats.num = Len(events)

(* An event in the queue in pipe mode gets to the descriptor, unless       *)
(* writing it fails, the buffer is released, does not take its class or a  *)
(* GetEvent() that began before pipe mode fetches it.                      *)
PipedEventsAreWritten ==
    \A e \in 1..MaxEvents :
        pipe /\ e \in Ids(events) ~> e \in Ids(read \o fd \o got) \cup dropped \/ ~pipe

(* directfb.h: WakeUp() "causes any IDirectFBEventBuffer::WaitForEvent()   *)
(* [...] call to return": it does for every thread that is asleep.  (One   *)
(* that has not got the mutex yet goes to sleep after the broadcast.)      *)
WakeUpInterrupts == \A r \in Readers : r \in roused ~> r \notin roused

(* Releasing the buffer ends the feeding thread and returns, in whatever   *)
(* state it finds that thread, as long as somebody reads the descriptor.   *)
ReleaseReturns == setup.threaded /\ ending = "join" ~> ending = "freed"

(* The state of the buffer and its statistics agree with the queue.        *)
Consistent == TypeOK /\ StatsCountQueue

(* Between PostEvent(), queue, feeding thread, descriptor and application, *)
(* every event that is not dropped and not failed to be written is         *)
(* delivered once and in order.                                            *)
DeliveredOnce == InOrder /\ NoneLostOrDoubled

(* Nothing gets stuck in the buffer: events in pipe mode, threads that are *)
(* woken up, a release.                                                    *)
Progress == PipedEventsAreWritten /\ WakeUpInterrupts /\ ReleaseReturns
=============================================================================
