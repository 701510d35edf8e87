-------------------------- MODULE FusionDispatcher --------------------------
(***************************************************************************)
(* The event dispatcher of the single application build of Fusion:         *)
(* src/lib/fusion/fusion.c (event_dispatcher_loop() and the functions      *)
(* _fusion_event_dispatcher_process*()) and the calls in call.c and        *)
(* reactor.c that post to it.                                              *)
(*                                                                         *)
(* Calls are copied into buffers of limited size.  When a call does not    *)
(* fit, a new buffer is appended to the list and the old one may be freed  *)
(* once the dispatcher has read it to the end; it is moved to a second     *)
(* list first, because a caller that waits for its result still looks into *)
(* the buffer.  Waits return only when they are signalled.                 *)
(*                                                                         *)
(* Nothing limits the data of a call, and the positions and counters of a  *)
(* buffer lie behind its data.  A call that is longer than a buffer is     *)
(* written over them; the model ends there (Intact).                       *)
(***************************************************************************)
EXTENDS Naturals, Sequences, FiniteSets, SequencesExt

CONSTANTS
    Callers,        \* threads other than the dispatcher
    Setups,         \* the callers considered, see AllSetups
    Lengths,        \* of the data passed with a call
    Header,         \* sizeof( FusionEventDispatcherCall )
    Capacity,       \* EVENT_DISPATCHER_BUFFER_LENGTH
    MaxBuffers,     \* buffers above which a oneway call of a handler3 waits (4)
    MaxCalls,       \* bound on the number of calls of each caller
    MaxPosts,       \* bound on the calls posted by handlers
    Nobody          \* the dispatcher as the origin of a call

AllSetups == [callers : SUBSET Callers,                         \* who calls,
              kinds : SUBSET {"sync", "oneway", "oneway3"},     \* in which way,
              lengths : SUBSET Lengths,                         \* with which data;
              posts : 0..MaxPosts,                              \* posts of handlers
              stop : BOOLEAN]                                   \* fusion_kill()

ASSUME SetupAssumption == Setups \subseteq AllSetups
ASSUME SizeAssumption ==
    Lengths \subseteq Nat /\ Header \in Nat \ {0} /\ Capacity \in Nat /\ Header <= Capacity
ASSUME LimitAssumption ==
    MaxBuffers \in Nat /\ MaxCalls \in Nat /\ MaxPosts \in Nat
ASSUME NobodyAssumption == Nobody \notin Callers

VARIABLES
    setup,          \* chosen once
    bufs,           \* all buffers ever allocated, by number
    buffers,        \* FusionWorld::event_dispatcher_buffers
    remove,         \* FusionWorld::event_dispatcher_buffers_remove
    dispatch_stop,
    pc,             \* pc[c]: where caller c is
    call,           \* call[c]: the call c makes
    msg,            \* msg[c]: place of the call, <<buffer, index>>
    dpc,            \* where the dispatcher is
    dmsg,           \* "msg" of event_dispatcher_loop(): <<buffer, index>>
    made,           \* number of calls c has made
    posts           \* number of calls posted by handlers

vars == <<setup, bufs, buffers, remove, dispatch_stop, pc, call, msg, dpc, dmsg, made,
          posts>>

callerVars == <<pc, call, msg, made>>

Calls == [from : Callers \cup {Nobody}, nr : 1..(MaxCalls + MaxPosts),
          kind : {"sync", "oneway", "oneway3"}, length : Lengths \cup {0}]

(* FusionEventDispatcherBuffer: the calls in it, how many were read, the   *)
(* write position, can_free, sync_calls, pending; FusionEventDispatcherCall*)
(* ::processed is kept as the set of calls processed.                      *)
Buffer == [calls : Seq(Calls), read : Nat, write_pos : Nat, can_free : BOOLEAN,
           sync_calls : Nat, pending : Nat, processed : SUBSET Nat, freed : BOOLEAN]

TypeOK ==
    /\ setup \in Setups
    /\ bufs \in Seq(Buffer)
    /\ buffers \in Seq(DOMAIN bufs) /\ remove \in Seq(DOMAIN bufs)
    /\ dispatch_stop \in BOOLEAN
    /\ \A c \in Callers :
          /\ pc[c] \in {"idle", "retry", "throttled", "wait", "leave", "result"}
          /\ pc[c] \in {"wait", "leave", "result"} =>
                msg[c][1] \in DOMAIN bufs
    /\ dpc \in {"loop", "wait_buffer", "woken_buffer", "wait", "woken", "locked",
                "run", "answer", "after", "exit"}
    /\ made \in [Callers -> 0..MaxCalls]
    /\ posts \in 0..MaxPosts

Init ==
    /\ setup \in Setups
    /\ bufs = << >> /\ buffers = << >> /\ remove = << >>
    /\ dispatch_stop = FALSE
    /\ pc = [c \in Callers |-> "idle"]
    /\ call = [c \in Callers |-> << >>]
    /\ msg = [c \in Callers |-> << >>]
    /\ dpc = "loop" /\ dmsg = << >>
    /\ made = [c \in Callers |-> 0] /\ posts = 0

-----------------------------------------------------------------------------
(* Posting a call *)

(* The dispatcher holds event_dispatcher_mutex over several steps. *)
MutexFree == dpc # "locked"

(* Mutated form of Drained: off by one. *)
AlmostDrained(b) == bufs[b].read + 1 >= Len(bufs[b].calls)

Drained(b) == bufs[b].read = Len(bufs[b].calls)

NewBuffer == [calls |-> << >>, read |-> 0, write_pos |-> 0, can_free |-> FALSE,
              sync_calls |-> 0, pending |-> 0, processed |-> {}, freed |-> FALSE]

(* Mutated form of Fits: the size of the header is forgotten. *)
FitsWithoutHeader(b, m) == b.write_pos + m.length <= Capacity

Fits(b, m) == b.write_pos + Header + m.length <= Capacity

(* Only a oneway call's data is copied behind the call. *)
Size(m) == Header + IF m.kind = "sync" THEN 0 ELSE m.length

Write(b, m) ==
    [b EXCEPT !.calls = Append(@, m), !.write_pos = @ + Size(m), !.pending = @ + 1,
              !.sync_calls = IF m.kind = "sync" THEN @ + 1 ELSE @]

(* No call was written past the end of a buffer. *)
Intact == \A b \in DOMAIN bufs : bufs[b].write_pos <= Capacity

(* The list has a buffer when the call is posted, a new one if need be.    *)
Opened == IF buffers = << >> THEN Append(bufs, NewBuffer) ELSE bufs

OpenedList == IF buffers = << >> THEN <<Len(bufs) + 1>> ELSE buffers

(* The call goes to the last buffer of the list or, if it does not fit, to *)
(* another new one, without asking whether it fits there.                  *)
Post(m) ==
    LET last == Last(OpenedList) IN
    IF Fits(Opened[last], m)
      THEN /\ bufs' = [Opened EXCEPT ![last] = Write(@, m)]
           /\ buffers' = OpenedList
      ELSE /\ bufs' = Append([Opened EXCEPT ![last].can_free = TRUE],
                             Write(NewBuffer, m))
           /\ buffers' = Append(OpenedList, Len(Opened) + 1)

(* direct_waitqueue_signal( &world->event_dispatcher_cond ) *)
Wake ==
    dpc' = CASE dpc = "wait_buffer" -> "woken_buffer"
             [] dpc = "wait" -> "woken"
             [] OTHER -> dpc

(* The condition of the loop in which a oneway call of a handler3 waits. *)
Throttled(m) == m.kind = "oneway3" /\ Len(buffers) > MaxBuffers

(* _fusion_event_dispatcher_process*(): waits, or posts the call and goes  *)
(* to wait for the answer if there will be one.                            *)
Process(c, m) ==
    /\ IF Throttled(m)
         THEN /\ pc' = [pc EXCEPT ![c] = "throttled"]
              /\ call' = [call EXCEPT ![c] = m]
              /\ UNCHANGED <<bufs, buffers, msg, dpc>>
         ELSE /\ Post(m)
              /\ Wake
              /\ call' = [call EXCEPT ![c] = << >>]
              /\ IF m.kind = "sync"
                   THEN /\ pc' = [pc EXCEPT ![c] = "wait"]
                        /\ msg' = [msg EXCEPT ![c] =
                                <<Last(buffers'), Len(bufs'[Last(buffers')].calls)>>]
                   ELSE /\ pc' = [pc EXCEPT ![c] = "idle"]
                        /\ msg' = msg
    /\ UNCHANGED <<setup, remove, dispatch_stop, dmsg, posts>>

(* fusion_call_execute*() with FCEF_NODIRECT, fusion_reactor_dispatch()    *)
(* and fusion_reactor_free() on a thread other than the dispatcher's;      *)
(* refused once dispatch_stop is set.                                      *)
Execute(c) ==
    /\ Intact
    /\ pc[c] = "idle" /\ made[c] < MaxCalls /\ MutexFree
    /\ ~ dispatch_stop
    /\ c \in setup.callers
    /\ \E k \in setup.kinds, l \in setup.lengths :
          Process(c, [from |-> c, nr |-> made[c] + 1, kind |-> k, length |-> l])
    /\ made' = [made EXCEPT ![c] = @ + 1]

(* A caller that was held up tests the condition again (and does not look  *)
(* at dispatch_stop any more).                                             *)
Retry(c) ==
    /\ Intact
    /\ pc[c] = "retry" /\ MutexFree
    /\ Process(c, call[c])
    /\ made' = made

(* Second part, for a call with an answer: wait until it is processed, ... *)
Answered(c) ==
    /\ Intact
    /\ pc[c] = "wait" /\ msg[c][2] \in bufs[msg[c][1]].processed
    /\ pc' = [pc EXCEPT ![c] = "leave"]
    /\ UNCHANGED <<setup, bufs, buffers, remove, dispatch_stop, call, msg, dpc, dmsg,
                   made, posts>>

(* ... and sign off at the buffer. *)
Leave(c) ==
    /\ Intact
    /\ pc[c] = "leave" /\ MutexFree
    /\ bufs' = [bufs EXCEPT ![msg[c][1]].sync_calls = @ - 1]
    /\ pc' = [pc EXCEPT ![c] = "result"]
    /\ UNCHANGED <<setup, buffers, remove, dispatch_stop, call, msg, dpc, dmsg, made,
                   posts>>

(* fusion_call_execute*() reads ret_val or ret_length from the buffer,     *)
(* which nothing keeps any more: the dispatcher may have freed it.         *)
Result(c) ==
    /\ Intact
    /\ pc[c] = "result"
    /\ pc' = [pc EXCEPT ![c] = "idle"]
    /\ msg' = [msg EXCEPT ![c] = << >>]
    /\ UNCHANGED <<setup, bufs, buffers, remove, dispatch_stop, call, dpc, dmsg, made,
                   posts>>

-----------------------------------------------------------------------------
(* The dispatcher thread *)

dispatcherOnly == <<dispatch_stop, callerVars, posts>>

(* Looks at the first buffer, with the mutex: waits if there is none or if *)
(* nothing is left to read in it.                                          *)
Look ==
    /\ Intact
    /\ dpc \in {"loop", "woken_buffer", "locked"}
    /\ \/ /\ buffers = << >>
          /\ dpc' = "wait_buffer"
       \/ /\ buffers # << >> /\ Drained(Head(buffers)) /\ ~ bufs[Head(buffers)].can_free
          /\ dpc' = "wait"
    /\ UNCHANGED <<setup, bufs, buffers, remove, dmsg, dispatcherOnly>>

(* A buffer that has been read to the end and replaced is put aside. *)
SetAside ==
    /\ Intact
    /\ dpc \in {"loop", "woken_buffer", "woken", "locked"}
    /\ buffers # << >> /\ Drained(Head(buffers)) /\ bufs[Head(buffers)].can_free
    /\ buffers' = Tail(buffers)
    /\ remove' = Append(remove, Head(buffers))
    /\ dpc' = "locked"
    /\ UNCHANGED <<setup, bufs, dmsg, dispatcherOnly>>

(* Reads the next call; after a wait without looking whether there is one. *)
Take ==
    /\ Intact
    /\ dpc \in {"loop", "woken_buffer", "woken", "locked"}
    /\ buffers # << >>
    /\ LET b == Head(buffers) IN
       /\ ~ Drained(b) \/ (dpc = "woken" /\ ~ bufs[b].can_free)
       /\ bufs' = [bufs EXCEPT ![b].read = @ + 1]
       /\ dmsg' = <<b, bufs[b].read + 1>>
    /\ dpc' = IF dispatch_stop THEN "exit" ELSE "run"
    /\ UNCHANGED <<setup, buffers, remove, dispatcherOnly>>

Current == bufs[dmsg[1]].calls[dmsg[2]]

(* The handler or the reactions run. *)
Run ==
    /\ Intact
    /\ dpc = "run"
    /\ dpc' = IF Current.kind = "sync" THEN "answer" ELSE "after"
    /\ UNCHANGED <<setup, bufs, buffers, remove, dmsg, dispatcherOnly>>

(* A handler calls fusion_reactor_dispatch() or fusion_reactor_free(),     *)
(* which post to the queue on the dispatcher thread too.                   *)
RunPosts ==
    /\ Intact
    /\ dpc = "run" /\ posts < setup.posts /\ ~ dispatch_stop
    /\ Post([from |-> Nobody, nr |-> posts + 1, kind |-> "oneway", length |-> 0])
    /\ posts' = posts + 1
    /\ UNCHANGED <<setup, remove, dispatch_stop, callerVars, dpc, dmsg>>

Answer ==
    /\ Intact
    /\ dpc = "answer"
    /\ bufs' = [bufs EXCEPT ![dmsg[1]].processed = @ \cup {dmsg[2]}]
    /\ dpc' = "after"
    /\ UNCHANGED <<setup, buffers, remove, dmsg, dispatcherOnly>>

Freed == [NewBuffer EXCEPT !.freed = TRUE]

(* Mutated form of Freeable: a caller that waits is not considered. *)
FreeableAtOnce(b) == b.pending = 0

Freeable(b) == b.sync_calls = 0 /\ b.pending = 0

(* Mutated form of Unthrottle: the signal is not sent. *)
NoUnthrottle == pc' = pc

(* direct_waitqueue_signal( &world->event_dispatcher_process_cond ): one   *)
(* of the callers that wait tests its condition again.                     *)
Unthrottle ==
    LET waiting == {c \in Callers : pc[c] = "throttled"} IN
    IF waiting = {} THEN pc' = pc
    ELSE \E c \in waiting : pc' = [pc EXCEPT ![c] = "retry"]

(* The call is done with: one of the callers that are held up is told, and *)
(* the first of the buffers put aside is freed if nobody needs it.  The    *)
(* loop would end at world->refs = 0, but refs is set to 1 by fusion_enter *)
(* and nothing in this build changes it.                                   *)
After ==
    /\ Intact
    /\ dpc = "after"
    /\ LET done == [bufs EXCEPT ![dmsg[1]].pending = @ - 1] IN
       IF remove # << >> /\ Freeable(done[Head(remove)])
         THEN /\ bufs' = [done EXCEPT ![Head(remove)] = Freed]
              /\ remove' = Tail(remove)
         ELSE bufs' = done /\ remove' = remove
    /\ Unthrottle
    /\ dpc' = "loop"
    /\ dmsg' = << >>
    /\ UNCHANGED <<setup, buffers, dispatch_stop, call, msg, made, posts>>

(* fusion_kill(): dispatch_stop is set. *)
Kill ==
    /\ Intact
    /\ setup.stop /\ ~ dispatch_stop
    /\ dispatch_stop' = TRUE
    /\ UNCHANGED <<setup, bufs, buffers, remove, callerVars, dpc, dmsg, posts>>

-----------------------------------------------------------------------------
CallerStep(c) ==
    Retry(c) \/ Answered(c) \/ Leave(c) \/ Result(c)

Dispatch == Look \/ SetAside \/ Take \/ Run \/ Answer \/ After

Next ==
    \/ \E c \in Callers : Execute(c) \/ CallerStep(c)
    \/ Dispatch \/ RunPosts \/ Kill

Spec == Init /\ [][Next]_vars

(* Threads run on.  The mutex is never held while a thread waits, so weak  *)
(* fairness is enough.                                                     *)
Fairness == WF_vars(Dispatch) /\ \A c \in Callers : WF_vars(CallerStep(c))

FairSpec == Spec /\ Fairness

-----------------------------------------------------------------------------
(* Properties *)

(* The caller of a call with an answer looks at a buffer that has not been *)
(* freed while it waits for the answer, until it signs off (sync_calls--), *)
(* and so does the dispatcher while it processes the call.  What the       *)
(* caller reads after it has signed off is the matter of AnswerIsReturned. *)
BufferKeptForCaller ==
    /\ \A c \in Callers : pc[c] \in {"wait", "leave"} => ~ bufs[msg[c][1]].freed
    /\ dpc \in {"run", "answer", "after"} => ~ bufs[dmsg[1]].freed

(* "To return a value immediately, write to *ret_val and return            *)
(* FCHR_RETURN": the caller gets what the handler wrote, so the buffer     *)
(* still holds it when the caller reads it.  The code does not keep this.  *)
AnswerIsReturned ==
    \A c \in Callers : pc[c] = "result" => ~ bufs[msg[c][1]].freed

Within(b) ==
    \/ b.write_pos <= Capacity
    \/ Len(b.calls) = 1 /\ Size(b.calls[1]) > Capacity

(* What is written to a buffer fits into it, unless it is one call that is *)
(* longer than a buffer: the code does not refuse one, FUSION_CALL_MAX_    *)
(* LENGTH being the length of a buffer without the header of the call.     *)
WritesFit == \A b \in DOMAIN bufs : Within(bufs[b])

(* Every call that waits for an answer gets it (while nobody stops the     *)
(* dispatcher and no call overruns a buffer): no signal is lost between    *)
(* callers and dispatcher.                                                 *)
CallsAreAnswered ==
    \A c \in Callers : pc[c] = "wait" /\ ~ setup.stop ~> pc[c] = "idle" \/ ~ Intact

(* A caller held up by too many buffers goes on, although only one of      *)
(* those who wait is signalled for each call processed.                    *)
ThrottleEnds ==
    \A c \in Callers :
        pc[c] = "throttled" /\ ~ setup.stop ~> pc[c] = "idle" \/ ~ Intact

(* The calls accepted and not yet read, in order. *)
Unread == FlattenSeq([i \in DOMAIN buffers |->
              SubSeq(bufs[buffers[i]].calls, bufs[buffers[i]].read + 1,
                     Len(bufs[buffers[i]].calls))])

Queue == INSTANCE CallQueue WITH
             Call <- Calls, NoCall <- << >>, queue <- Unread,
             current <- IF dpc \in {"run", "answer", "after"} THEN Current ELSE << >>,
             ended <- dpc = "exit"

(* Over all switches of buffers, calls are delivered once each, in the     *)
(* order of their acceptance.                                              *)
DeliversInOrder == Queue!Spec

(* event_dispatcher_loop() has D_MAGIC_ASSERT( buf ) after each wait and   *)
(* processes what it finds at read_pos without testing for it again: no    *)
(* signal is left over from a call it has already read.                    *)
WakesToCall ==
    /\ dpc = "woken_buffer" => buffers # << >>
    /\ dpc \in {"run", "answer", "after"} => dmsg[2] \in DOMAIN bufs[dmsg[1]].calls

(* The positions in a buffer agree with the calls written to it, and the   *)
(* state of the dispatcher with the calls there are to process.            *)
Consistent == TypeOK /\ WritesFit /\ WakesToCall

(* No caller of fusion_call_execute() is forgotten, be it held up before   *)
(* its call is accepted or waiting for the answer.                         *)
Progress == CallsAreAnswered /\ ThrottleEnds
=============================================================================
