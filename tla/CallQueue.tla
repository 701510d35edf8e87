------------------------------ MODULE CallQueue ------------------------------
(***************************************************************************)
(* What the Fusion dispatcher promises its callers: every call that was    *)
(* accepted is delivered once, one call at a time, in the order in which   *)
(* the calls were accepted; a call is refused only once the dispatcher is  *)
(* being stopped, and then delivery may end.                               *)
(***************************************************************************)
EXTENDS Sequences

CONSTANTS Call, NoCall

VARIABLES queue, current, ended

vars == <<queue, current, ended>>

Init == queue = << >> /\ current = NoCall /\ ended = FALSE

Accept == \E c \in Call : queue' = Append(queue, c) /\ UNCHANGED <<current, ended>>

Deliver ==
    /\ current = NoCall /\ queue # << >> /\ ~ ended
    /\ current' = Head(queue)
    /\ queue' = Tail(queue)
    /\ ended' = FALSE

Complete == current # NoCall /\ current' = NoCall /\ UNCHANGED <<queue, ended>>

(* The dispatcher was told to stop: it drops the next call and ends. *)
Drop ==
    /\ current = NoCall /\ queue # << >> /\ ~ ended
    /\ queue' = Tail(queue)
    /\ ended' = TRUE
    /\ current' = NoCall

Next == Accept \/ Deliver \/ Complete \/ Drop

Spec == Init /\ [][Next]_vars
=============================================================================
