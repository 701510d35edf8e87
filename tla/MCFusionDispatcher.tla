------------------------- MODULE MCFusionDispatcher -------------------------
(* A buffer holds two calls without data or one with data.  Two callers    *)
(* with all kinds of calls and handlers that post; three whose buffers     *)
(* hold one call each, so that they are held up; two that are stopped; two *)
(* with calls that are longer than a buffer.  For the violation run, two   *)
(* callers one of which waits for answers.                                 *)
EXTENDS FusionDispatcher

CONSTANTS c1, c2, c3

Setup(c, k, l, p, s) ==
    [callers |-> c, kinds |-> k, lengths |-> l, posts |-> p, stop |-> s]

MCSetups ==
    {Setup({c1, c2}, {"sync", "oneway", "oneway3"}, {0}, 1, FALSE),
     Setup({c1, c2, c3}, {"oneway3"}, {2}, 0, FALSE),
     Setup({c1, c2}, {"sync", "oneway"}, {0, 2}, 0, TRUE),
     Setup({c1, c2}, {"sync", "oneway"}, {3}, 0, FALSE)}

AnswerSetups == {Setup({c1, c2}, {"sync", "oneway"}, {0, 2}, 0, FALSE)}
=============================================================================
