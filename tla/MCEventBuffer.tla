--------------------------- MODULE MCEventBuffer ---------------------------
(* An application with everything but statistics; one with statistics; one *)
(* that reads the descriptor in a thread of its own while it releases.     *)
(* Writing to the socket may fail in the last two.                         *)
EXTENDS EventBuffer

Setup(c, t, f) == [calls |-> c, threaded |-> t, failing |-> f]

MCSetups ==
    {Setup(AllCalls \ {"stats"}, FALSE, FALSE), Setup({"get", "fd", "stats"}, FALSE, TRUE),
     Setup({"get", "wait", "fd", "release"}, TRUE, TRUE)}
=============================================================================
