--------------------------- MODULE MCTaskThreadsQ ---------------------------
(* Two groups of a master and a slave that render to the same two tiles,   *)
(* and a task that renders to the first tile only, on two runners.         *)
EXTENDS TaskThreadsQ, TLC

CONSTANTS t1, t2, t3, t4, t5, q1, q2

MCTasks == {t1, t2, t3, t4, t5}
MCQids == {q1, q2}
MCQid == (t1 :> q1) @@ (t2 :> q2) @@ (t3 :> q1) @@ (t4 :> q2) @@ (t5 :> q1)
MCMaster == (t1 :> NULL) @@ (t2 :> t1) @@ (t3 :> NULL) @@ (t4 :> t3) @@ (t5 :> NULL)
=============================================================================
