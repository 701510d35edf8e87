--------------------------- MODULE MCLayerRegion ---------------------------
(* A region without the task manager, and with it: for one caller that     *)
(* does everything, for callers that configure the layer context, and with *)
(* a driver whose functions fail, without and with a RemoveRegion().       *)
EXTENDS LayerRegion

CONSTANTS c1, c2, s1, s2

NoManager ==
    [manager |-> FALSE, callers |-> {c1}, ops |-> Operations, surfaces |-> {s1, s2},
     failing |-> {"AddRegion", "Allocation"}, removes |-> TRUE,
     frames |-> 0, configs |-> 3, failures |-> 2]

Manager ==
    [manager |-> TRUE, callers |-> {c1}, ops |-> Operations, surfaces |-> {s1, s2},
     failing |-> {}, removes |-> TRUE, frames |-> 4, configs |-> 2, failures |-> 0]

Contexts ==
    [Manager EXCEPT !.callers = {c1, c2}, !.ops = {"context", "activate", "flip"},
                    !.frames = 3]

Faults ==
    [manager |-> TRUE, callers |-> {c1, c2},
     ops |-> {"context", "activate", "deactivate", "flip"}, surfaces |-> {s1},
     failing |-> DriverFuncs, removes |-> FALSE,
     frames |-> 2, configs |-> 1, failures |-> 1]

FaultsRemoving == [Faults EXCEPT !.removes = TRUE]

MCSetups == {NoManager, Manager, Contexts, Faults, FaultsRemoving}
=============================================================================
