---------------------------- MODULE MCTaskManager ----------------------------
(* Instances of TaskManager for TLC: "any rendering", and workloads with    *)
(* tiles, double buffering and a front only layer.                          *)
EXTENDS TaskManager, TLC

CONSTANTS t1, t2, t3, t4, t5, t6, f1, d1, d2, e1, e2, a1, a2, a3, cpu, gpu, layer

Rendering(acc, d, s) == [accessor |-> acc, dst |-> d, srcs |-> s]
Displaying(s) == [accessor |-> layer, dst |-> NULL, srcs |-> s]

Constantly(x) == [t \in Tasks |-> x]

(* A workload that uses the tasks in the domain of w only. *)
Workload(w) == w @@ [m \in Masters |-> {}]

-----------------------------------------------------------------------------
(* Rendering: three masters without slaves, two accessors, two allocations, *)
(* any destination, any source or none.                                     *)
RenderTasks == {t1, t2, t3}
AnyRendering ==
    {Rendering(acc, d, s) : acc \in {cpu, gpu}, d \in {a1, a2}, s \in {{}, {a1}, {a2}}}
AnyWorkload == {[t \in Masters |-> AnyRendering]}
NoMaster == Constantly(NULL)
NoTile == Constantly(0)
NoFlags == Constantly({})
NoTime == Constantly(0)
RenderSymmetry == Permutations({t1, t2, t3}) \cup Permutations({cpu, gpu})
                    \cup Permutations({a1, a2})

(* Two readers: a1 is rendered on the gpu and then read twice on the cpu,   *)
(* for two destinations.                                                    *)
TwoReaders ==
    {(t1 :> {Rendering(gpu, a1, {})}) @@ (t2 :> {Rendering(cpu, a2, {a1})}) @@
     (t3 :> {Rendering(cpu, a3, {a1})})}

-----------------------------------------------------------------------------
(* t2 and t4 are slaves of t1 and t3; d1 and d2 are timed display tasks, e1 *)
(* and e2 notify on emit; f1 follows the readers of what it writes.         *)
AllTasks == {t1, t2, t3, t4, t5, t6, f1, d1, d2, e1, e2}
SomeMaster == (t2 :> t1) @@ (t4 :> t3) @@ NoMaster
SomeTile == (t2 :> 1) @@ (t4 :> 1) @@ NoTile
SomeFlags == (e1 :> {"EMITNOTIFIES"}) @@ (e2 :> {"EMITNOTIFIES"}) @@
             (f1 :> {"FOLLOW_READER"}) @@ NoFlags
SomeTime == (d1 :> 1) @@ (d2 :> 2) @@ NoTime

(* Tiles: two masters with a slave each render to a1 on the cpu, a third    *)
(* task reads or overwrites what they render, on either accessor.           *)
Tiled == Workload(
    (t1 :> {Rendering(cpu, a1, {})}) @@ (t3 :> {Rendering(cpu, a1, {a2})}) @@
    (t5 :> {Rendering(acc, a2, {a1}) : acc \in {cpu, gpu}} \cup {Rendering(gpu, a1, {})}))

(* Double buffering: a1 is rendered to and displayed, a2 is displayed, at   *)
(* given times, and a1 is rendered to again; without tiles.                 *)
Flipping == Workload(
    (t5 :> {Rendering(gpu, a1, {})}) @@ (d1 :> {Displaying({a1})}) @@
    (d2 :> {Displaying({a2})}) @@ (t6 :> {Rendering(gpu, a1, {}), Rendering(gpu, a2, {a1})}))

(* Front only: a1 is rendered to, displayed, copied to and displayed again. *)
FrontOnly == Workload(
    (t5 :> {Rendering(cpu, a1, {})}) @@ (e1 :> {Displaying({a1})}) @@
    (f1 :> {Rendering(gpu, a1, {a2})}) @@ (e2 :> {Displaying({a1})}))

SomeWorkloads == {Tiled, Flipping, FrontOnly}

(* Every instance keeps to the conditions of the order theorems. *)
ASSUME OrderlyInstances == OrderlyWorkloads /\ TilesAreApart
=============================================================================
