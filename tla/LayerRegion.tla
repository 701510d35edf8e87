---------------------------- MODULE LayerRegion ----------------------------
(***************************************************************************)
(* One region of a display layer: src/src/core/layer_region.c, its flips   *)
(* with the task manager (CoreLayerRegion_real.cpp), the locked part of    *)
(* dfb_layer_context_set_configuration() (layer_context.c) and             *)
(* DisplayTask::Run() (DisplayTask.cpp) in the pool of Task.h.             *)
(*                                                                         *)
(* Every function works under the region lock, so its locked part is one   *)
(* step; waiting for an empty list of display tasks happens before the     *)
(* lock is taken and is a step of its own.  The manager emits display      *)
(* tasks in the order they were flushed (module TaskManager), and the      *)
(* pool threads pull them in that order.  Assertions of the code that do   *)
(* not hold are noted and the functions go on, as in a build without them. *)
(***************************************************************************)
EXTENDS Naturals

CONSTANTS
    NULL,
    Callers,        \* threads that call the functions of the region
    Threads,        \* the pool threads of the task manager
    Surfaces,       \* surfaces the region may be given
    Setups,         \* the programs and drivers considered, see AllSetups
    MaxFrames,      \* bound on the flips
    MaxConfigs,     \* bound on the changes of the configuration
    MaxFailures     \* bound on the failures

WaitingOps == {"disable", "deactivate", "set_surface", "set_configuration",
               "context"}

Operations == WaitingOps \cup {"enable", "activate", "flip"}

(* What may fail: functions of the driver, and the (re)allocation of the   *)
(* surface by the layer context.                                           *)
DriverFuncs == {"AddRegion", "SetRegion", "FlipRegion", "Allocation"}

AllSetups ==
    [manager : BOOLEAN,             \* dfb_config->task_manager
     callers : SUBSET Callers,      \* who calls
     ops : SUBSET Operations,       \* which operations
     surfaces : SUBSET Surfaces,
     failing : SUBSET DriverFuncs,  \* which of them may fail
     removes : BOOLEAN,             \* funcs->RemoveRegion != NULL
     frames : 0..MaxFrames, configs : 0..MaxConfigs, failures : 0..MaxFailures]

ASSUME RegionAssumption ==
    /\ MaxFrames \in Nat /\ MaxConfigs \in Nat /\ MaxFailures \in Nat
    /\ Setups \subseteq AllSetups
    /\ NULL \notin Surfaces \cup Operations \cup DriverFuncs

Frames == 1..MaxFrames

Flags == {"CONFIGURED", "ENABLED", "ACTIVE", "REALIZED", "FROZEN"}

VARIABLES
    setup,          \* chosen once
    region,         \* what the region lock protects, see Regions
    frames,         \* display tasks generated so far (flips, without the task manager)
    of,             \* of[f]: the surface whose buffer task f displays
    display_tasks,  \* region->display_tasks: flushed tasks that have not run
    pulled,         \* tasks the pool threads have pulled
    running,        \* running[t]: the task of pool thread t, or 0
    failed,         \* pool threads whose Run() has returned an error
    want,           \* want[c]: the operation caller c is in, or NULL
    waited,         \* callers behind TaskList_WaitEmpty()
    failures        \* driver failures so far

vars == <<setup, region, frames, of, display_tasks, pulled, running, failed, want,
          waited, failures>>

TaskMgr == setup.manager

Failing == setup.failing

callers == <<want, waited>>

tasks == <<frames, of, display_tasks, pulled, running, failed>>

(* flags, config and surface of CoreLayerRegion; hardware: what SetRegion  *)
(* was last told since AddRegion; layer->prev_task; ended: calls of Done() *)
(* per task; broken: assertions of the code found false ("configured":     *)
(* layer_region.c:954, 1458 and 1459, "manager": 1381 and 1460, the others *)
(* in DisplayTask::Run()).                                                 *)
Regions == [flags : SUBSET Flags, config : 0..MaxConfigs,
            surface : Surfaces \cup {NULL},
            hardware : [config : 0..MaxConfigs, surface : Surfaces \cup {NULL}]
                       \cup {NULL},
            prev : 0..MaxFrames, ended : [Frames -> 0..2],
            broken : SUBSET {"suspended", "surface", "realized", "configured",
                             "manager"}]

TypeOK ==
    /\ setup \in Setups
    /\ region \in Regions
    /\ frames \in 0..MaxFrames /\ pulled \in 0..frames
    /\ of \in [Frames -> Surfaces \cup {NULL}]
    /\ display_tasks \subseteq 1..frames
    /\ running \in [Threads -> 0..pulled] /\ failed \subseteq Threads
    /\ want \in [Callers -> Operations \cup {NULL}] /\ waited \subseteq Callers
    /\ failures \in 0..MaxFailures

(* dfb_layer_region_create() *)
Init ==
    /\ setup \in Setups
    /\ region = [flags |-> {"FROZEN"}, config |-> 0, surface |-> NULL,
                 hardware |-> NULL, prev |-> 0,
                 ended |-> [f \in Frames |-> 0], broken |-> {}]
    /\ frames = 0 /\ pulled = 0 /\ display_tasks = {}
    /\ of = [f \in Frames |-> NULL]
    /\ running = [t \in Threads |-> 0] /\ failed = {}
    /\ want = [c \in Callers |-> NULL] /\ waited = {}
    /\ failures = 0

-----------------------------------------------------------------------------
(* Functions of the locked state.  fail is the driver function that fails  *)
(* in the operation, or NULL.                                              *)

Visible(r) == {"ENABLED", "ACTIVE"} \subseteq r.flags

Note(r, assertion, holds) ==
    IF holds THEN r ELSE [r EXCEPT !.broken = @ \cup {assertion}]

EndTask(r, f) == IF f = 0 THEN r ELSE [r EXCEPT !.ended[f] = @ + 1]

(* Mutated form of Apply: the surface is not passed on again. *)
ApplyConfig(r) ==
    [r EXCEPT !.hardware =
        [config |-> r.config,
         surface |-> IF r.hardware = NULL THEN r.surface ELSE r.hardware.surface]]

(* The driver's SetRegion() *)
Apply(r) == [r EXCEPT !.hardware = [config |-> r.config, surface |-> r.surface]]

(* dfb_layer_region_set(): D_ASSERT( !dfb_config->task_manager ) *)
Set(r, fail) ==
    LET s == Note(r, "manager", ~TaskMgr)
    IN  IF "FROZEN" \in r.flags \/ fail = "SetRegion" THEN s ELSE Apply(s)

(* Mutated form of EndDisplayed: prev_task is kept. *)
EndDisplayedKeepsIt(r) == EndTask(r, r.prev)

(* Mutated form of EndDisplayed: prev_task is forgotten. *)
EndDisplayedSilently(r) == [r EXCEPT !.prev = 0]

EndDisplayed(r) == [EndTask(r, r.prev) EXCEPT !.prev = 0]

(* dfb_layer_region_unrealize() *)
Unrealize(r) ==
    LET s == IF setup.removes THEN EndDisplayed(r) ELSE r
    IN  [s EXCEPT !.hardware = NULL,
                  !.flags = (@ \ {"REALIZED"}) \cup {"FROZEN"}]

(* dfb_layer_region_realize() *)
Realize(r, set, fail) ==
    LET s == Note(Note(r, "manager", ~TaskMgr \/ ~set),
                  "configured", "CONFIGURED" \in r.flags /\ "REALIZED" \notin r.flags)
        added == [s EXCEPT !.flags = @ \cup {"REALIZED"}]
    IN  IF "FROZEN" \in r.flags THEN r
        ELSE IF fail = "AddRegion" THEN s
        ELSE IF ~set THEN added
        ELSE IF fail = "SetRegion" THEN Unrealize(Set(added, fail))
        ELSE Set(added, fail)

RealizeFails(r, fail) == "FROZEN" \notin r.flags /\ fail \in {"AddRegion", "SetRegion"}

SetFails(r, fail) == "FROZEN" \notin r.flags /\ fail = "SetRegion"

(* dfb_layer_region_activate() and dfb_layer_region_enable(): flag is set  *)
(* after the region was realized if it has the other flag.                 *)
TurnOn(r, flag, other, fail) ==
    IF flag \in r.flags THEN r
    ELSE LET s == IF other \in r.flags THEN Realize(r, TRUE, fail) ELSE r
         IN  IF other \in r.flags /\ RealizeFails(r, fail) THEN s
             ELSE [s EXCEPT !.flags = @ \cup {flag}]

(* dfb_layer_region_deactivate() and dfb_layer_region_disable() *)
TurnOff(r, flag) ==
    LET s == IF {flag, "REALIZED"} \subseteq r.flags THEN Unrealize(r) ELSE r
    IN  [s EXCEPT !.flags = @ \ {flag}]

(* dfb_layer_region_set_surface() *)
SetSurface(r, s, fail) ==
    LET new == [r EXCEPT !.surface = s]
    IN  IF s = r.surface THEN r
        ELSE IF "REALIZED" \notin r.flags THEN new
        ELSE IF SetFails(r, fail) THEN Set(r, fail)
        ELSE Set(new, fail)

(* dfb_layer_region_set_configuration(); freeze: CLRCF_FREEZE.  The first  *)
(* configuration of a region is a full one, the others are changes.        *)
SetConfiguration(r, c, freeze, fail) ==
    LET n == Note(r, "configured", r.config = 0 \/ "CONFIGURED" \in r.flags)
        f == IF freeze THEN [n EXCEPT !.flags = @ \cup {"FROZEN"}] ELSE n
        propagate == "REALIZED" \in f.flags /\ "FROZEN" \notin f.flags
        new == [f EXCEPT !.config = c, !.flags = @ \cup {"CONFIGURED"}]
    IN  IF ~propagate THEN new
        ELSE IF SetFails(f, fail) THEN Set(f, fail) ELSE Set(new, fail)

(* dfb_layer_context_set_configuration() for its primary region: with      *)
(* DLBM_WINDOWS the region is disabled and loses its surface, otherwise    *)
(* it has one, is configured and enabled.  When the surface cannot be      *)
(* (re)allocated the region is left behind without CONFIGURED; a new one   *)
(* (dfb_layer_context_get_primary_region() has just configured it) is      *)
(* given up.                                                               *)
ContextConfiguration(r, c, s, windows, fail) ==
    LET p == IF r.config = 0 THEN SetConfiguration(r, c, FALSE, fail) ELSE r
        t == IF p.surface # NULL \/ fail = "Allocation" THEN p ELSE SetSurface(p, s, fail)
    IN  IF windows
        THEN IF "ENABLED" \in r.flags
             THEN [TurnOff(r, "ENABLED") EXCEPT !.surface = NULL] ELSE r
        ELSE IF fail = "Allocation" \/ t.surface = NULL
        THEN IF r.config = 0 THEN r ELSE [t EXCEPT !.flags = @ \ {"CONFIGURED"}]
        ELSE TurnOn(SetConfiguration(t, c, TRUE, fail), "ENABLED", "ACTIVE", fail)

(* dfb_layer_region_flip_update(): "Unfreeze region?" *)
Thaw(r, fail) ==
    IF "FROZEN" \notin r.flags THEN r
    ELSE LET s == [r EXCEPT !.flags = @ \ {"FROZEN"}]
         IN  IF "REALIZED" \in r.flags THEN Set(s, fail)
             ELSE IF Visible(r) THEN Realize(s, TRUE, fail)
             ELSE s

-----------------------------------------------------------------------------
(* Callers *)

Calls(c, op) ==
    /\ want[c] = NULL /\ c \in setup.callers /\ op \in setup.ops
    /\ want' = [want EXCEPT ![c] = op]
    /\ UNCHANGED <<setup, region, tasks, waited, failures>>

Emptied == display_tasks = {}

(* TaskList_WaitEmpty() returns. *)
WaitEmpty(c) ==
    /\ want[c] \in WaitingOps /\ TaskMgr /\ c \notin waited
    /\ Emptied
    /\ waited' = waited \cup {c}
    /\ UNCHANGED <<setup, region, tasks, want, failures>>

Ready(c, op) == want[c] = op /\ (TaskMgr /\ op \in WaitingOps => c \in waited)

Returns(c) ==
    /\ want' = [want EXCEPT ![c] = NULL]
    /\ waited' = waited \ {c}

Fails(fail) ==
    /\ fail \in (IF failures < setup.failures THEN Failing ELSE {}) \cup {NULL}
    /\ failures' = IF fail = NULL THEN failures ELSE failures + 1

Activate(c) ==
    /\ Ready(c, "activate")
    /\ \E fail \in Failing \cup {NULL} :
         Fails(fail) /\ region' = TurnOn(region, "ACTIVE", "ENABLED", fail)
    /\ Returns(c) /\ UNCHANGED <<setup, tasks>>

(* Regions get a configuration before they are enabled. *)
Enable(c) ==
    /\ Ready(c, "enable")
    /\ \E fail \in Failing \cup {NULL} :
         /\ Fails(fail)
         /\ region' = IF region.config > 0
                      THEN TurnOn(region, "ENABLED", "ACTIVE", fail) ELSE region
    /\ Returns(c) /\ UNCHANGED <<setup, tasks>>

Deactivate(c) ==
    /\ Ready(c, "deactivate")
    /\ region' = TurnOff(region, "ACTIVE")
    /\ Returns(c) /\ UNCHANGED <<setup, tasks, failures>>

Disable(c) ==
    /\ Ready(c, "disable")
    /\ region' = TurnOff(region, "ENABLED")
    /\ Returns(c) /\ UNCHANGED <<setup, tasks, failures>>

CallSetSurface(c) ==
    /\ Ready(c, "set_surface")
    /\ \E fail \in Failing \cup {NULL}, s \in setup.surfaces :
         /\ Fails(fail)
         /\ region' = IF region.config > 0
                      THEN SetSurface(region, s, fail) ELSE region
    /\ Returns(c) /\ UNCHANGED <<setup, tasks>>

CallSetConfiguration(c) ==
    /\ Ready(c, "set_configuration")
    /\ \E fail \in Failing \cup {NULL}, freeze \in BOOLEAN :
         /\ Fails(fail)
         /\ region' = IF region.config < setup.configs
                      THEN SetConfiguration(region, region.config + 1, freeze, fail)
                      ELSE region
    /\ Returns(c) /\ UNCHANGED <<setup, tasks>>

(* Mutated forms of Recheck: the list is not looked at again, or "goto     *)
(* wait" whatever it holds.                                                *)
NoRecheck == FALSE

AlwaysAgain == TaskMgr

(* Under the region lock: tasks have been added since the wait. *)
Recheck == TaskMgr /\ display_tasks # {}

(* dfb_layer_context_set_configuration(): "goto wait" *)
ContextWaitsAgain(c) ==
    /\ Ready(c, "context") /\ Recheck
    /\ waited' = waited \ {c}
    /\ UNCHANGED <<setup, region, tasks, want, failures>>

ContextConfigures(c) ==
    /\ Ready(c, "context") /\ ~Recheck
    /\ \E fail \in Failing \cup {NULL}, windows \in BOOLEAN, s \in setup.surfaces :
         /\ Fails(fail)
         /\ region' = IF windows \/ region.config < setup.configs
                      THEN ContextConfiguration(region, region.config + 1, s, windows, fail)
                      ELSE region
    /\ Returns(c) /\ UNCHANGED <<setup, tasks>>

(* dfb_layer_region_flip_update() without the task manager: the frame is   *)
(* displayed at once.                                                      *)
Flip(c) ==
    /\ ~TaskMgr /\ Ready(c, "flip")
    /\ \E fail \in Failing \cup {NULL} :
         /\ Fails(fail)
         /\ region' = IF region.surface = NULL THEN region ELSE Thaw(region, fail)
    /\ Returns(c) /\ UNCHANGED <<setup, tasks>>

(* dfb_layer_region_flip_update2(): DisplayTask::Generate(), Flush() *)
FlipTask(c) ==
    /\ TaskMgr /\ Ready(c, "flip")
    /\ IF region.surface # NULL /\ Visible(region) /\ frames < setup.frames
       THEN /\ frames' = frames + 1
            /\ of' = [of EXCEPT ![frames + 1] = region.surface]
            /\ display_tasks' = display_tasks \cup {frames + 1}
       ELSE UNCHANGED <<frames, of, display_tasks>>
    /\ Returns(c) /\ UNCHANGED <<setup, region, pulled, running, failed, failures>>

-----------------------------------------------------------------------------
(* Pool threads *)

Pushed == pulled < frames

(* TaskThreads::taskLoop(): fifo.pull() *)
PullTask(t) ==
    /\ running[t] = 0 /\ Pushed
    /\ pulled' = pulled + 1
    /\ running' = [running EXCEPT ![t] = pulled + 1]
    /\ UNCHANGED <<setup, region, frames, of, display_tasks, failed, callers, failures>>

(* DisplayTask::Run(): "Unfreeze region?" *)
RunThaw(r, fail) ==
    LET s == Realize([r EXCEPT !.flags = @ \ {"FROZEN"}], FALSE, fail)
        realized == IF "REALIZED" \in r.flags THEN [r EXCEPT !.flags = @ \ {"FROZEN"}] ELSE s
    IN  IF "FROZEN" \notin r.flags THEN Note(r, "realized", "REALIZED" \in r.flags)
        ELSE IF fail = "SetRegion" \/ "REALIZED" \notin realized.flags THEN realized
        ELSE Apply(realized)

RunThawFails(r, fail) ==
    /\ "FROZEN" \in r.flags
    /\ fail = "SetRegion" \/ (fail = "AddRegion" /\ "REALIZED" \notin r.flags)

(* region->display_tasks->Remove( this ) *)
Unlisted(f) == display_tasks \ {f}

(* DisplayTask::Run(), the task is displayed: the task before it ends. *)
RunDisplays(t, fail) ==
    LET f == running[t]
        r == Note(RunThaw(region, fail), "surface", of[f] = region.surface)
    IN  /\ Visible(region) /\ ~RunThawFails(region, fail) /\ fail # "FlipRegion"
        /\ region' = [EndDisplayed(r) EXCEPT !.prev = f]
        /\ running' = [running EXCEPT ![t] = 0]
        /\ UNCHANGED failed

(* DisplayTask::Run(), an error: Done( ret ), and Run() returns it. *)
RunFails(t, fail) ==
    LET f == running[t]
    IN  /\ \/ /\ ~Visible(region)
              /\ region' = EndTask(Note(region, "suspended", FALSE), f)
           \/ /\ Visible(region) /\ (RunThawFails(region, fail) \/ fail = "FlipRegion")
              /\ region' = EndTask(RunThaw(region, fail), f)
        /\ failed' = failed \cup {t}
        /\ UNCHANGED running

Run(t) ==
    /\ running[t] # 0 /\ t \notin failed
    /\ display_tasks' = Unlisted(running[t])
    /\ \E fail \in Failing \cup {NULL} :
         /\ Fails(fail)
         /\ RunDisplays(t, fail) \/ RunFails(t, fail)
    /\ UNCHANGED <<setup, frames, of, pulled, callers>>

(* TaskThreads::taskLoop(): "task->Done( ret )" *)
LoopDone(t) ==
    /\ t \in failed
    /\ region' = EndTask(region, running[t])
    /\ running' = [running EXCEPT ![t] = 0]
    /\ failed' = failed \ {t}
    /\ UNCHANGED <<setup, frames, of, display_tasks, pulled, callers, failures>>

-----------------------------------------------------------------------------
Operation(c) ==
    \/ WaitEmpty(c) \/ Activate(c) \/ Enable(c) \/ Deactivate(c) \/ Disable(c)
    \/ CallSetSurface(c) \/ CallSetConfiguration(c)
    \/ ContextWaitsAgain(c) \/ ContextConfigures(c)
    \/ Flip(c) \/ FlipTask(c)

Pool(t) == PullTask(t) \/ Run(t) \/ LoopDone(t)

Next ==
    \/ \E c \in Callers : (\E op \in setup.ops : Calls(c, op)) \/ Operation(c)
    \/ \E t \in Threads : Pool(t)

Spec == Init /\ [][Next]_vars

(* A call that has begun goes on, and the pool threads run; nobody has to  *)
(* begin a call.                                                           *)
FairSpec ==
    /\ Spec
    /\ \A c \in Callers : WF_vars(Operation(c))
    /\ \A t \in Threads : WF_vars(Pool(t))

-----------------------------------------------------------------------------
(* Waiting for an empty list before the lock is taken excludes flips only  *)
(* of the thread that waits, unless the list is looked at again (as        *)
(* dfb_layer_context_set_configuration() does).                            *)
FlipsWhereWaited ==
    (\A c, d \in setup.callers : c = d) \/ setup.ops \cap WaitingOps \subseteq {"context"}

(* The region of a layer context may have lost CONFIGURED.                 *)
MayLoseConfigured == Failing \cap {"Allocation", "SetRegion"} # {}

(* A region is known to the driver only while it is configured, enabled    *)
(* and active, whatever the order of freezing, flipping and switching.     *)
(* (When the (re)allocation of its surface fails, dfb_layer_context_set_   *)
(* configuration() returns with CONFIGURED cleared.)                       *)
RealizedIsVisible ==
    "REALIZED" \in region.flags =>
        /\ Visible(region)
        /\ "CONFIGURED" \in region.flags \/ MayLoseConfigured

(* layers.h, SetRegion(): "Setup hardware, called once after AddRegion()   *)
(* or when parameters have changed."  Unless changes are held back         *)
(* (FROZEN), the hardware of a realized region shows its surface and its   *)
(* configuration.  (When SetRegion() itself fails, FROZEN is gone and the  *)
(* hardware keeps what it had.)                                            *)
HardwareFollowsRegion ==
    /\ "REALIZED" \in region.flags /\ "FROZEN" \notin region.flags
    /\ "SetRegion" \notin Failing
    => region.hardware = [config |-> region.config, surface |-> region.surface]

(* Task.cpp, Task::Done(): "DFB_TASK_CHECK_STATE( this, TASK_RUNNING, )":  *)
(* no display task ends twice, be it by the next one, by unrealizing the   *)
(* region or by the pool.  (One whose Run() fails does: Run() and the pool *)
(* thread both end it.)                                                    *)
DoneOnce ==
    Failing = {} /\ FlipsWhereWaited => \A f \in Frames : region.ended[f] <= 1

(* A display task stays on the screen (and so keeps its buffer from being  *)
(* drawn to) only while the region is realized, if the driver has a        *)
(* RemoveRegion().  (After AddRegion() has failed in Run(), the next task  *)
(* is displayed in a region that is neither frozen nor realized.)          *)
DisplayedWhileRealized ==
    region.prev # 0 /\ setup.removes /\ "realized" \notin region.broken
    => "REALIZED" \in region.flags

(* DisplayTask::Run(): "D_ASSUME( D_FLAGS_ARE_SET( region->state,          *)
(* CLRSF_ENABLED | CLRSF_ACTIVE ) )": waiting for an empty list keeps      *)
(* tasks from running in a region that was switched off.                   *)
RunsInVisibleRegion == FlipsWhereWaited => "suspended" \notin region.broken

(* A display task runs while its buffer is one of the region's surface.    *)
RunsOnItsSurface == FlipsWhereWaited => "surface" \notin region.broken

(* DisplayTask::Run(): "D_ASSUME( D_FLAGS_IS_SET( region->state,           *)
(* CLRSF_REALIZED ) )": a region that is not frozen is realized, unless    *)
(* AddRegion() has failed.                                                 *)
ThawedIsRealized == "AddRegion" \notin Failing => "realized" \notin region.broken

(* dfb_layer_region_realize() and _set_configuration(): "D_ASSERT(         *)
(* D_FLAGS_IS_SET( region->state, CLRSF_CONFIGURED ) )": an operation of   *)
(* the context that fails halfway leaves nothing behind that the next one  *)
(* does not expect.  The code does not keep this.                          *)
StaysConfigured == "configured" \notin region.broken

(* dfb_layer_region_set(): "D_ASSERT( !dfb_config->task_manager )": with   *)
(* the task manager it is left to the display tasks to realize a region    *)
(* and to set it up.  The code does not keep this.                         *)
SetUpByTasks == "manager" \notin region.broken

(* These assertions do hold for the region of a layer context, whose       *)
(* changes are always frozen, unless one of the functions named fails.     *)
AssertionsHold ==
    /\ ~MayLoseConfigured => StaysConfigured
    /\ setup.ops \cap {"set_surface", "set_configuration"} = {} /\ "AddRegion" \notin Failing
       => SetUpByTasks

(* Nobody waits for ever for the display tasks of a region. *)
CallsReturn == \A c \in Callers : want[c] # NULL ~> want[c] = NULL

(* Every display task ends, but for the one on the screen. *)
TasksEndOrStay ==
    \A f \in Frames : frames >= f ~> region.ended[f] > 0 \/ region.prev = f

(* Flags, hardware and the displayed task of the region agree.             *)
Consistent ==
    TypeOK /\ RealizedIsVisible /\ HardwareFollowsRegion /\ DisplayedWhileRealized

(* What DisplayTask::Run() assumes of its region and surface (three        *)
(* D_ASSUMEs and region->surface) is true whenever a task runs, although   *)
(* the callers' waits for it come before they take the lock; and what the  *)
(* functions of the region assert of it.                                   *)
RunsAsAssumed ==
    RunsInVisibleRegion /\ RunsOnItsSurface /\ ThawedIsRealized /\ AssertionsHold
=============================================================================
