------------------------- MODULE LayerRegionProofs -------------------------
(***************************************************************************)
(* Proofs about one region of a layer, for any number of callers, pool     *)
(* threads, surfaces and flips and every program and driver in AllSetups:  *)
(* flags, hardware and displayed task agree, DisplayTask::Run() finds what *)
(* it assumes, no display task ends twice, and what the functions of the   *)
(* region assert holds where the reasons why it may not are absent.        *)
(*                                                                         *)
(* First the functions of the locked state, then the steps.  The argument  *)
(* for the waits: while a task is in the list, nobody who switches the     *)
(* region off or changes its surface is past TaskList_WaitEmpty(), either  *)
(* because there is one caller or because the list is looked at again.     *)
(***************************************************************************)
EXTENDS LayerRegion, TLAPS

Hardware == [config : 0..MaxConfigs, surface : Surfaces \cup {NULL}] \cup {NULL}

Assertions == {"suspended", "surface", "realized", "configured", "manager"}

(* Assertions of the functions of the region; the others are in Run(). *)
OfFunctions == {"configured", "manager"}

(* The region is realized and set up by display tasks alone. *)
LeftToTasks ==
    setup.ops \cap {"set_surface", "set_configuration"} = {} /\ "AddRegion" \notin Failing

(* Regions, without the bound on the calls of Done(). *)
Records == [flags : SUBSET Flags, config : 0..MaxConfigs,
            surface : Surfaces \cup {NULL}, hardware : Hardware,
            prev : 0..MaxFrames, ended : [Frames -> Nat],
            broken : SUBSET Assertions]

(* Between two functions, the record of the region is in order. *)
Fine(r) ==
    /\ r \in Records
    /\ "ENABLED" \in r.flags => r.config > 0
    /\ "REALIZED" \in r.flags => "ENABLED" \in r.flags /\ "ACTIVE" \in r.flags
    /\ "REALIZED" \in r.flags /\ "FROZEN" \notin r.flags /\ "SetRegion" \notin Failing
       => r.hardware = [config |-> r.config, surface |-> r.surface]
    /\ r.prev # 0 /\ setup.removes /\ "realized" \notin r.broken => "REALIZED" \in r.flags
    /\ "AddRegion" \notin Failing /\ Visible(r) /\ "FROZEN" \notin r.flags
       => "REALIZED" \in r.flags
    /\ ~MayLoseConfigured =>
          "configured" \notin r.broken /\ (r.config > 0 => "CONFIGURED" \in r.flags)
    /\ ~TaskMgr \/ LeftToTasks => "manager" \notin r.broken
    /\ TaskMgr /\ LeftToTasks =>
          /\ "FROZEN" \notin r.flags => "REALIZED" \in r.flags
          /\ "REALIZED" \in r.flags => r.surface # NULL

(* From r to s at most the task on the screen ends. *)
Ends(r, s) ==
    /\ s.broken \ OfFunctions = r.broken \ OfFunctions
    /\ \/ s.prev = r.prev /\ s.ended = r.ended
       \/ s.prev = 0 /\ s.ended = EndTask(r, r.prev).ended

(* s is in order and follows r. *)
Follows(r, s) == Fine(s) /\ Ends(r, s)

(* s notes what realizing and setting up r assert of it. *)
Noted(r, s) ==
    /\ s.broken \ OfFunctions = r.broken \ OfFunctions
    /\ "configured" \in s.broken =>
          "configured" \in r.broken \/ "CONFIGURED" \notin r.flags \/ "REALIZED" \in r.flags
    /\ "manager" \in s.broken => "manager" \in r.broken \/ TaskMgr

CanFail(fail) == fail \in Failing \cup {NULL}

-----------------------------------------------------------------------------
(* The functions of the locked state *)

LEMMA SetupFacts ==
    ASSUME setup \in Setups
    PROVE  /\ setup.manager \in BOOLEAN /\ setup.removes \in BOOLEAN
           /\ setup.callers \subseteq Callers /\ setup.ops \subseteq Operations
           /\ setup.surfaces \subseteq Surfaces
           /\ Failing \subseteq DriverFuncs
           /\ setup.frames \in 0..MaxFrames /\ setup.configs \in 0..MaxConfigs
           /\ setup.failures \in 0..MaxFailures
  BY RegionAssumption DEF AllSetups, Failing

LEMMA FailFacts ==
    ASSUME NEW fail, CanFail(fail), setup \in Setups
    PROVE  /\ fail = "AddRegion" => "AddRegion" \in Failing
           /\ fail = "SetRegion" => "SetRegion" \in Failing /\ MayLoseConfigured
           /\ fail = "Allocation" => MayLoseConfigured
           /\ LeftToTasks => fail # "AddRegion"
  BY RegionAssumption DEF CanFail, DriverFuncs, MayLoseConfigured, LeftToTasks

LEMMA NoteFacts ==
    ASSUME NEW r \in Records, NEW a \in Assertions, NEW holds \in BOOLEAN
    PROVE  LET s == Note(r, a, holds)
           IN  /\ s \in Records
               /\ s.flags = r.flags /\ s.config = r.config /\ s.surface = r.surface
               /\ s.hardware = r.hardware /\ s.prev = r.prev /\ s.ended = r.ended
               /\ s.broken = IF holds THEN r.broken ELSE r.broken \cup {a}
<1>1. r.broken \cup {a} \in SUBSET Assertions
  BY DEF Records
<1> QED
  BY <1>1 DEF Note, Records

LEMMA EndTaskFacts ==
    ASSUME NEW r \in Records, NEW f \in 0..MaxFrames
    PROVE  /\ EndTask(r, f) \in Records
           /\ EndTask(r, f) = [r EXCEPT !.ended = EndTask(r, f).ended]
           /\ EndTask(r, f).ended = IF f = 0 THEN r.ended
                                    ELSE [r.ended EXCEPT ![f] = @ + 1]
<1>1. MaxFrames \in Nat
  BY RegionAssumption
<1>2. CASE f = 0
  BY <1>2 DEF EndTask, Records
<1>3. CASE f # 0
  <2>1. f \in Frames /\ r.ended \in [Frames -> Nat]
    BY <1>1, <1>3 DEF Frames, Records
  <2> DEFINE e == [r.ended EXCEPT ![f] = @ + 1]
  <2>2. e \in [Frames -> Nat]
    BY <2>1
  <2>3. EndTask(r, f) = [r EXCEPT !.ended = e]
    BY <1>3 DEF EndTask
  <2> HIDE DEF e
  <2>4. EndTask(r, f) \in Records /\ EndTask(r, f).ended = e
    BY <2>2, <2>3 DEF Records
  <2> QED
    BY <1>3, <2>3, <2>4 DEF e
<1> QED
  BY <1>2, <1>3

LEMMA UnrealizeFacts ==
    ASSUME NEW r \in Records, setup \in Setups
    PROVE  LET s == Unrealize(r)
           IN  /\ s \in Records
               /\ s.flags = (r.flags \ {"REALIZED"}) \cup {"FROZEN"}
               /\ s.config = r.config /\ s.surface = r.surface
               /\ setup.removes => s.prev = 0
               /\ Ends(r, s) /\ s.broken = r.broken
<1> DEFINE t == IF setup.removes THEN EndDisplayed(r) ELSE r
<1>1. /\ t \in Records
      /\ t.flags = r.flags /\ t.config = r.config /\ t.surface = r.surface
      /\ setup.removes => t.prev = 0
      /\ Ends(r, t) /\ t.broken = r.broken
  <2>1. CASE setup.removes
    <3> DEFINE e == EndTask(r, r.prev)
    <3>1. e \in Records /\ e = [r EXCEPT !.ended = e.ended]
      BY EndTaskFacts DEF Records
    <3>2. 0 \in 0..MaxFrames
      BY RegionAssumption
    <3>3. t = [e EXCEPT !.prev = 0]
      BY <2>1 DEF EndDisplayed
    <3> HIDE DEF e
    <3>4. /\ t \in Records /\ t.prev = 0 /\ t.ended = e.ended
          /\ t.flags = e.flags /\ t.config = e.config /\ t.surface = e.surface
          /\ t.broken = e.broken
      BY <3>1, <3>2, <3>3 DEF Records
    <3>5. e.flags = r.flags /\ e.config = r.config /\ e.surface = r.surface
          /\ e.broken = r.broken
      BY <3>1 DEF Records
    <3> QED
      BY <3>4, <3>5 DEF Ends, e
  <2>2. CASE ~setup.removes
    BY <2>2 DEF Ends
  <2> QED
    BY <2>1, <2>2
<1>2. Unrealize(r) = [t EXCEPT !.hardware = NULL,
                               !.flags = (@ \ {"REALIZED"}) \cup {"FROZEN"}]
  BY DEF Unrealize
<1> HIDE DEF t
<1> QED
  BY <1>1, <1>2 DEF Records, Hardware, Flags, Ends

(* SetRegion() of the driver *)
LEMMA ApplyFacts ==
    ASSUME NEW r \in Records
    PROVE  LET s == Apply(r)
           IN  /\ s \in Records
               /\ s.hardware = [config |-> s.config, surface |-> s.surface]
               /\ s.flags = r.flags /\ s.config = r.config /\ s.surface = r.surface
               /\ s.prev = r.prev /\ s.ended = r.ended /\ s.broken = r.broken
<1> DEFINE h == [config |-> r.config, surface |-> r.surface]
<1>1. h \in Hardware
  BY DEF Records, Hardware
<1>2. Apply(r) = [r EXCEPT !.hardware = h]
  BY DEF Apply
<1> HIDE DEF h
<1>3. LET s == Apply(r)
      IN  /\ s \in Records /\ s.hardware = h
          /\ s.flags = r.flags /\ s.config = r.config /\ s.surface = r.surface
          /\ s.prev = r.prev /\ s.ended = r.ended /\ s.broken = r.broken
  BY <1>1, <1>2 DEF Records
<1> QED
  BY <1>3 DEF h

(* A change of the flags *)
LEMMA FlagFacts ==
    ASSUME NEW r \in Records, NEW F \in SUBSET Flags
    PROVE  LET s == [r EXCEPT !.flags = F]
           IN  /\ s \in Records
               /\ s.flags = F
               /\ s.hardware = r.hardware /\ s.config = r.config /\ s.surface = r.surface
               /\ s.prev = r.prev /\ s.ended = r.ended /\ s.broken = r.broken
  BY DEF Records

(* s is r set up by dfb_layer_region_set(). *)
SetUp(r, fail, s) ==
    /\ s \in Records
    /\ s.flags = r.flags /\ s.config = r.config /\ s.surface = r.surface
    /\ s.prev = r.prev /\ s.ended = r.ended
    /\ "FROZEN" \in r.flags \/ fail = "SetRegion" => s.hardware = r.hardware
    /\ ~("FROZEN" \in r.flags \/ fail = "SetRegion") =>
           s.hardware = [config |-> s.config, surface |-> s.surface]
    /\ s.broken = IF TaskMgr THEN r.broken \cup {"manager"} ELSE r.broken

LEMMA SetFacts ==
    ASSUME NEW r \in Records, NEW fail, setup \in Setups
    PROVE  SetUp(r, fail, Set(r, fail))
<1> DEFINE n == Note(r, "manager", ~TaskMgr)
           s == Set(r, fail)
<1>1. /\ n \in Records
      /\ n.flags = r.flags /\ n.config = r.config /\ n.surface = r.surface
      /\ n.hardware = r.hardware /\ n.prev = r.prev /\ n.ended = r.ended
      /\ n.broken = IF TaskMgr THEN r.broken \cup {"manager"} ELSE r.broken
  BY NoteFacts, SetupFacts DEF Assertions, TaskMgr
<1>2. s = IF "FROZEN" \in r.flags \/ fail = "SetRegion" THEN n ELSE Apply(n)
  BY DEF Set
<1> HIDE DEF n, s
<1>3. CASE "FROZEN" \in r.flags \/ fail = "SetRegion"
  BY <1>1, <1>2, <1>3 DEF SetUp, s
<1>4. CASE ~("FROZEN" \in r.flags \/ fail = "SetRegion")
  <2>1. /\ s \in Records /\ s.hardware = [config |-> s.config, surface |-> s.surface]
        /\ s.flags = n.flags /\ s.config = n.config /\ s.surface = n.surface
        /\ s.prev = n.prev /\ s.ended = n.ended /\ s.broken = n.broken
    BY <1>1, <1>2, <1>4, ApplyFacts
  <2> QED
    BY <1>1, <1>4, <2>1 DEF SetUp, s
<1> QED
  BY <1>3, <1>4

(* What Realize() asserts is noted, and nothing else is changed. *)
LEMMA RealizeNotes ==
    ASSUME NEW r \in Records, NEW set \in BOOLEAN, setup \in Setups
    PROVE  LET s == Note(Note(r, "manager", ~TaskMgr \/ ~set), "configured",
                         "CONFIGURED" \in r.flags /\ "REALIZED" \notin r.flags)
           IN  /\ s \in Records
               /\ s.flags = r.flags /\ s.config = r.config /\ s.surface = r.surface
               /\ s.hardware = r.hardware /\ s.prev = r.prev /\ s.ended = r.ended
               /\ Noted(r, s)
               /\ ~set /\ "manager" \in s.broken => "manager" \in r.broken
<1> DEFINE a == ~TaskMgr \/ ~set
           b == "CONFIGURED" \in r.flags /\ "REALIZED" \notin r.flags
           n == Note(r, "manager", a)
           s == Note(n, "configured", b)
<1>0. a \in BOOLEAN /\ b \in BOOLEAN
  OBVIOUS
<1>1. /\ n \in Records
      /\ n.flags = r.flags /\ n.config = r.config /\ n.surface = r.surface
      /\ n.hardware = r.hardware /\ n.prev = r.prev /\ n.ended = r.ended
      /\ n.broken = IF a THEN r.broken ELSE r.broken \cup {"manager"}
  BY <1>0, NoteFacts DEF Assertions
<1> HIDE DEF n
<1>2. /\ s \in Records
      /\ s.flags = n.flags /\ s.config = n.config /\ s.surface = n.surface
      /\ s.hardware = n.hardware /\ s.prev = n.prev /\ s.ended = n.ended
      /\ s.broken = IF b THEN n.broken ELSE n.broken \cup {"configured"}
  BY <1>0, <1>1, NoteFacts DEF Assertions
<1> HIDE DEF s
<1>3. Noted(r, s) /\ (~set /\ "manager" \in s.broken => "manager" \in r.broken)
  BY <1>1, <1>2 DEF Noted, OfFunctions
<1> QED
  BY <1>1, <1>2, <1>3 DEF s, n

(* Realize() is refused, fails in AddRegion() or SetRegion(), or succeeds. *)
LEMMA RealizeFacts ==
    ASSUME NEW r \in Records, NEW fail, CanFail(fail), setup \in Setups
    PROVE  LET s == Realize(r, TRUE, fail)
           IN  \/ s = r /\ "FROZEN" \in r.flags
               \/ /\ fail = "AddRegion" /\ "FROZEN" \notin r.flags
                  /\ s \in Records /\ s.flags = r.flags
                  /\ s.config = r.config /\ s.surface = r.surface /\ s.hardware = r.hardware
                  /\ s.prev = r.prev /\ s.ended = r.ended /\ Noted(r, s)
               \/ /\ fail = "SetRegion" /\ "FROZEN" \notin r.flags
                  /\ s \in Records /\ s.config = r.config /\ s.surface = r.surface
                  /\ s.flags = (r.flags \ {"REALIZED"}) \cup {"FROZEN"}
                  /\ setup.removes => s.prev = 0
                  /\ Ends(r, s) /\ Noted(r, s)
               \/ /\ ~RealizeFails(r, fail) /\ "FROZEN" \notin r.flags
                  /\ s \in Records /\ s.config = r.config /\ s.surface = r.surface
                  /\ s.flags = r.flags \cup {"REALIZED"}
                  /\ s.hardware = [config |-> s.config, surface |-> s.surface]
                  /\ s.prev = r.prev /\ s.ended = r.ended /\ Noted(r, s)
<1> DEFINE n == Note(Note(r, "manager", ~TaskMgr \/ ~TRUE), "configured",
                     "CONFIGURED" \in r.flags /\ "REALIZED" \notin r.flags)
           added == [n EXCEPT !.flags = @ \cup {"REALIZED"}]
           s == Realize(r, TRUE, fail)
<1>1. /\ n \in Records
      /\ n.flags = r.flags /\ n.config = r.config /\ n.surface = r.surface
      /\ n.hardware = r.hardware /\ n.prev = r.prev /\ n.ended = r.ended /\ Noted(r, n)
  BY RealizeNotes
<1>2. s = IF "FROZEN" \in r.flags THEN r
          ELSE IF fail = "AddRegion" THEN n
          ELSE IF fail = "SetRegion" THEN Unrealize(Set(added, fail)) ELSE Set(added, fail)
  BY DEF Realize
<1> HIDE DEF n, s
<1>3. /\ added \in Records /\ added.flags = r.flags \cup {"REALIZED"}
      /\ added.config = r.config /\ added.surface = r.surface
      /\ added.prev = r.prev /\ added.ended = r.ended /\ added.broken = n.broken
  <2>1. n.flags \cup {"REALIZED"} \in SUBSET Flags
    BY <1>1 DEF Records, Flags
  <2> QED
    BY <1>1, <2>1 DEF Records
<1> HIDE DEF added
<1> DEFINE u == Set(added, fail)
<1>4. /\ u \in Records /\ u.flags = added.flags
      /\ u.config = added.config /\ u.surface = added.surface
      /\ u.prev = added.prev /\ u.ended = added.ended
      /\ ~("FROZEN" \in added.flags \/ fail = "SetRegion") =>
             u.hardware = [config |-> u.config, surface |-> u.surface]
      /\ u.broken = IF TaskMgr THEN added.broken \cup {"manager"} ELSE added.broken
  <2>1. SetUp(added, fail, u)
    BY <1>3, SetFacts
  <2> QED
    BY <2>1 DEF SetUp
<1> HIDE DEF u
<1>5. Noted(r, u)
  BY <1>1, <1>3, <1>4 DEF Noted, OfFunctions
<1>6. CASE "FROZEN" \in r.flags
  BY <1>2, <1>6 DEF s
<1>7. CASE "FROZEN" \notin r.flags /\ fail = "AddRegion"
  BY <1>1, <1>2, <1>7 DEF s
<1>8. CASE "FROZEN" \notin r.flags /\ fail # "AddRegion" /\ fail = "SetRegion"
  <2>1. s = Unrealize(u)
    BY <1>2, <1>8 DEF u
  <2>2. /\ s \in Records /\ s.flags = (u.flags \ {"REALIZED"}) \cup {"FROZEN"}
        /\ s.config = u.config /\ s.surface = u.surface
        /\ setup.removes => s.prev = 0
        /\ Ends(u, s) /\ s.broken = u.broken
    BY <1>4, <2>1, UnrealizeFacts
  <2>3. EndTask(u, u.prev).ended = EndTask(r, r.prev).ended
    <3>1. r.prev \in 0..MaxFrames
      BY DEF Records
    <3>2. EndTask(r, r.prev).ended = IF r.prev = 0 THEN r.ended
                                     ELSE [r.ended EXCEPT ![r.prev] = @ + 1]
      BY <3>1, EndTaskFacts
    <3>3. EndTask(u, r.prev).ended = IF r.prev = 0 THEN u.ended
                                     ELSE [u.ended EXCEPT ![r.prev] = @ + 1]
      BY <1>4, <3>1, EndTaskFacts
    <3> QED
      BY <1>3, <1>4, <3>2, <3>3
  <2>4. Ends(r, s) /\ Noted(r, s)
    BY <1>3, <1>4, <1>5, <2>2, <2>3 DEF Ends, Noted
  <2>5. s.flags = (r.flags \ {"REALIZED"}) \cup {"FROZEN"}
    BY <1>3, <1>4, <2>2
  <2> QED
    BY <1>3, <1>4, <1>8, <2>2, <2>4, <2>5 DEF s
<1>9. CASE "FROZEN" \notin r.flags /\ fail # "AddRegion" /\ fail # "SetRegion"
  <2>1. s = u
    BY <1>2, <1>9 DEF u
  <2>2. ~RealizeFails(r, fail) /\ "FROZEN" \notin added.flags
    BY <1>3, <1>9 DEF RealizeFails
  <2> QED
    BY <1>3, <1>4, <1>5, <1>9, <2>1, <2>2 DEF s
<1> QED
  BY <1>6, <1>7, <1>8, <1>9

LEMMA TurnOnFacts ==
    ASSUME NEW r, Fine(r), NEW fail, CanFail(fail), setup \in Setups,
           NEW flag, NEW other,
           \/ flag = "ENABLED" /\ other = "ACTIVE" /\ r.config > 0
           \/ flag = "ACTIVE" /\ other = "ENABLED"
    PROVE  LET s == TurnOn(r, flag, other, fail)
           IN  /\ Follows(r, s) /\ s.surface = r.surface
               /\ Visible(r) => Visible(s)
<1> DEFINE t == IF other \in r.flags THEN Realize(r, TRUE, fail) ELSE r
           s == TurnOn(r, flag, other, fail)
<1>1. CASE flag \in r.flags
  BY <1>1 DEF TurnOn, Follows, Ends
<1>2. CASE flag \notin r.flags
  <2>0. r \in Records /\ ~Visible(r) /\ "REALIZED" \notin r.flags
    BY <1>2 DEF Fine, Visible
  <2>1. CASE ~(other \in r.flags /\ "FROZEN" \notin r.flags)
    <3>1. s = [r EXCEPT !.flags = @ \cup {flag}]
      BY <1>2, <2>1 DEF TurnOn, RealizeFails, Realize
    <3> HIDE DEF s
    <3>2. r.flags \cup {flag} \in SUBSET Flags
      BY <2>0 DEF Records, Flags
    <3>3. /\ s \in Records /\ s.flags = r.flags \cup {flag}
          /\ s.hardware = r.hardware /\ s.config = r.config /\ s.surface = r.surface
          /\ s.prev = r.prev /\ s.ended = r.ended /\ s.broken = r.broken
      BY <2>0, <3>1, <3>2 DEF Records
    <3>4. Fine(s)
      BY <2>0, <2>1, <3>3 DEF Fine, Visible
    <3> QED
      BY <2>0, <3>3, <3>4 DEF Follows, Ends, s
  <2>2. CASE other \in r.flags /\ "FROZEN" \notin r.flags
    <3>1. t = Realize(r, TRUE, fail)
      BY <2>2
    <3>2. r.config > 0 /\ ~(TaskMgr /\ LeftToTasks)
      BY <2>0, <2>2 DEF Fine
    <3>3. s = IF RealizeFails(r, fail) THEN t ELSE [t EXCEPT !.flags = @ \cup {flag}]
      BY <1>2, <2>2 DEF TurnOn
    <3> HIDE DEF s, t
    <3>4. ASSUME NEW q, Noted(r, q)
          PROVE  /\ ~MayLoseConfigured => "configured" \notin q.broken
                 /\ ~TaskMgr \/ LeftToTasks => "manager" \notin q.broken
      BY <2>0, <3>2, <3>4 DEF Fine, Noted
    <3>5. CASE RealizeFails(r, fail)
      <4>1. s = t
        BY <3>3, <3>5
      <4>2. \/ /\ t \in Records /\ t.flags = r.flags
               /\ t.config = r.config /\ t.surface = r.surface /\ t.hardware = r.hardware
               /\ t.prev = r.prev /\ t.ended = r.ended /\ Noted(r, t)
            \/ /\ t \in Records /\ t.config = r.config /\ t.surface = r.surface
               /\ t.flags = (r.flags \ {"REALIZED"}) \cup {"FROZEN"}
               /\ setup.removes => t.prev = 0
               /\ Ends(r, t) /\ Noted(r, t)
        BY <2>0, <2>2, <3>1, <3>5, RealizeFacts
      <4>3. Fine(t)
        BY <2>0, <3>2, <3>4, <4>2 DEF Fine, Visible, Ends, Noted, OfFunctions
      <4>4. Ends(r, t) /\ t.surface = r.surface
        BY <4>2 DEF Ends, Noted
      <4> QED
        BY <2>0, <4>1, <4>3, <4>4 DEF Follows, s
    <3>6. CASE ~RealizeFails(r, fail)
      <4>1. fail # "AddRegion" /\ fail # "SetRegion"
        BY <2>2, <3>6 DEF RealizeFails
      <4>2. /\ t \in Records /\ t.config = r.config /\ t.surface = r.surface
            /\ t.flags = r.flags \cup {"REALIZED"}
            /\ t.hardware = [config |-> t.config, surface |-> t.surface]
            /\ t.prev = r.prev /\ t.ended = r.ended /\ Noted(r, t)
        BY <2>0, <2>2, <3>1, <4>1, RealizeFacts
      <4>3. t.flags \cup {flag} \in SUBSET Flags
        BY <4>2 DEF Records, Flags
      <4>4. s = [t EXCEPT !.flags = @ \cup {flag}]
        BY <3>3, <3>6
      <4>5. /\ s \in Records /\ s.flags = t.flags \cup {flag}
            /\ s.hardware = t.hardware /\ s.config = t.config /\ s.surface = t.surface
            /\ s.prev = t.prev /\ s.ended = t.ended /\ s.broken = t.broken
        BY <4>2, <4>3, <4>4 DEF Records
      <4>6. /\ s \in Records /\ s.flags = r.flags \cup {"REALIZED", flag}
            /\ s.config = r.config /\ s.surface = r.surface
            /\ s.prev = r.prev /\ s.ended = r.ended /\ Noted(r, s)
            /\ s.hardware = [config |-> s.config, surface |-> s.surface]
        BY <4>2, <4>5 DEF Noted
      <4>7. Fine(s)
        BY <2>0, <2>2, <3>2, <3>4, <4>6 DEF Fine, Noted, OfFunctions
      <4> QED
        BY <2>0, <4>6, <4>7 DEF Follows, Ends, Noted, s
    <3> QED
      BY <3>5, <3>6
  <2> QED
    BY <2>1, <2>2
<1> QED
  BY <1>1, <1>2

LEMMA TurnOffFacts ==
    ASSUME NEW r, Fine(r), setup \in Setups, NEW flag \in {"ENABLED", "ACTIVE"}
    PROVE  LET s == TurnOff(r, flag)
           IN  Follows(r, s) /\ s.surface = r.surface
<1> DEFINE t == IF {flag, "REALIZED"} \subseteq r.flags THEN Unrealize(r) ELSE r
           s == TurnOff(r, flag)
<1>1. s = [t EXCEPT !.flags = @ \ {flag}]
  BY DEF TurnOff
<1>2. r \in Records
  BY DEF Fine
<1>3. /\ t \in Records /\ t.config = r.config /\ t.surface = r.surface /\ Ends(r, t)
      /\ t.broken = r.broken
      /\ \/ t = r /\ "REALIZED" \notin r.flags
         \/ /\ t.flags = (r.flags \ {"REALIZED"}) \cup {"FROZEN"}
            /\ setup.removes => t.prev = 0
  <2>1. CASE {flag, "REALIZED"} \subseteq r.flags
    BY <1>2, <2>1, UnrealizeFacts
  <2>2. CASE ~({flag, "REALIZED"} \subseteq r.flags)
    BY <1>2, <2>2 DEF Ends, Fine
  <2> QED
    BY <2>1, <2>2
<1> HIDE DEF t, s
<1>4. /\ s \in Records /\ s.flags = t.flags \ {flag}
      /\ s.hardware = t.hardware /\ s.config = t.config /\ s.surface = t.surface
      /\ s.prev = t.prev /\ s.ended = t.ended /\ s.broken = t.broken
  BY <1>1, <1>3 DEF Records
<1>5. Ends(r, s)
  BY <1>3, <1>4 DEF Ends
<1>6. Fine(s)
  BY <1>2, <1>3, <1>4 DEF Fine, Visible, Ends
<1> QED
  BY <1>3, <1>4, <1>5, <1>6 DEF Follows, s

LEMMA SetSurfaceFacts ==
    ASSUME NEW r, Fine(r), NEW fail, CanFail(fail), setup \in Setups, NEW s \in Surfaces,
           LeftToTasks => r.surface = NULL
    PROVE  LET t == SetSurface(r, s, fail)
           IN  /\ Follows(r, t) /\ t.flags = r.flags /\ t.prev = r.prev /\ t.ended = r.ended
               /\ t.config = r.config
               /\ t.surface = s \/ (t.surface = r.surface /\ MayLoseConfigured)
<1> DEFINE new == [r EXCEPT !.surface = s]
           t == SetSurface(r, s, fail)
<1>1. r \in Records
  BY DEF Fine
<1>2. /\ new \in Records /\ new.surface = s
      /\ new.flags = r.flags /\ new.config = r.config /\ new.hardware = r.hardware
      /\ new.prev = r.prev /\ new.ended = r.ended /\ new.broken = r.broken
  BY <1>1 DEF Records
<1>3. s # NULL /\ (TaskMgr /\ LeftToTasks => "REALIZED" \notin r.flags)
  BY RegionAssumption DEF Fine
<1>4. CASE s = r.surface
  BY <1>4 DEF SetSurface, Follows, Ends
<1>5. CASE s # r.surface /\ "REALIZED" \notin r.flags
  <2>1. t = new
    BY <1>5 DEF SetSurface
  <2> HIDE DEF t, new
  <2>2. Fine(t)
    BY <1>2, <1>3, <1>5, <2>1 DEF Fine, Visible
  <2> QED
    BY <1>2, <2>1, <2>2 DEF Follows, Ends, t
<1>6. CASE s # r.surface /\ "REALIZED" \in r.flags /\ SetFails(r, fail)
  <2>1. t = Set(r, fail) /\ fail = "SetRegion" /\ MayLoseConfigured /\ "SetRegion" \in Failing
    BY <1>6, FailFacts DEF SetSurface, SetFails
  <2> HIDE DEF t
  <2>2. SetUp(r, fail, t)
    BY <1>1, <2>1, SetFacts
  <2>3. Fine(t)
    BY <1>3, <1>6, <2>1, <2>2 DEF Fine, Visible, SetUp
  <2> QED
    BY <2>1, <2>2, <2>3 DEF Follows, Ends, SetUp, OfFunctions, t
<1>7. CASE s # r.surface /\ "REALIZED" \in r.flags /\ ~SetFails(r, fail)
  <2>1. t = Set(new, fail) /\ ("FROZEN" \in r.flags \/ fail # "SetRegion")
    BY <1>7 DEF SetSurface, SetFails
  <2> HIDE DEF t, new
  <2>2. SetUp(new, fail, t)
    BY <1>2, <2>1, SetFacts
  <2>3. /\ t \in Records /\ t.flags = r.flags /\ t.config = r.config /\ t.surface = s
        /\ t.prev = r.prev /\ t.ended = r.ended
        /\ "FROZEN" \notin r.flags => t.hardware = [config |-> t.config, surface |-> t.surface]
        /\ t.broken = IF TaskMgr THEN r.broken \cup {"manager"} ELSE r.broken
    BY <1>2, <2>1, <2>2 DEF SetUp
  <2>4. Fine(t)
    BY <1>3, <1>7, <2>3 DEF Fine, Visible
  <2> QED
    BY <2>3, <2>4 DEF Follows, Ends, OfFunctions, t
<1> QED
  BY <1>4, <1>5, <1>6, <1>7

(* t is r with configuration c. *)
Configures(r, c, freeze, t) ==
    /\ Follows(r, t) /\ t.prev = r.prev /\ t.ended = r.ended
    /\ t.surface = r.surface
    /\ freeze \/ r.config = 0 => t.config = c

LEMMA SetConfigurationFacts ==
    ASSUME NEW r, Fine(r), NEW fail, CanFail(fail), setup \in Setups,
           NEW c \in 1..MaxConfigs, NEW freeze \in BOOLEAN,
           r.config = 0 \/ ~LeftToTasks \/ freeze = TRUE
    PROVE  Configures(r, c, freeze, SetConfiguration(r, c, freeze, fail))
<1> DEFINE n == Note(r, "configured", r.config = 0 \/ "CONFIGURED" \in r.flags)
           f == IF freeze THEN [n EXCEPT !.flags = @ \cup {"FROZEN"}] ELSE n
           new == [f EXCEPT !.config = c, !.flags = @ \cup {"CONFIGURED"}]
           t == SetConfiguration(r, c, freeze, fail)
<1>1. /\ r \in Records /\ r.config \in Nat /\ c \in 0..MaxConfigs /\ c > 0
      /\ r.config = 0 => "REALIZED" \notin r.flags
      /\ TaskMgr /\ LeftToTasks => freeze \/ "REALIZED" \notin r.flags
  BY RegionAssumption DEF Fine, Records
<1>2. /\ n \in Records
      /\ n.flags = r.flags /\ n.config = r.config /\ n.surface = r.surface
      /\ n.hardware = r.hardware /\ n.prev = r.prev /\ n.ended = r.ended
      /\ n.broken = IF r.config = 0 \/ "CONFIGURED" \in r.flags THEN r.broken
                    ELSE r.broken \cup {"configured"}
  BY <1>1, NoteFacts DEF Assertions
<1>3. t = IF ~("REALIZED" \in f.flags /\ "FROZEN" \notin f.flags) THEN new
          ELSE IF SetFails(f, fail) THEN Set(f, fail) ELSE Set(new, fail)
  BY DEF SetConfiguration
<1> HIDE DEF n, t
<1>4. /\ f \in Records
      /\ f.flags = IF freeze THEN r.flags \cup {"FROZEN"} ELSE r.flags
      /\ f.surface = r.surface /\ f.config = r.config /\ f.hardware = r.hardware
      /\ f.prev = r.prev /\ f.ended = r.ended /\ f.broken = n.broken
  <2>1. r.flags \cup {"FROZEN"} \in SUBSET Flags
    BY <1>1 DEF Records, Flags
  <2> QED
    BY <1>2, <2>1 DEF Records
<1> HIDE DEF f
<1>5. /\ new \in Records /\ new.flags = f.flags \cup {"CONFIGURED"} /\ new.config = c
      /\ new.surface = r.surface /\ new.hardware = r.hardware
      /\ new.prev = r.prev /\ new.ended = r.ended /\ new.broken = n.broken
  <2>1. f.flags \cup {"CONFIGURED"} \in SUBSET Flags
    BY <1>4 DEF Records, Flags
  <2> QED
    BY <1>1, <1>4, <2>1 DEF Records
<1> HIDE DEF new
<1>6. /\ n.broken \ OfFunctions = r.broken \ OfFunctions
      /\ ~MayLoseConfigured => "configured" \notin n.broken
      /\ "manager" \in n.broken => "manager" \in r.broken
      /\ \A a \in {"suspended", "surface", "realized"} : a \in n.broken <=> a \in r.broken
  BY <1>1, <1>2 DEF Fine, OfFunctions
<1>7. CASE ~("REALIZED" \in f.flags /\ "FROZEN" \notin f.flags)
  <2>1. t = new
    BY <1>3, <1>7
  <2>2. Fine(t)
    BY <1>1, <1>4, <1>5, <1>6, <1>7, <2>1 DEF Fine, Visible
  <2>3. t.broken \ OfFunctions = r.broken \ OfFunctions
    BY <1>5, <1>6, <2>1
  <2> QED
    BY <1>4, <1>5, <2>1, <2>2, <2>3 DEF Configures, Follows, Ends, t
<1>8. CASE "REALIZED" \in f.flags /\ "FROZEN" \notin f.flags /\ SetFails(f, fail)
  <2>1. t = Set(f, fail) /\ fail = "SetRegion" /\ MayLoseConfigured /\ "SetRegion" \in Failing
        /\ ~freeze /\ "REALIZED" \in r.flags
    BY <1>3, <1>4, <1>8, FailFacts DEF SetFails
  <2>2. SetUp(f, fail, t)
    BY <1>4, <2>1, SetFacts
  <2>3. /\ t \in Records /\ t.flags = r.flags /\ t.config = r.config /\ t.surface = r.surface
        /\ t.prev = r.prev /\ t.ended = r.ended /\ t.hardware = r.hardware
        /\ t.broken = IF TaskMgr THEN n.broken \cup {"manager"} ELSE n.broken
    BY <1>4, <2>1, <2>2 DEF SetUp
  <2>4. Fine(t)
    BY <1>1, <1>6, <2>1, <2>3 DEF Fine, Visible
  <2>5. t.broken \ OfFunctions = r.broken \ OfFunctions
    BY <1>6, <2>3 DEF OfFunctions
  <2> QED
    BY <1>1, <2>1, <2>3, <2>4, <2>5 DEF Configures, Follows, Ends, t
<1>9. CASE "REALIZED" \in f.flags /\ "FROZEN" \notin f.flags /\ ~SetFails(f, fail)
  <2>1. t = Set(new, fail) /\ fail # "SetRegion" /\ ~freeze /\ "REALIZED" \in r.flags
    BY <1>3, <1>4, <1>9 DEF SetFails
  <2>2. SetUp(new, fail, t)
    BY <1>5, <2>1, SetFacts
  <2>3. /\ t \in Records /\ t.flags = r.flags \cup {"CONFIGURED"}
        /\ t.config = c /\ t.surface = r.surface
        /\ t.prev = r.prev /\ t.ended = r.ended
        /\ t.hardware = [config |-> t.config, surface |-> t.surface]
        /\ t.broken = IF TaskMgr THEN n.broken \cup {"manager"} ELSE n.broken
    BY <1>4, <1>5, <1>9, <2>1, <2>2 DEF SetUp
  <2>4. Fine(t)
    BY <1>1, <1>6, <2>1, <2>3 DEF Fine, Visible
  <2>5. t.broken \ OfFunctions = r.broken \ OfFunctions
    BY <1>6, <2>3 DEF OfFunctions
  <2> QED
    BY <1>1, <2>1, <2>3, <2>4, <2>5 DEF Configures, Follows, Ends, t
<1> QED
  BY <1>7, <1>8, <1>9

(* Functions that follow each other, the first without ending a task *)
LEMMA FollowsOn ==
    ASSUME NEW r, NEW s, NEW t, Follows(r, s), Follows(s, t),
           s.prev = r.prev, s.ended = r.ended, r \in Records
    PROVE  Follows(r, t)
<1>1. r.prev \in 0..MaxFrames /\ s \in Records
  BY DEF Records, Follows, Fine
<1>2. EndTask(s, s.prev).ended = EndTask(r, r.prev).ended
  <2>1. EndTask(r, r.prev).ended = IF r.prev = 0 THEN r.ended
                                   ELSE [r.ended EXCEPT ![r.prev] = @ + 1]
    BY <1>1, EndTaskFacts
  <2>2. EndTask(s, r.prev).ended = IF r.prev = 0 THEN s.ended
                                   ELSE [s.ended EXCEPT ![r.prev] = @ + 1]
    BY <1>1, EndTaskFacts
  <2> QED
    BY <2>1, <2>2
<1> QED
  BY <1>2 DEF Follows, Ends

LEMMA ContextConfigurationFacts ==
    ASSUME NEW r, Fine(r), NEW fail, CanFail(fail), setup \in Setups,
           NEW c \in Nat \ {0}, NEW s \in Surfaces, NEW windows \in BOOLEAN,
           windows \/ c \in 0..MaxConfigs
    PROVE  Follows(r, ContextConfiguration(r, c, s, windows, fail))
<1> DEFINE u == ContextConfiguration(r, c, s, windows, fail)
<1>0. r \in Records /\ Follows(r, r)
  BY DEF Fine, Follows, Ends
<1>1. CASE windows /\ "ENABLED" \notin r.flags
  BY <1>0, <1>1 DEF ContextConfiguration
<1>2. CASE windows /\ "ENABLED" \in r.flags
  <2> DEFINE t == TurnOff(r, "ENABLED")
  <2>1. Follows(r, t) /\ t \in Records
    BY TurnOffFacts DEF Follows, Fine
  <2>2. "ENABLED" \notin t.flags
    <3> DEFINE w == IF {"ENABLED", "REALIZED"} \subseteq r.flags THEN Unrealize(r) ELSE r
    <3>1. w \in Records
      BY <1>0, UnrealizeFacts
    <3>2. t = [w EXCEPT !.flags = @ \ {"ENABLED"}]
      BY DEF TurnOff
    <3> HIDE DEF w, t
    <3> QED
      BY <3>1, <3>2 DEF Records
  <2>3. u = [t EXCEPT !.surface = NULL]
    BY <1>2 DEF ContextConfiguration
  <2> HIDE DEF t, u
  <2>4. /\ u \in Records
        /\ u.flags = t.flags /\ u.config = t.config /\ u.hardware = t.hardware
        /\ u.prev = t.prev /\ u.ended = t.ended /\ u.broken = t.broken
    BY <2>1, <2>3 DEF Records
  <2>5. Follows(r, u)
    BY <2>1, <2>2, <2>4 DEF Follows, Ends, Fine, Visible
  <2> QED
    BY <1>2, <2>5 DEF u
<1>3. CASE ~windows
  <2> DEFINE p == IF r.config = 0 THEN SetConfiguration(r, c, FALSE, fail) ELSE r
             t == IF p.surface # NULL \/ fail = "Allocation" THEN p
                  ELSE SetSurface(p, s, fail)
             w == SetConfiguration(t, c, TRUE, fail)
  <2>1. c \in 1..MaxConfigs /\ r.config \in Nat /\ s # NULL
    BY <1>0, <1>3, RegionAssumption DEF Records
  <2>2. /\ Follows(r, p) /\ p.prev = r.prev /\ p.ended = r.ended
        /\ p.surface = r.surface /\ p.config > 0
    <3>1. CASE r.config = 0
      <4>1. ASSUME NEW freeze \in BOOLEAN
            PROVE  Configures(r, c, freeze, SetConfiguration(r, c, freeze, fail))
        BY <2>1, <3>1, SetConfigurationFacts
      <4>2. p = SetConfiguration(r, c, FALSE, fail)
        BY <3>1
      <4> HIDE DEF p
      <4>3. Configures(r, c, FALSE, p)
        BY <4>1, <4>2
      <4> QED
        BY <2>1, <3>1, <4>3 DEF Configures
    <3>2. CASE r.config # 0
      BY <1>0, <2>1, <3>2
    <3> QED
      BY <3>1, <3>2
  <2>3. u = IF fail = "Allocation" \/ t.surface = NULL
            THEN IF r.config = 0 THEN r ELSE [t EXCEPT !.flags = @ \ {"CONFIGURED"}]
            ELSE TurnOn(w, "ENABLED", "ACTIVE", fail)
    BY <1>3 DEF ContextConfiguration
  <2> HIDE DEF p, u
  <2>4. Fine(p) /\ p \in Records /\ Follows(p, p)
    BY <2>2 DEF Follows, Fine, Ends
  <2>5. /\ Follows(p, t) /\ t.prev = p.prev /\ t.ended = p.ended /\ t.config = p.config
        /\ t.surface = p.surface \/ t.surface # NULL
        /\ fail = "Allocation" \/ t.surface = NULL => MayLoseConfigured
    <3>1. CASE p.surface # NULL \/ fail = "Allocation"
      BY <2>4, <3>1, FailFacts
    <3>2. CASE ~(p.surface # NULL \/ fail = "Allocation")
      BY <2>1, <2>4, <3>2, SetSurfaceFacts
    <3> QED
      BY <3>1, <3>2
  <2> HIDE DEF t
  <2>6. Fine(t) /\ t \in Records
    BY <2>5 DEF Follows, Fine
  <2>7. Follows(r, t) /\ t.prev = r.prev /\ t.ended = r.ended
    BY <1>0, <2>2, <2>5, FollowsOn
  <2>8. CASE fail = "Allocation" \/ t.surface = NULL
    <3>1. CASE r.config = 0
      BY <1>0, <2>3, <2>8, <3>1 DEF u
    <3>2. CASE r.config # 0
      <4>1. u = [t EXCEPT !.flags = @ \ {"CONFIGURED"}]
        BY <2>3, <2>8, <3>2
      <4>2. /\ u \in Records /\ u.flags = t.flags \ {"CONFIGURED"}
            /\ u.hardware = t.hardware /\ u.config = t.config /\ u.surface = t.surface
            /\ u.prev = t.prev /\ u.ended = t.ended /\ u.broken = t.broken
        BY <2>6, <4>1 DEF Records
      <4>3. Fine(u)
        BY <2>5, <2>6, <2>8, <4>2 DEF Fine, Visible
      <4>4. Follows(r, u)
        BY <2>7, <4>2, <4>3 DEF Follows, Ends
      <4> QED
        BY <2>2, <2>5, <4>2, <4>4 DEF u
    <3> QED
      BY <3>1, <3>2
  <2>9. CASE ~(fail = "Allocation" \/ t.surface = NULL)
    <3>1. u = TurnOn(w, "ENABLED", "ACTIVE", fail)
      BY <2>3, <2>9
    <3>2. /\ Follows(t, w) /\ w.prev = t.prev /\ w.ended = t.ended
          /\ w.surface = t.surface /\ w.config = c
      <4>1. Configures(t, c, TRUE, w)
        BY <2>1, <2>6, SetConfigurationFacts
      <4> QED
        BY <4>1 DEF Configures
    <3> HIDE DEF w
    <3>3. Fine(w)
      BY <3>2 DEF Follows
    <3>4. Follows(w, u) /\ u.surface = w.surface
      BY <2>1, <3>1, <3>2, <3>3, TurnOnFacts
    <3>5. Follows(r, w)
      BY <1>0, <2>7, <3>2, FollowsOn
    <3>6. Follows(r, u)
      BY <1>0, <2>7, <3>2, <3>4, <3>5, FollowsOn
    <3> QED
      BY <2>9, <3>2, <3>4, <3>6 DEF u
  <2> QED
    BY <2>8, <2>9
<1> QED
  BY <1>1, <1>2, <1>3

LEMMA ThawFacts ==
    ASSUME NEW r, Fine(r), NEW fail, CanFail(fail), setup \in Setups, ~TaskMgr
    PROVE  Follows(r, Thaw(r, fail))
<1> DEFINE s == [r EXCEPT !.flags = @ \ {"FROZEN"}]
           t == Thaw(r, fail)
<1>0. r \in Records
  BY DEF Fine
<1>1. /\ s \in Records /\ s.flags = r.flags \ {"FROZEN"}
      /\ s.surface = r.surface /\ s.config = r.config /\ s.hardware = r.hardware
      /\ s.prev = r.prev /\ s.ended = r.ended /\ s.broken = r.broken
  BY <1>0 DEF Records
<1>2. CASE "FROZEN" \notin r.flags
  BY <1>2 DEF Thaw, Follows, Ends
<1>3. CASE "FROZEN" \in r.flags /\ "REALIZED" \in r.flags
  <2>1. t = Set(s, fail)
    BY <1>3 DEF Thaw
  <2> HIDE DEF s, t
  <2>2. SetUp(s, fail, t)
    BY <1>1, <2>1, SetFacts
  <2>3. fail = "SetRegion" => "SetRegion" \in Failing
    BY FailFacts
  <2>4. /\ t \in Records /\ t.flags = r.flags \ {"FROZEN"}
        /\ t.config = r.config /\ t.surface = r.surface
        /\ t.prev = r.prev /\ t.ended = r.ended /\ t.broken = r.broken
        /\ "SetRegion" \notin Failing =>
               t.hardware = [config |-> t.config, surface |-> t.surface]
    BY <1>1, <2>2, <2>3 DEF SetUp
  <2>5. Fine(t)
    BY <1>3, <2>4 DEF Fine, Visible
  <2> QED
    BY <2>4, <2>5 DEF Follows, Ends, t
<1>4. CASE "FROZEN" \in r.flags /\ "REALIZED" \notin r.flags /\ Visible(r)
  <2>1. t = Realize(s, TRUE, fail)
    BY <1>4 DEF Thaw
  <2>2. /\ t \in Records /\ t.config = s.config /\ t.surface = s.surface /\ Noted(s, t)
        /\ \/ /\ fail = "AddRegion" /\ t.flags = s.flags /\ t.hardware = s.hardware
              /\ t.prev = s.prev /\ t.ended = s.ended
           \/ /\ t.flags = (s.flags \ {"REALIZED"}) \cup {"FROZEN"}
              /\ setup.removes => t.prev = 0
              /\ Ends(s, t)
           \/ /\ t.flags = s.flags \cup {"REALIZED"}
              /\ t.hardware = [config |-> t.config, surface |-> t.surface]
              /\ t.prev = s.prev /\ t.ended = s.ended
    <3>1. "FROZEN" \notin s.flags
      BY <1>1
    <3> HIDE DEF s, t
    <3> QED
      BY <1>1, <2>1, <3>1, RealizeFacts
  <2> HIDE DEF s, t
  <2>3. /\ t.broken \ OfFunctions = r.broken \ OfFunctions
        /\ ~MayLoseConfigured => "configured" \notin t.broken
        /\ "manager" \notin t.broken
        /\ "realized" \in t.broken <=> "realized" \in r.broken
    BY <1>1, <1>4, <2>2 DEF Noted, Fine, Visible, OfFunctions
  <2>4. Fine(t)
    <3>1. fail = "AddRegion" => "AddRegion" \in Failing
      BY FailFacts
    <3> QED
      BY <1>1, <1>4, <2>2, <2>3, <3>1 DEF Fine, Visible, Ends
  <2>5. Ends(r, t)
    <3>1. EndTask(s, s.prev).ended = EndTask(r, r.prev).ended
      <4>1. EndTask(r, r.prev).ended = IF r.prev = 0 THEN r.ended
                                       ELSE [r.ended EXCEPT ![r.prev] = @ + 1]
        BY <1>0, EndTaskFacts DEF Records
      <4>2. EndTask(s, s.prev).ended = IF s.prev = 0 THEN s.ended
                                       ELSE [s.ended EXCEPT ![s.prev] = @ + 1]
        BY <1>1, EndTaskFacts DEF Records
      <4> QED
        BY <1>1, <4>1, <4>2
    <3> QED
      BY <1>1, <2>2, <2>3, <3>1 DEF Ends
  <2> QED
    BY <2>4, <2>5 DEF Follows, t
<1>5. CASE "FROZEN" \in r.flags /\ "REALIZED" \notin r.flags /\ ~Visible(r)
  <2>1. t = s
    BY <1>5 DEF Thaw
  <2> HIDE DEF s, t
  <2>2. Follows(r, t)
    BY <1>1, <1>5, <2>1 DEF Follows, Ends, Fine, Visible
  <2> QED
    BY <2>2 DEF t
<1> QED
  BY <1>2, <1>3, <1>4, <1>5

(* DisplayTask::Run() leaves the region thawed, and realized unless an     *)
(* assertion has failed.                                                   *)
LEMMA RunThawFacts ==
    ASSUME NEW r, Fine(r), Visible(r), NEW fail, CanFail(fail), setup \in Setups,
           TaskMgr, r.surface # NULL
    PROVE  LET t == RunThaw(r, fail)
           IN  /\ Fine(t) /\ Visible(t)
               /\ t.prev = r.prev /\ t.ended = r.ended /\ t.surface = r.surface
               /\ \A a \in {"suspended", "surface"} : a \in t.broken <=> a \in r.broken
               /\ "realized" \in t.broken => "realized" \in r.broken \/ "AddRegion" \in Failing
               /\ ~RunThawFails(r, fail) => "REALIZED" \in t.flags \/ "realized" \in t.broken
<1> DEFINE u == [r EXCEPT !.flags = @ \ {"FROZEN"}]
           n == Note(Note(u, "manager", ~TaskMgr \/ ~FALSE), "configured",
                     "CONFIGURED" \in u.flags /\ "REALIZED" \notin u.flags)
           s == Realize(u, FALSE, fail)
           realized == IF "REALIZED" \in r.flags THEN u ELSE s
           t == RunThaw(r, fail)
<1>0. r \in Records /\ r.config > 0
  BY DEF Fine, Visible
<1>1. CASE "FROZEN" \notin r.flags
  <2>1. t = Note(r, "realized", "REALIZED" \in r.flags)
    BY <1>1 DEF RunThaw
  <2>2. CASE "REALIZED" \in r.flags
    BY <2>1, <2>2 DEF Note
  <2>3. CASE "REALIZED" \notin r.flags
    <3>1. t = [r EXCEPT !.broken = @ \cup {"realized"}] /\ "AddRegion" \in Failing
      BY <1>1, <2>1, <2>3 DEF Note, Fine
    <3>2. r.broken \cup {"realized"} \in SUBSET Assertions
      BY <1>0 DEF Records, Assertions
    <3> HIDE DEF t
    <3>3. /\ t \in Records /\ t.broken = r.broken \cup {"realized"} /\ t.flags = r.flags
          /\ t.config = r.config /\ t.surface = r.surface /\ t.hardware = r.hardware
          /\ t.prev = r.prev /\ t.ended = r.ended
      BY <1>0, <3>1, <3>2 DEF Records
    <3>4. Fine(t) /\ Visible(t)
      BY <2>3, <3>1, <3>3 DEF Fine, Visible
    <3> QED
      BY <3>1, <3>3, <3>4 DEF t
  <2> QED
    BY <2>2, <2>3
<1>2. CASE "FROZEN" \in r.flags
  <2>1. /\ u \in Records /\ u.flags = r.flags \ {"FROZEN"}
        /\ u.surface = r.surface /\ u.config = r.config /\ u.hardware = r.hardware
        /\ u.prev = r.prev /\ u.ended = r.ended /\ u.broken = r.broken
    BY <1>0 DEF Records
  <2> DEFINE added == [n EXCEPT !.flags = @ \cup {"REALIZED"}]
  <2> HIDE DEF u
  <2>2. /\ n \in Records
        /\ n.flags = u.flags /\ n.config = u.config /\ n.surface = u.surface
        /\ n.hardware = u.hardware /\ n.prev = u.prev /\ n.ended = u.ended
        /\ Noted(u, n) /\ ("manager" \in n.broken => "manager" \in u.broken)
    BY <2>1, RealizeNotes
  <2>3. realized = IF "REALIZED" \in r.flags THEN u
                   ELSE IF fail = "AddRegion" THEN n ELSE added
    <3>1. "FROZEN" \notin u.flags
      BY <2>1
    <3> QED
      BY <3>1 DEF Realize
  <2>4. t = IF fail = "SetRegion" \/ "REALIZED" \notin realized.flags THEN realized
            ELSE Apply(realized)
    BY <1>2 DEF RunThaw, u
  <2> HIDE DEF n, s, realized, t
  <2>5. /\ added \in Records /\ added.flags = u.flags \cup {"REALIZED"}
        /\ added.surface = u.surface /\ added.config = u.config
        /\ added.prev = u.prev /\ added.ended = u.ended /\ added.broken = n.broken
    <3>1. n.flags \cup {"REALIZED"} \in SUBSET Flags
      BY <2>2 DEF Records, Flags
    <3> QED
      BY <2>2, <3>1 DEF Records
  <2> HIDE DEF added
  <2>6. /\ realized \in Records
        /\ realized.flags = IF "REALIZED" \notin r.flags /\ fail = "AddRegion" THEN u.flags
                            ELSE u.flags \cup {"REALIZED"}
        /\ realized.surface = r.surface /\ realized.config = r.config
        /\ realized.prev = r.prev /\ realized.ended = r.ended
        /\ \/ realized.broken = r.broken
           \/ ("REALIZED" \notin r.flags /\ realized.broken = n.broken)
    <3>1. CASE "REALIZED" \in r.flags
      <4>1. u.flags = u.flags \cup {"REALIZED"}
        BY <2>1, <3>1
      <4> QED
        BY <2>1, <2>3, <3>1, <4>1
    <3>2. CASE "REALIZED" \notin r.flags /\ fail = "AddRegion"
      BY <2>1, <2>2, <2>3, <3>2
    <3>3. CASE "REALIZED" \notin r.flags /\ fail # "AddRegion"
      BY <2>1, <2>3, <2>5, <3>3
    <3> QED
      BY <3>1, <3>2, <3>3
  <2>7. /\ ~MayLoseConfigured => "configured" \notin realized.broken
        /\ LeftToTasks => "manager" \notin realized.broken
        /\ \A a \in {"suspended", "surface", "realized"} :
              a \in realized.broken <=> a \in r.broken
    <3>1. CASE realized.broken = r.broken
      BY <3>1 DEF Fine
    <3>2. CASE "REALIZED" \notin r.flags /\ realized.broken = n.broken
      BY <1>0, <2>1, <2>2, <3>2 DEF Fine, Noted, OfFunctions
    <3> QED
      BY <2>6, <3>1, <3>2
  <2>8. /\ t \in Records /\ t.flags = realized.flags
        /\ t.surface = r.surface /\ t.config = r.config
        /\ t.prev = r.prev /\ t.ended = r.ended /\ t.broken = realized.broken
        /\ fail = "SetRegion" \/ "REALIZED" \notin t.flags
           \/ t.hardware = [config |-> t.config, surface |-> t.surface]
    BY <2>4, <2>6, ApplyFacts
  <2>9. /\ fail = "AddRegion" => "AddRegion" \in Failing
        /\ fail = "SetRegion" => "SetRegion" \in Failing
        /\ LeftToTasks => fail # "AddRegion"
    BY FailFacts
  <2>10. Fine(t) /\ Visible(t)
    BY <1>2, <2>1, <2>6, <2>7, <2>8, <2>9 DEF Fine, Visible
  <2>11. ~RunThawFails(r, fail) => "REALIZED" \in t.flags
    BY <1>2, <2>1, <2>6, <2>8 DEF RunThawFails
  <2> QED
    BY <2>6, <2>7, <2>8, <2>10, <2>11 DEF t
<1> QED
  BY <1>1, <1>2

-----------------------------------------------------------------------------
(* The inductive invariant *)

RestOfType ==
    /\ setup \in Setups
    /\ frames \in 0..MaxFrames /\ pulled \in 0..frames
    /\ of \in [Frames -> Surfaces \cup {NULL}]
    /\ display_tasks \subseteq 1..frames
    /\ running \in [Threads -> 0..pulled] /\ failed \subseteq Threads
    /\ want \in [Callers -> Operations \cup {NULL}] /\ waited \subseteq Callers
    /\ failures \in 0..MaxFailures

RegionState ==
    /\ Fine(region)
    /\ "realized" \in region.broken => "AddRegion" \in Failing
    /\ FlipsWhereWaited =>
          "suspended" \notin region.broken /\ "surface" \notin region.broken

(* A task is in the list until it runs; it then is on the screen or, if it *)
(* failed, has been ended once and will be ended again by the pool.        *)
TaskState ==
    /\ \A f \in Frames : f > frames \/ f \in display_tasks =>
          region.ended[f] = 0 /\ region.prev # f
    /\ region.prev # 0 => region.ended[region.prev] = 0
    /\ \A t \in failed : /\ running[t] # 0 /\ region.ended[running[t]] = 1
                         /\ running[t] \notin display_tasks
    /\ \A t \in Threads : running[t] # 0 /\ t \notin failed => running[t] \in display_tasks
    /\ \A f \in Frames : pulled < f /\ f <= frames => f \in display_tasks
    /\ \A t, u \in Threads : running[t] = running[u] /\ running[t] # 0 => t = u
    /\ \A f \in Frames : region.ended[f] <= 2
    /\ Failing = {} /\ FlipsWhereWaited =>
          failed = {} /\ \A f \in Frames : region.ended[f] <= 1

OneCaller == \A c, d \in setup.callers : c = d

(* Behind a wait there are no tasks, if nobody else can flip. *)
CallerState ==
    /\ \A c \in Callers : want[c] # NULL => c \in setup.callers /\ want[c] \in setup.ops
    /\ \A c \in waited : want[c] \in WaitingOps /\ TaskMgr
    /\ ~TaskMgr => frames = 0
    /\ OneCaller /\ waited # {} => display_tasks = {}

(* There is a surface while tasks are in the list, and they can run. *)
ListState ==
    /\ display_tasks # {} => region.surface # NULL
    /\ FlipsWhereWaited /\ display_tasks # {} =>
           Visible(region) /\ \A f \in display_tasks : of[f] = region.surface

IInv == RestOfType /\ RegionState /\ TaskState /\ CallerState /\ ListState

LEMMA TypeFromParts == IInv => TypeOK
<1> SUFFICES ASSUME IInv PROVE TypeOK
  OBVIOUS
<1>1. region \in Records /\ \A f \in Frames : region.ended[f] <= 2
  BY DEF IInv, RegionState, Fine, TaskState
<1>2. region.ended \in [Frames -> 0..2]
  BY <1>1 DEF Records
<1>3. region \in Regions
  BY <1>1, <1>2 DEF Records, Regions, Hardware, Assertions
<1> QED
  BY <1>3 DEF IInv, RestOfType, TypeOK

LEMMA InitInv == Init => IInv
<1> SUFFICES ASSUME Init PROVE IInv
  OBVIOUS
<1>0. 0 \in 0..MaxFrames /\ 0 \in 0..MaxConfigs /\ 0 \in 0..MaxFailures /\ MaxFrames \in Nat
  BY RegionAssumption
<1>1. RestOfType
  <2>1. running \in [Threads -> 0..pulled] /\ pulled \in 0..frames
    BY DEF Init
  <2>2. of \in [Frames -> Surfaces \cup {NULL}] /\ want \in [Callers -> Operations \cup {NULL}]
    BY DEF Init
  <2> QED
    BY <1>0, <2>1, <2>2 DEF Init, RestOfType
<1>2. /\ region = [flags |-> {"FROZEN"}, config |-> 0, surface |-> NULL,
                   hardware |-> NULL, prev |-> 0,
                   ended |-> [f \in Frames |-> 0], broken |-> {}]
  BY DEF Init
<1>3. region \in Records
  <2>1. [f \in Frames |-> 0] \in [Frames -> Nat] /\ {"FROZEN"} \in SUBSET Flags
        /\ {} \in SUBSET Assertions /\ NULL \in Hardware
    BY DEF Flags, Hardware
  <2> QED
    BY <1>0, <1>2, <2>1 DEF Records
<1>4. /\ region.flags = {"FROZEN"} /\ region.broken = {} /\ region.prev = 0
      /\ region.config = 0
      /\ region.ended = [f \in Frames |-> 0]
  BY <1>2
<1>5. RegionState
  BY <1>3, <1>4 DEF RegionState, Fine, Visible
<1>6. TaskState
  BY <1>0, <1>4 DEF Init, TaskState, Frames
<1>7. CallerState /\ ListState
  BY DEF Init, CallerState, ListState
<1> QED
  BY <1>1, <1>5, <1>6, <1>7 DEF IInv

-----------------------------------------------------------------------------
(* Callers *)

LEMMA FailsFacts ==
    ASSUME IInv, NEW fail, Fails(fail)
    PROVE  CanFail(fail) /\ failures' \in 0..MaxFailures
<1>1. setup.failures \in 0..MaxFailures /\ failures \in 0..MaxFailures /\ MaxFailures \in Nat
  BY SetupFacts, RegionAssumption DEF IInv, RestOfType
<1> QED
  BY <1>1 DEF Fails, CanFail

(* What happens to the region in a call leaves the tasks in their states. *)
LEMMA TasksStay ==
    ASSUME IInv, UNCHANGED <<setup, tasks>>, Follows(region, region')
    PROVE  TaskState'
<1> DEFINE e == region'.ended
           p == region.prev
<1>1. UNCHANGED <<setup, frames, of, display_tasks, pulled, running, failed>>
  BY DEF tasks
<1>2. region \in Records /\ region' \in Records /\ MaxFrames \in Nat
  BY RegionAssumption DEF IInv, RegionState, Follows, Fine
<1>3. CASE region'.prev = region.prev /\ region'.ended = region.ended
  BY <1>1, <1>3 DEF IInv, TaskState, Failing, FlipsWhereWaited
<1>4. CASE region'.prev = 0 /\ region'.ended = EndTask(region, p).ended
  <2>1. CASE p = 0
    BY <1>1, <1>4, <2>1 DEF IInv, TaskState, Failing, FlipsWhereWaited, EndTask
  <2>2. CASE p # 0
    <3>1. p \in Frames /\ region.ended \in [Frames -> Nat] /\ region.ended[p] = 0
      BY <1>2, <2>2 DEF Records, Frames, IInv, TaskState
    <3>2. e = [region.ended EXCEPT ![p] = @ + 1]
      BY <1>2, <1>4, <2>2, EndTaskFacts DEF Records
    <3>3. e[p] = 1 /\ \A f \in Frames : f # p => e[f] = region.ended[f]
      BY <3>1, <3>2
    <3> HIDE DEF e
    <3>4. \A t \in failed : running[t] \in Frames
      BY <1>2 DEF IInv, RestOfType, TaskState, Frames
    <3>5. \A t \in failed : running[t] # p
      BY <3>1 DEF IInv, TaskState
    <3> HIDE DEF p
    <3>6. \A f \in Frames : f > frames \/ f \in display_tasks => e[f] = 0
      <4> SUFFICES ASSUME NEW f \in Frames, f > frames \/ f \in display_tasks PROVE e[f] = 0
        OBVIOUS
      <4>1. region.ended[f] = 0 /\ f # p
        BY DEF IInv, TaskState, p
      <4> QED
        BY <3>3, <4>1
    <3>7. 0 \notin Frames
      BY <1>2 DEF Frames
    <3>8. \A f \in Frames : e[f] <= 2
      BY <3>3 DEF IInv, TaskState
    <3>9. Failing = {} /\ FlipsWhereWaited => failed = {} /\ \A f \in Frames : e[f] <= 1
      BY <3>3 DEF IInv, TaskState
    <3>10. \A t \in failed : running[t] # 0 /\ e[running[t]] = 1 /\ running[t] \notin display_tasks
      BY <3>3, <3>4, <3>5 DEF IInv, TaskState
    <3>11. e = region'.ended /\ region'.prev = 0
      BY <1>4 DEF e
    <3> QED
      BY <1>1, <3>6, <3>7, <3>8, <3>9, <3>10, <3>11
      DEF IInv, TaskState, Failing, FlipsWhereWaited
  <2> QED
    BY <2>1, <2>2
<1> QED
  BY <1>3, <1>4 DEF Follows, Ends

(* A call that changes the region and returns *)
LEMMA CallInv ==
    ASSUME IInv, NEW c \in Callers, Returns(c), UNCHANGED <<setup, tasks>>,
           failures' \in 0..MaxFailures, Follows(region, region'),
           display_tasks # {} => region'.surface # NULL,
           FlipsWhereWaited /\ display_tasks # {} =>
               Visible(region') /\ region'.surface = region.surface
    PROVE  IInv'
<1>1. UNCHANGED <<setup, frames, of, display_tasks, pulled, running, failed>>
  BY DEF tasks
<1>2. want' = [want EXCEPT ![c] = NULL] /\ waited' = waited \ {c}
  BY DEF Returns
<1>3. RestOfType'
  BY <1>1, <1>2 DEF IInv, RestOfType
<1>4. RegionState'
  <2>1. Fine(region)'
    BY <1>1 DEF Follows, Fine, Failing, Visible, Records, Hardware, MayLoseConfigured,
                TaskMgr, LeftToTasks
  <2>2. \A a \in {"suspended", "surface", "realized"} :
           a \in region'.broken <=> a \in region.broken
    BY DEF Follows, Ends, OfFunctions
  <2> QED
    BY <1>1, <2>1, <2>2 DEF IInv, RegionState, Failing, FlipsWhereWaited
<1>5. TaskState'
  BY TasksStay
<1>6. CallerState'
  <2>1. c \notin waited'
    BY <1>2
  <2> QED
    BY <1>1, <1>2, <2>1 DEF IInv, RestOfType, CallerState, OneCaller, TaskMgr
<1>7. ListState'
  BY <1>1 DEF IInv, ListState, FlipsWhereWaited, Visible
<1> QED
  BY <1>3, <1>4, <1>5, <1>6, <1>7 DEF IInv

(* The waits keep tasks out of the list. *)
LEMMA Excluded ==
    ASSUME IInv, NEW c \in Callers, NEW op \in WaitingOps, Ready(c, op),
           op = "context" => ~Recheck, FlipsWhereWaited
    PROVE  display_tasks = {}
<1>1. CASE ~TaskMgr
  BY <1>1 DEF IInv, CallerState, RestOfType
<1>2. CASE TaskMgr /\ op = "context"
  BY <1>2 DEF Recheck
<1>3. CASE TaskMgr /\ op # "context"
  <2>1. want[c] = op /\ c \in waited
    BY <1>3 DEF Ready
  <2>2. op \in setup.ops /\ op \in WaitingOps
    BY <2>1, RegionAssumption DEF IInv, CallerState, WaitingOps, Operations
  <2>3. OneCaller
    BY <1>3, <2>2 DEF FlipsWhereWaited, OneCaller
  <2> QED
    BY <2>1, <2>3 DEF IInv, CallerState
<1> QED
  BY <1>1, <1>2, <1>3

LEMMA SwitchInv ==
    ASSUME IInv, NEW c \in Callers, Activate(c) \/ Enable(c)
    PROVE  IInv'
<1>1. Fine(region) /\ setup \in Setups
  BY DEF IInv, RegionState, RestOfType
<1>2. Returns(c) /\ UNCHANGED <<setup, tasks>>
  BY DEF Activate, Enable
<1>3. PICK fail : /\ Fails(fail)
                  /\ \/ region' = TurnOn(region, "ACTIVE", "ENABLED", fail)
                     \/ /\ region.config > 0
                        /\ region' = TurnOn(region, "ENABLED", "ACTIVE", fail)
                     \/ region' = region
  BY DEF Activate, Enable
<1>4. CanFail(fail) /\ failures' \in 0..MaxFailures
  BY <1>3, FailsFacts
<1>5. CASE region' = region
  <2>1. Follows(region, region')
    BY <1>1, <1>5 DEF Follows, Ends
  <2> QED
    BY <1>2, <1>4, <1>5, <2>1, CallInv DEF IInv, ListState
<1>6. CASE region' # region
  <2>1. /\ Follows(region, region') /\ region'.surface = region.surface
        /\ Visible(region) => Visible(region')
    BY <1>1, <1>3, <1>4, <1>6, TurnOnFacts
  <2> QED
    BY <1>2, <1>4, <2>1, CallInv DEF IInv, ListState
<1> QED
  BY <1>5, <1>6

LEMMA SwitchOffInv ==
    ASSUME IInv, NEW c \in Callers, Deactivate(c) \/ Disable(c)
    PROVE  IInv'
<1>1. Fine(region) /\ setup \in Setups /\ failures \in 0..MaxFailures
  BY DEF IInv, RegionState, RestOfType
<1>2. Returns(c) /\ UNCHANGED <<setup, tasks>> /\ failures' = failures
  BY DEF Deactivate, Disable
<1>3. /\ region' = TurnOff(region, "ACTIVE") \/ region' = TurnOff(region, "ENABLED")
      /\ \E op \in {"disable", "deactivate"} : Ready(c, op)
  BY DEF Deactivate, Disable
<1>4. Follows(region, region') /\ region'.surface = region.surface
  BY <1>1, <1>3, TurnOffFacts
<1>5. FlipsWhereWaited => display_tasks = {}
  BY <1>3, Excluded DEF WaitingOps
<1>6. display_tasks # {} => region'.surface # NULL
  BY <1>4 DEF IInv, ListState
<1> QED
  BY <1>1, <1>2, <1>4, <1>5, <1>6, CallInv

LEMMA CallSetSurfaceInv ==
    ASSUME IInv, NEW c \in Callers, CallSetSurface(c)
    PROVE  IInv'
<1>1. Fine(region) /\ setup \in Setups /\ setup.surfaces \subseteq Surfaces
  BY SetupFacts DEF IInv, RegionState, RestOfType
<1>2. Returns(c) /\ UNCHANGED <<setup, tasks>> /\ Ready(c, "set_surface")
  BY DEF CallSetSurface
<1>3. PICK fail \in Failing \cup {NULL}, s \in setup.surfaces :
            /\ Fails(fail)
            /\ region' = IF region.config > 0
                         THEN SetSurface(region, s, fail) ELSE region
  BY DEF CallSetSurface
<1>4. CanFail(fail) /\ failures' \in 0..MaxFailures
  BY <1>3, FailsFacts
<1>5. ~LeftToTasks
  <2>1. want[c] = "set_surface"
    BY <1>2 DEF Ready
  <2>2. "set_surface" \in setup.ops
    BY <2>1, RegionAssumption DEF IInv, CallerState, WaitingOps, Operations
  <2> QED
    BY <2>2 DEF LeftToTasks
<1>6. /\ Follows(region, region')
      /\ region'.surface = region.surface \/ region'.surface # NULL
  <2>1. Follows(region, region)
    BY <1>1 DEF Follows, Ends
  <2>2. s \in Surfaces /\ s # NULL
    BY <1>1, <1>3, RegionAssumption
  <2> DEFINE t == SetSurface(region, s, fail)
  <2>3. Follows(region, t) /\ (t.surface = region.surface \/ t.surface # NULL)
    BY <1>1, <1>4, <1>5, <2>2, SetSurfaceFacts
  <2> HIDE DEF t
  <2>4. region' = region \/ region' = t
    BY <1>3 DEF t
  <2> QED
    BY <2>1, <2>3, <2>4
<1>7. FlipsWhereWaited => display_tasks = {}
  BY <1>2, Excluded DEF WaitingOps
<1>8. display_tasks # {} => region'.surface # NULL
  BY <1>6 DEF IInv, ListState
<1> QED
  BY <1>2, <1>4, <1>6, <1>7, <1>8, CallInv

LEMMA CallSetConfigurationInv ==
    ASSUME IInv, NEW c \in Callers, CallSetConfiguration(c)
    PROVE  IInv'
<1>1. Fine(region) /\ setup \in Setups /\ region \in Records
  BY DEF IInv, RegionState, RestOfType, Fine
<1>2. Returns(c) /\ UNCHANGED <<setup, tasks>> /\ Ready(c, "set_configuration")
  BY DEF CallSetConfiguration
<1>3. PICK fail \in Failing \cup {NULL}, freeze \in BOOLEAN :
            /\ Fails(fail)
            /\ region' = IF region.config < setup.configs
                         THEN SetConfiguration(region, region.config + 1, freeze, fail)
                         ELSE region
  BY DEF CallSetConfiguration
<1>4. CanFail(fail) /\ failures' \in 0..MaxFailures
  BY <1>3, FailsFacts
<1>5. region.config < setup.configs => region.config + 1 \in 1..MaxConfigs
  BY <1>1, SetupFacts, RegionAssumption DEF Records
<1>6. ~LeftToTasks
  <2>1. want[c] = "set_configuration"
    BY <1>2 DEF Ready
  <2>2. "set_configuration" \in setup.ops
    BY <2>1, RegionAssumption DEF IInv, CallerState, WaitingOps, Operations
  <2> QED
    BY <2>2 DEF LeftToTasks
<1>7. Follows(region, region') /\ region'.surface = region.surface
  <2>1. Follows(region, region)
    BY <1>1 DEF Follows, Ends
  <2>2. CASE region.config < setup.configs
    <3>1. Configures(region, region.config + 1, freeze,
                     SetConfiguration(region, region.config + 1, freeze, fail))
      BY <1>1, <1>3, <1>4, <1>5, <1>6, <2>2, SetConfigurationFacts
    <3>2. region' = SetConfiguration(region, region.config + 1, freeze, fail)
      BY <1>3, <2>2
    <3> QED
      BY <3>1, <3>2 DEF Configures
  <2> QED
    BY <1>3, <2>1, <2>2
<1>8. FlipsWhereWaited => display_tasks = {}
  BY <1>2, Excluded DEF WaitingOps
<1>9. display_tasks # {} => region'.surface # NULL
  BY <1>7 DEF IInv, ListState
<1> QED
  BY <1>2, <1>4, <1>7, <1>8, <1>9, CallInv

LEMMA ContextConfiguresInv ==
    ASSUME IInv, NEW c \in Callers, ContextConfigures(c)
    PROVE  IInv'
<1>1. /\ Fine(region) /\ setup \in Setups /\ region \in Records
      /\ setup.surfaces \subseteq Surfaces
  BY SetupFacts DEF IInv, RegionState, RestOfType, Fine
<1>2. Returns(c) /\ UNCHANGED <<setup, tasks>> /\ Ready(c, "context") /\ ~Recheck
  BY DEF ContextConfigures
<1>3. PICK fail \in Failing \cup {NULL}, windows \in BOOLEAN, s \in setup.surfaces :
            /\ Fails(fail)
            /\ region' = IF windows \/ region.config < setup.configs
                         THEN ContextConfiguration(region, region.config + 1, s, windows, fail)
                         ELSE region
  BY DEF ContextConfigures
<1>4. CanFail(fail) /\ failures' \in 0..MaxFailures
  BY <1>3, FailsFacts
<1>5. /\ region.config + 1 \in Nat \ {0}
      /\ region.config < setup.configs => region.config + 1 \in 0..MaxConfigs
  BY <1>1, SetupFacts, RegionAssumption DEF Records
<1>6. Follows(region, region')
  <2>1. Follows(region, region)
    BY <1>1 DEF Follows, Ends
  <2>2. CASE windows \/ region.config < setup.configs
    BY <1>1, <1>3, <1>4, <1>5, <2>2, ContextConfigurationFacts
  <2> QED
    BY <1>3, <2>1, <2>2
<1>7. display_tasks = {}
  <2>1. CASE TaskMgr
    BY <1>2, <2>1 DEF Recheck
  <2>2. CASE ~TaskMgr
    BY <2>2 DEF IInv, CallerState, RestOfType
  <2> QED
    BY <2>1, <2>2
<1> QED
  BY <1>2, <1>4, <1>6, <1>7, CallInv

LEMMA FlipInv ==
    ASSUME IInv, NEW c \in Callers, Flip(c)
    PROVE  IInv'
<1>1. Fine(region) /\ setup \in Setups
  BY DEF IInv, RegionState, RestOfType
<1>2. Returns(c) /\ UNCHANGED <<setup, tasks>> /\ ~TaskMgr
  BY DEF Flip
<1>3. PICK fail : /\ Fails(fail)
                  /\ region' = IF region.surface = NULL THEN region ELSE Thaw(region, fail)
  BY DEF Flip
<1>4. CanFail(fail) /\ failures' \in 0..MaxFailures
  BY <1>3, FailsFacts
<1>5. Follows(region, region')
  <2>1. Follows(region, region)
    BY <1>1 DEF Follows, Ends
  <2>2. Follows(region, Thaw(region, fail))
    BY <1>1, <1>2, <1>4, ThawFacts
  <2> QED
    BY <1>3, <2>1, <2>2
<1>6. display_tasks = {}
  BY <1>2 DEF IInv, CallerState, RestOfType
<1> QED
  BY <1>2, <1>4, <1>5, <1>6, CallInv

(* Steps of a caller that do not change the region *)
LEMMA RegionStays ==
    ASSUME IInv, UNCHANGED <<setup, region>>
    PROVE  RegionState'
  BY DEF IInv, RegionState, Fine, Failing, Visible, Records, Hardware, FlipsWhereWaited,
         MayLoseConfigured, TaskMgr, LeftToTasks

LEMMA CallsInv ==
    ASSUME IInv, NEW c \in Callers, NEW op \in setup.ops, Calls(c, op)
    PROVE  IInv'
<1>1. /\ want[c] = NULL /\ c \in setup.callers
      /\ want' = [want EXCEPT ![c] = op]
      /\ UNCHANGED <<setup, region, frames, of, display_tasks, pulled, running, failed,
                     waited, failures>>
  BY DEF Calls, tasks
<1>2. op \in Operations
  BY SetupFacts DEF IInv, RestOfType
<1>3. RestOfType' /\ RegionState'
  BY <1>1, <1>2, RegionStays DEF IInv, RestOfType
<1>4. TaskState' /\ ListState'
  BY <1>1 DEF IInv, TaskState, ListState, Failing, FlipsWhereWaited, Visible
<1>5. c \notin waited
  BY <1>1, RegionAssumption DEF IInv, CallerState, WaitingOps, Operations
<1>6. CallerState'
  BY <1>1, <1>5 DEF IInv, RestOfType, CallerState, OneCaller, TaskMgr
<1> QED
  BY <1>3, <1>4, <1>6 DEF IInv

LEMMA WaitInv ==
    ASSUME IInv, NEW c \in Callers, WaitEmpty(c) \/ ContextWaitsAgain(c)
    PROVE  IInv'
<1>1. /\ \/ /\ want[c] \in WaitingOps /\ TaskMgr /\ display_tasks = {}
            /\ waited' = waited \cup {c}
         \/ waited' = waited \ {c}
      /\ UNCHANGED <<setup, region, frames, of, display_tasks, pulled, running, failed,
                     want, failures>>
  BY DEF WaitEmpty, Emptied, ContextWaitsAgain, tasks
<1>2. RestOfType' /\ RegionState'
  BY <1>1, RegionStays DEF IInv, RestOfType
<1>3. TaskState' /\ ListState'
  BY <1>1 DEF IInv, TaskState, ListState, Failing, FlipsWhereWaited, Visible
<1>4. CallerState'
  BY <1>1 DEF IInv, RestOfType, CallerState, OneCaller, TaskMgr
<1> QED
  BY <1>2, <1>3, <1>4 DEF IInv

LEMMA FlipTaskInv ==
    ASSUME IInv, NEW c \in Callers, FlipTask(c)
    PROVE  IInv'
<1> DEFINE f == frames + 1
<1>1. /\ TaskMgr /\ want[c] = "flip" /\ Returns(c)
      /\ want' = [want EXCEPT ![c] = NULL] /\ waited' = waited \ {c}
      /\ UNCHANGED <<setup, region, pulled, running, failed, failures>>
  BY DEF FlipTask, Ready, Returns
<1>2. MaxFrames \in Nat /\ frames \in 0..MaxFrames /\ pulled \in 0..frames
  BY RegionAssumption DEF IInv, RestOfType
<1>3. CASE UNCHANGED <<frames, of, display_tasks>>
  <2>1. UNCHANGED <<setup, tasks>> /\ failures' \in 0..MaxFailures
    BY <1>1, <1>3 DEF tasks, IInv, RestOfType
  <2>2. Follows(region, region')
    BY <1>1 DEF IInv, RegionState, Follows, Ends
  <2> QED
    BY <1>1, <2>1, <2>2, CallInv DEF IInv, ListState
<1>4. CASE /\ region.surface # NULL /\ Visible(region) /\ frames < setup.frames
           /\ frames' = f
           /\ of' = [of EXCEPT ![f] = region.surface]
           /\ display_tasks' = display_tasks \cup {f}
  <2>1. f \in Frames /\ f \in 0..MaxFrames /\ f \notin display_tasks /\ f > pulled
    BY <1>2, <1>4, SetupFacts DEF Frames, IInv, RestOfType
  <2>2. region \in Records
    BY DEF IInv, RegionState, Fine
  <2>3. RestOfType'
    <3>1. of' \in [Frames -> Surfaces \cup {NULL}]
      BY <1>4, <2>2 DEF IInv, RestOfType, Records
    <3>2. display_tasks' \subseteq 1..frames' /\ pulled' \in 0..frames'
      <4>1. display_tasks \subseteq 1..frames
        BY DEF IInv, RestOfType
      <4>2. 1..frames \subseteq 1..f /\ f \in 1..f /\ 0..frames \subseteq 0..f
        BY <1>2
      <4>3. frames' = f /\ pulled' = pulled /\ display_tasks' = display_tasks \cup {f}
        BY <1>1, <1>4
      <4> HIDE DEF f
      <4> QED
        BY <1>2, <4>1, <4>2, <4>3
    <3>3. want' \in [Callers -> Operations \cup {NULL}] /\ waited' \subseteq Callers
      BY <1>1 DEF IInv, RestOfType
    <3>4. running' \in [Threads -> 0..pulled'] /\ failed' \subseteq Threads
      BY <1>1 DEF IInv, RestOfType
    <3>5. setup' \in Setups /\ failures' \in 0..MaxFailures /\ frames' \in 0..MaxFrames
      BY <1>1, <1>4, <2>1 DEF IInv, RestOfType
    <3> QED
      BY <3>1, <3>2, <3>3, <3>4, <3>5 DEF RestOfType
  <2>4. RegionState'
    BY <1>1, RegionStays
  <2>5. TaskState'
    <3>1. \A g \in Frames : (g > frames' => g > frames) /\ (g <= frames' => g <= frames \/ g = f)
      BY <1>2, <1>4 DEF Frames
    <3>2. f > frames
      BY <1>2
    <3>3. \A t \in failed : running[t] # f
      BY <1>2, <2>1 DEF IInv, RestOfType
    <3>4. \A g \in Frames : g > frames' \/ g \in display_tasks' =>
             region.ended[g] = 0 /\ region.prev # g
      BY <1>4, <2>1, <3>1, <3>2 DEF IInv, TaskState
    <3>5. \A g \in Frames : pulled < g /\ g <= frames' => g \in display_tasks'
      BY <1>4, <3>1 DEF IInv, TaskState
    <3>6. \A t \in failed : running[t] \notin display_tasks'
      BY <1>4, <3>3 DEF IInv, TaskState
    <3>7. \A t \in Threads : running[t] # 0 /\ t \notin failed => running[t] \in display_tasks'
      BY <1>4 DEF IInv, TaskState
    <3> QED
      BY <1>1, <3>4, <3>5, <3>6, <3>7 DEF IInv, TaskState, Failing, FlipsWhereWaited
  <2>6. CallerState'
    <3>1. c \in setup.callers
      BY <1>1, RegionAssumption DEF IInv, CallerState, Operations, WaitingOps
    <3>2. OneCaller => waited = {}
      <4> SUFFICES ASSUME OneCaller, NEW d \in waited PROVE FALSE
        OBVIOUS
      <4>1. want[d] \in WaitingOps /\ d \in Callers
        BY DEF IInv, CallerState, RestOfType
      <4>2. d \in setup.callers
        BY <4>1, RegionAssumption DEF IInv, CallerState, Operations, WaitingOps
      <4>3. d = c
        BY <3>1, <4>2 DEF OneCaller
      <4> QED
        BY <1>1, <4>1, <4>3 DEF WaitingOps
    <3> QED
      BY <1>1, <3>2 DEF IInv, RestOfType, CallerState, OneCaller, TaskMgr
  <2>7. ListState'
    <3>1. Visible(region)' /\ of'[f] = region.surface
      BY <1>1, <1>4, <2>1 DEF Visible, IInv, RestOfType
    <3>2. \A g \in display_tasks : g # f /\ of'[g] = of[g]
      BY <1>2, <1>4, <2>1 DEF IInv, RestOfType, Frames
    <3> QED
      BY <1>1, <1>4, <3>1, <3>2 DEF IInv, ListState, FlipsWhereWaited
  <2> QED
    BY <2>3, <2>4, <2>5, <2>6, <2>7 DEF IInv
<1> QED
  BY <1>3, <1>4 DEF FlipTask

-----------------------------------------------------------------------------
(* Pool threads *)

LEMMA PullTaskInv ==
    ASSUME IInv, NEW t \in Threads, PullTask(t)
    PROVE  IInv'
<1> DEFINE f == pulled + 1
<1>1. /\ running[t] = 0 /\ pulled < frames /\ pulled' = f
      /\ running' = [running EXCEPT ![t] = f]
      /\ UNCHANGED <<setup, region, frames, of, display_tasks, failed, want, waited, failures>>
  BY DEF PullTask, Pushed, callers
<1>2. MaxFrames \in Nat /\ frames \in 0..MaxFrames /\ pulled \in 0..frames
      /\ running \in [Threads -> 0..pulled]
  BY RegionAssumption DEF IInv, RestOfType
<1>3. f \in Frames /\ f \in 0..f /\ f # 0 /\ f <= frames /\ f > pulled
  BY <1>1, <1>2 DEF Frames
<1>4. /\ running'[t] = f
      /\ \A u \in Threads : u # t => running'[u] = running[u] /\ running[u] # f
  BY <1>1, <1>2
<1>5. RestOfType'
  <2>1. running' \in [Threads -> 0..pulled'] /\ pulled' \in 0..frames'
    BY <1>1, <1>2, <1>3
  <2> QED
    BY <1>1, <2>1 DEF IInv, RestOfType
<1>6. TaskState'
  <2>1. t \notin failed
    BY <1>1 DEF IInv, TaskState
  <2>2. \A u \in failed : running'[u] = running[u]
    BY <1>4, <2>1 DEF IInv, RestOfType
  <2>3. \A u \in Threads : running'[u] # 0 /\ u \notin failed => running'[u] \in display_tasks
    BY <1>2, <1>3, <1>4 DEF IInv, TaskState
  <2>4. \A g \in Frames : f < g /\ g <= frames => g \in display_tasks
    BY <1>2 DEF IInv, TaskState, Frames
  <2>5. \A u, v \in Threads : running'[u] = running'[v] /\ running'[u] # 0 => u = v
    BY <1>4 DEF IInv, TaskState
  <2> QED
    BY <1>1, <2>2, <2>3, <2>4, <2>5 DEF IInv, TaskState, Failing, FlipsWhereWaited
<1>7. RegionState' /\ CallerState' /\ ListState'
  BY <1>1, RegionStays DEF IInv, CallerState, ListState, OneCaller, TaskMgr,
                          FlipsWhereWaited, Visible
<1> QED
  BY <1>5, <1>6, <1>7 DEF IInv

(* The task that runs *)
LEMMA RunFacts ==
    ASSUME IInv, NEW t \in Threads, Run(t)
    PROVE  /\ t \notin failed /\ running[t] \in Frames /\ running[t] \in display_tasks
           /\ display_tasks' = display_tasks \ {running[t]}
           /\ region.ended[running[t]] = 0 /\ region.prev # running[t]
           /\ \A u \in Threads : u # t => running[u] # running[t]
           /\ TaskMgr /\ region.surface # NULL
           /\ UNCHANGED <<setup, frames, of, pulled, want, waited>>
<1>1. /\ running[t] # 0 /\ t \notin failed /\ display_tasks' = display_tasks \ {running[t]}
      /\ UNCHANGED <<setup, frames, of, pulled, want, waited>>
  BY DEF Run, Unlisted, callers
<1>2. running[t] \in display_tasks /\ \A u \in Threads : u # t => running[u] # running[t]
  BY <1>1 DEF IInv, TaskState
<1>3. MaxFrames \in Nat /\ display_tasks \subseteq 1..frames /\ frames \in 0..MaxFrames
  BY RegionAssumption DEF IInv, RestOfType
<1>4. running[t] \in Frames
  <2>1. 1..frames \subseteq Frames
    BY <1>3 DEF Frames
  <2> QED
    BY <1>2, <1>3, <2>1
<1>5. region.ended[running[t]] = 0 /\ region.prev # running[t]
  BY <1>2, <1>4 DEF IInv, TaskState
<1>6. TaskMgr
  <2>1. frames # 0
    <3>1. running[t] \in 1..frames
      BY <1>2, <1>3
    <3>2. 1..0 = {}
      OBVIOUS
    <3> QED
      BY <3>1, <3>2
  <2>2. ~TaskMgr => frames = 0
    BY DEF IInv, CallerState
  <2> QED
    BY <2>1, <2>2
<1>7. region.surface # NULL
  BY <1>2 DEF IInv, ListState
<1> QED
  BY <1>1, <1>2, <1>4, <1>5, <1>6, <1>7

LEMMA RunDisplaysInv ==
    ASSUME IInv, NEW t \in Threads, Run(t), NEW fail, Fails(fail), RunDisplays(t, fail)
    PROVE  IInv'
<1> DEFINE f == running[t]
           r == RunThaw(region, fail)
           n == Note(r, "surface", of[f] = region.surface)
           d == EndTask(n, n.prev)
           e == region'.ended
<1>1. /\ t \notin failed /\ f \in Frames /\ f \in display_tasks
      /\ display_tasks' = display_tasks \ {f}
      /\ region.ended[f] = 0 /\ region.prev # f
      /\ \A u \in Threads : u # t => running[u] # f
      /\ TaskMgr /\ region.surface # NULL
      /\ UNCHANGED <<setup, frames, of, pulled, want, waited>>
  BY RunFacts
<1>2. /\ Visible(region) /\ ~RunThawFails(region, fail)
      /\ region' = [[d EXCEPT !.prev = 0] EXCEPT !.prev = f]
      /\ running' = [running EXCEPT ![t] = 0] /\ failed' = failed
  BY DEF RunDisplays, EndDisplayed
<1>3. Fine(region) /\ setup \in Setups /\ CanFail(fail) /\ failures' \in 0..MaxFailures
      /\ MaxFrames \in Nat /\ region \in Records
  BY FailsFacts, RegionAssumption DEF IInv, RegionState, RestOfType, Fine
<1>4. /\ Fine(r) /\ Visible(r)
      /\ r.prev = region.prev /\ r.ended = region.ended /\ r.surface = region.surface
      /\ \A a \in {"suspended", "surface"} : a \in r.broken <=> a \in region.broken
      /\ "realized" \in r.broken => "realized" \in region.broken \/ "AddRegion" \in Failing
      /\ "REALIZED" \in r.flags \/ "realized" \in r.broken
  BY <1>1, <1>2, <1>3, RunThawFacts
<1> HIDE DEF r
<1>5. /\ n \in Records
      /\ n.flags = r.flags /\ n.config = r.config /\ n.surface = r.surface
      /\ n.hardware = r.hardware /\ n.prev = r.prev /\ n.ended = r.ended
      /\ n.broken = IF of[f] = region.surface THEN r.broken ELSE r.broken \cup {"surface"}
  BY <1>4, NoteFacts DEF Fine, Assertions
<1> HIDE DEF n
<1>6. /\ d \in Records /\ d = [n EXCEPT !.ended = d.ended]
      /\ d.ended = IF n.prev = 0 THEN n.ended ELSE [n.ended EXCEPT ![n.prev] = @ + 1]
  BY <1>5, EndTaskFacts DEF Records
<1> HIDE DEF d
<1>7. /\ d.flags = n.flags /\ d.config = n.config /\ d.surface = n.surface
      /\ d.hardware = n.hardware /\ d.broken = n.broken
  BY <1>5, <1>6 DEF Records
<1>8. /\ region' \in Records
      /\ region'.flags = r.flags /\ region'.config = r.config /\ region'.surface = r.surface
      /\ region'.hardware = r.hardware /\ region'.prev = f /\ region'.ended = d.ended
      /\ region'.broken = n.broken
  <2>1. f \in 0..MaxFrames /\ 0 \in 0..MaxFrames
    BY <1>1, <1>3 DEF Frames
  <2> HIDE DEF f
  <2> QED
    BY <1>2, <1>5, <1>6, <1>7, <2>1 DEF Records
<1>9. RegionState'
  <2>1. Fine(region)'
    <3>1. \A a \in {"realized", "configured", "manager"} :
             a \in region'.broken <=> a \in r.broken
      BY <1>5, <1>8
    <3>2. region' \in Records'
      BY <1>8 DEF Records, Hardware
    <3>3. UNCHANGED <<Failing, MayLoseConfigured, TaskMgr, LeftToTasks, setup>>
      BY <1>1 DEF Failing, MayLoseConfigured, TaskMgr, LeftToTasks
    <3>4. f \in Frames /\ f # 0
      BY <1>1, <1>3 DEF Frames
    <3> HIDE DEF f
    <3> QED
      BY <1>4, <1>8, <3>1, <3>2, <3>3, <3>4 DEF Fine, Visible
  <2>2. FlipsWhereWaited => of[f] = region.surface
    BY <1>1 DEF IInv, ListState
  <2> QED
    BY <1>1, <1>4, <1>5, <1>8, <2>1, <2>2 DEF IInv, RegionState, Failing, FlipsWhereWaited
<1>10. RestOfType'
  BY <1>1, <1>2, <1>3 DEF IInv, RestOfType
<1>11. /\ f # 0 /\ 0 \notin Frames
  BY <1>1, <1>3 DEF Frames
<1>12. /\ \A u \in Threads : u # t => running'[u] = running[u]
       /\ running'[t] = 0
  BY <1>2 DEF IInv, RestOfType
<1>13. /\ \A g \in Frames : g # region.prev => e[g] = region.ended[g]
       /\ region.prev # 0 => e[region.prev] = 1
  <2>1. CASE region.prev = 0
    BY <1>4, <1>5, <1>6, <1>8, <2>1
  <2>2. CASE region.prev # 0
    <3>1. region.prev \in Frames /\ region.ended \in [Frames -> Nat]
          /\ region.ended[region.prev] = 0
      BY <1>3, <2>2 DEF Records, Frames, IInv, TaskState
    <3>2. e = [region.ended EXCEPT ![region.prev] = @ + 1]
      BY <1>4, <1>5, <1>6, <1>8, <2>2
    <3> QED
      BY <3>1, <3>2
  <2> QED
    BY <2>1, <2>2
<1> HIDE DEF e
<1>14. TaskState'
  <2>1. e = region'.ended /\ region'.prev = f
    BY <1>8 DEF e
  <2>2. \A g \in Frames : g > frames \/ g \in display_tasks \ {f} => e[g] = 0 /\ f # g
    <3>1. f \in 1..frames /\ frames \in 0..MaxFrames
      BY <1>1 DEF IInv, RestOfType
    <3> HIDE DEF f
    <3> QED
      BY <1>3, <1>13, <3>1 DEF IInv, TaskState, Frames
  <2>3. e[f] = 0
    BY <1>1, <1>13
  <2>4. \A u \in failed : /\ running'[u] # 0 /\ e[running'[u]] = 1
                          /\ running'[u] \notin display_tasks \ {f}
    <3> SUFFICES ASSUME NEW u \in failed
                 PROVE  /\ running'[u] # 0 /\ e[running'[u]] = 1
                        /\ running'[u] \notin display_tasks \ {f}
      OBVIOUS
    <3>1. u \in Threads /\ u # t /\ running'[u] = running[u]
      BY <1>1, <1>12 DEF IInv, RestOfType
    <3>2. running[u] # 0 /\ region.ended[running[u]] = 1 /\ running[u] \notin display_tasks
      BY DEF IInv, TaskState
    <3>3. running[u] \in Frames
      BY <1>3, <3>1, <3>2 DEF IInv, RestOfType, Frames
    <3>4. running[u] # region.prev
      BY <3>2, <3>3 DEF IInv, TaskState
    <3> QED
      BY <1>13, <3>1, <3>2, <3>3, <3>4
  <2>5. \A u \in Threads : running'[u] # 0 /\ u \notin failed =>
           running'[u] \in display_tasks \ {f}
    BY <1>1, <1>12 DEF IInv, TaskState
  <2>6. \A g \in Frames : pulled < g /\ g <= frames => g \in display_tasks \ {f}
    <3>1. f <= pulled /\ pulled \in Nat
      BY <1>3 DEF IInv, RestOfType
    <3> HIDE DEF f
    <3> QED
      BY <3>1 DEF IInv, TaskState, Frames
  <2>7. \A u, v \in Threads : running'[u] = running'[v] /\ running'[u] # 0 => u = v
    BY <1>12 DEF IInv, TaskState
  <2>8. \A g \in Frames : e[g] <= 2
    BY <1>11, <1>13 DEF IInv, TaskState
  <2>9. Failing = {} /\ FlipsWhereWaited => failed = {} /\ \A g \in Frames : e[g] <= 1
    BY <1>11, <1>13 DEF IInv, TaskState
  <2> HIDE DEF f
  <2> QED
    BY <1>1, <1>2, <2>1, <2>2, <2>3, <2>4, <2>5, <2>6, <2>7, <2>8, <2>9
    DEF TaskState, Failing, FlipsWhereWaited
<1>15. CallerState'
  BY <1>1 DEF IInv, CallerState, OneCaller, TaskMgr
<1>16. ListState'
  BY <1>1, <1>4, <1>8 DEF IInv, ListState, FlipsWhereWaited, Visible
<1> QED
  BY <1>9, <1>10, <1>14, <1>15, <1>16 DEF IInv

LEMMA RunFailsInv ==
    ASSUME IInv, NEW t \in Threads, Run(t), NEW fail, Fails(fail), RunFails(t, fail)
    PROVE  IInv'
<1> DEFINE f == running[t]
           e == region'.ended
<1>1. /\ t \notin failed /\ f \in Frames /\ f \in display_tasks
      /\ display_tasks' = display_tasks \ {f}
      /\ region.ended[f] = 0 /\ region.prev # f
      /\ \A u \in Threads : u # t => running[u] # f
      /\ TaskMgr /\ region.surface # NULL
      /\ UNCHANGED <<setup, frames, of, pulled, want, waited>>
  BY RunFacts
<1>2. /\ failed' = failed \cup {t} /\ running' = running
  BY DEF RunFails
<1>3. Fine(region) /\ setup \in Setups /\ CanFail(fail) /\ failures' \in 0..MaxFailures
      /\ MaxFrames \in Nat /\ region \in Records
  BY FailsFacts, RegionAssumption DEF IInv, RegionState, RestOfType, Fine
<1>4. PICK r : /\ region' = EndTask(r, f)
               /\ \/ ~Visible(region) /\ r = Note(region, "suspended", FALSE)
                  \/ /\ Visible(region) /\ r = RunThaw(region, fail)
                     /\ RunThawFails(region, fail) \/ fail = "FlipRegion"
  BY DEF RunFails
<1>5. /\ Fine(r) /\ (Visible(region) <=> Visible(r))
      /\ r.prev = region.prev /\ r.ended = region.ended /\ r.surface = region.surface
      /\ "realized" \in r.broken => "realized" \in region.broken \/ "AddRegion" \in Failing
      /\ "surface" \in r.broken => "surface" \in region.broken
      /\ "suspended" \in r.broken => "suspended" \in region.broken \/ ~Visible(region)
  <2>1. CASE ~Visible(region) /\ r = Note(region, "suspended", FALSE)
    <3>1. /\ r \in Records
          /\ r.flags = region.flags /\ r.config = region.config /\ r.surface = region.surface
          /\ r.hardware = region.hardware /\ r.prev = region.prev /\ r.ended = region.ended
          /\ r.broken = region.broken \cup {"suspended"}
      BY <1>3, <2>1, NoteFacts DEF Assertions
    <3> QED
      BY <1>3, <2>1, <3>1 DEF Fine, Visible
  <2>2. CASE Visible(region) /\ r = RunThaw(region, fail)
    <3>1. /\ Fine(r) /\ Visible(r)
          /\ r.prev = region.prev /\ r.ended = region.ended /\ r.surface = region.surface
          /\ \A a \in {"suspended", "surface"} : a \in r.broken <=> a \in region.broken
          /\ "realized" \in r.broken => "realized" \in region.broken \/ "AddRegion" \in Failing
      BY <1>1, <1>3, <2>2, RunThawFacts
    <3> QED
      BY <2>2, <3>1
  <2> QED
    BY <1>4, <2>1, <2>2
<1>6. /\ f # 0 /\ f \in 0..MaxFrames /\ r \in Records
  BY <1>1, <1>3, <1>5 DEF Frames, Fine
<1>7. /\ region' \in Records /\ region' = [r EXCEPT !.ended = e]
      /\ e = [r.ended EXCEPT ![f] = @ + 1]
  BY <1>4, <1>6, EndTaskFacts
<1>8. e[f] = 1 /\ \A g \in Frames : g # f => e[g] = region.ended[g]
  BY <1>1, <1>3, <1>5, <1>7 DEF Records
<1> HIDE DEF e
<1>9. /\ region'.flags = r.flags /\ region'.config = r.config /\ region'.surface = r.surface
      /\ region'.hardware = r.hardware /\ region'.prev = r.prev /\ region'.broken = r.broken
  BY <1>6, <1>7 DEF Records
<1>10. FlipsWhereWaited => Visible(region)
  BY <1>1 DEF IInv, ListState
<1>11. RegionState'
  <2>1. Fine(region)'
    <3>1. region' \in Records'
      BY <1>7 DEF Records, Hardware
    <3>2. UNCHANGED <<Failing, MayLoseConfigured, TaskMgr, LeftToTasks, setup>>
      BY <1>1 DEF Failing, MayLoseConfigured, TaskMgr, LeftToTasks
    <3> QED
      BY <1>5, <1>9, <3>1, <3>2 DEF Fine, Visible
  <2> QED
    BY <1>1, <1>5, <1>9, <1>10, <2>1 DEF IInv, RegionState, Failing, FlipsWhereWaited
<1>12. RestOfType'
  BY <1>1, <1>2, <1>3 DEF IInv, RestOfType
<1>13. ~(Failing = {} /\ FlipsWhereWaited)
  <2> SUFFICES ASSUME Failing = {}, FlipsWhereWaited PROVE FALSE
    OBVIOUS
  <2>1. fail = NULL
    BY <1>3 DEF CanFail
  <2>2. fail \notin DriverFuncs
    BY <2>1, RegionAssumption
  <2> QED
    BY <1>4, <1>10, <2>2 DEF RunThawFails, DriverFuncs
<1>14. TaskState'
  <2>1. e = region'.ended /\ region'.prev = region.prev
    BY <1>5, <1>9 DEF e
  <2>2. \A g \in Frames : g > frames \/ g \in display_tasks \ {f} => e[g] = 0 /\ region.prev # g
    <3>1. f \in 1..frames /\ frames \in 0..MaxFrames
      BY <1>1 DEF IInv, RestOfType
    <3> HIDE DEF f
    <3> QED
      BY <1>3, <1>8, <3>1 DEF IInv, TaskState, Frames
  <2>3. region.prev # 0 => e[region.prev] = 0
    BY <1>1, <1>3, <1>8 DEF IInv, TaskState, Records, Frames
  <2>4. \A u \in failed \cup {t} : /\ running[u] # 0 /\ e[running[u]] = 1
                                   /\ running[u] \notin display_tasks \ {f}
    <3> SUFFICES ASSUME NEW u \in failed
                 PROVE  /\ running[u] # 0 /\ e[running[u]] = 1
                        /\ running[u] \notin display_tasks \ {f}
      BY <1>6, <1>8
    <3>1. u \in Threads /\ u # t
      BY <1>1 DEF IInv, RestOfType
    <3>2. running[u] # 0 /\ region.ended[running[u]] = 1 /\ running[u] \notin display_tasks
      BY DEF IInv, TaskState
    <3>3. running[u] \in Frames
      BY <1>3, <3>1, <3>2 DEF IInv, RestOfType, Frames
    <3> QED
      BY <1>1, <1>8, <3>1, <3>2, <3>3
  <2>5. \A u \in Threads : running[u] # 0 /\ u \notin failed \cup {t} =>
           running[u] \in display_tasks \ {f}
    BY <1>1 DEF IInv, TaskState
  <2>6. \A g \in Frames : pulled < g /\ g <= frames => g \in display_tasks \ {f}
    <3>1. f <= pulled /\ pulled \in Nat
      BY <1>3 DEF IInv, RestOfType
    <3> HIDE DEF f
    <3> QED
      BY <3>1 DEF IInv, TaskState, Frames
  <2>7. \A u, v \in Threads : running[u] = running[v] /\ running[u] # 0 => u = v
    BY DEF IInv, TaskState
  <2>8. \A g \in Frames : e[g] <= 2
    BY <1>8 DEF IInv, TaskState
  <2> HIDE DEF f
  <2> QED
    BY <1>1, <1>2, <1>13, <2>1, <2>2, <2>3, <2>4, <2>5, <2>6, <2>7, <2>8
    DEF TaskState, Failing, FlipsWhereWaited
<1>15. CallerState'
  BY <1>1 DEF IInv, CallerState, OneCaller, TaskMgr
<1>16. ListState'
  BY <1>1, <1>5, <1>9 DEF IInv, ListState, FlipsWhereWaited, Visible
<1> QED
  BY <1>11, <1>12, <1>14, <1>15, <1>16 DEF IInv

LEMMA LoopDoneInv ==
    ASSUME IInv, NEW t \in Threads, LoopDone(t)
    PROVE  IInv'
<1> DEFINE f == running[t]
           e == region'.ended
<1>1. /\ t \in failed
      /\ region' = EndTask(region, f)
      /\ running' = [running EXCEPT ![t] = 0]
      /\ failed' = failed \ {t}
      /\ UNCHANGED <<setup, frames, of, display_tasks, pulled, want, waited, failures>>
  BY DEF LoopDone, callers
<1>2. /\ region \in Records /\ MaxFrames \in Nat
      /\ f # 0 /\ region.ended[f] = 1 /\ f \notin display_tasks
      /\ \A u \in Threads : u # t => running[u] # f
  BY <1>1, RegionAssumption DEF IInv, RegionState, Fine, TaskState, RestOfType
<1>3. f \in 1..frames /\ frames \in 0..MaxFrames /\ f \in Frames /\ f \in 0..MaxFrames
  BY <1>2 DEF IInv, RestOfType, Frames
<1>4. /\ region' \in Records /\ region' = [region EXCEPT !.ended = e]
      /\ e = [region.ended EXCEPT ![f] = @ + 1]
  BY <1>1, <1>2, <1>3, EndTaskFacts
<1>5. e[f] = 2 /\ \A g \in Frames : g # f => e[g] = region.ended[g]
  BY <1>2, <1>3, <1>4 DEF Records
<1> HIDE DEF e
<1>6. /\ region'.flags = region.flags /\ region'.config = region.config
      /\ region'.surface = region.surface /\ region'.hardware = region.hardware
      /\ region'.prev = region.prev /\ region'.broken = region.broken
  BY <1>2, <1>4 DEF Records
<1>7. RegionState'
  BY <1>1, <1>4, <1>6 DEF IInv, RegionState, Fine, Visible, Failing, FlipsWhereWaited,
                          Records, Hardware, MayLoseConfigured, TaskMgr, LeftToTasks
<1>8. RestOfType'
  BY <1>1 DEF IInv, RestOfType
<1>9. /\ \A u \in Threads : u # t => running'[u] = running[u]
      /\ running'[t] = 0
  BY <1>1 DEF IInv, RestOfType
<1>10. TaskState'
  <2>1. e = region'.ended /\ region'.prev = region.prev
    BY <1>6 DEF e
  <2>2. \A g \in Frames : g > frames \/ g \in display_tasks => e[g] = 0 /\ region.prev # g
    <3> HIDE DEF f
    <3> QED
      BY <1>2, <1>3, <1>5 DEF IInv, TaskState, Frames
  <2>3. region.prev # 0 => e[region.prev] = 0
    <3>1. region.prev # 0 => region.prev \in Frames /\ region.prev # f
      BY <1>2 DEF IInv, TaskState, Records, Frames
    <3> QED
      BY <1>5, <3>1 DEF IInv, TaskState
  <2>4. \A u \in failed \ {t} : /\ running'[u] # 0 /\ e[running'[u]] = 1
                                /\ running'[u] \notin display_tasks
    <3> SUFFICES ASSUME NEW u \in failed, u # t
                 PROVE  /\ running'[u] # 0 /\ e[running'[u]] = 1
                        /\ running'[u] \notin display_tasks
      OBVIOUS
    <3>1. u \in Threads
      BY DEF IInv, RestOfType
    <3>2. running[u] # 0 /\ region.ended[running[u]] = 1 /\ running[u] \notin display_tasks
      BY DEF IInv, TaskState
    <3>3. running[u] \in Frames
      BY <1>2, <3>1, <3>2 DEF IInv, RestOfType, Frames
    <3> QED
      BY <1>2, <1>5, <1>9, <3>1, <3>2, <3>3
  <2>5. \A u \in Threads : running'[u] # 0 /\ u \notin failed \ {t} =>
           running'[u] \in display_tasks
    BY <1>9 DEF IInv, TaskState
  <2>6. \A u, v \in Threads : running'[u] = running'[v] /\ running'[u] # 0 => u = v
    BY <1>9 DEF IInv, TaskState
  <2>7. \A g \in Frames : e[g] <= 2
    BY <1>5 DEF IInv, TaskState
  <2>8. ~(Failing = {} /\ FlipsWhereWaited)
    BY <1>1 DEF IInv, TaskState
  <2> HIDE DEF f
  <2> QED
    BY <1>1, <2>1, <2>2, <2>3, <2>4, <2>5, <2>6, <2>7, <2>8
    DEF IInv, TaskState, Failing, FlipsWhereWaited
<1>11. CallerState' /\ ListState'
  BY <1>1, <1>6 DEF IInv, CallerState, ListState, OneCaller, TaskMgr, FlipsWhereWaited, Visible
<1> QED
  BY <1>7, <1>8, <1>10, <1>11 DEF IInv

-----------------------------------------------------------------------------
LEMMA NextInv == IInv /\ [Next]_vars => IInv'
<1> SUFFICES ASSUME IInv, [Next]_vars PROVE IInv'
  OBVIOUS
<1>1. CASE UNCHANGED vars
  <2>1. UNCHANGED <<setup, region, frames, of, display_tasks, pulled, running, failed, want,
                    waited, failures>>
    BY <1>1 DEF vars
  <2> QED
    BY <2>1, RegionStays DEF IInv, RestOfType, TaskState, CallerState, ListState, OneCaller,
                             TaskMgr, Failing, FlipsWhereWaited, Visible
<1>2. ASSUME NEW c \in Callers, \E op \in setup.ops : Calls(c, op)
      PROVE  IInv'
  BY <1>2, CallsInv
<1>3. ASSUME NEW c \in Callers, Operation(c)
      PROVE  IInv'
  BY <1>3, WaitInv, SwitchInv, SwitchOffInv, CallSetSurfaceInv, CallSetConfigurationInv,
     ContextConfiguresInv, FlipInv, FlipTaskInv DEF Operation
<1>4. ASSUME NEW t \in Threads, Pool(t)
      PROVE  IInv'
  <2>1. CASE Run(t)
    <3>1. PICK fail : Fails(fail) /\ (RunDisplays(t, fail) \/ RunFails(t, fail))
      BY <2>1 DEF Run
    <3> QED
      BY <2>1, <3>1, RunDisplaysInv, RunFailsInv
  <2> QED
    BY <1>4, <2>1, PullTaskInv, LoopDoneInv DEF Pool
<1> QED
  BY <1>1, <1>2, <1>3, <1>4 DEF Next

(* The invariant holds in every reachable state, for any callers, surfaces, *)
(* operations, tasks and failing driver functions.                         *)
THEOREM AlwaysInv == Spec => []IInv
  BY InitInv, NextInv, PTL DEF Spec

(* Whatever operation fails halfway, a region is realized only while it is *)
(* enabled and active, and while it is configured unless SetRegion() or an *)
(* allocation of the layer context may fail; the hardware of a realized    *)
(* region that is not frozen shows its configuration and surface, and a    *)
(* task stays on the screen only while the region is realized.             *)
THEOREM RegionIsConsistent == Spec => []Consistent
<1>1. IInv => Consistent
  <2>1. IInv => region.config \in Nat
    BY DEF IInv, RegionState, Fine, Records
  <2> QED
    BY <2>1, TypeFromParts
    DEF IInv, RegionState, Fine, Consistent, RealizedIsVisible, HardwareFollowsRegion,
        DisplayedWhileRealized, Visible
<1> QED
  BY <1>1, AlwaysInv, PTL

(* Done() is called at most once for every display task, by the next task, *)
(* by unrealizing the region or by the pool, if no driver function fails   *)
(* and the waits of the callers exclude flips.                             *)
THEOREM TasksEndOnce == Spec => []DoneOnce
<1>1. IInv => DoneOnce
  BY DEF IInv, TaskState, DoneOnce
<1> QED
  BY <1>1, AlwaysInv, PTL

(* What DisplayTask::Run() assumes of its region and surface holds where   *)
(* the waits of the callers exclude flips, and so do the assertions of     *)
(* layer_region.c: CONFIGURED unless SetRegion() or an allocation may      *)
(* fail, and no dfb_layer_region_set() with the task manager unless        *)
(* somebody else than the layer context changes the surface or the         *)
(* configuration, or AddRegion() may fail.                                 *)
THEOREM AssumptionsOfRunHold == Spec => []RunsAsAssumed
<1>1. IInv => RunsAsAssumed
  BY DEF IInv, RegionState, Fine, RunsAsAssumed, RunsInVisibleRegion, RunsOnItsSurface,
         ThawedIsRealized, AssertionsHold, StaysConfigured, SetUpByTasks, LeftToTasks
<1> QED
  BY <1>1, AlwaysInv, PTL
=============================================================================
