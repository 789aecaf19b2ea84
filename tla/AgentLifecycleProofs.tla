------------------------ MODULE AgentLifecycleProofs ------------------------
(***************************************************************************)
(* For any set of Agents, any bound on starts, with or without a startup   *)
(* timeout and whatever fails: two programs of an Agent never run at a     *)
(* time, an entity is destroyed and a runtime installed only when all of   *)
(* the old runtime is over.                                                *)
(***************************************************************************)
EXTENDS AgentLifecycle, TLAPS

(* A program that runs is the one of the component. *)
DriverOwned == \A i \in Instance : driver[i] = "running" => vm[i[1]] = i

(* The cleanup of a failed start awaited the end of the program. *)
CleanedOver == \A i \in Instance : starter[i] = "cleaned" => driver[i] = "over"

(* Nothing of a runtime is left: before the first start, between the last  *)
(* closure of stop_runtime and install_runtime, and when the result of a   *)
(* stop or of a complete cleanup is on its way.                            *)
Resting(a) ==
  \/ state[a] = "absent"
  \/ flow[a] \in {"prepare", "install", "clean"}
  \/ flow[a] = "done" /\ kind[a] = "stop"

(* The queue stays closed while stop_runtime joins, a flow is at work only *)
(* in the states of the lifecycle, and the flow of a stop starts nothing.  *)
Startup == {"prepare", "install", "init", "check", "request", "await", "confirm"}

AgentInv(a) ==
  /\ Resting(a) => vm[a] = None /\ work[a] = {} /\ ~accepting[a]
  /\ flow[a] \in {"joining", "final"} => ~accepting[a]
  /\ state[a] \in {"absent", "idle", "working"} => flow[a] = "none"
  /\ flow[a] \in Startup => kind[a] # "stop"

LifeInv ==
  /\ LifeTypeOK
  /\ DriverOwned
  /\ CleanedOver
  /\ \A a \in Agent : AgentInv(a)

(* What a step is: one of an Agent or one of an instance. *)
AgentStep(a) ==
  \/ StartAgent(a) \/ StopAgent(a) \/ RestartAgent(a) \/ AgentException(a)
  \/ FlowStep(a) \/ FlowPanics(a) \/ Turn(a)
  \/ \E w \in Work : JoinWork(a, w) \/ BeginWork(a, w) \/ EndWork(a, w)

InstanceStep(i) == (Ready(i) \/ VmStep(i)) /\ UNCHANGED <<flowVars, accepting, work>>

LEMMA InstanceParts ==
  ASSUME NEW i \in Instance
  PROVE  i[1] \in Agent /\ i[2] \in 1 .. MaxStarts /\ i # None
<1>1. None \notin Instance
  BY VmAssumption
<1>2. QED
  BY <1>1 DEF Instance

-----------------------------------------------------------------------------
(* Types *)

LEMMA TypeInit == Init => LifeTypeOK
<1>1. MaxStarts \in Nat
  BY VmAssumption
<1>2. VmInit => VmTypeOK
  BY <1>1 DEF VmInit, VmTypeOK, Asker
<1>3. QED
  BY <1>2 DEF Init, LifeTypeOK, Work

LEMMA CancelType ==
  ASSUME LifeTypeOK, NEW a \in Agent, CancelRuntime(a)
  PROVE  cancel' \in [Instance -> BOOLEAN] /\ accepting' \in [Agent -> BOOLEAN]
BY DEF LifeTypeOK, VmTypeOK, CancelRuntime

LEMMA RequestTypes ==
  ASSUME LifeTypeOK, NEW a \in Agent,
         StartAgent(a) \/ StopAgent(a) \/ RestartAgent(a) \/ AgentException(a)
  PROVE  LifeTypeOK'
<1>1. CASE StartAgent(a)
  BY <1>1 DEF StartAgent, Become, Goto, LifeTypeOK, VmTypeOK, vmVars
<1>2. ASSUME NEW s \in {"stopping", "restarting"}, NEW k \in {"stop", "restart"},
             BeginStop(a, s, k)
      PROVE  LifeTypeOK'
  <2>1. CancelRuntime(a)
    BY <1>2 DEF BeginStop
  <2>2. QED
    BY <1>2, <2>1, CancelType DEF BeginStop, Become, Goto, restOfVm, LifeTypeOK, VmTypeOK
<1>3. CASE StopAgent(a) \/ RestartAgent(a)
  BY <1>2, <1>3 DEF StopAgent, RestartAgent
<1>4. CASE AgentException(a)
  <2>1. CancelRuntime(a)
    BY <1>4 DEF AgentException
  <2>2. QED
    BY <1>4, <2>1, CancelType DEF AgentException, Become, restOfVm, LifeTypeOK, VmTypeOK
<1>5. QED
  BY <1>1, <1>3, <1>4

LEMMA StartFailsType ==
  ASSUME LifeTypeOK, NEW a \in Agent, NEW s \in BOOLEAN, StartFails(a, s)
  PROVE  /\ flow' \in [Agent -> {"none", "snapshot", "joining", "final", "prepare",
                                 "install", "init", "check", "request", "await",
                                 "confirm", "done", "failed", "clean"}]
         /\ undo' \in [Agent -> BOOLEAN]
         /\ sure' \in [Agent -> BOOLEAN]
BY DEF StartFails, Goto, LifeTypeOK

LEMMA SnapshotType ==
  ASSUME LifeTypeOK, NEW a \in Agent, Snapshot(a)
  PROVE  LifeTypeOK'
<1>1. CancelRuntime(a) => cancel' \in [Instance -> BOOLEAN] /\ accepting' \in [Agent -> BOOLEAN]
  BY CancelType
<1>2. CASE SnapshotFails(a)
  BY <1>1, <1>2 DEF Snapshot, SnapshotFails, Goto, restOfVm, LifeTypeOK, VmTypeOK
<1>3. CASE SnapshotTaken(a)
  <2>1. requests' \subseteq Instance \X Asker
    BY <1>3 DEF SnapshotTaken, Machines, LifeTypeOK, VmTypeOK, Asker
  <2>2. joining' \in [Agent -> SUBSET (Work \cup {"vm"})]
    BY <1>3 DEF SnapshotTaken, LifeTypeOK
  <2>3. QED
    BY <1>1, <1>3, <2>1, <2>2
       DEF Snapshot, SnapshotTaken, Goto, restOfVm, LifeTypeOK, VmTypeOK
<1>4. QED
  BY <1>2, <1>3 DEF Snapshot

LEMMA JoinTypes ==
  ASSUME LifeTypeOK, NEW a \in Agent,
         JoinVm(a) \/ (\E w \in Work : JoinWork(a, w)) \/ Joined(a) \/ Final(a)
  PROVE  LifeTypeOK'
<1>1. ASSUME NEW what, NEW ok \in BOOLEAN, Join(a, what, ok) PROVE LifeTypeOK'
  <2>1. broken[a] \in BOOLEAN
    BY DEF LifeTypeOK
  <2>2. broken' \in [Agent -> BOOLEAN]
    BY <1>1, <2>1 DEF Join, LifeTypeOK
  <2>3. joining' \in [Agent -> SUBSET (Work \cup {"vm"})]
    BY <1>1 DEF Join, LifeTypeOK
  <2>4. QED
    BY <1>1, <2>2, <2>3 DEF Join, LifeTypeOK, VmTypeOK, vmVars
<1>2. CASE JoinVm(a)
  BY <1>1, <1>2 DEF JoinVm
<1>3. CASE \E w \in Work : JoinWork(a, w)
  BY <1>1, <1>3 DEF JoinWork
<1>4. CASE Joined(a)
  BY <1>4 DEF Joined, Goto, LifeTypeOK, VmTypeOK, vmVars
<1>5. CASE Final(a)
  BY <1>5 DEF Final, Goto, LifeTypeOK, VmTypeOK, vmVars
<1>6. QED
  BY <1>2, <1>3, <1>4, <1>5

LEMMA StartupTypes ==
  ASSUME LifeTypeOK, NEW a \in Agent,
         \/ Prepare(a) \/ Install(a) \/ Initialise(a) \/ Check(a)
         \/ RequestVm(a) \/ AwaitVm(a) \/ Confirm(a)
  PROVE  LifeTypeOK'
<1>1. ASSUME UNCHANGED <<vmVars, state, kind, joining, broken, work>>,
             accepting' \in [Agent -> BOOLEAN],
             \/ \E p \in {"install", "init", "check", "request", "confirm", "done"} :
                  Proceed(a, p)
             \/ \E s \in BOOLEAN : StartFails(a, s)
      PROVE  LifeTypeOK'
  <2>1. CASE \E p \in {"install", "init", "check", "request", "confirm", "done"} :
                  Proceed(a, p)
    BY <1>1, <2>1 DEF Proceed, Goto, LifeTypeOK, VmTypeOK, vmVars
  <2>2. CASE \E s \in BOOLEAN : StartFails(a, s)
    BY <1>1, <2>2, StartFailsType DEF LifeTypeOK, VmTypeOK, vmVars
  <2>3. QED
    BY <1>1, <2>1, <2>2
<1>2. accepting \in [Agent -> BOOLEAN]
  BY DEF LifeTypeOK
<1>3. CASE Prepare(a)
  BY <1>1, <1>2, <1>3 DEF Prepare
<1>4. CASE Install(a)
  BY <1>1, <1>2, <1>4 DEF Install, InstallFails
<1>5. CASE Initialise(a)
  BY <1>1, <1>2, <1>5 DEF Initialise
<1>6. CASE Check(a)
  BY <1>1, <1>2, <1>6 DEF Check
<1>7. CASE RequestVm(a)
  <2>1. VmTypeOK'
    <3>1. CASE RefuseStart(a)
      BY <3>1 DEF RefuseStart, LifeTypeOK, VmTypeOK
    <3>2. CASE CreateVm(a)
      <4>1. <<a, starts[a] + 1>> \in Instance /\ starts[a] + 1 \in 0 .. MaxStarts
        BY <3>2, VmAssumption DEF CreateVm, LifeTypeOK, VmTypeOK, Instance
      <4>2. QED
        BY <3>2, <4>1 DEF CreateVm, LifeTypeOK, VmTypeOK
    <3>3. QED
      BY <1>7, <3>1, <3>2 DEF RequestVm, StartVm
  <2>2. QED
    BY <1>7, <2>1 DEF RequestVm, Goto, LifeTypeOK
<1>8. CASE AwaitVm(a)
  BY <1>1, <1>2, <1>8 DEF AwaitVm
<1>9. CASE Confirm(a)
  BY <1>1, <1>2, <1>9 DEF Confirm
<1>10. QED
  BY <1>3, <1>4, <1>5, <1>6, <1>7, <1>8, <1>9

LEMMA ResultTypes ==
  ASSUME LifeTypeOK, NEW a \in Agent,
         HandleDone(a) \/ HandleFailed(a) \/ FlowPanics(a) \/ Turn(a)
  PROVE  LifeTypeOK'
<1>1. ASSUME Goto(a, "none"),
             UNCHANGED <<starts, driver, ready, cancel, ended, starter, requests, startReply,
                         stopReply, kind, undo, sure, joining, broken, work>>,
             \/ Despawn(a)
             \/ Become(a, "idle") /\ UNCHANGED <<vm, accepting>>
             \/ UNCHANGED <<state, vm, accepting>>
      PROVE  LifeTypeOK'
  <2>1. flow' \in [Agent -> {"none", "snapshot", "joining", "final", "prepare", "install",
                             "init", "check", "request", "await", "confirm", "done",
                             "failed", "clean"}]
    BY <1>1 DEF Goto, LifeTypeOK
  <2>2. vm' \in [Agent -> Instance \cup {None}] /\ accepting' \in [Agent -> BOOLEAN]
    <3>1. /\ vm \in [Agent -> Instance \cup {None}]
          /\ accepting \in [Agent -> BOOLEAN]
      BY DEF LifeTypeOK, VmTypeOK
    <3>2. CASE Despawn(a)
      BY <3>1, <3>2 DEF Despawn
    <3>3. CASE UNCHANGED <<vm, accepting>>
      BY <3>1, <3>3
    <3>4. QED
      BY <1>1, <3>2, <3>3
  <2>3. state' \in [Agent -> {"absent", "starting", "idle", "working", "stopping",
                              "restarting", "gone"}]
    BY <1>1 DEF Despawn, Become, LifeTypeOK
  <2>4. QED
    BY <1>1, <2>1, <2>2, <2>3 DEF LifeTypeOK, VmTypeOK
<1>2. CASE HandleDone(a) \/ HandleFailed(a)
  BY <1>1, <1>2 DEF HandleDone, HandleFailed
<1>3. CASE FlowPanics(a)
  BY <1>3 DEF FlowPanics, Goto, LifeTypeOK, VmTypeOK, vmVars
<1>4. CASE Turn(a)
  BY <1>4 DEF Turn, Become, LifeTypeOK, VmTypeOK, vmVars
<1>5. QED
  BY <1>2, <1>3, <1>4

LEMMA WorkTypes ==
  ASSUME LifeTypeOK, NEW a \in Agent, NEW w \in Work, BeginWork(a, w) \/ EndWork(a, w)
  PROVE  LifeTypeOK'
<1>1. work' \in [Agent -> SUBSET Work]
  BY DEF BeginWork, EndWork, LifeTypeOK
<1>2. UNCHANGED <<vmVars, flowVars, accepting>>
  BY DEF BeginWork, EndWork
<1>3. QED
  BY <1>1, <1>2 DEF LifeTypeOK, VmTypeOK, vmVars, flowVars

LEMMA InstanceTypes ==
  ASSUME LifeTypeOK, NEW i \in Instance, InstanceStep(i)
  PROVE  LifeTypeOK'
<1> USE InstanceParts
<1>1. ASSUME NEW by \in Asker, NEW ok \in BOOLEAN, ReplyStop(i, by, ok)
      PROVE  /\ starter' \in [Instance -> {"none", "waiting", "stopping", "cleaned",
                                           "failed"}]
             /\ stopReply' \in [Agent -> {"none", "ok", "error"}]
  BY <1>1 DEF ReplyStop, LifeTypeOK, VmTypeOK
<1>2. ASSUME Ready(i) PROVE VmTypeOK'
  BY <1>2 DEF Ready, DriverReady, LifeTypeOK, VmTypeOK
<1>3. ASSUME DriverEnds(i) PROVE VmTypeOK'
  BY <1>3 DEF DriverEnds, LifeTypeOK, VmTypeOK
<1>4. ASSUME Started(i) PROVE VmTypeOK'
  BY <1>4 DEF Started, LifeTypeOK, VmTypeOK
<1>5. ASSUME NotReady(i) PROVE VmTypeOK'
  BY <1>5 DEF NotReady, LifeTypeOK, VmTypeOK, Asker
<1>6. ASSUME StartFailed(i) PROVE VmTypeOK'
  BY <1>6 DEF StartFailed, LifeTypeOK, VmTypeOK
<1>7. ASSUME Stopped(i) PROVE VmTypeOK'
  <2>1. Current(i) \in BOOLEAN
    BY DEF Current
  <2>2. /\ starter' \in [Instance -> {"none", "waiting", "stopping", "cleaned",
                                      "failed"}]
        /\ stopReply' \in [Agent -> {"none", "ok", "error"}]
    BY <1>1, <1>7, <2>1 DEF Stopped
  <2>3. QED
    <3>1. vm' \in [Agent -> Instance \cup {None}]
      BY <1>7 DEF Stopped, LifeTypeOK, VmTypeOK
    <3>2. ended' \in [Instance -> {"free", "spent"} \cup Asker]
      BY <1>7 DEF Stopped, LifeTypeOK, VmTypeOK
    <3>3. QED
      BY <1>7, <2>2, <3>1, <3>2 DEF Stopped, LifeTypeOK, VmTypeOK
<1>8. ASSUME NEW by \in Asker, HandleStop(i, by) PROVE VmTypeOK'
  <2>1. requests' \subseteq Instance \X Asker
    BY <1>8 DEF HandleStop, LifeTypeOK, VmTypeOK
  <2>2. CASE Current(i) /\ ended[i] = "free"
    <3>1. /\ ended' = [ended EXCEPT ![i] = by]
          /\ cancel' = [cancel EXCEPT ![i] = TRUE]
          /\ UNCHANGED <<vm, starts, driver, ready, starter, startReply, stopReply>>
      BY <1>8, <2>2 DEF HandleStop
    <3>2. /\ ended' \in [Instance -> {"free", "spent"} \cup Asker]
          /\ cancel' \in [Instance -> BOOLEAN]
      BY <3>1 DEF LifeTypeOK, VmTypeOK
    <3>3. QED
      BY <2>1, <3>1, <3>2 DEF LifeTypeOK, VmTypeOK
  <2>3. CASE ~(Current(i) /\ ended[i] = "free")
    <3>1. /\ starter' \in [Instance -> {"none", "waiting", "stopping", "cleaned",
                                        "failed"}]
          /\ stopReply' \in [Agent -> {"none", "ok", "error"}]
      BY <1>1, <1>8, <2>3 DEF HandleStop
    <3>2. UNCHANGED <<vm, starts, driver, ready, cancel, ended, startReply>>
      BY <1>8, <2>3 DEF HandleStop
    <3>3. QED
      BY <2>1, <3>1, <3>2 DEF LifeTypeOK, VmTypeOK
  <2>4. QED
    BY <2>2, <2>3
<1>9. VmTypeOK'
  BY <1>2, <1>3, <1>4, <1>5, <1>6, <1>7, <1>8 DEF InstanceStep, VmStep, LifeTypeOK
<1>10. QED
  BY <1>9 DEF InstanceStep, LifeTypeOK, flowVars

LEMMA NextIsStep ==
  Next => (\E a \in Agent : AgentStep(a)) \/ (\E i \in Instance : InstanceStep(i))
BY DEF Next, AgentStep, InstanceStep

LEMMA TypeStep == LifeTypeOK /\ [Next]_vars => LifeTypeOK'
<1> SUFFICES ASSUME LifeTypeOK, [Next]_vars PROVE LifeTypeOK'
  OBVIOUS
<1>1. ASSUME NEW a \in Agent, AgentStep(a) PROVE LifeTypeOK'
  BY <1>1, RequestTypes, SnapshotType, JoinTypes, StartupTypes, ResultTypes, WorkTypes
     DEF AgentStep, FlowStep
<1>2. CASE UNCHANGED vars
  BY <1>2 DEF vars, vmVars, flowVars, LifeTypeOK, VmTypeOK
<1>3. QED
  BY <1>1, <1>2, InstanceTypes, NextIsStep

(* Every variable keeps its type. *)
THEOREM LifeTypeCorrect == Spec => []LifeTypeOK
BY TypeInit, TypeStep, PTL DEF Spec

-----------------------------------------------------------------------------
(* Machines *)

(* The machines, as the invariant sees them, are changed by StartVm and    *)
(* the end of the entity alone.                                            *)
LEMMA MachineStep ==
  ASSUME NEW a \in Agent, AgentStep(a)
  PROVE  \/ UNCHANGED <<vm, driver, starter>>
         \/ RequestVm(a)
         \/ (HandleDone(a) \/ HandleFailed(a)) /\ UNCHANGED <<driver, starter>>
<1>1. CASE StartAgent(a) \/ StopAgent(a) \/ RestartAgent(a) \/ AgentException(a)
  BY <1>1 DEF StartAgent, StopAgent, RestartAgent, AgentException, BeginStop, restOfVm,
       vmVars
<1>2. CASE Snapshot(a) \/ JoinVm(a) \/ Joined(a) \/ Final(a)
  BY <1>2 DEF Snapshot, JoinVm, Join, Joined, Final, restOfVm, vmVars
<1>3. CASE \/ Prepare(a) \/ Install(a) \/ Initialise(a) \/ Check(a)
           \/ AwaitVm(a) \/ Confirm(a)
  BY <1>3 DEF Prepare, Install, Initialise, Check, AwaitVm, Confirm, vmVars
<1>4. CASE HandleDone(a) \/ HandleFailed(a)
  BY <1>4 DEF HandleDone, HandleFailed
<1>5. CASE \/ FlowPanics(a) \/ Turn(a)
           \/ \E w \in Work : JoinWork(a, w) \/ BeginWork(a, w) \/ EndWork(a, w)
  BY <1>5 DEF FlowPanics, Turn, JoinWork, Join, BeginWork, EndWork, vmVars
<1>6. QED
  BY <1>1, <1>2, <1>3, <1>4, <1>5 DEF AgentStep, FlowStep

(* The entity ends only when nothing of its runtime is left. *)
LEMMA ResultVm ==
  ASSUME LifeInv, NEW a \in Agent, HandleDone(a) \/ HandleFailed(a)
  PROVE  UNCHANGED vm
<1>1. CASE Despawn(a) /\ Resting(a)
  <2>1. vm[a] = None
    BY <1>1 DEF LifeInv, AgentInv
  <2>2. QED
    BY <1>1, <2>1 DEF Despawn, LifeInv, LifeTypeOK, VmTypeOK
<1>2. (Despawn(a) /\ Resting(a)) \/ UNCHANGED vm
  BY DEF HandleDone, HandleFailed, Resting
<1>3. QED
  BY <1>1, <1>2

LEMMA MachinesOfAgent ==
  ASSUME LifeInv, NEW a \in Agent, AgentStep(a)
  PROVE  DriverOwned' /\ CleanedOver'
<1>1. CASE UNCHANGED <<vm, driver, starter>>
  BY <1>1 DEF LifeInv, DriverOwned, CleanedOver
<1>2. CASE RequestVm(a)
  <2>1. CASE RefuseStart(a)
    BY <2>1 DEF RefuseStart, LifeInv, DriverOwned, CleanedOver
  <2>2. CASE CreateVm(a)
    <3> DEFINE n == <<a, starts[a] + 1>>
    <3>1. n \in Instance /\ n[1] = a
      BY <2>2, VmAssumption DEF CreateVm, LifeInv, LifeTypeOK, VmTypeOK, Instance
    <3>2. /\ vm[a] = None
          /\ vm' = [vm EXCEPT ![a] = n]
          /\ driver' = [driver EXCEPT ![n] = "running"]
          /\ starter' = [starter EXCEPT ![n] = "waiting"]
      BY <2>2 DEF CreateVm
    <3> HIDE DEF n
    <3>3. ASSUME NEW i \in Instance, driver'[i] = "running" PROVE vm'[i[1]] = i
      <4>1. CASE i = n
        BY <3>1, <3>2, <4>1 DEF LifeInv, LifeTypeOK, VmTypeOK
      <4>2. CASE i # n
        <5>1. vm[i[1]] = i
          BY <3>2, <3>3, <4>2 DEF LifeInv, LifeTypeOK, VmTypeOK, DriverOwned
        <5>2. i[1] # a
          BY <3>2, <5>1, InstanceParts
        <5>3. QED
          BY <3>2, <5>1, <5>2, InstanceParts DEF LifeInv, LifeTypeOK, VmTypeOK
      <4>3. QED
        BY <4>1, <4>2
    <3>4. ASSUME NEW i \in Instance, starter'[i] = "cleaned" PROVE driver'[i] = "over"
      BY <3>1, <3>2, <3>4 DEF LifeInv, LifeTypeOK, VmTypeOK, CleanedOver
    <3>5. QED
      BY <3>3, <3>4 DEF DriverOwned, CleanedOver
  <2>3. QED
    BY <1>2, <2>1, <2>2 DEF RequestVm, StartVm
<1>3. CASE (HandleDone(a) \/ HandleFailed(a)) /\ UNCHANGED <<driver, starter>>
  BY <1>1, <1>3, ResultVm
<1>4. QED
  BY <1>1, <1>2, <1>3, MachineStep

LEMMA MachinesOfInstance ==
  ASSUME LifeInv, NEW n \in Instance, InstanceStep(n)
  PROVE  DriverOwned' /\ CleanedOver'
<1>1. CASE Ready(n) \/ Started(n) \/ NotReady(n)
  <2>1. UNCHANGED <<vm, driver>>
    BY <1>1 DEF Ready, DriverReady, Started, NotReady
  <2>2. UNCHANGED starter \/ \E s \in {"none", "stopping"} : starter' = [starter EXCEPT ![n] = s]
    BY <1>1 DEF Ready, DriverReady, Started, NotReady
  <2>3. ASSUME NEW i \in Instance, starter'[i] = "cleaned" PROVE starter[i] = "cleaned"
    BY <2>2, <2>3 DEF LifeInv, LifeTypeOK, VmTypeOK
  <2>4. QED
    BY <2>1, <2>3 DEF LifeInv, DriverOwned, CleanedOver
<1>2. CASE DriverEnds(n)
  <2>1. UNCHANGED <<vm, starter>> /\ driver' = [driver EXCEPT ![n] = "over"]
    BY <1>2 DEF DriverEnds
  <2>2. ASSUME NEW i \in Instance PROVE driver'[i] = IF i = n THEN "over" ELSE driver[i]
    BY <2>1 DEF LifeInv, LifeTypeOK, VmTypeOK
  <2>3. QED
    BY <2>1, <2>2 DEF LifeInv, DriverOwned, CleanedOver
<1>3. ASSUME driver[n] # "running",
             vm' = [vm EXCEPT ![n[1]] = IF @ = n THEN None ELSE @], UNCHANGED driver
      PROVE  DriverOwned'
  <2>1. SUFFICES ASSUME NEW i \in Instance, driver[i] = "running" PROVE vm'[i[1]] = i
    BY <1>3 DEF DriverOwned
  <2>2. vm[i[1]] = i /\ i # n
    BY <1>3, <2>1 DEF LifeInv, DriverOwned
  <2>3. QED
    BY <1>3, <2>2, InstanceParts DEF LifeInv, LifeTypeOK, VmTypeOK
<1>4. CASE StartFailed(n)
  <2>1. starter' = [starter EXCEPT ![n] = "none"] /\ UNCHANGED driver
    BY <1>4 DEF StartFailed
  <2>2. CleanedOver'
    BY <2>1 DEF LifeInv, LifeTypeOK, VmTypeOK, CleanedOver
  <2>3. CASE starter[n] = "cleaned"
    <3>1. driver[n] # "running"
      BY <2>3 DEF LifeInv, CleanedOver
    <3>2. vm' = [vm EXCEPT ![n[1]] = IF @ = n THEN None ELSE @]
      BY <1>4, <2>3 DEF StartFailed
    <3>3. QED
      BY <1>3, <2>1, <2>2, <3>1, <3>2
  <2>4. CASE starter[n] # "cleaned"
    <3>1. UNCHANGED vm
      BY <1>4, <2>4 DEF StartFailed, LifeInv, LifeTypeOK, VmTypeOK
    <3>2. QED
      BY <2>1, <2>2, <3>1 DEF LifeInv, DriverOwned
  <2>5. QED
    BY <2>3, <2>4
<1>5. CASE Stopped(n)
  <2>1. /\ driver[n] = "over"
        /\ UNCHANGED driver
        /\ vm' = [vm EXCEPT ![n[1]] = IF @ = n THEN None ELSE @]
    BY <1>5 DEF Stopped
  <2>2. DriverOwned'
    BY <1>3, <2>1
  <2>3. \/ UNCHANGED starter
        \/ \E s \in {"cleaned", "failed"} : starter' = [starter EXCEPT ![n] = s]
    BY <1>5 DEF Stopped, ReplyStop
  <2>4. CleanedOver'
    BY <2>1, <2>3 DEF LifeInv, LifeTypeOK, VmTypeOK, CleanedOver
  <2>5. QED
    BY <2>2, <2>4
<1>6. ASSUME NEW by \in Asker, HandleStop(n, by) PROVE DriverOwned' /\ CleanedOver'
  <2>1. UNCHANGED <<vm, driver>>
    BY <1>6 DEF HandleStop
  <2>2. UNCHANGED starter \/ starter' = [starter EXCEPT ![n] = "failed"]
    BY <1>6 DEF HandleStop, ReplyStop
  <2>3. ASSUME NEW i \in Instance, starter'[i] = "cleaned" PROVE starter[i] = "cleaned"
    BY <2>2, <2>3 DEF LifeInv, LifeTypeOK, VmTypeOK
  <2>4. QED
    BY <2>1, <2>3 DEF LifeInv, DriverOwned, CleanedOver
<1>7. QED
  BY <1>1, <1>2, <1>4, <1>5, <1>6 DEF InstanceStep, VmStep

-----------------------------------------------------------------------------
(* Agents *)

(* The part of the state that AgentInv(b) looks at. *)
View(b) == <<vm[b], state[b], kind[b], flow[b], accepting[b], work[b]>>

LEMMA SameView ==
  ASSUME NEW b \in Agent, AgentInv(b), UNCHANGED View(b) PROVE AgentInv(b)'
BY DEF View, AgentInv, Resting

LEMMA OtherAgents ==
  ASSUME LifeInv, NEW a \in Agent, AgentStep(a), NEW b \in Agent, b # a
  PROVE  UNCHANGED View(b)
<1> USE DEF LifeInv, LifeTypeOK, VmTypeOK
<1>1. ASSUME CancelRuntime(a) PROVE accepting'[b] = accepting[b]
  BY <1>1 DEF CancelRuntime
<1>2. CASE StartAgent(a)
  BY <1>2 DEF StartAgent, Become, Goto, vmVars, View
<1>3. CASE StopAgent(a) \/ RestartAgent(a)
  BY <1>1, <1>3 DEF StopAgent, RestartAgent, BeginStop, Become, Goto, restOfVm, View
<1>4. CASE AgentException(a)
  BY <1>1, <1>4 DEF AgentException, Become, restOfVm, View
<1>5. CASE Snapshot(a)
  BY <1>1, <1>5 DEF Snapshot, SnapshotFails, SnapshotTaken, Goto, restOfVm, View
<1>6. CASE JoinVm(a) \/ \E w \in Work : JoinWork(a, w)
  BY <1>6 DEF JoinVm, JoinWork, Join, vmVars, View
<1>7. CASE Joined(a) \/ Final(a) \/ FlowPanics(a)
  BY <1>7 DEF Joined, Final, FlowPanics, Goto, vmVars, View
<1>8. CASE Prepare(a) \/ Initialise(a) \/ Check(a) \/ AwaitVm(a) \/ Confirm(a)
  BY <1>8 DEF Prepare, Initialise, Check, AwaitVm, Confirm, Proceed, StartFails, Goto,
       vmVars, View
<1>9. CASE Install(a)
  BY <1>9 DEF Install, InstallFails, Proceed, StartFails, Goto, vmVars, View
<1>10. CASE RequestVm(a)
  BY <1>10 DEF RequestVm, StartVm, RefuseStart, CreateVm, Goto, View
<1>11. CASE HandleDone(a) \/ HandleFailed(a)
  BY <1>11 DEF HandleDone, HandleFailed, Despawn, Become, Goto, View
<1>12. CASE Turn(a) \/ \E w \in Work : BeginWork(a, w) \/ EndWork(a, w)
  BY <1>12 DEF Turn, BeginWork, EndWork, Become, vmVars, flowVars, View
<1>13. QED
  BY <1>2, <1>3, <1>4, <1>5, <1>6, <1>7, <1>8, <1>9, <1>10, <1>11, <1>12
     DEF AgentStep, FlowStep

LEMMA RequestInv ==
  ASSUME LifeInv, NEW a \in Agent,
         StartAgent(a) \/ StopAgent(a) \/ RestartAgent(a) \/ AgentException(a)
  PROVE  AgentInv(a)'
<1> USE DEF LifeInv, LifeTypeOK, VmTypeOK
<1>1. CASE StartAgent(a)
  BY <1>1 DEF StartAgent, Become, Goto, vmVars, AgentInv, Startup, Resting
<1>2. ASSUME CancelRuntime(a) PROVE accepting'[a] = FALSE
  BY <1>2 DEF CancelRuntime
<1>3. CASE StopAgent(a) \/ RestartAgent(a)
  BY <1>2, <1>3 DEF StopAgent, RestartAgent, BeginStop, Become, Goto, restOfVm,
       AgentInv, Startup, Resting
<1>4. CASE AgentException(a)
  <2>1. /\ UNCHANGED <<vm, kind, flow, work>>
        /\ state' = [state EXCEPT ![a] = "stopping"]
        /\ state[a] # "absent"
        /\ ~accepting'[a]
    BY <1>2, <1>4 DEF AgentException, Become, restOfVm
  <2>2. QED
    BY <2>1 DEF AgentInv, Resting
<1>5. QED
  BY <1>1, <1>3, <1>4

LEMMA StopInv ==
  ASSUME LifeInv, NEW a \in Agent,
         \/ Snapshot(a) \/ JoinVm(a) \/ Joined(a) \/ Final(a) \/ FlowPanics(a)
         \/ \E w \in Work : JoinWork(a, w)
  PROVE  AgentInv(a)'
<1> USE DEF LifeInv, LifeTypeOK, VmTypeOK
<1>1. ASSUME CancelRuntime(a) PROVE accepting'[a] = FALSE
  BY <1>1 DEF CancelRuntime
<1>2. CASE Snapshot(a)
  <2>1. /\ UNCHANGED <<vm, state, kind, work>>
        /\ \/ flow' = [flow EXCEPT ![a] = "failed"]
           \/ flow' = [flow EXCEPT ![a] = "joining"] /\ ~accepting'[a]
        /\ state[a] \notin {"absent", "idle", "working"}
    BY <1>1, <1>2 DEF Snapshot, SnapshotFails, SnapshotTaken, Goto, restOfVm, AgentInv
  <2>2. QED
    BY <2>1 DEF AgentInv, Startup, Resting
<1>3. CASE JoinVm(a) \/ \E w \in Work : JoinWork(a, w)
  BY <1>3, SameView DEF JoinVm, JoinWork, Join, vmVars, View
<1>4. CASE Joined(a) \/ FlowPanics(a)
  BY <1>4 DEF Joined, FlowPanics, Goto, vmVars, AgentInv, Startup, Resting
<1>5. CASE Final(a)
  BY <1>5 DEF Final, Goto, vmVars, AgentInv, Startup, Resting
<1>6. QED
  BY <1>2, <1>3, <1>4, <1>5

LEMMA StartupInv ==
  ASSUME LifeInv, NEW a \in Agent,
         \/ Prepare(a) \/ Install(a) \/ Initialise(a) \/ Check(a)
         \/ RequestVm(a) \/ AwaitVm(a) \/ Confirm(a)
  PROVE  AgentInv(a)'
<1> USE DEF LifeInv, LifeTypeOK, VmTypeOK
<1>1. CASE Prepare(a)
  BY <1>1 DEF Prepare, Proceed, StartFails, Goto, vmVars, AgentInv, Startup, Resting
<1>2. CASE Install(a)
  BY <1>2 DEF Install, InstallFails, Proceed, StartFails, Goto, vmVars, AgentInv, Startup, Resting
<1>3. CASE Initialise(a) \/ Check(a)
  BY <1>3 DEF Initialise, Check, Proceed, StartFails, Goto, vmVars, AgentInv, Startup, Resting
<1>4. CASE RequestVm(a)
  BY <1>4 DEF RequestVm, StartVm, RefuseStart, CreateVm, Goto, AgentInv, Startup, Resting
<1>5. CASE AwaitVm(a) \/ Confirm(a)
  BY <1>5 DEF AwaitVm, Confirm, Proceed, StartFails, Goto, vmVars, AgentInv, Startup, Resting
<1>6. QED
  BY <1>1, <1>2, <1>3, <1>4, <1>5

LEMMA ResultInv ==
  ASSUME LifeInv, NEW a \in Agent, HandleDone(a) \/ HandleFailed(a)
  PROVE  AgentInv(a)'
<1>1. flow'[a] = "none" /\ UNCHANGED <<kind, work>>
  BY DEF HandleDone, HandleFailed, Goto, LifeInv, LifeTypeOK
<1>2. state'[a] # "absent"
  <2>1. state[a] # "absent"
    BY DEF HandleDone, HandleFailed, LifeInv, AgentInv
  <2>2. state'[a] \in {state[a], "gone", "idle"}
    BY DEF HandleDone, HandleFailed, Despawn, Become, LifeInv, LifeTypeOK
  <2>3. QED
    BY <2>1, <2>2
<1>3. QED
  BY <1>1, <1>2 DEF AgentInv, Startup, Resting

LEMMA WorkInv ==
  ASSUME LifeInv, NEW a \in Agent,
         Turn(a) \/ \E w \in Work : BeginWork(a, w) \/ EndWork(a, w)
  PROVE  AgentInv(a)'
<1>1. CASE Turn(a)
  <2>1. /\ UNCHANGED <<vm, kind, flow, work, accepting>>
        /\ state[a] \in {"idle", "working"}
        /\ state'[a] \in {"idle", "working"}
    BY <1>1 DEF Turn, Become, vmVars, LifeInv, LifeTypeOK
  <2>2. QED
    BY <2>1 DEF LifeInv, AgentInv, Startup, Resting
<1>2. ASSUME NEW w \in Work, BeginWork(a, w) PROVE AgentInv(a)'
  <2>1. UNCHANGED <<vm, state, kind, flow, accepting>>
    BY <1>2 DEF BeginWork, vmVars, flowVars
  <2>2. accepting[a] \/ state[a] = "working"
    BY <1>2 DEF BeginWork
  <2>3. ~Resting(a)
    BY <2>2 DEF LifeInv, AgentInv, Resting
  <2>4. QED
    BY <2>1, <2>3 DEF LifeInv, AgentInv, Resting
<1>3. ASSUME NEW w \in Work, EndWork(a, w) PROVE AgentInv(a)'
  <2>1. UNCHANGED <<vm, state, kind, flow, accepting>> /\ work[a] # {}
    BY <1>3 DEF EndWork, vmVars, flowVars
  <2>2. QED
    BY <2>1 DEF LifeInv, AgentInv, Resting
<1>4. QED
  BY <1>1, <1>2, <1>3

LEMMA AgentsOfInstance ==
  ASSUME LifeInv, NEW i \in Instance, InstanceStep(i), NEW b \in Agent
  PROVE  AgentInv(b)'
<1>1. vm'[b] \in {vm[b], None}
  <2>1. UNCHANGED vm \/ vm' = [vm EXCEPT ![i[1]] = IF @ = i THEN None ELSE @] \/ StartFailed(i)
    BY DEF InstanceStep, VmStep, Ready, DriverReady, DriverEnds, Started, NotReady,
           HandleStop, Stopped
  <2>2. CASE StartFailed(i)
    BY <2>2, InstanceParts DEF StartFailed, LifeInv, LifeTypeOK, VmTypeOK
  <2>3. QED
    BY <2>1, <2>2, InstanceParts DEF LifeInv, LifeTypeOK, VmTypeOK
<1>2. UNCHANGED <<state, kind, flow, accepting, work>>
  BY DEF InstanceStep, flowVars
<1>3. QED
  BY <1>1, <1>2 DEF LifeInv, AgentInv, Resting

LEMMA LifeInvStep == LifeInv /\ [Next]_vars => LifeInv'
<1> SUFFICES ASSUME LifeInv, [Next]_vars PROVE LifeInv'
  OBVIOUS
<1>1. LifeTypeOK'
  BY TypeStep DEF LifeInv
<1>2. ASSUME NEW a \in Agent, AgentStep(a) PROVE LifeInv'
  <2>1. AgentInv(a)'
    BY <1>2, RequestInv, StopInv, StartupInv, ResultInv, WorkInv DEF AgentStep, FlowStep
  <2>2. ASSUME NEW b \in Agent, b # a PROVE AgentInv(b)'
    BY <1>2, <2>2, OtherAgents, SameView DEF LifeInv
  <2>3. \A b \in Agent : AgentInv(b)'
    BY <2>1, <2>2
  <2>4. QED
    BY <1>1, <1>2, <2>3, MachinesOfAgent DEF LifeInv
<1>3. ASSUME NEW i \in Instance, InstanceStep(i) PROVE LifeInv'
  BY <1>1, <1>3, MachinesOfInstance, AgentsOfInstance DEF LifeInv
<1>4. CASE UNCHANGED vars
  BY <1>1, <1>4 DEF vars, vmVars, flowVars, LifeInv, DriverOwned, CleanedOver, AgentInv,
       Resting
<1>5. QED
  BY <1>2, <1>3, <1>4, NextIsStep

LEMMA LifeInvInit == Init => LifeInv
<1> SUFFICES ASSUME Init PROVE LifeInv
  OBVIOUS
<1>1. LifeTypeOK
  BY TypeInit
<1>2. DriverOwned /\ CleanedOver
  BY DEF Init, VmInit, DriverOwned, CleanedOver
<1>3. ASSUME NEW a \in Agent PROVE AgentInv(a)
  BY DEF Init, VmInit, AgentInv, Startup
<1>4. QED
  BY <1>1, <1>2, <1>3 DEF LifeInv

(* The inductive invariant. *)
THEOREM LifeInvariant == Spec => []LifeInv
BY LifeInvInit, LifeInvStep, PTL DEF Spec

-----------------------------------------------------------------------------
(* The properties *)

(* Two programs of one Agent never run at a time. *)
THEOREM OneDriverCorrect == Spec => []OneDriver
<1>1. LifeInv => OneDriver
  BY DEF LifeInv, DriverOwned, OneDriver
<1>2. QED
  BY <1>1, LifeInvariant, PTL

LEMMA RestingQuiet ==
  ASSUME LifeInv, NEW a \in Agent, Resting(a)
  PROVE  /\ vm[a] = None
         /\ work[a] = {}
         /\ \A i \in Instance : i[1] = a => driver[i] # "running"
BY InstanceParts DEF LifeInv, AgentInv, DriverOwned

(* install_runtime replaces the runtime of a quiet Agent. *)
THEOREM InstallQuietCorrect == Spec => []InstallQuiet
<1>1. LifeInv => InstallQuiet
  BY RestingQuiet DEF InstallQuiet, Resting
<1>2. QED
  BY <1>1, LifeInvariant, PTL

(* An entity is destroyed when its program is over and its work done. *)
THEOREM DespawnCleanCorrect == Spec => DespawnClean
<1> DEFINE A == \A a \in Agent : state[a] # "gone" /\ state'[a] = "gone" =>
                  /\ vm[a] = None
                  /\ work[a] = {}
                  /\ \A i \in Instance : i[1] = a => driver[i] # "running"
<1>1. LifeInv /\ [Next]_vars => [A]_vars
  <2> SUFFICES ASSUME LifeInv, Next,
                      NEW a \in Agent, state[a] # "gone", state'[a] = "gone"
               PROVE  Resting(a)
    BY RestingQuiet
  <2>1. AgentStep(a)
    <3>1. ASSUME NEW b \in Agent, AgentStep(b), b # a PROVE FALSE
      BY <3>1, OtherAgents DEF View
    <3>2. ASSUME NEW i \in Instance, InstanceStep(i) PROVE FALSE
      BY <3>2 DEF InstanceStep, flowVars
    <3>3. QED
      BY <3>1, <3>2, NextIsStep
  <2>2. CASE HandleDone(a) \/ HandleFailed(a)
    BY <2>2 DEF HandleDone, HandleFailed, Become, Resting, LifeInv, LifeTypeOK
  <2>3. CASE StartAgent(a) \/ StopAgent(a) \/ RestartAgent(a) \/ AgentException(a) \/ Turn(a)
    BY <2>3 DEF StartAgent, StopAgent, RestartAgent, BeginStop, AgentException, Turn,
         Become, LifeInv, LifeTypeOK
  <2>4. CASE \/ Snapshot(a) \/ JoinVm(a) \/ Joined(a) \/ Final(a) \/ FlowPanics(a)
             \/ \E w \in Work : JoinWork(a, w) \/ BeginWork(a, w) \/ EndWork(a, w)
    BY <2>4 DEF Snapshot, JoinVm, JoinWork, Join, Joined, Final, FlowPanics, BeginWork,
         EndWork, flowVars
  <2>5. CASE \/ Prepare(a) \/ Install(a) \/ Initialise(a) \/ Check(a)
             \/ RequestVm(a) \/ AwaitVm(a) \/ Confirm(a)
    BY <2>5 DEF Prepare, Install, Initialise, Check, RequestVm, AwaitVm, Confirm
  <2>6. QED
    BY <2>1, <2>2, <2>3, <2>4, <2>5 DEF AgentStep, FlowStep
<1>2. QED
  BY <1>1, LifeInvariant, PTL DEF Spec, DespawnClean

-----------------------------------------------------------------------------
(* An Agent that takes turns is served *)

(* Nobody will cancel or remove the machine i. *)
Free(i) ==
  /\ ~cancel[i]
  /\ ended[i] = "free"
  /\ \A by \in Asker : <<i, by>> \notin requests

(* The machine of a is started, and nobody will take it away. *)
Good(a) ==
  /\ vm[a] # None
  /\ ready[vm[a]] = "ok"
  /\ starter[vm[a]] = "none"
  /\ Free(vm[a])

(* Nothing has happened yet to instances that are still to be made. *)
FreshInv ==
  \A i \in Instance : i[2] > starts[i[1]] => Free(i) /\ starter[i] = "none"

OwnVm == \A a \in Agent : vm[a] # None => vm[a][1] = a /\ vm[a][2] <= starts[a]

(* The flow has confirmed that its start succeeded. *)
Confirmed(a) == flow[a] = "confirm" \/ (flow[a] = "done" /\ kind[a] # "stop")

(* What a flow finds on its way to Idle, and the Agent when it got there.  *)
ServeInv(a) ==
  /\ state[a] \in {"idle", "working"} => Good(a) /\ accepting[a]
  /\ flow[a] \in {"init", "check", "request"} => vm[a] = None
  /\ Expected(a) =>
       /\ flow[a] \in {"init", "check", "request", "await"} \/ Confirmed(a) => accepting[a]
       /\ flow[a] = "await" /\ vm[a] # None /\ starter[vm[a]] = "waiting" => Free(vm[a])
       /\ (flow[a] = "await" /\ startReply[a] = "ok") \/ Confirmed(a) => Good(a)

AllInv == LifeInv /\ FreshInv /\ OwnVm /\ \A a \in Agent : ServeInv(a)

(* What the steps of an Agent do to the machines of others, and to those   *)
(* that are still to be made.                                              *)
LEMMA OtherMachines ==
  ASSUME AllInv, NEW a \in Agent, AgentStep(a),
         NEW j \in Instance, j[1] # a \/ j[2] > starts[a]
  PROVE  /\ UNCHANGED <<ready[j], cancel[j], ended[j]>>
         /\ starter'[j] \in {starter[j], "waiting"}
         /\ (j[1] # a \/ j[2] > starts'[a]) => starter'[j] = starter[j]
         /\ \A by \in Asker : <<j, by>> \in requests' => <<j, by>> \in requests
<1> USE DEF AllInv, LifeInv, LifeTypeOK, VmTypeOK
<1>1. vm[a] # j
  BY InstanceParts DEF OwnVm
<1>2. ASSUME CancelRuntime(a) PROVE cancel'[j] = cancel[j]
  BY <1>1, <1>2 DEF CancelRuntime
<1>3. CASE StartAgent(a) \/ FlowPanics(a) \/ Turn(a)
  BY <1>3 DEF StartAgent, FlowPanics, Turn, vmVars
<1>4. CASE StopAgent(a) \/ RestartAgent(a) \/ AgentException(a)
  BY <1>2, <1>4 DEF StopAgent, RestartAgent, AgentException, BeginStop, restOfVm
<1>5. CASE Snapshot(a)
  <2>1. UNCHANGED <<ready, ended, starter>> /\ cancel'[j] = cancel[j]
    BY <1>2, <1>5 DEF Snapshot, SnapshotFails, SnapshotTaken, restOfVm
  <2>2. UNCHANGED requests \/ requests' = requests \cup (Machines(a) \X {"flow"})
    BY <1>5 DEF Snapshot, SnapshotFails, SnapshotTaken
  <2>3. j \notin Machines(a)
    BY <1>1 DEF Machines
  <2>4. QED
    BY <2>1, <2>2, <2>3
<1>6. CASE \/ JoinVm(a) \/ Joined(a) \/ Final(a)
           \/ \E w \in Work : JoinWork(a, w) \/ BeginWork(a, w) \/ EndWork(a, w)
  BY <1>6 DEF JoinVm, JoinWork, Join, Joined, Final, BeginWork, EndWork, vmVars
<1>7. CASE \/ Prepare(a) \/ Install(a) \/ Initialise(a) \/ Check(a)
           \/ AwaitVm(a) \/ Confirm(a)
  BY <1>7 DEF Prepare, Install, Initialise, Check, AwaitVm, Confirm, vmVars
<1>8. CASE RequestVm(a)
  <2>1. CASE RefuseStart(a)
    BY <2>1 DEF RefuseStart
  <2>2. CASE CreateVm(a)
    <3>1. /\ UNCHANGED <<ready, cancel, ended, requests>>
          /\ starter' = [starter EXCEPT ![<<a, starts[a] + 1>>] = "waiting"]
          /\ starts'[a] = starts[a] + 1
      BY <2>2 DEF CreateVm
    <3>2. j[1] # a \/ j[2] > starts'[a] => j # <<a, starts[a] + 1>>
      BY <3>1, InstanceParts
    <3>3. QED
      BY <3>1, <3>2
  <2>3. QED
    BY <1>8, <2>1, <2>2 DEF RequestVm, StartVm
<1>9. CASE HandleDone(a) \/ HandleFailed(a)
  BY <1>9 DEF HandleDone, HandleFailed
<1>10. QED
  BY <1>3, <1>4, <1>5, <1>6, <1>7, <1>8, <1>9 DEF AgentStep, FlowStep

(* The counters of starts, and the answers, of others.                     *)
LEMMA OtherReplies ==
  ASSUME AllInv, NEW a \in Agent, AgentStep(a)
  PROVE  /\ \A b \in Agent : b # a => UNCHANGED <<starts[b], startReply[b]>>
         /\ starts'[a] >= starts[a]
         /\ UNCHANGED <<starts, startReply>> \/ RequestVm(a)
<1>1. UNCHANGED <<starts, startReply>> \/ RequestVm(a)
  BY DEF AgentStep, FlowStep, StartAgent, StopAgent, RestartAgent, BeginStop,
         AgentException, Snapshot, JoinVm, JoinWork, Join, Joined, Final, Prepare, Install,
         Initialise, Check, AwaitVm, Confirm, HandleDone, HandleFailed, FlowPanics, Turn,
         BeginWork, EndWork, restOfVm, vmVars
<1>2. CASE UNCHANGED <<starts, startReply>>
  BY <1>2 DEF AllInv, LifeInv, LifeTypeOK, VmTypeOK
<1>3. CASE RequestVm(a)
  BY <1>3 DEF RequestVm, StartVm, RefuseStart, CreateVm, AllInv, LifeInv, LifeTypeOK, VmTypeOK
<1>4. QED
  BY <1>1, <1>2, <1>3

LEMMA TypeOfAgent ==
  ASSUME LifeTypeOK, NEW a \in Agent, AgentStep(a)
  PROVE  LifeTypeOK'
BY RequestTypes, SnapshotType, JoinTypes, StartupTypes, ResultTypes, WorkTypes
   DEF AgentStep, FlowStep

LEMMA FreshOfAgent ==
  ASSUME AllInv, NEW a \in Agent, AgentStep(a)
  PROVE  FreshInv'
<1> SUFFICES ASSUME NEW j \in Instance, j[2] > starts'[j[1]]
             PROVE  (Free(j) /\ starter[j] = "none")'
  BY DEF FreshInv
<1>1. j[2] > starts[j[1]] /\ (j[1] # a \/ j[2] > starts[a]) /\ (j[1] # a \/ j[2] > starts'[a])
  <2>1. starts[j[1]] \in Nat /\ starts'[j[1]] \in Nat /\ j[2] \in Nat
    BY TypeOfAgent, InstanceParts DEF AllInv, LifeInv, LifeTypeOK, VmTypeOK
  <2>2. starts'[j[1]] >= starts[j[1]]
    BY <2>1, OtherReplies, InstanceParts
  <2>3. QED
    BY <2>1, <2>2
<1>2. Free(j) /\ starter[j] = "none"
  BY <1>1 DEF AllInv, FreshInv
<1>3. QED
  BY <1>1, <1>2, OtherMachines DEF Free

LEMMA OwnVmOfAgent ==
  ASSUME AllInv, NEW a \in Agent, AgentStep(a)
  PROVE  OwnVm'
<1> USE DEF AllInv, LifeInv, LifeTypeOK, VmTypeOK
<1>1. ASSUME NEW b \in Agent, vm'[b] = vm[b], vm'[b] # None
      PROVE  vm'[b][1] = b /\ vm'[b][2] <= starts'[b]
  <2>1. vm[b][1] = b /\ vm[b][2] <= starts[b] /\ starts'[b] >= starts[b]
    BY <1>1, OtherReplies DEF OwnVm
  <2>2. vm[b][2] \in Nat
    BY <1>1, InstanceParts
  <2>3. starts'[b] \in Nat
    BY TypeOfAgent
  <2>4. QED
    BY <1>1, <2>1, <2>2, <2>3
<1>2. CASE RequestVm(a)
  <2>1. CASE RefuseStart(a)
    BY <1>1, <2>1 DEF RefuseStart, OwnVm
  <2>2. CASE CreateVm(a)
    <3>1. vm'[a] = <<a, starts[a] + 1>> /\ starts'[a] = starts[a] + 1
      BY <2>2 DEF CreateVm
    <3>2. ASSUME NEW b \in Agent, b # a PROVE vm'[b] = vm[b]
      BY <2>2, <3>2 DEF CreateVm
    <3>3. QED
      BY <1>1, <3>1, <3>2 DEF OwnVm
  <2>3. QED
    BY <1>2, <2>1, <2>2 DEF RequestVm, StartVm
<1>3. CASE UNCHANGED vm
  BY <1>1, <1>3 DEF OwnVm
<1>4. QED
  BY <1>2, <1>3, MachineStep, ResultVm

LEMMA ServeOthers ==
  ASSUME AllInv, NEW a \in Agent, AgentStep(a), NEW b \in Agent, b # a
  PROVE  ServeInv(b)'
<1>1. UNCHANGED View(b) /\ startReply'[b] = startReply[b]
  BY OtherAgents, OtherReplies DEF AllInv
<1>2. CASE vm[b] = None
  BY <1>1, <1>2 DEF View, AllInv, ServeInv, Good, Expected, Confirmed
<1>3. CASE vm[b] # None
  <2>1. PICK i \in Instance : vm[b] = i /\ i[1] = b
    BY <1>3 DEF AllInv, LifeInv, LifeTypeOK, VmTypeOK, OwnVm
  <2>2. /\ UNCHANGED <<ready[i], cancel[i], ended[i], starter[i]>>
        /\ \A by \in Asker : <<i, by>> \in requests' => <<i, by>> \in requests
    BY <2>1, OtherMachines
  <2>3. Free(vm[b]) => Free(vm[b])'
    BY <1>1, <2>1, <2>2 DEF View, Free
  <2>4. Good(b) => Good(b)'
    BY <1>1, <1>3, <2>1, <2>2, <2>3 DEF View, Good
  <2>5. QED
    BY <1>1, <1>3, <2>1, <2>2, <2>3, <2>4 DEF View, AllInv, ServeInv, Expected, Confirmed
<1>4. QED
  BY <1>2, <1>3

(* Steps that leave the machines and answers alone *)
MachinesKept ==
  UNCHANGED <<vm, ready, cancel, ended, starter, requests, startReply>>

LEMMA KeptGood ==
  ASSUME MachinesKept, NEW a \in Agent
  PROVE  /\ Good(a)' = Good(a)
         /\ vm[a] # None => Free(vm[a])' = Free(vm[a])
BY DEF MachinesKept, Good, Free

LEMMA ServeRequests ==
  ASSUME AllInv, NEW a \in Agent,
         StartAgent(a) \/ StopAgent(a) \/ RestartAgent(a) \/ AgentException(a)
  PROVE  ServeInv(a)'
<1> USE DEF AllInv, LifeInv, LifeTypeOK
<1>1. CASE StartAgent(a)
  BY <1>1 DEF StartAgent, Become, Goto, ServeInv, Confirmed
<1>2. CASE StopAgent(a) \/ RestartAgent(a)
  <2>1. flow'[a] = "snapshot" /\ state'[a] \in {"stopping", "restarting"}
    BY <1>2 DEF StopAgent, RestartAgent, BeginStop, Become, Goto
  <2>2. QED
    BY <2>1 DEF ServeInv, Confirmed
<1>3. CASE AgentException(a)
  <2>1. state'[a] = "stopping" /\ UNCHANGED <<vm, flow, kind>>
    BY <1>3 DEF AgentException, Become, restOfVm
  <2>2. Expected(a)' => kind[a] = "stop"
    BY <2>1 DEF Expected
  <2>3. Expected(a)' => flow[a] \notin Startup
    BY <2>2 DEF AgentInv
  <2>4. QED
    BY <2>1, <2>2, <2>3 DEF ServeInv, Confirmed, Startup
<1>4. QED
  BY <1>1, <1>2, <1>3

LEMMA ServeStop ==
  ASSUME AllInv, NEW a \in Agent,
         \/ Snapshot(a) \/ JoinVm(a) \/ Joined(a) \/ Final(a) \/ FlowPanics(a)
         \/ HandleFailed(a) \/ Prepare(a)
         \/ \E w \in Work : JoinWork(a, w)
  PROVE  ServeInv(a)'
<1> USE DEF AllInv, LifeInv, LifeTypeOK
<1>1. flow[a] # "none"
  BY DEF Snapshot, JoinVm, JoinWork, Join, Joined, Final, FlowPanics, HandleFailed, Prepare
<1>2. state[a] \notin {"idle", "working"}
  BY <1>1 DEF AgentInv
<1>3. state'[a] \in {state[a], "gone"}
  BY DEF Snapshot, JoinVm, JoinWork, Join, Joined, Final, FlowPanics, HandleFailed, Prepare,
         Despawn, Become
<1>4. \/ flow'[a] \in {"none", "snapshot", "joining", "final", "prepare", "install",
                       "failed", "clean"}
      \/ flow'[a] = "done" /\ kind'[a] = "stop"
  BY DEF Snapshot, SnapshotFails, SnapshotTaken, JoinVm, JoinWork, Join, Joined, Final,
         FlowPanics, HandleFailed, Prepare, Proceed, StartFails, Goto
<1>5. QED
  BY <1>2, <1>3, <1>4 DEF ServeInv, Confirmed

LEMMA ServeStartup ==
  ASSUME AllInv, NEW a \in Agent,
         \/ Install(a) \/ Initialise(a) \/ Check(a) \/ AwaitVm(a) \/ Confirm(a)
  PROVE  ServeInv(a)'
<1>1. MachinesKept /\ UNCHANGED <<state, kind>>
  BY DEF MachinesKept, Install, Initialise, Check, AwaitVm, Confirm, vmVars
<1>2. state[a] \notin {"idle", "working"}
  BY DEF AllInv, LifeInv, AgentInv, Install, Initialise, Check, AwaitVm, Confirm
<1>3. ASSUME flow'[a] = "snapshot" PROVE ServeInv(a)'
  BY <1>1, <1>2, <1>3 DEF ServeInv, Confirmed
<1>4. ASSUME NEW s \in BOOLEAN, StartFails(a, s) PROVE ServeInv(a)'
  BY <1>3, <1>4 DEF StartFails, Goto, AllInv, LifeInv, LifeTypeOK
<1>5. ASSUME NEW p, Proceed(a, p) PROVE flow'[a] = p
  BY <1>5 DEF Proceed, Goto, AllInv, LifeInv, LifeTypeOK
<1>6. CASE Install(a)
  <2>1. CASE InstallFails(a)
    BY <1>4, <2>1 DEF InstallFails
  <2>2. CASE ~InstallFails(a)
    <3>1. vm[a] = None /\ accepting'[a] /\ flow'[a] = "init"
      BY <1>5, <1>6, <2>2 DEF Install, AllInv, LifeInv, LifeTypeOK
    <3>2. QED
      BY <1>1, <1>2, <3>1 DEF MachinesKept, ServeInv, Confirmed
  <2>3. QED
    BY <2>1, <2>2
<1>7. CASE Initialise(a) \/ Check(a)
  <2>1. CASE \E s \in BOOLEAN : StartFails(a, s)
    BY <1>4, <2>1
  <2>2. CASE ~\E s \in BOOLEAN : StartFails(a, s)
    <3>1. /\ flow[a] \in {"init", "check"}
          /\ flow'[a] \in {"check", "request"}
          /\ Expected(a)
          /\ UNCHANGED accepting
      BY <1>5, <1>7, <2>2 DEF Initialise, Check
    <3>2. QED
      BY <1>1, <1>2, <3>1 DEF MachinesKept, AllInv, ServeInv, Confirmed
  <2>3. QED
    BY <2>1, <2>2
<1>8. CASE AwaitVm(a) \/ Confirm(a)
  <2>1. CASE \E s \in BOOLEAN : StartFails(a, s)
    BY <1>4, <2>1
  <2>2. CASE ~\E s \in BOOLEAN : StartFails(a, s)
    <3>1. /\ \/ flow[a] = "await" /\ startReply[a] = "ok"
             \/ flow[a] = "confirm"
          /\ flow'[a] \in {"confirm", "done"}
          /\ UNCHANGED accepting
      BY <1>5, <1>8, <2>2 DEF AwaitVm, Confirm
    <3>2. Expected(a)' = Expected(a)
      BY <1>1 DEF Expected
    <3>3. Expected(a) => Good(a)' /\ accepting'[a]
      BY <1>1, <3>1, KeptGood DEF AllInv, ServeInv, Confirmed
    <3>4. QED
      BY <1>1, <1>2, <3>1, <3>2, <3>3 DEF ServeInv
  <2>3. QED
    BY <2>1, <2>2
<1>9. QED
  BY <1>6, <1>7, <1>8

LEMMA ServeRequestVm ==
  ASSUME AllInv, NEW a \in Agent, RequestVm(a)
  PROVE  ServeInv(a)'
<1> USE DEF AllInv, LifeInv, LifeTypeOK, VmTypeOK
<1>1. flow'[a] = "await" /\ flow[a] = "request" /\ UNCHANGED <<state, kind, accepting>>
  BY DEF RequestVm, Goto
<1>2. state[a] \notin {"idle", "working"} /\ vm[a] = None
  BY <1>1 DEF AgentInv, ServeInv
<1>3. Expected(a)' => accepting[a]
  BY <1>1 DEF Expected, ServeInv
<1>4. CASE RefuseStart(a)
  <2>1. startReply'[a] = "refused" /\ vm'[a] = None
    BY <1>2, <1>4 DEF RefuseStart
  <2>2. QED
    BY <1>1, <1>2, <1>3, <2>1 DEF ServeInv, Confirmed
<1>5. CASE CreateVm(a)
  <2> DEFINE n == <<a, starts[a] + 1>>
  <2>1. n \in Instance /\ n[2] > starts[n[1]]
    BY <1>5, VmAssumption DEF CreateVm, Instance
  <2>2. vm'[a] = n /\ startReply'[a] = "none" /\ UNCHANGED <<cancel, ended, requests>>
    BY <1>5 DEF CreateVm
  <2>3. Free(n)
    BY <2>1 DEF FreshInv
  <2>4. Free(vm[a])'
    BY <2>2, <2>3 DEF Free
  <2>5. QED
    BY <1>1, <1>2, <1>3, <2>2, <2>4 DEF ServeInv, Confirmed
<1>6. QED
  BY <1>4, <1>5 DEF RequestVm, StartVm

LEMMA ServeDone ==
  ASSUME AllInv, NEW a \in Agent, HandleDone(a)
  PROVE  ServeInv(a)'
<1> USE DEF AllInv, LifeInv, LifeTypeOK
<1>1. flow'[a] = "none" /\ flow[a] = "done"
  BY DEF HandleDone, Goto
<1>2. state[a] \notin {"idle", "working"}
  BY <1>1 DEF AgentInv
<1>3. CASE Expected(a) /\ kind[a] # "stop" /\ Become(a, "idle") /\ UNCHANGED <<vm, accepting>>
  <2>1. Good(a) /\ accepting[a]
    BY <1>1, <1>3 DEF ServeInv, Confirmed
  <2>2. MachinesKept
    BY <1>3 DEF HandleDone, MachinesKept
  <2>3. Good(a)' /\ accepting'[a]
    BY <1>3, <2>1, <2>2, KeptGood
  <2>4. QED
    BY <1>1, <2>3 DEF ServeInv, Confirmed
<1>4. CASE state'[a] \in {state[a], "gone"}
  BY <1>1, <1>2, <1>4 DEF ServeInv, Confirmed
<1>5. QED
  BY <1>3, <1>4 DEF HandleDone, Despawn, Become

LEMMA ServeWork ==
  ASSUME AllInv, NEW a \in Agent,
         Turn(a) \/ \E w \in Work : BeginWork(a, w) \/ EndWork(a, w)
  PROVE  ServeInv(a)'
<1>1. MachinesKept /\ UNCHANGED <<kind, flow, accepting>>
  BY DEF Turn, BeginWork, EndWork, MachinesKept, vmVars, flowVars
<1>2. \/ state'[a] = state[a]
      \/ state[a] \in {"idle", "working"} /\ state'[a] \in {"idle", "working"}
  BY DEF Turn, BeginWork, EndWork, Become, flowVars, AllInv, LifeInv, LifeTypeOK
<1>3. vm'[a] = vm[a] /\ startReply'[a] = startReply[a]
      /\ (vm[a] # None => starter'[vm[a]] = starter[vm[a]])
  BY <1>1 DEF MachinesKept
<1>4. CASE state'[a] = state[a]
  <2>1. Expected(a)' = Expected(a) /\ Confirmed(a)' = Confirmed(a)
    BY <1>1, <1>4 DEF Expected, Confirmed
  <2>2. QED
    BY <1>1, <1>3, <1>4, <2>1, KeptGood DEF AllInv, ServeInv
<1>5. CASE state[a] \in {"idle", "working"} /\ state'[a] \in {"idle", "working"}
  <2>1. flow'[a] = "none" /\ Good(a)' /\ accepting'[a]
    BY <1>1, <1>5, KeptGood DEF AllInv, LifeInv, AgentInv, ServeInv
  <2>2. QED
    BY <2>1 DEF ServeInv, Confirmed
<1>6. QED
  BY <1>2, <1>4, <1>5

(* What a step of an instance does to the other ones, and to the component *)
LEMMA OtherInstances ==
  ASSUME AllInv, NEW i \in Instance, InstanceStep(i)
  PROVE  /\ \A j \in Instance : j # i =>
              /\ UNCHANGED <<ready[j], cancel[j], ended[j], starter[j]>>
              /\ \A by \in Asker : <<j, by>> \in requests' => <<j, by>> \in requests
         /\ UNCHANGED starts
         /\ \A b \in Agent : vm'[b] = vm[b] \/ (vm[b] = i /\ vm'[b] = None)
         /\ \A b \in Agent : startReply'[b] = "ok" =>
              startReply[b] = "ok" \/ (Started(i) /\ vm[b] = i)
<1> USE DEF AllInv, LifeInv, LifeTypeOK, VmTypeOK
<1>1. CASE Ready(i) \/ DriverEnds(i)
  BY <1>1 DEF Ready, DriverReady, DriverEnds
<1>2. CASE Started(i)
  BY <1>2, InstanceParts DEF Started, Current
<1>3. CASE NotReady(i)
  BY <1>3 DEF NotReady
<1>4. CASE StartFailed(i)
  BY <1>4, InstanceParts DEF StartFailed
<1>5. ASSUME NEW by \in Asker, HandleStop(i, by)
      PROVE  /\ \A j \in Instance : j # i =>
                  UNCHANGED <<ready[j], cancel[j], ended[j], starter[j]>>
             /\ requests' = requests \ {<<i, by>>}
             /\ UNCHANGED <<vm, starts, startReply>>
  BY <1>5 DEF HandleStop, ReplyStop
<1>6. CASE Stopped(i)
  BY <1>6, InstanceParts DEF Stopped, ReplyStop
<1>7. QED
  BY <1>1, <1>2, <1>3, <1>4, <1>5, <1>6 DEF InstanceStep, VmStep

LEMMA ServeOtherInstances ==
  ASSUME AllInv, NEW i \in Instance, InstanceStep(i), NEW b \in Agent, vm[b] # i
  PROVE  ServeInv(b)'
<1>1. vm'[b] = vm[b] /\ (startReply'[b] = "ok" => startReply[b] = "ok")
  BY OtherInstances
<1>2. UNCHANGED <<state, kind, flow, accepting>>
  BY DEF InstanceStep, flowVars
<1>3. CASE vm[b] = None
  BY <1>1, <1>2, <1>3 DEF AllInv, ServeInv, Good, Expected, Confirmed
<1>4. CASE vm[b] # None
  <2>1. PICK j \in Instance : vm[b] = j /\ j # i
    BY <1>4 DEF AllInv, LifeInv, LifeTypeOK, VmTypeOK
  <2>2. /\ UNCHANGED <<ready[j], cancel[j], ended[j], starter[j]>>
        /\ \A by \in Asker : <<j, by>> \in requests' => <<j, by>> \in requests
    BY <2>1, OtherInstances
  <2>3. Free(vm[b]) => Free(vm[b])'
    BY <1>1, <2>1, <2>2 DEF Free
  <2>4. Good(b) => Good(b)'
    BY <1>1, <1>4, <2>1, <2>2, <2>3 DEF Good
  <2>5. QED
    BY <1>1, <1>2, <1>4, <2>1, <2>2, <2>3, <2>4 DEF AllInv, ServeInv, Expected, Confirmed
<1>5. QED
  BY <1>3, <1>4

(* The machine of b takes a step: only its start, its ready call and its   *)
(* end are possible once it is served.                                     *)
LEMMA ServeInstance ==
  ASSUME AllInv, NEW i \in Instance, InstanceStep(i), NEW b \in Agent, vm[b] = i
  PROVE  ServeInv(b)'
<1> USE DEF AllInv, LifeInv, LifeTypeOK, VmTypeOK
<1>1. UNCHANGED <<state, kind, flow, accepting>> /\ vm[b] # None /\ i[1] = b
  BY InstanceParts DEF InstanceStep, flowVars, OwnVm
<1>2. Expected(b)' = Expected(b) /\ Confirmed(b)' = Confirmed(b)
  BY <1>1 DEF Expected, Confirmed
<1>3. ASSUME UNCHANGED <<vm, starter, cancel, ended, requests, startReply>>,
             ready[i] = "ok" => ready'[i] = "ok"
      PROVE  ServeInv(b)'
  <2>1. Free(vm[b])' = Free(vm[b]) /\ starter'[vm[b]] = starter[vm[b]]
    BY <1>3 DEF Free
  <2>2. Good(b) => Good(b)'
    BY <1>3, <2>1 DEF Good
  <2>3. QED
    BY <1>1, <1>2, <1>3, <2>1, <2>2 DEF ServeInv
<1>4. CASE Ready(i)
  BY <1>3, <1>4 DEF Ready, DriverReady
<1>5. CASE DriverEnds(i)
  BY <1>3, <1>5 DEF DriverEnds
<1>6. CASE Started(i)
  <2>1. /\ starter[i] = "waiting" /\ ready[i] = "ok"
        /\ starter'[i] = "none"
        /\ UNCHANGED <<vm, ready, cancel, ended, requests>>
    BY <1>6 DEF Started
  <2>2. ~Good(b)
    BY <2>1 DEF Good
  <2>3. Free(i)' = Free(i)
    BY <2>1 DEF Free
  <2>4. flow[b] = "await" /\ Expected(b) => Good(b)'
    BY <1>1, <2>1, <2>3 DEF ServeInv, Good, Free
  <2>5. QED
    BY <1>1, <1>2, <2>1, <2>2, <2>4 DEF ServeInv
<1>7. ASSUME ~Good(b), vm'[b] # None => starter'[vm'[b]] # "waiting",
             startReply'[b] = "ok" => startReply[b] = "ok"
      PROVE  ServeInv(b)'
  BY <1>1, <1>2, <1>7 DEF ServeInv
<1>8. CASE NotReady(i)
  <2>1. ~Good(b)
    BY <1>8 DEF NotReady, Good
  <2>2. UNCHANGED <<vm, startReply>> /\ starter'[i] = "stopping"
    BY <1>8 DEF NotReady
  <2>3. QED
    BY <1>7, <2>1, <2>2
<1>9. CASE StartFailed(i)
  <2>1. ~Good(b)
    BY <1>9 DEF StartFailed, Good
  <2>2. startReply'[b] # "ok" /\ starter'[i] = "none" /\ vm'[b] \in {i, None}
    BY <1>1, <1>9 DEF StartFailed
  <2>3. QED
    BY <1>7, <2>1, <2>2
<1>10. CASE Stopped(i)
  <2>1. ~Good(b) /\ vm'[b] = None /\ UNCHANGED startReply
    BY <1>1, <1>10 DEF Stopped, Good, Free, Asker
  <2>2. QED
    BY <1>7, <2>1
<1>11. ASSUME NEW by \in Asker, HandleStop(i, by) PROVE ServeInv(b)'
  <2>1. ~Free(i)
    BY <1>11 DEF HandleStop, Free
  <2>2. ~Good(b) /\ UNCHANGED <<vm, startReply>>
    BY <1>11, <2>1 DEF HandleStop, Good
  <2>3. CASE flow[b] = "await" /\ Expected(b)
    <3>1. starter[i] # "waiting"
      BY <1>1, <2>1, <2>3 DEF ServeInv
    <3>2. starter'[i] # "waiting"
      BY <1>11, <3>1 DEF HandleStop, ReplyStop
    <3>3. QED
      BY <1>7, <2>2, <3>2
  <2>4. CASE ~(flow[b] = "await" /\ Expected(b))
    BY <1>1, <1>2, <2>2, <2>4 DEF ServeInv
  <2>5. QED
    BY <2>3, <2>4
<1>12. QED
  BY <1>4, <1>5, <1>6, <1>8, <1>9, <1>10, <1>11 DEF InstanceStep, VmStep

LEMMA FreshOfInstance ==
  ASSUME AllInv, NEW i \in Instance, InstanceStep(i)
  PROVE  FreshInv' /\ OwnVm'
<1>1. OwnVm'
  BY OtherInstances DEF AllInv, OwnVm
<1>2. ASSUME NEW j \in Instance, j[2] > starts'[j[1]]
      PROVE  Free(j)' /\ starter'[j] = "none"
  <2>1. Free(j) /\ starter[j] = "none" /\ j[2] > starts[j[1]]
    BY <1>2, OtherInstances DEF AllInv, FreshInv
  <2>2. CASE j # i
    BY <2>1, <2>2, OtherInstances DEF Free
  <2>3. CASE j = i
    <3>1. driver[j] # "running" /\ vm[j[1]] # j
      <4>1. vm[j[1]] # j
        <5>1. starts[j[1]] \in Nat /\ j[2] \in Nat /\ j[1] \in Agent /\ j # None
          BY InstanceParts DEF AllInv, LifeInv, LifeTypeOK, VmTypeOK
        <5>2. QED
          BY <2>1, <5>1 DEF AllInv, OwnVm
      <4>2. QED
        BY <4>1 DEF AllInv, LifeInv, DriverOwned
    <3>2. FALSE
      BY <2>1, <2>3, <3>1
         DEF InstanceStep, VmStep, Ready, DriverReady, DriverEnds, Started, NotReady,
             StartFailed, Stopped, HandleStop, Free, Current, Asker
    <3>3. QED
      BY <3>2
  <2>4. QED
    BY <2>2, <2>3
<1>3. QED
  BY <1>1, <1>2 DEF FreshInv

LEMMA AllInvStep == AllInv /\ [Next]_vars => AllInv'
<1> SUFFICES ASSUME AllInv, [Next]_vars PROVE AllInv'
  OBVIOUS
<1>1. LifeInv'
  BY LifeInvStep DEF AllInv
<1>2. ASSUME NEW a \in Agent, AgentStep(a) PROVE AllInv'
  <2>1. ServeInv(a)'
    BY <1>2, ServeRequests, ServeStop, ServeStartup, ServeRequestVm, ServeDone, ServeWork
       DEF AgentStep, FlowStep
  <2>2. \A b \in Agent : ServeInv(b)'
    BY <1>2, <2>1, ServeOthers
  <2>3. QED
    BY <1>1, <1>2, <2>2, FreshOfAgent, OwnVmOfAgent DEF AllInv
<1>3. ASSUME NEW i \in Instance, InstanceStep(i) PROVE AllInv'
  BY <1>1, <1>3, FreshOfInstance, ServeInstance, ServeOtherInstances DEF AllInv
<1>4. CASE UNCHANGED vars
  <2>1. FreshInv' /\ OwnVm'
    BY <1>4 DEF vars, vmVars, AllInv, FreshInv, OwnVm, Free
  <2>2. ASSUME NEW a \in Agent PROVE ServeInv(a)'
    BY <1>4 DEF vars, vmVars, flowVars, AllInv, ServeInv, Good, Free, Expected, Confirmed
  <2>3. QED
    BY <1>1, <2>1, <2>2 DEF AllInv
<1>5. QED
  BY <1>2, <1>3, <1>4, NextIsStep

LEMMA AllInvInit == Init => AllInv
<1> SUFFICES ASSUME Init PROVE AllInv
  OBVIOUS
<1>1. LifeInv
  BY LifeInvInit
<1>2. FreshInv /\ OwnVm
  BY DEF Init, VmInit, FreshInv, OwnVm, Free
<1>3. ASSUME NEW a \in Agent PROVE ServeInv(a)
  BY DEF Init, VmInit, ServeInv, Confirmed
<1>4. QED
  BY <1>1, <1>2, <1>3 DEF AllInv

(* An Agent that takes turns has an open queue and a program that is ready *)
(* and not cancelled, and no flow is at work on it.                        *)
THEOREM IdleHasVmCorrect == Spec => []IdleHasVm
<1>1. AllInv => IdleHasVm
  BY DEF AllInv, LifeInv, AgentInv, ServeInv, Good, Free, IdleHasVm
<1>2. Spec => []AllInv
  BY AllInvInit, AllInvStep, PTL DEF Spec
<1>3. QED
  BY <1>1, <1>2, PTL
=============================================================================
