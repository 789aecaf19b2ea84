--------------------------- MODULE AgentLifecycle ---------------------------
(***************************************************************************)
(* The lifecycle of Agents: margatroid/agent/plugin.  Requests are taken   *)
(* by systems that own the World and set the state; an asynchronous flow   *)
(* then starts, stops or restarts the Agent in many steps, of which those  *)
(* that touch the World are closures a later frame runs, and its result is *)
(* an event read by a system again.  The flow's virtual machine is that of *)
(* DriverVm; inferences, tool tasks and MCL commands are the work of the   *)
(* Agent, which a stop cancels and joins.                                  *)
(***************************************************************************)
EXTENDS DriverVm

VARIABLES
  state,      (* Agent.state, "absent" before and "gone" after the entity  *)
  kind,       (* the operation the flow was started for                    *)
  flow,       (* where the flow is                                         *)
  undo,       (* stop_runtime runs as the cleanup of a failed startup      *)
  sure,       (* the failure of a startup is not uncertain                 *)
  joining,    (* what stop_runtime still awaits                            *)
  broken,     (* a join of stop_runtime failed                             *)
  accepting,  (* MclQueue.accepting                                        *)
  work        (* inferences, tool tasks and MCL commands that are not over *)

flowVars == <<state, kind, flow, undo, sure, joining, broken>>
vars == <<vmVars, flowVars, accepting, work>>

Work == {"inference", "tasks", "mcl"}

ASSUME FaultAssumption ==
  Faults \subseteq {"prepare", "install", "init", "submit", "join", "temp", "panic",
                    "exception"}

LifeTypeOK ==
  /\ VmTypeOK
  /\ state \in [Agent -> {"absent", "starting", "idle", "working", "stopping",
                          "restarting", "gone"}]
  /\ kind \in [Agent -> {"start", "stop", "restart"}]
  /\ flow \in [Agent -> {"none", "snapshot", "joining", "final", "prepare", "install",
                         "init", "check", "request", "await", "confirm", "done",
                         "failed", "clean"}]
  /\ undo \in [Agent -> BOOLEAN]
  /\ sure \in [Agent -> BOOLEAN]
  /\ joining \in [Agent -> SUBSET (Work \cup {"vm"})]
  /\ broken \in [Agent -> BOOLEAN]
  /\ accepting \in [Agent -> BOOLEAN]
  /\ work \in [Agent -> SUBSET Work]

Init ==
  /\ VmInit
  /\ state = [a \in Agent |-> "absent"]
  /\ kind = [a \in Agent |-> "start"]
  /\ flow = [a \in Agent |-> "none"]
  /\ undo = [a \in Agent |-> FALSE]
  /\ sure = [a \in Agent |-> TRUE]
  /\ joining = [a \in Agent |-> {}]
  /\ broken = [a \in Agent |-> FALSE]
  /\ accepting = [a \in Agent |-> FALSE]
  /\ work = [a \in Agent |-> {}]

-----------------------------------------------------------------------------
Goto(a, p) == flow' = [flow EXCEPT ![a] = p]
Become(a, s) == state' = [state EXCEPT ![a] = s]

(* check_agent: the state the flow was started with *)
Expected(a) ==
  <<kind[a], state[a]>> \in {<<"start", "starting">>, <<"stop", "stopping">>,
                            <<"restart", "restarting">>}

(* cancel_runtime: the queue closes, work and program are cancelled *)
CancelRuntime(a) ==
  /\ accepting' = [accepting EXCEPT ![a] = FALSE]
  /\ cancel' = [i \in Instance |-> cancel[i] \/ vm[a] = i]

(* the VM variables cancel_runtime leaves alone *)
restOfVm == <<vm, starts, driver, ready, ended, starter, startReply>>

-----------------------------------------------------------------------------
(* Requests *)

StartAgent(a) ==
  /\ state[a] = "absent"
  /\ starts[a] < MaxStarts
  /\ Become(a, "starting")
  /\ kind' = [kind EXCEPT ![a] = "start"]
  /\ Goto(a, "prepare")
  /\ UNCHANGED <<vmVars, undo, sure, joining, broken, accepting, work>>

(* what stop and restart requests do: a new flow begins with stop_runtime *)
BeginStop(a, s, k) ==
  /\ Become(a, s)
  /\ kind' = [kind EXCEPT ![a] = k]
  /\ Goto(a, "snapshot")
  /\ undo' = [undo EXCEPT ![a] = FALSE]
  /\ broken' = [broken EXCEPT ![a] = FALSE]
  /\ CancelRuntime(a)
  /\ UNCHANGED <<restOfVm, requests, stopReply, sure, joining, work>>

StopAgent(a) == state[a] \in {"idle", "working"} /\ BeginStop(a, "stopping", "stop")

RestartAgent(a) ==
  /\ state[a] \in {"idle", "working"}
  /\ starts[a] < MaxStarts
  /\ "tasks" \notin work[a]
  /\ BeginStop(a, "restarting", "restart")

(* handle_agent_exception: no flow is started *)
AgentException(a) ==
  /\ "exception" \in Faults
  /\ state[a] \notin {"absent", "gone"}
  /\ Become(a, "stopping")
  /\ CancelRuntime(a)
  /\ UNCHANGED <<restOfVm, requests, stopReply, kind, flow, undo, sure, joining, broken,
                 work>>

-----------------------------------------------------------------------------
(* stop_runtime *)

Machines(a) == {i \in {vm[a]} : i # None}

(* the first closure meets another state, or no machine where one is due *)
SnapshotFails(a) ==
  /\ \/ ~Expected(a) /\ UNCHANGED <<cancel, accepting>>
     \/ Expected(a) /\ vm[a] = None /\ ~undo[a] /\ CancelRuntime(a)
  /\ Goto(a, "failed")
  /\ UNCHANGED <<joining, broken, requests, stopReply>>

(* or it cancels again and lists what is to be joined *)
SnapshotTaken(a) ==
  /\ Expected(a)
  /\ vm[a] # None \/ undo[a]
  /\ CancelRuntime(a)
  /\ Goto(a, "joining")
  /\ broken' = [broken EXCEPT ![a] = FALSE]
  /\ joining' = [joining EXCEPT ![a] = work[a] \cup {"vm" : i \in Machines(a)}]
  /\ requests' = requests \cup (Machines(a) \X {"flow"})
  /\ stopReply' = [stopReply EXCEPT ![a] = "none"]

Snapshot(a) ==
  /\ flow[a] = "snapshot"
  /\ SnapshotFails(a) \/ SnapshotTaken(a)
  /\ UNCHANGED <<restOfVm, state, kind, undo, sure, work>>

Join(a, what, ok) ==
  /\ flow[a] = "joining"
  /\ what \in joining[a]
  /\ joining' = [joining EXCEPT ![a] = @ \ {what}]
  /\ broken' = [broken EXCEPT ![a] = @ \/ ~ok]
  /\ UNCHANGED <<vmVars, state, kind, flow, undo, sure, accepting, work>>

JoinVm(a) == stopReply[a] # "none" /\ Join(a, "vm", stopReply[a] = "ok")

JoinWork(a, w) ==
  \/ w \notin work[a] /\ Join(a, w, TRUE)
  \/ "join" \in Faults /\ Join(a, w, FALSE)

(* all joins are over; the temporary blocks of the instance are dropped *)
Joined(a) ==
  /\ flow[a] = "joining"
  /\ joining[a] = {}
  /\ \/ broken[a] /\ Goto(a, "failed")
     \/ ~broken[a] /\ Goto(a, "final")
     \/ "temp" \in Faults /\ Goto(a, "failed")
  /\ UNCHANGED <<vmVars, state, kind, undo, sure, joining, broken, accepting, work>>

(* the last closure, and what follows a stop_runtime that succeeded *)
Final(a) ==
  /\ flow[a] = "final"
  /\ Goto(a, IF ~Expected(a) \/ vm[a] # None \/ work[a] # {} THEN "failed"
             ELSE IF undo[a] THEN IF sure[a] THEN "clean" ELSE "failed"
             ELSE IF kind[a] = "stop" THEN "done" ELSE "prepare")
  /\ UNCHANGED <<vmVars, state, kind, undo, sure, joining, broken, accepting, work>>

-----------------------------------------------------------------------------
(* startup *)

Proceed(a, p) == Goto(a, p) /\ UNCHANGED <<undo, sure>>

(* a step of startup failed: stop_runtime cleans up *)
StartFails(a, s) ==
  /\ Goto(a, "snapshot")
  /\ undo' = [undo EXCEPT ![a] = TRUE]
  /\ sure' = [sure EXCEPT ![a] = s]

Prepare(a) ==
  /\ flow[a] = "prepare"
  /\ \/ Proceed(a, "install")
     \/ "prepare" \in Faults /\ StartFails(a, TRUE)
  /\ UNCHANGED <<vmVars, state, kind, joining, broken, accepting, work>>

(* install_runtime: a new queue accepts commands *)
InstallFails(a) ==
  \/ ~Expected(a) /\ StartFails(a, TRUE)
  \/ Expected(a) /\ (vm[a] # None \/ work[a] # {}) /\ StartFails(a, FALSE)
  \/ "install" \in Faults /\ StartFails(a, TRUE)

Install(a) ==
  /\ flow[a] = "install"
  /\ \/ /\ Expected(a) /\ vm[a] = None /\ work[a] = {}
        /\ accepting' = [accepting EXCEPT ![a] = TRUE]
        /\ Proceed(a, "init")
     \/ InstallFails(a) /\ UNCHANGED accepting
  /\ UNCHANGED <<vmVars, state, kind, joining, broken, work>>

(* the events that make ToolTasks and ActiveInference, and their replies *)
Initialise(a) ==
  /\ flow[a] = "init"
  /\ \/ Expected(a) /\ Proceed(a, "check")
     \/ ~Expected(a) /\ StartFails(a, TRUE)
     \/ "init" \in Faults /\ \E s \in BOOLEAN : StartFails(a, s)
  /\ UNCHANGED <<vmVars, state, kind, joining, broken, accepting, work>>

Check(a) ==
  /\ flow[a] = "check"
  /\ \/ ~Expected(a) /\ StartFails(a, TRUE)
     \/ Expected(a) /\ "inference" \in work[a] /\ StartFails(a, FALSE)
     \/ Expected(a) /\ "inference" \notin work[a] /\ Proceed(a, "request")
  /\ UNCHANGED <<vmVars, state, kind, joining, broken, accepting, work>>

(* StartDriverLuaVm is sent and read *)
RequestVm(a) ==
  /\ flow[a] = "request"
  /\ StartVm(a)
  /\ Goto(a, "await")
  /\ UNCHANGED <<state, kind, undo, sure, joining, broken, accepting, work>>

AwaitVm(a) ==
  /\ flow[a] = "await"
  /\ startReply[a] # "none"
  /\ IF startReply[a] = "ok" THEN Proceed(a, "confirm")
       ELSE StartFails(a, startReply[a] = "refused")
  /\ UNCHANGED <<vmVars, state, kind, joining, broken, accepting, work>>

Confirm(a) ==
  /\ flow[a] = "confirm"
  /\ IF Expected(a) /\ vm[a] = <<a, starts[a]>> THEN Proceed(a, "done")
       ELSE StartFails(a, FALSE)
  /\ UNCHANGED <<vmVars, state, kind, joining, broken, accepting, work>>

(* guarded_start, guarded_stop, guarded_restart *)
FlowPanics(a) ==
  /\ "panic" \in Faults
  /\ flow[a] \notin {"none", "done", "failed", "clean"}
  /\ Goto(a, "failed")
  /\ UNCHANGED <<vmVars, state, kind, undo, sure, joining, broken, accepting, work>>

-----------------------------------------------------------------------------
(* Results *)

(* despawn_clean: the entity goes with its components *)
Despawn(a) ==
  /\ Become(a, "gone")
  /\ vm' = [vm EXCEPT ![a] = None]
  /\ accepting' = [accepting EXCEPT ![a] = FALSE]

(* Mutant: the state the flow was started with is not compared. *)
HandleDoneStale(a) ==
  /\ flow[a] = "done"
  /\ Goto(a, "none")
  /\ IF kind[a] = "stop" THEN Despawn(a) ELSE Become(a, "idle") /\ UNCHANGED <<vm, accepting>>
  /\ UNCHANGED <<starts, driver, ready, cancel, ended, starter, requests, startReply,
                 stopReply, kind, undo, sure, joining, broken, work>>

HandleDone(a) ==
  /\ flow[a] = "done"
  /\ Goto(a, "none")
  /\ \/ Expected(a) /\ kind[a] = "stop" /\ Despawn(a)
     \/ Expected(a) /\ kind[a] # "stop" /\ Become(a, "idle") /\ UNCHANGED <<vm, accepting>>
     \/ ~Expected(a) /\ UNCHANGED <<state, vm, accepting>>
  /\ UNCHANGED <<starts, driver, ready, cancel, ended, starter, requests, startReply,
                 stopReply, kind, undo, sure, joining, broken, work>>

(* Mutant: cleanup_completed is not looked at. *)
HandleFailedAlways(a) ==
  /\ flow[a] \in {"failed", "clean"}
  /\ Goto(a, "none")
  /\ IF Expected(a) THEN Despawn(a) ELSE UNCHANGED <<state, vm, accepting>>
  /\ UNCHANGED <<starts, driver, ready, cancel, ended, starter, requests, startReply,
                 stopReply, kind, undo, sure, joining, broken, work>>

(* failed_result: "clean" is a failure whose cleanup is complete *)
HandleFailed(a) ==
  /\ flow[a] \in {"failed", "clean"}
  /\ Goto(a, "none")
  /\ IF flow[a] = "clean" /\ Expected(a) THEN Despawn(a)
       ELSE UNCHANGED <<state, vm, accepting>>
  /\ UNCHANGED <<starts, driver, ready, cancel, ended, starter, requests, startReply,
                 stopReply, kind, undo, sure, joining, broken, work>>

-----------------------------------------------------------------------------
(* The work of an Agent *)

Turn(a) ==
  /\ \/ state[a] = "idle" /\ "mcl" \in work[a] /\ Become(a, "working")
     \/ state[a] = "working" /\ Become(a, "idle")
  /\ UNCHANGED <<vmVars, kind, flow, undo, sure, joining, broken, accepting, work>>

(* a command the queue accepts, which comes from the program while it is   *)
(* being started; an inference or a tool of the turn                       *)
BeginWork(a, w) ==
  /\ IF w = "mcl"
       THEN /\ accepting[a]
            /\ \/ state[a] \in {"idle", "working"}
               \/ state[a] \in {"starting", "restarting"} /\ vm[a] # None
       ELSE state[a] = "working"
  /\ work' = [work EXCEPT ![a] = @ \cup {w}]
  /\ UNCHANGED <<vmVars, flowVars, accepting>>

EndWork(a, w) ==
  /\ w \in work[a]
  /\ work' = [work EXCEPT ![a] = @ \ {w}]
  /\ UNCHANGED <<vmVars, flowVars, accepting>>

(* the MCL command ready is for a Driver that is being started *)
Ready(i) ==
  /\ state[i[1]] \in {"starting", "restarting"}
  /\ accepting[i[1]]
  /\ DriverReady(i)

-----------------------------------------------------------------------------
FlowStep(a) ==
  \/ Snapshot(a) \/ JoinVm(a) \/ Joined(a) \/ Final(a)
  \/ Prepare(a) \/ Install(a) \/ Initialise(a) \/ Check(a)
  \/ RequestVm(a) \/ AwaitVm(a) \/ Confirm(a)
  \/ HandleDone(a) \/ HandleFailed(a)

Next ==
  \/ \E a \in Agent :
       \/ StartAgent(a) \/ StopAgent(a) \/ RestartAgent(a) \/ AgentException(a)
       \/ FlowStep(a) \/ FlowPanics(a) \/ Turn(a)
       \/ \E w \in Work : JoinWork(a, w) \/ BeginWork(a, w) \/ EndWork(a, w)
  \/ \E i \in Instance : /\ Ready(i) \/ VmStep(i)
                         /\ UNCHANGED <<flowVars, accepting, work>>

Spec == Init /\ [][Next]_vars

(* The flows are polled, frames run their closures, and cancelled work     *)
(* ends or fails its join.                                                 *)
Fairness ==
  /\ \A a \in Agent :
       /\ WF_vars(FlowStep(a))
       /\ \A w \in Work : /\ WF_vars(JoinWork(a, w))
                          /\ WF_vars(EndWork(a, w) /\ ~accepting[a])
  /\ \A i \in Instance :
       /\ WF_vars((Started(i) \/ NotReady(i) \/ StartFailed(i) \/ Stopped(i))
                  /\ UNCHANGED <<flowVars, accepting, work>>)
       /\ WF_vars(DriverEnds(i) /\ cancel[i] /\ UNCHANGED <<flowVars, accepting, work>>)
       /\ \A by \in Asker :
            WF_vars(HandleStop(i, by) /\ UNCHANGED <<flowVars, accepting, work>>)

FairSpec == Spec /\ Fairness

-----------------------------------------------------------------------------
(* Properties *)

(* An Agent that takes turns has an open queue and a program that called   *)
(* ready and was never cancelled, and no flow is at work on it: no two     *)
(* flows ever share an Agent, an exception is not undone by the result of  *)
(* a start it raced with, and a stop finds the machine it requires         *)
(* (handler.rs:295, 384, 405-412, 420-436, 872).                           *)
IdleHasVm ==
  \A a \in Agent : state[a] \in {"idle", "working"} =>
    /\ flow[a] = "none"
    /\ accepting[a]
    /\ vm[a] # None /\ ready[vm[a]] = "ok" /\ ~cancel[vm[a]]

(* An entity is destroyed only when its program is over and its work done: *)
(* despawn_clean drops every component without looking (handler.rs:413).   *)
DespawnClean ==
  [][\A a \in Agent : state[a] # "gone" /\ state'[a] = "gone" =>
       /\ vm[a] = None
       /\ work[a] = {}
       /\ \A i \in Instance : i[1] = a => driver[i] # "running"]_vars

(* install_runtime replaces the queue of an Agent that is really quiet:    *)
(* a restart gets so far only when nothing of the old runtime is left.     *)
InstallQuiet ==
  \A a \in Agent : flow[a] = "install" /\ Expected(a) =>
    /\ vm[a] = None
    /\ work[a] = {}
    /\ \A i \in Instance : i[1] = a => driver[i] # "running"

(* A flow ends, unless the program neither calls ready nor returns: the    *)
(* startup timeout is not set by default (core/src/types.rs:239-248).      *)
Silent(a) ==
  vm[a] # None /\ driver[vm[a]] = "running" /\ ready[vm[a]] = "armed" /\ ~cancel[vm[a]]

FlowEnds == \A a \in Agent : flow[a] # "none" ~> (flow[a] = "none" \/ Silent(a))
=============================================================================
