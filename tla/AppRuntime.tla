----------------------------- MODULE AppRuntime -----------------------------
(***************************************************************************)
(* The runtime loop of mecs/app_runtime_plugin, the asynchronous tasks of  *)
(* mecs/async_runtime_plugin and the daemon's shutdown listener around the *)
(* event queue.                                                            *)
(*                                                                         *)
(* Four kinds of thread interleave: the loop (pc), the supervisor of an    *)
(* asynchronous task, a sender outside the loop, and the listener.  The    *)
(* last three touch the loop in two steps: they change the queue, the gate *)
(* or the stop flag, and only then send the wake notification, through a   *)
(* channel that holds one token.  thread[e] is what the thread that        *)
(* carries event e has still to do.                                        *)
(***************************************************************************)
EXTENDS EventQueue

CONSTANT FixedFrame   (* RuntimeMode: fixed frames or event driven *)

ASSUME ModeAssumption == FixedFrame \in BOOLEAN

VARIABLES
  pc,         (* where the loop is                                         *)
  initial,    (* initial_frame_pending                                     *)
  seen,       (* RuntimeControl.event_snapshot: its count of normal events *)
  blockers,   (* RuntimeHandle.blocker_count                               *)
  token,      (* the wake channel of capacity one is full                  *)
  thread,     (* outstanding steps of the thread that carries an event     *)
  stopping,   (* the stop condition of run_until                           *)
  listener    (* the shutdown listener                                     *)

loopVars == <<pc, initial, seen>>
runVars == <<pc, initial, seen, blockers, token, thread, stopping, listener>>
vars == <<queueVars, runVars>>

Place == {"boot", "top", "initial", "sync", "status", "forward", "tick",
          "pull", "systems", "wait", "stopped"}

(* "async", "await": the task runs; "gate": open_gate is still to come;    *)
(* "wake": only the wake is still to come                                  *)
Duty == {"none", "async", "await", "gate", "wake"}

Owing(d) == {e \in Event : thread[e] = d}
Blocking == Owing("await") \cup Owing("gate")
GateOpen == blockers = 0

RuntimeTypeOK ==
  /\ QueueTypeOK
  /\ pc \in Place
  /\ initial \in BOOLEAN
  /\ seen \in Nat
  /\ blockers \in Nat
  /\ token \in BOOLEAN
  /\ thread \in [Event -> Duty]
  /\ stopping \in BOOLEAN
  /\ listener \in {"idle", "flagged", "done"}

Init ==
  /\ QueueInit
  /\ pc = "boot"
  /\ initial = FALSE
  /\ seen = 0
  /\ blockers = 0
  /\ token = FALSE
  /\ thread = [e \in Event |-> "none"]
  /\ stopping = FALSE
  /\ listener = "idle"

-----------------------------------------------------------------------------
(* Code that owns the World: the systems of a frame, and the program       *)
(* before it calls run_until                                               *)

OwnsWorld == pc \in {"boot", "systems"}

EmitEvent(e) ==
  /\ OwnsWorld
  /\ thread[e] = "none"
  /\ SendEvent(e) \/ \E d \in Delay : SendEventAfter(e, d)
  /\ UNCHANGED runVars

SubmitAsync(e) ==
  /\ OwnsWorld
  /\ thread[e] = "none"
  /\ SendPending(e)
  /\ thread' = [thread EXCEPT ![e] = "async"]
  /\ UNCHANGED <<loopVars, blockers, token, stopping, listener>>

SubmitAwait(e) ==
  /\ OwnsWorld
  /\ thread[e] = "none"
  /\ SendPending(e)
  /\ thread' = [thread EXCEPT ![e] = "await"]
  /\ blockers' = blockers + 1
  /\ UNCHANGED <<loopVars, token, stopping, listener>>

EndSystems ==
  /\ pc = "systems"
  /\ pc' = "top"
  /\ initial' = FALSE
  /\ seen' = IF initial THEN snapshot.normal ELSE seen
  /\ UNCHANGED <<queueVars, blockers, token, thread, stopping, listener>>

-----------------------------------------------------------------------------
(* The loop: run_event_driven and run_fixed_frame *)

RunUntil ==
  /\ pc = "boot"
  /\ pc' = "top"
  /\ initial' = ~FixedFrame
  /\ UNCHANGED <<queueVars, seen, blockers, token, thread, stopping, listener>>

CheckStop ==
  /\ pc = "top"
  /\ pc' = IF stopping THEN "stopped" ELSE IF initial THEN "initial" ELSE "sync"
  /\ UNCHANGED <<queueVars, initial, seen, blockers, token, thread, stopping, listener>>

InitialGate ==
  /\ pc = "initial"
  /\ pc' = IF GateOpen THEN "tick" ELSE "sync"
  /\ UNCHANGED <<queueVars, initial, seen, blockers, token, thread, stopping, listener>>

SyncSnapshot ==
  /\ pc = "sync"
  /\ seen' = snapshot.normal
  /\ pc' = "status"
  /\ UNCHANGED <<queueVars, initial, blockers, token, thread, stopping, listener>>

Status ==
  /\ pc = "status"
  /\ pc' = IF ~GateOpen THEN "wait"
           ELSE IF FixedFrame THEN "tick"
           ELSE IF seen > 0 THEN "forward" ELSE "wait"
  /\ UNCHANGED <<queueVars, initial, seen, blockers, token, thread, stopping, listener>>

ForwardEvents ==
  /\ pc = "forward"
  /\ FastForward
  /\ pc' = "tick"
  /\ UNCHANGED <<initial, seen, blockers, token, thread, stopping, listener>>

Tick ==
  /\ pc = "tick"
  /\ BeginPull
  /\ pc' = "pull"
  /\ UNCHANGED <<initial, seen, blockers, token, thread, stopping, listener>>

PullNode(e) == Pull(e) /\ UNCHANGED runVars

RunSystems ==
  /\ EndPull
  /\ pc' = "systems"
  /\ UNCHANGED <<initial, seen, blockers, token, thread, stopping, listener>>

Receive ==
  /\ pc = "wait"
  /\ token
  /\ token' = FALSE
  /\ pc' = "top"
  /\ UNCHANGED <<queueVars, initial, seen, blockers, thread, stopping, listener>>

(* run_until has returned; the program may call it again later *)
Resume ==
  /\ pc = "stopped"
  /\ listener = "done"
  /\ pc' = "boot"
  /\ stopping' = FALSE
  /\ listener' = "idle"
  /\ UNCHANGED <<queueVars, initial, seen, blockers, token, thread>>

-----------------------------------------------------------------------------
(* The other threads *)

(* RuntimeEventSender: emit, then wake *)
SendOutside(e) ==
  /\ thread[e] = "none"
  /\ SendEvent(e) \/ \E d \in Delay : SendEventAfter(e, d)
  /\ thread' = [thread EXCEPT ![e] = "wake"]
  /\ UNCHANGED <<loopVars, blockers, token, stopping, listener>>

(* Supervisor: the task returned or panicked, its result completes e *)
TaskEnds(e) ==
  /\ thread[e] \in {"async", "await"}
  /\ CompleteAfter(e, 0)
  /\ thread' = [thread EXCEPT ![e] = IF @ = "async" THEN "wake" ELSE "gate"]
  /\ UNCHANGED <<loopVars, blockers, token, stopping, listener>>

(* Mutant: the last open_gate does not wake the loop. *)
OpenGateSilently(e) ==
  /\ thread[e] = "gate"
  /\ blockers' = blockers - 1
  /\ thread' = [thread EXCEPT ![e] = "none"]
  /\ UNCHANGED <<queueVars, loopVars, token, stopping, listener>>

OpenGate(e) ==
  /\ thread[e] = "gate"
  /\ blockers' = blockers - 1
  /\ thread' = [thread EXCEPT ![e] = IF blockers = 1 THEN "wake" ELSE "none"]
  /\ UNCHANGED <<queueVars, loopVars, token, stopping, listener>>

Wake(e) ==
  /\ thread[e] = "wake"
  /\ token' = TRUE
  /\ thread' = [thread EXCEPT ![e] = "none"]
  /\ UNCHANGED <<queueVars, loopVars, blockers, stopping, listener>>

(* request_shutdown: swap the flag, then wake *)
RequestStop ==
  /\ listener = "idle"
  /\ stopping' = TRUE
  /\ listener' = "flagged"
  /\ UNCHANGED <<queueVars, loopVars, blockers, token, thread>>

(* Mutant: the flag is set without a wake. *)
WakeForStopNot ==
  /\ listener = "flagged"
  /\ listener' = "done"
  /\ UNCHANGED <<queueVars, loopVars, blockers, token, thread, stopping>>

WakeForStop ==
  /\ listener = "flagged"
  /\ token' = TRUE
  /\ listener' = "done"
  /\ UNCHANGED <<queueVars, loopVars, blockers, thread, stopping>>

-----------------------------------------------------------------------------
LoopStep ==
  \/ RunUntil \/ CheckStop \/ InitialGate \/ SyncSnapshot \/ Status
  \/ ForwardEvents \/ Tick \/ RunSystems \/ EndSystems \/ Receive
  \/ \E e \in Event : PullNode(e)

Next ==
  \/ LoopStep
  \/ Resume \/ RequestStop \/ WakeForStop
  \/ \E e \in Event :
       \/ EmitEvent(e) \/ SubmitAsync(e) \/ SubmitAwait(e)
       \/ SendOutside(e) \/ TaskEnds(e) \/ OpenGate(e) \/ Wake(e)

(* The loop thread runs, a thread that owes a wake or an open_gate sends   *)
(* it, and an awaited task ends.  Nothing makes an asynchronous task end,  *)
(* a system emit, or anyone ask for shutdown.                              *)
Fairness ==
  /\ WF_vars(LoopStep)
  /\ WF_vars(WakeForStop)
  /\ \A e \in Event :
       /\ WF_vars(Wake(e))
       /\ WF_vars(OpenGate(e))
       /\ WF_vars(TaskEnds(e) /\ thread[e] = "await")

Spec == Init /\ [][Next]_vars
FairSpec == Spec /\ Fairness

-----------------------------------------------------------------------------
(* Properties *)

(* The gate counts exactly the awaited tasks whose open_gate is to come:   *)
(* checked_sub in open_gate never panics and no gate stays closed behind a *)
(* task that is over (resource.rs:45-63, async plugin.rs:122-174).         *)
GateBalanced == blockers = Cardinality(Blocking)

(* A frame the loop has reason to run, or its stop *)
Runnable ==
  \/ stopping
  \/ GateOpen /\ (FixedFrame \/ initial \/ snapshot.normal > 0)

WakeComing ==
  token \/ listener = "flagged" \/ \E e \in Event : thread[e] = "wake"

(* No wake is lost: whenever the loop is blocked in recv although there is *)
(* something to do, a token is in the channel or a thread is about to put  *)
(* one there.  The channel holds one token and the loop reads the stop     *)
(* flag, the snapshot and the gate one after another (resource.rs:191-214).*)
NoLostWake == pc = "wait" /\ Runnable => WakeComing

(* A handle is completed once: a running task's event is still pending, so *)
(* complete_after never meets a completed node (events.rs:139-144).        *)
HandlePending ==
  \A e \in Event : thread[e] \in {"async", "await"} <=> node[e].state = "pending"

(* Four numbers are kept by hand, in three places under three locks, for   *)
(* the loop to decide on: the counts and the nearest delay of the snapshot *)
(* (events.rs:116), and the gate.  They are exact at every moment, and the *)
(* pending nodes are those of running tasks, so that no subtraction        *)
(* underflows and no assertion of complete_after or open_gate fails.       *)
CountersExact ==
  /\ SnapshotCounts
  /\ NearestExact
  /\ GateBalanced
  /\ HandlePending

(* A closed gate holds the next frame back: no frame of the loop begins    *)
(* while an awaited task runs or its gate is not yet open.                 *)
FrameWaitsForGate == [][Tick => Blocking = {}]_vars

(* An event that was sent or completed is read by a frame, unless run_until*)
(* returns first; and a requested stop makes run_until return, even with   *)
(* the gate closed (resource.rs:145-214, daemon main.rs:72-98).            *)
LoopAnswers ==
  /\ \A e \in Event :
       node[e].state = "normal" ~> (node[e].state = "read" \/ pc = "stopped")
  /\ stopping ~> pc = "stopped"
=============================================================================
