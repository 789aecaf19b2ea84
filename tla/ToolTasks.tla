------------------------------ MODULE ToolTasks ------------------------------
(***************************************************************************)
(* The tool tasks of one Agent: margatroid/tool.  A call is accepted by a  *)
(* system that owns the World, registered in the collection ToolTasks, and *)
(* supervised by an asynchronous task that runs a worker process.  The     *)
(* handle of a task is shared: its supervisor, the Agent's abort and stop, *)
(* the supervisor of its owner and other tools that finish it all act on   *)
(* it, each under the handle's lock, and the supervisor reaches the World  *)
(* only by closures that a frame runs in the order they were sent.         *)
(*                                                                         *)
(* An element of Call is a task id: ids are "tool:<pid>:<batch>:<index>"   *)
(* and never used twice (mcl/plugin/src/handler.rs:983-1020).              *)
(***************************************************************************)
EXTENDS Integers, Sequences, FiniteSets

CONSTANTS
  Call,       (* task ids                                                  *)
  None,       (* the empty Option                                          *)
  Faults      (* the kinds of failure that happen                          *)

ASSUME CallAssumption ==
  /\ IsFiniteSet(Call)
  /\ None \notin Call
  /\ None \notin {"result", "aborted", "failed", "failure", "pending", "cleanup", "inject"}
  /\ "inject" \notin Call
  /\ Faults \subseteq {"launch", "read", "exchange", "proof", "temp", "panic", "drop"}

VARIABLES
  (* ToolTaskData and the flags of ToolTaskShared, for each call *)
  owner,      (* owner_task_id                                             *)
  reply,      (* what the caller was answered; returned <=> not None       *)
  cancel,     (* the cancellation token                                    *)
  error,      (* the kind of the recorded error                            *)
  cleaned,    (* cleanup_complete                                          *)
  (* the supervisor of a call *)
  phase,      (* where supervise_tool and run_runner are                   *)
  outcome,    (* the result of the run so far                              *)
  process,    (* runner, worker or descendants may still live              *)
  life,       (* the lifetime run_runner confirmed and selects on          *)
  busy,       (* the host request the exchange is awaiting                 *)
  (* the Agent's components and the World *)
  tasks,      (* ToolTasks.entries                                         *)
  tools,      (* calls that own entries injected into Tools                *)
  closures,   (* world closures sent and not yet run                       *)
  turn,       (* the Agent's turn, and its stop flow                       *)
  joining,    (* handles the stop flow is still finishing                  *)
  failed,     (* handles whose finish told the stop flow of a failure      *)
  world       (* the World still runs closures                             *)

handleVars == <<owner, reply, cancel, error, cleaned>>
superVars == <<phase, outcome, process, life, busy>>
agentVars == <<tasks, tools, turn, joining, failed>>
vars == <<handleVars, superVars, agentVars, closures, world>>

Phase == {"none", "request", "stale", "launch", "read", "run", "closing", "closed",
          "proof", "temp", "owner", "release", "end"}
Reply == {"result", "aborted", "failed"}
(* "failure": the run failed; "cleanup": a cleanup step failed; "pending": *)
(* a cleanup still to be proved.  The last two are ErrorKind CleanupFailed.*)
Error == {"failure", "pending", "cleanup"}
(* "panic": the supervised future unwound                                  *)
Outcome == {"ok", "cancelled", "failed", "panic"}
Turn == {"idle", "working", "aborted", "stopping", "joining", "stopped", "stopFailed"}

Closure == [kind : {"inject", "owner"}, call : Call]
Do(k, c) == [kind |-> k, call |-> c]

ToolTypeOK ==
  /\ owner \in [Call -> Call \cup {None}]
  /\ reply \in [Call -> Reply \cup {None}]
  /\ cancel \in [Call -> BOOLEAN]
  /\ error \in [Call -> Error \cup {None}]
  /\ cleaned \in [Call -> BOOLEAN]
  /\ life \in [Call -> {"unset", "unlimited", "running"}]
  /\ phase \in [Call -> Phase]
  /\ outcome \in [Call -> Outcome]
  /\ process \in [Call -> BOOLEAN]
  /\ busy \in [Call -> Call \cup {"inject", None}]
  /\ \A c \in Call : busy[c] # None => phase[c] = "run"
  /\ tasks \subseteq Call
  /\ tools \subseteq Call
  /\ closures \in Seq(Closure)
  /\ turn \in Turn
  /\ joining \subseteq Call
  /\ failed \subseteq Call
  /\ world \in BOOLEAN

Init ==
  /\ owner = [c \in Call |-> None]
  /\ reply = [c \in Call |-> None]
  /\ cancel = [c \in Call |-> FALSE]
  /\ error = [c \in Call |-> None]
  /\ cleaned = [c \in Call |-> FALSE]
  /\ life = [c \in Call |-> "unset"]
  /\ phase = [c \in Call |-> "none"]
  /\ outcome = [c \in Call |-> "ok"]
  /\ process = [c \in Call |-> FALSE]
  /\ busy = [c \in Call |-> None]
  /\ tasks = {}
  /\ tools = {}
  /\ closures = <<>>
  /\ turn = "idle"
  /\ joining = {}
  /\ failed = {}
  /\ world = TRUE

-----------------------------------------------------------------------------
(* Operations of a handle *)

To(c, p) == phase' = [phase EXCEPT ![c] = p]

(* the supervisor returns, and its variables are gone *)
Over(c) == To(c, "end") /\ outcome' = [outcome EXCEPT ![c] = "ok"]

(* return_result: the first answer is the answer *)
Answer(c, r) == reply' = [reply EXCEPT ![c] = IF @ = None THEN r ELSE @]

SetError(c, e) == error' = [error EXCEPT ![c] = e]

(* complete_reply and set_error of one failure *)
Fail(c, e) == Answer(c, "failed") /\ SetError(c, e)

(* what finish waits for: a proof of cleanup, or a cleanup failure *)
CleanupFailed(c) == error[c] \in {"pending", "cleanup"}
Finished(c) == cleaned[c] \/ CleanupFailed(c)

(* ToolTasks::complete_cleanup: leaves the collection as it is completed *)
Release(c) == tasks' = tasks \ {c} /\ cleaned' = [cleaned EXCEPT ![c] = TRUE]

(* cleanup_owner up to its await *)
CleanupOwner(c) ==
  /\ cancel' = [cancel EXCEPT ![c] = TRUE]
  /\ closures' = IF world THEN Append(closures, Do("owner", c)) ELSE closures

-----------------------------------------------------------------------------
(* The systems that own the World *)

StartTurn ==
  /\ turn = "idle"
  /\ turn' = "working"
  /\ UNCHANGED <<handleVars, superVars, tasks, tools, joining, failed, closures, world>>

(* A request of a turn that is over is not a request of the next one *)
Expired == [c \in Call |-> IF phase[c] = "request" THEN "stale" ELSE phase[c]]

FinishTurn ==
  /\ turn \in {"working", "aborted"}
  /\ turn' = "idle"
  /\ phase' = Expired
  /\ UNCHANGED <<handleVars, outcome, process, life, busy, tasks, tools, joining,
                 failed, closures, world>>

(* execute_tools sends the request within its turn *)
Request(c) ==
  /\ turn = "working"
  /\ phase[c] = "none"
  /\ To(c, "request")
  /\ UNCHANGED <<handleVars, outcome, process, life, busy, agentVars, closures, world>>

(* handle_tool_execute, refused: no such turn, a bad request, a gone owner *)
Refuse(c) ==
  /\ world
  /\ phase[c] \in {"request", "stale"}
  /\ To(c, "end")
  /\ reply' = [reply EXCEPT ![c] = IF phase[c] = "stale" \/ turn # "working"
                                     THEN "aborted" ELSE "failed"]
  /\ UNCHANGED <<owner, cancel, error, cleaned, life, outcome, process, busy, agentVars,
                 closures, world>>

Accept(c, o) ==
  /\ o # None => o \in tasks /\ ~cancel[o] /\ ~cleaned[o]
  /\ owner' = [owner EXCEPT ![c] = o]
  /\ tasks' = tasks \cup {c}
  /\ To(c, "launch")
  /\ UNCHANGED <<reply, cancel, error, cleaned, life, outcome, process, busy, tools,
                 turn, joining, failed, closures, world>>

(* Mutant: the turn of the request is not compared. *)
ExecuteStale(c) ==
  /\ world
  /\ phase[c] \in {"request", "stale"}
  /\ \E o \in tools \cup {None} : Accept(c, o)

(* handle_tool_execute, accepted: the tool is a static entry or injected *)
Execute(c) ==
  /\ world
  /\ turn = "working"
  /\ phase[c] = "request"
  /\ \E o \in tools \cup {None} : Accept(c, o)

(* abort_unreturned, or abort_owner_unreturned, for the calls D *)
Abort(D, r) ==
  /\ reply' = [d \in Call |-> IF d \in D THEN r ELSE reply[d]]
  /\ cancel' = [d \in Call |-> d \in D \/ cancel[d]]

Unreturned == {d \in tasks : ~cleaned[d] /\ reply[d] = None}

(* The abort of a turn: first the turn is cleared, then its calls *)
AbortTurn ==
  /\ turn = "working"
  /\ turn' = "aborted"
  /\ phase' = Expired
  /\ Abort(Unreturned, "aborted")
  /\ UNCHANGED <<owner, error, cleaned, life, outcome, process, busy, tasks, tools,
                 joining, failed, closures, world>>

(* handle_stop_agent; the stop flow's world closure runs later *)
StopAgent ==
  /\ turn \in {"idle", "working", "aborted"}
  /\ turn' = "stopping"
  /\ phase' = Expired
  /\ UNCHANGED <<handleVars, outcome, process, life, busy, tasks, tools, joining,
                 failed, closures, world>>

(* Mutant: only the unanswered tasks are finished. *)
StopListUnreturned ==
  /\ world
  /\ turn = "stopping"
  /\ turn' = "joining"
  /\ joining' = Unreturned
  /\ cancel' = [c \in Call |-> c \in Unreturned \/ cancel[c]]
  /\ UNCHANGED <<owner, reply, error, cleaned, superVars, tasks, tools, failed,
                 closures, world>>

(* stop_runtime lists the tasks and finishes each *)
StopList ==
  /\ world
  /\ turn = "stopping"
  /\ turn' = "joining"
  /\ joining' = tasks
  /\ cancel' = [c \in Call |-> c \in tasks \/ cancel[c]]
  /\ UNCHANGED <<owner, reply, error, cleaned, superVars, tasks, tools, failed,
                 closures, world>>

StopJoin(c) ==
  /\ c \in joining
  /\ Finished(c)
  /\ joining' = joining \ {c}
  /\ failed' = IF cleaned[c] THEN failed ELSE failed \cup {c}
  /\ UNCHANGED <<handleVars, superVars, tasks, tools, turn, closures, world>>

StopEnd ==
  /\ world
  /\ turn = "joining"
  /\ joining = {}
  /\ turn' = IF failed = {} /\ tasks = {} THEN "stopped" ELSE "stopFailed"
  /\ UNCHANGED <<handleVars, superVars, tasks, tools, joining, failed, closures, world>>

(* The end of the program: World closures are lost, sent or not *)
DropWorld ==
  /\ "drop" \in Faults
  /\ world
  /\ world' = FALSE
  /\ closures' = <<>>
  /\ UNCHANGED <<handleVars, superVars, agentVars>>

-----------------------------------------------------------------------------
(* World closures *)

InjectTools(c) ==
  /\ closures # <<>>
  /\ Head(closures) = Do("inject", c)
  /\ closures' = Tail(closures)
  /\ tools' = IF c \in tasks /\ ~cancel[c] /\ ~cleaned[c] THEN tools \cup {c} ELSE tools
  /\ busy' = [busy EXCEPT ![c] = IF @ = "inject" THEN None ELSE @]
  /\ UNCHANGED <<handleVars, phase, outcome, process, life, tasks, turn, joining,
                 failed, world>>

Dependents(c) == {d \in Unreturned : owner[d] = c}

(* Mutant: the entries of the owner go, its callers are not told. *)
RemoveOwnerEntries(c) ==
  /\ closures # <<>>
  /\ Head(closures) = Do("owner", c)
  /\ closures' = Tail(closures)
  /\ tools' = tools \ {c}
  /\ To(c, IF phase[c] = "closing" THEN "closed" ELSE "release")
  /\ UNCHANGED <<handleVars, outcome, process, life, busy, tasks, turn, joining, failed,
                 world>>

(* the closure of cleanup_owner, whose reply resumes the supervisor *)
RemoveOwner(c) ==
  /\ closures # <<>>
  /\ Head(closures) = Do("owner", c)
  /\ closures' = Tail(closures)
  /\ tools' = tools \ {c}
  /\ Abort(Dependents(c), "failed")
  /\ error' = [d \in Call |-> IF d \in Dependents(c) THEN "failure" ELSE error[d]]
  /\ To(c, IF phase[c] = "closing" THEN "closed" ELSE "release")
  /\ UNCHANGED <<owner, cleaned, life, outcome, process, busy, tasks, turn, joining,
                 failed, world>>

-----------------------------------------------------------------------------
(* launch_tool and supervise_tool *)

(* launch_tool attaches the supervisor, then lets it claim its context *)
Launch(c) ==
  /\ phase[c] = "launch"
  /\ To(c, "read")
  /\ UNCHANGED <<handleVars, outcome, process, life, busy, agentVars, closures, world>>

(* ToolLaunchFallback: the launch was dropped before the handoff *)
LaunchFails(c) ==
  /\ "launch" \in Faults
  /\ phase[c] = "launch"
  /\ To(c, "end")
  /\ Fail(c, "failure")
  /\ Release(c)
  /\ UNCHANGED <<owner, cancel, life, outcome, process, busy, tools, turn, joining,
                 failed, closures, world>>

StartRunner(c) ==
  /\ phase[c] = "read"
  /\ ~cancel[c]
  /\ To(c, "run")
  /\ process' = [process EXCEPT ![c] = TRUE]
  /\ UNCHANGED <<handleVars, outcome, life, busy, agentVars, closures, world>>

(* Unreadable resource, invalid arguments, cancelled, or no runner *)
ReadFails(c) ==
  /\ cancel[c] \/ "read" \in Faults
  /\ phase[c] = "read"
  /\ To(c, "temp")
  /\ outcome' = [outcome EXCEPT ![c] = "failed"]
  /\ Fail(c, "failure")
  /\ UNCHANGED <<owner, cancel, cleaned, life, process, busy, agentVars, closures,
                 world>>

(* exchange handles one frame of the worker at a time *)
Exchange(c) == phase[c] = "run" /\ busy[c] = None
Configured(c) == Exchange(c) /\ life[c] # "unset"

Configure(c) ==
  /\ Exchange(c)
  /\ life[c] = "unset"
  /\ \E l \in {"unlimited", "running"} : life' = [life EXCEPT ![c] = l]
  /\ UNCHANGED <<handleVars, phase, outcome, process, busy, agentVars, closures, world>>

(* Mutant: a result replaces the answer the caller already has. *)
ReturnAgain(c) ==
  /\ Configured(c)
  /\ reply' = [reply EXCEPT ![c] = "result"]
  /\ UNCHANGED <<owner, cancel, error, cleaned, superVars, agentVars, closures, world>>

Return(c) ==
  /\ Configured(c)
  /\ Answer(c, "result")
  /\ UNCHANGED <<owner, cancel, error, cleaned, superVars, agentVars, closures, world>>

Inject(c) ==
  /\ Configured(c)
  /\ world
  /\ closures' = Append(closures, Do("inject", c))
  /\ busy' = [busy EXCEPT ![c] = "inject"]
  /\ UNCHANGED <<handleVars, phase, outcome, process, life, agentVars, world>>

(* task_finish of another task: cancel it, await its cleanup *)
FinishOther(c, d) ==
  /\ Configured(c)
  /\ d \in tasks \ {c}
  /\ cancel' = [cancel EXCEPT ![d] = TRUE]
  /\ busy' = [busy EXCEPT ![c] = d]
  /\ UNCHANGED <<owner, reply, error, cleaned, life, phase, outcome, process, agentVars,
                 closures, world>>

(* the awaited host request ends *)
HostReplies(c) ==
  /\ \/ busy[c] = "inject" /\ ~world
     \/ busy[c] \in Call /\ Finished(busy[c])
  /\ busy' = [busy EXCEPT ![c] = None]
  /\ UNCHANGED <<handleVars, phase, outcome, process, life, agentVars, closures, world>>

(* a Stopped frame without a proof: the runner's cleanup met a failure *)
StoppedUnproven(c) ==
  /\ "proof" \in Faults
  /\ Exchange(c)
  /\ Fail(c, "cleanup")
  /\ UNCHANGED <<owner, cancel, cleaned, superVars, agentVars, closures, world>>

(* the exchange is over with a result o, and its pending host request with *)
(* it; the caller is answered, the owner cleanup sent                      *)
EndExchange(c, o, e) ==
  /\ To(c, "closing")
  /\ outcome' = [outcome EXCEPT ![c] = o]
  /\ busy' = [busy EXCEPT ![c] = None]
  /\ life' = [life EXCEPT ![c] = "unset"]
  /\ IF o = "ok" THEN UNCHANGED <<reply, error>> ELSE Fail(c, e)
  /\ CleanupOwner(c)
  /\ UNCHANGED <<owner, cleaned, agentVars, world>>

(* a Stopped frame with a proof: the worker ended, or never started *)
Stopped(c) ==
  /\ Exchange(c)
  /\ process' = [process EXCEPT ![c] = FALSE]
  /\ \E o \in {"ok", "failed"} : EndExchange(c, o, "failure")

(* Mutant: an expired lifetime is noticed between two frames only. *)
TimeoutBetweenFrames(c) ==
  /\ Exchange(c)
  /\ life[c] = "running"
  /\ EndExchange(c, "failed", "failure")
  /\ UNCHANGED process

Timeout(c) ==
  /\ phase[c] = "run"
  /\ life[c] = "running"
  /\ EndExchange(c, "failed", "failure")
  /\ UNCHANGED process

(* Mutant: the cancellation is noticed between two frames only. *)
CancelledBetweenFrames(c) ==
  /\ Exchange(c)
  /\ cancel[c]
  /\ EndExchange(c, "cancelled", "failure")
  /\ UNCHANGED process

Cancelled(c) ==
  /\ phase[c] = "run"
  /\ cancel[c]
  /\ EndExchange(c, "cancelled", "failure")
  /\ UNCHANGED process

(* A protocol failure, a closed pipe, too many diagnostics *)
ExchangeFails(c) ==
  /\ "exchange" \in Faults
  /\ phase[c] = "run"
  /\ EndExchange(c, "failed", "failure")
  /\ UNCHANGED process

(* the first cleanup_owner failed: run_runner returns at once *)
CleanupOwnerFails(c) ==
  /\ phase[c] = "closing"
  /\ ~world
  /\ To(c, "temp")
  /\ outcome' = [outcome EXCEPT ![c] = "failed"]
  /\ Fail(c, "cleanup")
  /\ UNCHANGED <<owner, cancel, cleaned, life, process, busy, agentVars, closures,
                 world>>

(* signal_runner; a failure is recorded before any cleanup was tried *)
SignalRunner(c) ==
  /\ phase[c] = "closed"
  /\ process[c]
  /\ To(c, "proof")
  /\ IF outcome[c] = "cancelled" THEN UNCHANGED <<reply, error>> ELSE Fail(c, "pending")
  /\ UNCHANGED <<owner, cancel, cleaned, life, outcome, process, busy, agentVars,
                 closures, world>>

(* the proof came with the result; the pipes may still have failed *)
Reap(c) ==
  /\ phase[c] = "closed"
  /\ ~process[c]
  /\ To(c, "temp")
  /\ \E o \in {outcome[c]} \cup IF "exchange" \in Faults THEN {"failed"} ELSE {} :
       /\ outcome' = [outcome EXCEPT ![c] = o]
       /\ IF o = "ok" THEN UNCHANGED <<reply, error>> ELSE Fail(c, "failure")
  /\ UNCHANGED <<owner, cancel, cleaned, life, process, busy, agentVars, closures,
                 world>>

ProofFails(c) ==
  /\ "proof" \in Faults
  /\ phase[c] = "proof"
  /\ Fail(c, "cleanup")
  /\ UNCHANGED <<owner, cancel, cleaned, superVars, agentVars, closures, world>>

(* the runner's proof, or the killed control group; then run_runner fails  *)
Prove(c) ==
  /\ phase[c] = "proof"
  /\ process' = [process EXCEPT ![c] = FALSE]
  /\ To(c, "temp")
  /\ Fail(c, "failure")
  /\ UNCHANGED <<owner, cancel, cleaned, life, outcome, busy, agentVars, closures,
                 world>>

(* the temporary directory is still there *)
TempFails(c) ==
  /\ "temp" \in Faults
  /\ phase[c] = "temp"
  /\ outcome[c] # "panic"
  /\ Fail(c, "cleanup")
  /\ UNCHANGED <<owner, cancel, cleaned, superVars, agentVars, closures, world>>

(* catch_unwind: the supervised future panicked *)
Panic(c) ==
  /\ "panic" \in Faults
  /\ phase[c] \in {"read", "run", "proof", "temp"}
  /\ To(c, "temp")
  /\ outcome' = [outcome EXCEPT ![c] = "panic"]
  /\ life' = [life EXCEPT ![c] = "unset"]
  /\ busy' = [busy EXCEPT ![c] = None]
  /\ UNCHANGED <<handleVars, process, agentVars, closures, world>>

(* the last answer, MissingReturn included, and the second cleanup_owner *)
Settle(c) ==
  /\ phase[c] = "temp"
  /\ To(c, "owner")
  /\ outcome' = [outcome EXCEPT ![c] = IF @ = "ok" /\ reply[c] = None THEN "failed" ELSE @]
  /\ Answer(c, "failed")
  /\ CleanupOwner(c)
  /\ UNCHANGED <<owner, error, cleaned, life, process, busy, agentVars, world>>

(* the second cleanup_owner failed: the task stays, uncleaned *)
EndUnconfirmed(c) ==
  /\ phase[c] = "owner"
  /\ ~world
  /\ Over(c)
  /\ SetError(c, "cleanup")
  /\ UNCHANGED <<owner, reply, cancel, cleaned, life, process, busy, agentVars,
                 closures, world>>

(* Mutant: a supervisor that panicked claims its cleanup. *)
CompletePanicked(c) ==
  /\ phase[c] = "release"
  /\ Over(c)
  /\ Release(c)
  /\ UNCHANGED <<owner, reply, cancel, error, life, process, busy, tools, turn,
                 joining, failed, closures, world>>

(* complete_cleanup, or a panicked supervisor's last record *)
Complete(c) ==
  /\ phase[c] = "release"
  /\ Over(c)
  /\ IF outcome[c] = "panic"
       THEN SetError(c, "cleanup") /\ UNCHANGED <<tasks, cleaned>>
       ELSE /\ Release(c)
            /\ error' = [error EXCEPT ![c] = IF outcome[c] = "ok" THEN @ ELSE "failure"]
  /\ UNCHANGED <<owner, reply, cancel, life, process, busy, tools, turn,
                 joining, failed, closures, world>>

-----------------------------------------------------------------------------
(* The steps a supervisor takes without its worker *)
Supervise(c) ==
  \/ Launch(c) \/ StartRunner(c) \/ ReadFails(c)
  \/ CleanupOwnerFails(c) \/ SignalRunner(c) \/ Reap(c) \/ Prove(c)
  \/ Settle(c) \/ EndUnconfirmed(c) \/ Complete(c)

RunClosure == \E c \in Call : InjectTools(c) \/ RemoveOwner(c)

WorkerFrame(c) ==
  \/ Configure(c) \/ Return(c) \/ Inject(c) \/ Stopped(c) \/ StoppedUnproven(c)
  \/ \E d \in Call : FinishOther(c, d)

Failure(c) ==
  \/ LaunchFails(c) \/ ExchangeFails(c) \/ ProofFails(c)
  \/ TempFails(c) \/ Panic(c)

Next ==
  \/ StartTurn \/ FinishTurn \/ AbortTurn \/ StopAgent \/ DropWorld
  \/ StopList \/ StopEnd \/ RunClosure
  \/ \E c \in Call :
       \/ Request(c) \/ Refuse(c) \/ Execute(c) \/ StopJoin(c)
       \/ Supervise(c) \/ Timeout(c) \/ Cancelled(c) \/ HostReplies(c)
       \/ WorkerFrame(c) \/ Failure(c)

Spec == Init /\ [][Next]_vars

(* A supervisor proceeds, notices a cancellation and an expired lifetime   *)
(* whatever its exchange awaits (the select of run_runner), a signalled    *)
(* runner proves its cleanup, frames run the closures, finish is polled.   *)
(* Nothing makes a worker send a frame.                                    *)
Fairness ==
  /\ WF_vars(StopList) /\ WF_vars(StopEnd) /\ WF_vars(RunClosure)
  /\ \A c \in Call :
       /\ WF_vars(Supervise(c))
       /\ WF_vars(Timeout(c)) /\ WF_vars(Cancelled(c)) /\ WF_vars(HostReplies(c))
       /\ WF_vars(StopJoin(c))

FairSpec == Spec /\ Fairness

-----------------------------------------------------------------------------
(* Properties *)

(* An aborted turn leaves no call of it unanswered, and none that was still*)
(* on its way is accepted afterwards (README.md:23, handler.rs:72-87).     *)
TurnSettled == turn = "aborted" => Unreturned = {}

(* The collection lists no task that is cleaned up, and a task is cleaned  *)
(* up only after its caller was answered: no query sees a completed task   *)
(* and no caller waits for one (components.rs:88-107).                     *)
CleanedGone ==
  \A c \in Call : cleaned[c] => c \notin tasks /\ reply[c] # None

(* Injected entries and unanswered calls have an owner that is still in    *)
(* the collection: whenever injection, the calls of the entry and the      *)
(* owner's cleanup race, nothing is left to wait for a gone owner          *)
(* (handler.rs:127-137, 467-517).                                          *)
OwnerKept ==
  /\ tools \subseteq tasks
  /\ \A c \in Unreturned : owner[c] # None => owner[c] \in tasks

(* A task is cleaned up only when its processes are gone, whatever failed. *)
NoLeak == \A c \in Call : cleaned[c] => ~process[c]

(* A supervisor that is over leaves no task to wait for: it is out of the  *)
(* collection, or its error tells finish that the cleanup failed.          *)
EndTold == \A c \in tasks : phase[c] = "end" => CleanupFailed(c)

(* Whatever fails, is injected or is cancelled, a task is listed, owned and *)
(* supervised until it is clean: the four above, and the types.             *)
TasksKept ==
  /\ ToolTypeOK
  /\ CleanedGone
  /\ OwnerKept
  /\ NoLeak
  /\ EndTold

(* A call is answered once: the worker's result, the abort, the owner's    *)
(* end, a failure and MissingReturn race for one reply.                    *)
AnsweredOnce ==
  [][\A c \in Call : reply[c] # None => reply'[c] = reply[c]]_vars

(* The stop flow never finds a task once every finish succeeded: its list  *)
(* is complete, for nothing is accepted after the Agent left Working       *)
(* (agent/plugin/src/handler.rs:985-993).                                  *)
StopComplete == turn = "joining" /\ joining = {} /\ failed = {} => tasks = {}

(* A cancelled task ends, also when tasks finish one another in a circle.  *)
CancelEnds == \A c \in Call : cancel[c] ~> phase[c] = "end"

(* A deadline answers the caller, whatever the worker awaits.              *)
DeadlineAnswers == \A c \in Call : life[c] = "running" ~> reply[c] # None

(* finish reports a failure only when a cleanup failed (DESIGN.md:84-89).  *)
FailureIsReal ==
  [][\A c \in failed' \ failed : error[c] # "pending"]_vars
=============================================================================
