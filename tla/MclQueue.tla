------------------------------ MODULE MclQueue ------------------------------
(***************************************************************************)
(* The MCL command queue of one Agent: margatroid/mcl.  Clients and the    *)
(* Driver's program send commands as events; a frame of the runtime loop   *)
(* accepts them, reads results and hands the head of the queue to a task,  *)
(* execute_command, which asks the storage and the World and comes back as *)
(* an event.  A stop closes the queue and waits on its drain; a restart    *)
(* then replaces it.                                                       *)
(*                                                                         *)
(* An element of Command is one request with its own reply channel; ids    *)
(* are never used twice (lua_runtime/plugin/src/handler.rs:480, dto        *)
(* handler.rs:88-135), so a command stands for its id.  What a command     *)
(* does is left open; turns are the matter of ToolTasks.                   *)
(***************************************************************************)
EXTENDS Integers, Sequences, FiniteSets

CONSTANTS
  Command,    (* requests                                                  *)
  Own,        (* those the Driver's program sends; the rest are clients'   *)
  None,       (* the empty Option                                          *)
  MaxStarts,  (* bound on the starts of the Agent                          *)
  Faults,     (* the kinds of failure that happen                          *)
  Ticking     (* frames run whether or not an event waits, as during the   *)
              (* shutdown of the daemon; FALSE: the event-driven loop      *)

ASSUME CommandAssumption ==
  /\ IsFiniteSet(Command)
  /\ Own \subseteq Command
  /\ None \notin Command
  /\ MaxStarts \in Nat \ {0}
  /\ Faults \subseteq {"parse", "storage", "unsure", "audit", "panic", "leave",
                     "start"}
  /\ Ticking \in BOOLEAN

VARIABLES
  (* the component MclQueue, its drain and who waits on it *)
  commands, pending, accepting, outstanding, drainError,
  waiter,     (* stop_runtime's wait on the drain                          *)
  woken,      (* its Notified has been notified                            *)
  (* commands *)
  sent, inbox,   (* requests made; MclCommand events not yet read          *)
  answer,     (* what its reply channel was given                          *)
  stage,      (* where its execute_command is                              *)
  ran, res,   (* the result of its operation; the result of the task       *)
  token,      (* its context's cancellation token                          *)
  dropped,    (* the request's cancellation token                          *)
  audited,    (* the storage holds its audit record                        *)
  inst,       (* the start it belongs to                                   *)
  (* the Agent, the clients and the loop *)
  state, starts,
  up,         (* the component DriverLuaVm is there                        *)
  gone,       (* client commands whose client has disconnected             *)
  phase,      (* where the frame is; "out" between frames                  *)
  due,        (* a normal event waits: the loop runs another frame         *)
  relay,      (* answered client commands whose task is not over           *)
  publish     (* the state to publish is dirty, a snapshot is being taken  *)

queueVars == <<commands, pending, accepting, outstanding, drainError>>
waitVars == <<waiter, woken>>
taskVars == <<ran, res, token, dropped, audited>>
agentVars == <<state, starts, up, gone>>
loopVars == <<inbox, phase, due, relay, publish>>
commandVars == <<sent, inst, answer>>
vars == <<queueVars, waitVars, commandVars, stage, taskVars, agentVars, loopVars>>

Executing == {"run", "storage", "closure", "asked", "audit", "result"}
Result == {"none", "ok", "failed", "cancelled", "refused", "unaudited", "unsure"}

MclTypeOK ==
  /\ commands \in Seq(Command)
  /\ pending \in Command \cup {None}
  /\ accepting \in BOOLEAN
  /\ outstanding \in 0 .. Cardinality(Command)
  /\ drainError \in BOOLEAN
  /\ waiter \in {"none", "startup", "begin", "snapshot", "enable", "check", "looked", "asleep",
                 "ok", "error"}
  /\ woken \in BOOLEAN
  /\ inbox \in Seq(Command)
  /\ sent \subseteq Command
  /\ answer \in [Command -> Result]
  /\ stage \in [Command -> {"none", "over"} \cup Executing]
  /\ ran \in [Command -> Result]
  /\ res \in [Command -> Result]
  /\ token \in [Command -> BOOLEAN]
  /\ dropped \in [Command -> BOOLEAN]
  /\ audited \in [Command -> BOOLEAN]
  /\ inst \in [Command -> 0 .. MaxStarts]
  /\ state \in {"idle", "stopping", "restarting", "starting"}
  /\ starts \in 1 .. MaxStarts
  /\ up \in BOOLEAN
  /\ gone \subseteq Command \ Own
  /\ phase \in {"out", "closures", "commands", "results", "queue"}
  /\ due \in BOOLEAN
  /\ relay \subseteq Command \ Own
  /\ publish \subseteq {"dirty", "snapshot"}

(* an Agent that runs, with the queue and the program of its first start *)
Init ==
  /\ commands = <<>>
  /\ pending = None
  /\ accepting = TRUE
  /\ outstanding = 0
  /\ drainError = FALSE
  /\ waiter = "none"
  /\ woken = FALSE
  /\ inbox = <<>>
  /\ sent = {}
  /\ answer = [c \in Command |-> "none"]
  /\ stage = [c \in Command |-> "none"]
  /\ ran = [c \in Command |-> "none"]
  /\ res = [c \in Command |-> "none"]
  /\ token = [c \in Command |-> FALSE]
  /\ dropped = [c \in Command |-> FALSE]
  /\ audited = [c \in Command |-> FALSE]
  /\ inst = [c \in Command |-> 0]
  /\ state = "idle"
  /\ starts = 1
  /\ up = TRUE
  /\ gone = {}
  /\ phase = "out"
  /\ due = FALSE
  /\ relay = {}
  /\ publish = {}

-----------------------------------------------------------------------------
(* Shared parts *)

(* validate_source *)
Valid(c) ==
  /\ c \notin gone
  /\ state # "stopping"
  /\ state \in {"starting", "restarting"} => c \in Own
  /\ c \in Own => up /\ inst[c] = starts

(* Mutant: only the source is checked. *)
CheckActionSource(c) == Valid(c)

(* check_action *)
CheckAction(c) ==
  /\ ~token[c]
  /\ Valid(c)
  /\ accepting
  /\ pending = c
  /\ commands # <<>> /\ Head(commands) = c

(* a normal event is sent; not kept when frames run anyway *)
Wake == due' = ~Ticking

(* respond: the sender is taken once; the task that reads the reply for a  *)
(* client is followed only for the frame it brings                         *)
Respond(c, r) ==
  /\ answer' = [answer EXCEPT ![c] = IF @ = "none" THEN r ELSE @]
  /\ relay' = IF Ticking \/ answer[c] # "none" THEN relay ELSE relay \cup ({c} \ Own)

(* Mutant: an outcome that is known clears the error of one that is not. *)
ErrorAfterLast(r) == r = "unsure"

(* DrainState.error after completed *)
ErrorAfter(r) == drainError \/ r = "unsure"

(* Mutant: the waiter is registered only when it sleeps. *)
WakesAsleep == woken' = (woken \/ waiter = "asleep")

(* notify_waiters: the waiter registered before it looked *)
Wakes == woken' = (woken \/ waiter \in {"check", "looked", "asleep"})

(* settle_head; the second case is a queue that changed meanwhile *)
Settle(c, r) ==
  IF commands # <<>> /\ Head(commands) = c /\ pending \in {None, c}
    THEN /\ Respond(c, r)
         /\ commands' = Tail(commands)
         /\ pending' = None
         /\ outstanding' = IF outstanding = 0 THEN 0 ELSE outstanding - 1
         /\ drainError' = ErrorAfter(r)
         /\ Wakes
         /\ UNCHANGED accepting
    ELSE Respond(c, "refused") /\ UNCHANGED <<queueVars, woken>>

-----------------------------------------------------------------------------
(* Senders *)

(* the Driver's program awaits its reply *)
Calling(c) == c \in Own \cap sent /\ answer[c] = "none"

(* MclHost of a program, one call at a time; handle_message of a client *)
Send(c) ==
  /\ c \notin sent
  /\ c \in Own => up /\ accepting /\ \A d \in Own : ~Calling(d)
  /\ sent' = sent \cup {c}
  /\ inst' = [inst EXCEPT ![c] = IF c \in Own THEN starts ELSE 0]
  /\ inbox' = Append(inbox, c)
  /\ Wake
  /\ UNCHANGED <<queueVars, waitVars, answer, stage, taskVars, agentVars, phase, relay,
                 publish>>

(* the event ResponseReady, which marks the state of a live client dirty *)
ClientTask(c) ==
  /\ c \in relay
  /\ relay' = relay \ {c}
  /\ Wake
  /\ publish' = publish \cup {"dirty" : d \in {c} \ gone}
  /\ UNCHANGED <<queueVars, waitVars, commandVars, stage, taskVars, agentVars, inbox, phase>>

(* the event SnapshotReady *)
Snapshotted ==
  /\ "snapshot" \in publish
  /\ publish' = publish \ {"snapshot"}
  /\ Wake
  /\ UNCHANGED <<queueVars, waitVars, commandVars, stage, taskVars, agentVars, inbox, phase,
                 relay>>

Leave(c) ==
  /\ "leave" \in Faults
  /\ c \notin Own \cup gone
  /\ gone' = gone \cup {c}
  /\ Wake
  /\ UNCHANGED <<queueVars, waitVars, commandVars, stage, taskVars, state, starts, up, inbox,
                 phase, relay, publish>>

-----------------------------------------------------------------------------
(* A frame: closures, then mcl_command_system *)

(* publish_state of the last frame belongs to the next one here *)
BeginFrame ==
  /\ phase = "out"
  /\ due \/ Ticking
  /\ phase' = "closures"
  /\ due' = FALSE
  /\ publish' = IF publish = {"dirty"} THEN {"snapshot"} ELSE publish
  /\ UNCHANGED <<queueVars, waitVars, commandVars, stage, taskVars, agentVars, inbox, relay>>

EndPhase ==
  /\ \/ /\ phase = "closures" /\ phase' = "commands"
        /\ waiter # "snapshot" /\ \A c \in Command : stage[c] # "closure"
     \/ phase = "commands" /\ phase' = "results" /\ inbox = <<>>
     \/ /\ phase = "results" /\ phase' = "queue"
        /\ \A c \in Command : stage[c] # "result"
  /\ UNCHANGED <<queueVars, waitVars, commandVars, stage, taskVars, agentVars, inbox, due,
                 relay, publish>>

(* Mutant: an accepted command goes before those that wait. *)
AcceptedFirst(c) == <<c>> \o commands

(* push_back *)
Accepted(c) == Append(commands, c)

(* handle_command *)
HandleCommand ==
  /\ phase = "commands"
  /\ inbox # <<>>
  /\ LET c == Head(inbox)
     IN IF Valid(c) /\ ~dropped[c] /\ accepting
          THEN /\ inst' = [inst EXCEPT ![c] = starts]
               /\ commands' = Accepted(c)
               /\ outstanding' = outstanding + 1
               /\ UNCHANGED <<answer, relay>>
          ELSE Respond(c, "refused") /\ UNCHANGED <<commands, inst, outstanding>>
  /\ inbox' = Tail(inbox)
  /\ UNCHANGED <<pending, accepting, drainError, waitVars, sent, stage, taskVars, agentVars,
                 phase, due, publish>>

(* handle_command_result *)
HandleResult(c) ==
  /\ phase = "results"
  /\ stage[c] = "result"
  /\ stage' = [stage EXCEPT ![c] = "over"]
  /\ Settle(c, res[c])
  /\ UNCHANGED <<waiter, sent, inst, taskVars, agentVars, inbox, phase, due, publish>>

Refused(c) == ~Valid(c) \/ "parse" \in Faults

(* the head is handed to a task *)
Dispatch(c) ==
  /\ pending' = c
  /\ stage' = [stage EXCEPT ![c] = "run"]
  /\ UNCHANGED <<commands, accepting, outstanding, drainError, woken, answer, relay>>

Drop(c, r) == Settle(c, r) /\ UNCHANGED stage

(* Mutant: the queue looks whether it is closed before whether it is busy. *)
HandleQueueClosed ==
  /\ phase = "queue"
  /\ phase' = "out"
  /\ IF commands = <<>>
       THEN UNCHANGED <<queueVars, woken, answer, stage, relay>>
       ELSE LET c == Head(commands)
            IN IF ~accepting \/ dropped[c] THEN Drop(c, "cancelled")
               ELSE IF pending # None THEN UNCHANGED <<queueVars, woken, answer, stage, relay>>
               ELSE \/ Refused(c) /\ Drop(c, "refused")
                    \/ Valid(c) /\ Dispatch(c)
  /\ UNCHANGED <<waiter, sent, inst, taskVars, agentVars, inbox, due, publish>>

(* handle_queue: at most one head is settled or dispatched in a frame *)
HandleQueue ==
  /\ phase = "queue"
  /\ phase' = "out"
  /\ IF pending # None \/ commands = <<>>
       THEN UNCHANGED <<queueVars, woken, answer, stage, relay>>
       ELSE LET c == Head(commands)
            IN IF ~accepting \/ dropped[c] THEN Drop(c, "cancelled")
               ELSE \/ Refused(c) /\ Drop(c, "refused")
                    \/ Valid(c) /\ Dispatch(c)
  /\ UNCHANGED <<waiter, sent, inst, taskVars, agentVars, inbox, due, publish>>

-----------------------------------------------------------------------------
(* execute_command *)

Task(c, p) ==
  /\ stage' = [stage EXCEPT ![c] = p]
  /\ Wake
  /\ UNCHANGED <<queueVars, waitVars, commandVars, token, dropped, agentVars, inbox, phase,
                 relay, publish>>

(* the operation is over: the audit record is sent to the storage *)
Ends(c, r) ==
  /\ Task(c, "audit")
  /\ ran' = [ran EXCEPT ![c] = r]
  /\ res' = [res EXCEPT ![c] = r]
  /\ UNCHANGED audited

Awaits(c, p) == Task(c, p) /\ UNCHANGED <<ran, res, audited>>

(* Mutant: a command that is cancelled in time is not audited. *)
BeginSilent(c) ==
  /\ stage[c] = "run"
  /\ IF token[c] \/ dropped[c]
       THEN /\ Task(c, "result")
            /\ ran' = [ran EXCEPT ![c] = "cancelled"]
            /\ res' = [res EXCEPT ![c] = "cancelled"]
            /\ UNCHANGED audited
       ELSE Awaits(c, "storage") \/ Awaits(c, "closure") \/ Ends(c, "failed")

(* execute_operation: a request to the storage, a closure, or an error *)
Begin(c) ==
  /\ stage[c] = "run"
  /\ IF token[c] \/ dropped[c]
       THEN Ends(c, "cancelled")
       ELSE Awaits(c, "storage") \/ Awaits(c, "closure") \/ Ends(c, "failed")

(* the storage's reply; an effect that reads messages goes on to the World *)
StorageEnds(c) ==
  /\ stage[c] = "storage"
  /\ \/ Ends(c, "ok")
     \/ Awaits(c, "closure")
     \/ token[c] /\ Ends(c, "cancelled")
     \/ "storage" \in Faults /\ Ends(c, "failed")
     \/ "unsure" \in Faults /\ Ends(c, "unsure")

(* in_world: what the closure does, or a request whose reply is awaited *)
RunClosure(c) ==
  /\ phase = "closures"
  /\ stage[c] = "closure"
  /\ \/ ~CheckAction(c) /\ Ends(c, IF token[c] THEN "cancelled" ELSE "refused")
     \/ CheckAction(c) /\ (Ends(c, "ok") \/ Ends(c, "failed") \/ Awaits(c, "asked"))

(* the inference, the tools or an import answered *)
Reply(c) ==
  /\ stage[c] = "asked"
  /\ \/ Ends(c, "ok")
     \/ Ends(c, "failed")
     \/ "unsure" \in Faults /\ Ends(c, "unsure")

(* the select of execute_command: the request was cancelled *)
Cancel(c) ==
  /\ stage[c] \in {"run", "storage", "closure", "asked"}
  /\ dropped[c] /\ ~token[c]
  /\ token' = [token EXCEPT ![c] = TRUE]
  /\ UNCHANGED <<queueVars, waitVars, commandVars, stage, res, ran, dropped, audited, agentVars,
                 loopVars>>

(* the audit goes by a token of its own; its failure replaces the result *)
AuditEnds(c) ==
  /\ stage[c] = "audit"
  /\ Task(c, "result")
  /\ \/ audited' = [audited EXCEPT ![c] = TRUE] /\ UNCHANGED res
     \/ /\ "audit" \in Faults
        /\ \E r \in {"unaudited"} \cup ({"unsure"} \cap Faults) :
             res' = [res EXCEPT ![c] = r]
        /\ UNCHANGED audited
  /\ UNCHANGED ran

(* catch_unwind: what panicked is not audited and its cleanup is not known *)
Panics(c) ==
  /\ "panic" \in Faults
  /\ stage[c] \in Executing \ {"result"}
  /\ Task(c, "result")
  /\ ran' = [ran EXCEPT ![c] = "unsure"]
  /\ res' = [res EXCEPT ![c] = "unsure"]
  /\ UNCHANGED audited

-----------------------------------------------------------------------------
(* Stop and restart *)

(* cancel_runtime in the request; the program's calls are cancelled too *)
Close(s) ==
  /\ phase = "out"
  /\ state = "idle"
  /\ s = "restarting" => starts < MaxStarts
  /\ state' = s
  /\ accepting' = FALSE
  /\ token' = [c \in Command |-> token[c] \/ stage[c] \in Executing]
  /\ dropped' = [c \in Command |-> dropped[c] \/ Calling(c)]
  /\ waiter' = "begin"
  /\ Wake
  /\ UNCHANGED <<commands, pending, outstanding, drainError, woken, commandVars, stage, res,
                 ran, audited, starts, up, gone, inbox, phase, relay, publish>>

(* start_vm: the program is not ready; startup then cleans up by a stop *)
NotReady ==
  /\ "start" \in Faults
  /\ state = "starting" /\ waiter = "none"
  /\ dropped' = [c \in Command |-> dropped[c] \/ Calling(c)]
  /\ waiter' = "startup"
  /\ Wake
  /\ UNCHANGED <<queueVars, woken, commandVars, stage, ran, res, token, audited, agentVars,
                 inbox, phase, relay, publish>>

Wait(from, to) ==
  /\ waiter = from
  /\ waiter' = to
  /\ UNCHANGED <<commands, pending, outstanding, drainError, commandVars, stage, ran, res,
                 dropped, audited, agentVars, inbox, phase, relay, publish>>

Look(to) == Wait("check", to) /\ UNCHANGED <<accepting, token, woken>>

(* stop_runtime: its first closure, which cancels the runtime (again), and *)
(* then MclDrain::wait                                                     *)
StopStep ==
  \/ /\ ~up /\ Wait("startup", "begin")
     /\ Wake /\ UNCHANGED <<accepting, token, woken>>
  \/ Wait("begin", "snapshot") /\ Wake /\ UNCHANGED <<accepting, token, woken>>
  \/ /\ phase = "closures" /\ Wait("snapshot", "enable")
     /\ accepting' = FALSE
     /\ token' = [c \in Command |-> token[c] \/ stage[c] \in Executing]
     /\ Wake /\ UNCHANGED woken
  \/ Wait("enable", "check") /\ woken' = FALSE /\ UNCHANGED <<accepting, token, due>>
  \/ drainError /\ Look("error") /\ Wake
  \/ ~drainError /\ outstanding = 0 /\ Look("ok") /\ Wake
  \/ ~drainError /\ outstanding > 0 /\ Look("looked") /\ UNCHANGED due
  \/ Wait("looked", "asleep") /\ UNCHANGED <<accepting, token, due, woken>>
  \/ woken /\ Wait("asleep", "enable") /\ UNCHANGED <<accepting, token, due, woken>>

(* the program is over and its component gone: see DriverVm *)
VmOver ==
  /\ up
  /\ waiter \notin {"none", "begin", "snapshot"}
  /\ up' = FALSE
  /\ Wake
  /\ UNCHANGED <<queueVars, waitVars, commandVars, stage, taskVars, state, starts, gone, inbox,
                 phase, relay, publish>>

(* install_runtime, and the program that is started then *)
Install ==
  /\ phase = "closures"
  /\ state = "restarting"
  /\ waiter = "ok" /\ ~up
  /\ commands = <<>> /\ pending = None
  /\ state' = "starting"
  /\ starts' = starts + 1
  /\ up' = TRUE
  /\ accepting' = TRUE
  /\ outstanding' = 0
  /\ drainError' = FALSE
  /\ waiter' = "none"
  /\ woken' = FALSE
  /\ Wake
  /\ UNCHANGED <<commands, pending, commandVars, stage, taskVars, gone, inbox, phase, relay,
                 publish>>

Started ==
  /\ state = "starting" /\ waiter = "none"
  /\ state' = "idle"
  /\ Wake
  /\ UNCHANGED <<queueVars, waitVars, commandVars, stage, taskVars, starts, up, gone, inbox, phase,
                 relay, publish>>

-----------------------------------------------------------------------------
FrameStep == BeginFrame \/ EndPhase \/ HandleCommand \/ HandleQueue
CommandStep(c) == HandleResult(c) \/ RunClosure(c)
TaskStep(c) == Begin(c) \/ StorageEnds(c) \/ Cancel(c) \/ AuditEnds(c)

Next ==
  \/ FrameStep \/ StopStep \/ Snapshotted \/ VmOver \/ Install \/ Started \/ NotReady
  \/ \E s \in {"stopping", "restarting"} : Close(s)
  \/ \E c \in Command :
       \/ Send(c) \/ Leave(c) \/ ClientTask(c)
       \/ CommandStep(c) \/ TaskStep(c) \/ Reply(c) \/ Panics(c)

Spec == Init /\ [][Next]_vars

(* The loop runs a frame when one is due and to its end, tasks are polled, *)
(* the storage answers, and what a command asked answers once cancelled.   *)
Fairness ==
  /\ WF_vars(FrameStep) /\ WF_vars(StopStep) /\ WF_vars(Snapshotted) /\ WF_vars(VmOver)
  /\ \A c \in Command :
       /\ WF_vars(CommandStep(c))
       /\ WF_vars(TaskStep(c))
       /\ WF_vars(token[c] /\ Reply(c))
       /\ WF_vars(ClientTask(c))

FairSpec == Spec /\ Fairness

-----------------------------------------------------------------------------
(* Properties *)

(* A command that executes is the pending head of the present queue: no    *)
(* two execute at a time, also across a restart, and settle_head never     *)
(* meets a queue that changed (handler.rs:138-150, 217-225).               *)
OneRuns ==
  \A c \in Command : stage[c] \in Executing =>
    commands # <<>> /\ Head(commands) = c /\ pending = c

(* Every command that was executed is audited, cancelled or not, unless    *)
(* its answer says that the audit failed or that it is not known what the  *)
(* command did (handler.rs:245-270).                                       *)
AuditKept ==
  \A c \in Command :
    answer[c] # "none" /\ ran[c] # "none" /\ ~audited[c] =>
      answer[c] \in {"unaudited", "unsure"}

(* Commands are executed one at a time, from the head of the queue, and    *)
(* none without a record (MclTypeOK holds of the queue).                   *)
ExecutionKept ==
  /\ MclTypeOK
  /\ OneRuns
  /\ AuditKept

(* The drain counts the commands of the queue, neither those refused nor   *)
(* those of a queue that was replaced (handler.rs:115, 242).               *)
DrainCounts == outstanding = Len(commands)

(* A drain that let the stop go on has seen every command of the queue end *)
(* and none whose cleanup or commit is unknown (core types.rs:123-142).    *)
DrainSound ==
  waiter = "ok" =>
    /\ commands = <<>>
    /\ \A c \in Command : /\ stage[c] \notin Executing
                          /\ ~(inst[c] = starts /\ answer[c] = "unsure")

(* The stop sleeps only while there is something to wait for: it registers *)
(* before it looks (core types.rs:126-141).                                *)
NoLostDrain == waiter = "asleep" /\ ~woken => outstanding > 0 /\ ~drainError

(* The drain is exact: it counts what is queued, lets a stop go on only    *)
(* when nothing is left and nothing unknown, and lets it sleep only while  *)
(* somebody will wake it (core types.rs:100-143).                          *)
DrainExact ==
  /\ DrainCounts
  /\ DrainSound
  /\ NoLostDrain

(* Once an Agent is stopped nothing a command does changes it, and never a *)
(* command of a program that was replaced (handler.rs:604-633).            *)
ClosedQuiet ==
  [][\A c \in Command :
       stage[c] = "closure" /\ (stage'[c] = "asked" \/ ran'[c] = "ok") =>
         accepting /\ (c \in Own => up /\ inst[c] = starts)]_vars

(* A stop that waits on the drain learns the outcome, though a frame drops *)
(* one command of the closed queue at most and the loop runs a frame only  *)
(* for an event (handler.rs:138-148, core types.rs:126-143).               *)
StopDrains == waiter = "enable" ~> waiter \in {"ok", "error"}

(* The queue keeps the promise of CommandService: commands are accepted,   *)
(* taken and settled in one order, each is taken and answered once at most, *)
(* and nothing is taken after a close, through every stop and restart      *)
(* (handler.rs:80-243).                                                    *)
Service == INSTANCE CommandService
             WITH asked <- sent, line <- commands, now <- pending, open <- accepting,
                  took <- {c \in Command : stage[c] # "none"}, Outcome <- Result \ {"none"}

ServiceSpec == Service!Spec

(* "When the head has no pending: parse once, ... set pending and submit"  *)
(* (mcl/DESIGN.md:125-129): a head that waits is settled or executed.      *)
HeadAdvances ==
  (commands # <<>> /\ pending = None) ~> (commands = <<>> \/ pending # None)

(* "A cleanup failure stays an error" (mcl/README.md:77): a drain that let *)
(* the stop go on saw no operation whose cleanup or commit is unknown.     *)
CleanupKept ==
  waiter = "ok" => \A c \in Command : ~(inst[c] = starts /\ ran[c] = "unsure")
=============================================================================
