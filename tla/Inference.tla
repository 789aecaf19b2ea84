------------------------------ MODULE Inference ------------------------------
(***************************************************************************)
(* The inference of one Agent: inference/plugin/src/handler.rs.  A request *)
(* is an event; its handler answers it or registers a handle and submits a *)
(* closure, which spawns the supervisor; the supervisor spawns a worker    *)
(* that reads the provider's stream into a bounded channel, and takes the  *)
(* fragments through a gate into an accumulator.  The World closes the     *)
(* gate and cancels when the turn is aborted or the Agent is stopped.      *)
(*                                                                         *)
(* The Driver, which asks and ends its turns, and the provider are the     *)
(* environment.  What a client is shown is the number of pieces of text.   *)
(* The world thread takes two steps to cancel, because supervisor and      *)
(* worker run beside it.                                                   *)
(***************************************************************************)
EXTENDS StreamDecoder

CONSTANTS
  Request,     (* inference requests in the order they are asked: 1..n     *)
  Wanted,      (* what each may ask: [route, conv, config]                 *)
  Says,        (* chunks the provider may send to each request             *)
  MaxChunks,   (* bound on the chunks of each                              *)
  MaxTurns,    (* bound on the turns                                       *)
  MaxVm,       (* bound on the lives of the Driver's machine               *)
  Capacity,    (* FRAGMENT_CAPACITY                                        *)
  Faults       (* of each: "launch", "late", "reply", "network", "panic", "slow" *)

(* None is no request, no turn, no way to stop, no kind of a reply, no error *)
ASSUME InferenceAssumption ==
  /\ None \notin Request \cup Nat \cup {"stop", "restart"} \cup {"ok", "frozen", "empty", "error", "used"}
                \cup {"Cancelled", "ReplyClosed", "Timeout", "Provider"}
  /\ Capacity \in Nat

(* what is asked and said has its types *)
ASSUME InputAssumption ==
  \A r \in Request :
    /\ \A w \in Wanted[r] : w.conv = None \/ ConversationOK(w.conv)
    /\ \A format \in Formats : \A lines \in Says[r][format] : LinesOK(lines)

VARIABLES
  agent,   (* state, turn, the machine and the stop under way              *)
  active,  (* ActiveInference.current                                      *)
  world,   (* the second step of a cancellation the world thread is in     *)
  driver,  (* the Driver waits for a wake to end its turn, or has one      *)
  req,     (* requests: where they are, what they carry, their reply       *)
  gate,    (* StreamGate: closed, accumulator                              *)
  sup,     (* supervisors                                                  *)
  worker,  (* readers of the provider's stream                             *)
  chan,    (* fragments on their way                                       *)
  notes,   (* InferenceCleanupFinished events                              *)
  seen     (* text shown to the client, text the provider claims           *)

vars == <<agent, active, world, driver, req, gate, sup, worker, chan, notes, seen>>
tasks == <<gate, sup, worker, chan, notes, seen>>

NoReply == [kind |-> None]
NoRequest == [phase |-> "none", turn |-> None, vm |-> None, cancel |-> FALSE, heard |-> TRUE,
              reply |-> NoReply, ask |-> None, body |-> None]
NoGate == [closed |-> FALSE, acc |-> NewAccumulator]
NoSup == [pc |-> "off", got |-> None, frag |-> None]
NoWorker == [pc |-> "off", d |-> None, out |-> <<>>, last |-> FALSE, chunks |-> 0, result |-> None]

Used == [kind |-> "used"]

Replied(r) == req[r].reply # NoReply

Init ==
  /\ agent = [state |-> "Idle", turn |-> None, turns |-> 0, vm |-> 1, stop |-> None]
  /\ active = None
  /\ world = None
  /\ driver = [waiting |-> FALSE, woken |-> FALSE]
  /\ req = [r \in Request |-> NoRequest]
  /\ gate = [r \in Request |-> NoGate]
  /\ sup = [r \in Request |-> NoSup]
  /\ worker = [r \in Request |-> NoWorker]
  /\ chan = [r \in Request |-> <<>>]
  /\ notes = {}
  /\ seen = [r \in Request |-> [shown |-> 0, claimed |-> 0]]

Failure(kind) == [kind |-> "error", error |-> kind]

(* InferenceHandle::is_finished *)
IsFinished(r) == sup[r].pc = "done" \/ req[r].phase = "failed"

(***************************************************************************)
(* The Driver                                                              *)
(***************************************************************************)
Asked == {r \in Request : req[r].phase # "none"}

StartTurn ==
  /\ world = None
  /\ agent.state = "Idle" /\ agent.turns < MaxTurns
  /\ agent' = [agent EXCEPT !.state = "Working", !.turn = agent.turns + 1, !.turns = @ + 1]
  /\ UNCHANGED <<active, world, driver, req, tasks>>

(* the history a request goes on with: the last answer, which a Driver leaves *)
(* out when it says nothing, and what its calls gave                          *)
Continue(answer) ==
  LET said == Assistant(answer.content > 0, answer.reasoning > 0, answer.calls, answer.replay)
  IN <<User(0)>> \o (IF Speaks(said) THEN <<said>> ELSE <<>>)
     \o [i \in DOMAIN answer.calls |-> ToolResult(answer.calls[i], i % 2)]

Conversations(r, w) ==
  IF w.conv # None THEN {w.conv}
  ELSE {Continue(req[q].reply) : q \in {q \in Asked : req[q].reply.kind = "ok"}}

(* execute_inference, when the one before has its answer *)
Ask(r) ==
  /\ world = None
  /\ agent.state = "Working" /\ agent.turn # None /\ ~driver.waiting
  /\ req[r].phase = "none"
  /\ \A q \in Request : q < r => Replied(q)
  /\ \E w \in Wanted[r] : \E conv \in Conversations(r, w) :
       req' = [q \in Request |->
                 IF q = r
                 THEN [NoRequest EXCEPT !.phase = "queued", !.turn = agent.turn, !.vm = agent.vm,
                         !.ask = [conv |-> conv, config |-> w.config, route |-> w.route]]
                 ELSE [req[q] EXCEPT !.reply = IF q < r THEN Used ELSE @]]
  /\ UNCHANGED <<agent, active, world, driver, tasks>>

(* finish_turn: refused while a task runs, and tried again after a wake *)
FinishTurn ==
  /\ world = None
  /\ agent.state = "Working"
  /\ \A r \in Asked : Replied(r)
  /\ driver.waiting => driver.woken
  /\ IF active # None /\ ~IsFinished(active)
     THEN /\ driver' = [waiting |-> TRUE, woken |-> FALSE]
          /\ UNCHANGED <<agent, active>>
     ELSE /\ driver' = [waiting |-> FALSE, woken |-> FALSE]
          /\ active' = None
          /\ agent' = [agent EXCEPT !.state = "Idle", !.turn = None]
  /\ UNCHANGED <<world, req, tasks>>

(***************************************************************************)
(* The World                                                               *)
(***************************************************************************)
Reply(r, answer) ==
  req' = [req EXCEPT ![r] = [NoRequest EXCEPT !.phase = "over", !.turn = req[r].turn,
                                              !.vm = req[r].vm, !.reply = answer]]

(* Mutant: an answered request does not make the next one wait *)
BusyIfUnanswered == active # None /\ ~IsFinished(active) /\ ~Replied(active)

Busy == active # None /\ ~IsFinished(active)

(* handle_inference *)
HandleInference(r) ==
  /\ world = None
  /\ req[r].phase = "queued"
  /\ IF agent.state = "Gone" THEN Reply(r, Failure("AgentMissing")) /\ UNCHANGED active
     ELSE IF agent.state # "Working" \/ agent.turn # req[r].turn
     THEN Reply(r, Answer("empty", 0, 0, <<>>, None)) /\ UNCHANGED active
     ELSE IF Busy THEN Reply(r, Failure("InferenceBusy")) /\ UNCHANGED active
     ELSE \E body \in {BuildRequest(req[r].ask.conv, req[r].ask.config, req[r].ask.route)} :
          IF body = None THEN Reply(r, Failure("Invalid")) /\ UNCHANGED active
          ELSE active' = r /\ req' = [req EXCEPT ![r].phase = "launch", ![r].body = body]
  /\ UNCHANGED <<agent, world, driver, tasks>>

(* handle_abort_control: the turn is over, the gate closes, then the token *)
Abort ==
  /\ world = None
  /\ agent.state = "Working" /\ agent.turn # None
  /\ agent' = [agent EXCEPT !.turn = None]
  /\ IF Busy /\ req[active].turn = agent.turn
     THEN /\ gate' = [gate EXCEPT ![active].closed = TRUE]
          /\ world' = [on |-> active, left |-> "token"]
     ELSE UNCHANGED <<gate, world>>
  /\ UNCHANGED <<active, driver, req, sup, worker, chan, notes, seen>>

(* handle_stop_agent, handle_restart_agent: cancel_runtime sets the token first *)
(* and closes the wake of the machine                                           *)
Stop(how) ==
  /\ world = None
  /\ agent.state = "Idle" \/ (how = "stop" /\ agent.state = "Working")
  /\ agent.vm < MaxVm \/ how = "stop"
  /\ agent' = [agent EXCEPT !.state = "Stopping", !.turn = None, !.stop = how]
  /\ IF ~Busy THEN UNCHANGED <<req, world>>
     ELSE /\ req' = [req EXCEPT ![active].cancel = TRUE]
          /\ world' = [on |-> active, left |-> "gate"]
  /\ driver' = [waiting |-> FALSE, woken |-> FALSE]
  /\ UNCHANGED <<active, tasks>>

(* InferenceHandle::cancel, second half *)
WorldStep ==
  /\ world # None
  /\ IF world.left = "token"
     THEN req' = [req EXCEPT ![world.on].cancel = TRUE] /\ UNCHANGED gate
     ELSE gate' = [gate EXCEPT ![world.on].closed = TRUE] /\ UNCHANGED req
  /\ world' = None
  /\ UNCHANGED <<agent, active, driver, sup, worker, chan, notes, seen>>

(* Mutant: nobody waits for the task *)
JoinedAtOnce ==
  /\ world = None
  /\ agent.stop \in {"stop", "restart"}
  /\ agent' = [agent EXCEPT !.stop = None, !.state = "Gone"]
  /\ active' = None
  /\ UNCHANGED <<world, driver, req, tasks>>

(* stop_runtime takes the handle and waits: the failure of a launch is its own *)
Joined ==
  /\ world = None
  /\ agent.stop \in {"stop", "restart"}
  /\ active # None => IsFinished(active)
  /\ IF active # None /\ req[active].phase = "failed"
     THEN agent' = [agent EXCEPT !.stop = "stuck"]
     ELSE IF agent.stop = "stop"
     THEN agent' = [agent EXCEPT !.stop = None, !.state = "Gone"]
     ELSE agent' = [agent EXCEPT !.stop = None, !.state = "Idle", !.vm = @ + 1]
  /\ active' = None
  /\ UNCHANGED <<world, driver, req, tasks>>

(* Mutant: too early, it is lost *)
CleanupOnce(r) ==
  /\ world = None
  /\ r \in notes
  /\ LET mine == req[r].vm = agent.vm /\ active = r /\ IsFinished(r)
     IN driver' = IF mine /\ agent.state # "Stopping" THEN [driver EXCEPT !.woken = TRUE] ELSE driver
  /\ notes' = notes \ {r}
  /\ UNCHANGED <<agent, active, world, req, gate, sup, worker, chan, seen>>

(* handle_cleanup_finished: too early, it is sent to itself again *)
HandleCleanup(r) ==
  /\ world = None
  /\ r \in notes
  /\ LET mine == req[r].vm = agent.vm /\ active = r
     IN /\ mine => IsFinished(r)
        /\ driver' = IF mine /\ agent.state # "Stopping" THEN [driver EXCEPT !.woken = TRUE] ELSE driver
  /\ notes' = notes \ {r}
  /\ UNCHANGED <<agent, active, world, req, gate, sup, worker, chan, seen>>

(***************************************************************************)
(* The supervisor                                                          *)
(***************************************************************************)
(* launch_inference: the handle owns the task before the task begins *)
Launch(r) ==
  /\ req[r].phase = "launch"
  /\ req' = [req EXCEPT ![r].phase = "run"]
  /\ sup' = [sup EXCEPT ![r].pc = "ready"]
  /\ UNCHANGED <<agent, active, world, driver, gate, worker, chan, notes, seen>>

(* InferenceLaunchFallback::fail; no notification when the closure never ran *)
LaunchFails(r) ==
  /\ "launch" \in Faults[r] /\ req[r].phase = "launch"
  /\ req' = [req EXCEPT ![r] = [@ EXCEPT !.phase = "failed", !.reply = Failure("TaskPanicked"),
                                        !.ask = None, !.body = None]]
  /\ gate' = [gate EXCEPT ![r].closed = TRUE]
  /\ notes' \in {notes, notes \cup {r}}
  /\ UNCHANGED <<agent, active, world, driver, sup, worker, chan, seen>>

Stopped(r) == req[r].cancel \/ gate[r].closed

(* finish_inference: the first result is the answer *)
FinishInference(r, answer) ==
  /\ gate' = [gate EXCEPT ![r].closed = TRUE]
  /\ IF ~Replied(r) THEN Reply(r, answer) ELSE UNCHANGED req

(* supervise_inference before its worker *)
Begin(r) ==
  /\ sup[r].pc = "ready"
  /\ \/ /\ Stopped(r)
        /\ FinishInference(r, FrozenResponse(gate[r].acc))
        /\ sup' = [sup EXCEPT ![r].pc = "notify"] /\ UNCHANGED worker
     \/ /\ ~Stopped(r) /\ ~req[r].heard
        /\ FinishInference(r, Failure("ReplyClosed"))
        /\ sup' = [sup EXCEPT ![r].pc = "notify"] /\ UNCHANGED worker
     \/ /\ ~Stopped(r) /\ req[r].heard /\ "late" \in Faults[r]
        /\ FinishInference(r, Failure("Timeout"))
        /\ sup' = [sup EXCEPT ![r].pc = "notify"] /\ UNCHANGED worker
     \/ /\ ~Stopped(r) /\ req[r].heard
        /\ sup' = [sup EXCEPT ![r].pc = "stream"]
        /\ worker' = [worker EXCEPT ![r] = [NoWorker EXCEPT !.pc = "connect",
                                                           !.d = NewDecoder(req[r].body.format)]]
        /\ req' = [req EXCEPT ![r].ask = None, ![r].body = None]
        /\ UNCHANGED gate
  /\ UNCHANGED <<agent, active, world, driver, chan, notes, seen>>

Ended(r) == worker[r].pc \in {"closing", "done"}

(* the stream is over: the gate closes, the worker is told, a failure is answered *)
Settle(r, got) ==
  LET known == IF got # None THEN got
               ELSE IF worker[r].pc = "done" /\ worker[r].result \notin {"ok", "panic"}
               THEN worker[r].result ELSE None
  IN /\ sup' = [sup EXCEPT ![r] = [pc |-> "join", got |-> got, frag |-> None]]
     /\ chan' = [chan EXCEPT ![r] = <<>>]
     /\ IF known \in {None, "Cancelled"}
        THEN gate' = [gate EXCEPT ![r].closed = TRUE] /\ UNCHANGED req
        ELSE FinishInference(r, Failure(known))
     /\ UNCHANGED <<agent, active, world, driver, worker, notes>>

(* Mutant: no deadline *)
InterruptNever(r) ==
  /\ sup[r].pc = "stream"
  /\ \/ req[r].cancel /\ Settle(r, "Cancelled")
     \/ ~req[r].cancel /\ ~req[r].heard /\ Settle(r, "ReplyClosed")
  /\ UNCHANGED seen

(* the order of the select: cancelled, nobody listens, too late *)
Interrupt(r) ==
  /\ sup[r].pc = "stream"
  /\ \/ req[r].cancel /\ Settle(r, "Cancelled")
     \/ ~req[r].cancel /\ ~req[r].heard /\ Settle(r, "ReplyClosed")
     \/ ~req[r].cancel /\ req[r].heard /\ Settle(r, "Timeout")
  /\ UNCHANGED seen

Receive(r) ==
  /\ sup[r].pc = "stream" /\ ~req[r].cancel /\ req[r].heard
  /\ chan[r] # <<>>
  /\ sup' = [sup EXCEPT ![r].pc = "accept", ![r].frag = Head(chan[r])]
  /\ chan' = [chan EXCEPT ![r] = Tail(@)]
  /\ UNCHANGED <<agent, active, world, driver, req, gate, worker, notes, seen>>

Take(r) ==
  LET next == Accept(gate[r].acc, sup[r].frag)
  IN IF next.bad THEN Settle(r, "Provider") /\ UNCHANGED seen
     ELSE /\ gate' = [gate EXCEPT ![r].acc = next.acc]
          /\ sup' = [sup EXCEPT ![r].pc = "stream", ![r].frag = None]
          /\ seen' = [seen EXCEPT ![r].shown = @ + next.text]
          /\ UNCHANGED <<agent, active, world, driver, req, worker, chan, notes>>

(* Mutant: a fragment received before the gate closed is accepted after it *)
AcceptLate(r) == sup[r].pc = "accept" /\ Take(r)

(* receive_stream, under the lock of the gate *)
AcceptFragment(r) ==
  /\ sup[r].pc = "accept"
  /\ IF Stopped(r) THEN Settle(r, "Cancelled") /\ UNCHANGED seen ELSE Take(r)

StreamEnds(r) ==
  /\ sup[r].pc = "stream" /\ ~req[r].cancel /\ req[r].heard
  /\ chan[r] = <<>> /\ Ended(r)
  /\ Settle(r, None)
  /\ UNCHANGED seen

(* what a joined worker makes of the stream *)
Result(r) ==
  IF worker[r].result = "panic" THEN Failure("TaskPanicked")
  ELSE IF sup[r].got = "Cancelled" \/ req[r].cancel THEN FrozenResponse(gate[r].acc)
  ELSE IF sup[r].got # None THEN Failure(sup[r].got)
  ELSE IF worker[r].result # "ok" THEN Failure(worker[r].result)
  ELSE IF Response(gate[r].acc) = None THEN Failure("Incomplete") ELSE Response(gate[r].acc)

Join(r) ==
  /\ sup[r].pc = "join" /\ worker[r].pc = "done"
  /\ FinishInference(r, Result(r))
  /\ sup' = [sup EXCEPT ![r].pc = "notify"]
  /\ UNCHANGED <<agent, active, world, driver, worker, chan, notes, seen>>

(* the worker has not ended in three seconds: the answer does not wait for it *)
JoinLate(r) ==
  /\ "slow" \in Faults[r] /\ sup[r].pc = "join" /\ worker[r].pc # "done"
  /\ FinishInference(r, Failure("CleanupFailed"))
  /\ sup' = [sup EXCEPT ![r].pc = "late"]
  /\ UNCHANGED <<agent, active, world, driver, worker, chan, notes, seen>>

JoinAtLast(r) ==
  /\ sup[r].pc = "late" /\ worker[r].pc = "done"
  /\ sup' = [sup EXCEPT ![r].pc = "notify"]
  /\ UNCHANGED <<agent, active, world, driver, req, gate, worker, chan, notes, seen>>

Notify(r) ==
  /\ sup[r].pc = "notify"
  /\ notes' = notes \cup {r}
  /\ sup' = [sup EXCEPT ![r].pc = "ending"]
  /\ UNCHANGED <<agent, active, world, driver, req, gate, worker, chan, seen>>

(* the runtime marks the task finished *)
EndTask(r) ==
  /\ sup[r].pc = "ending"
  /\ sup' = [sup EXCEPT ![r] = [NoSup EXCEPT !.pc = "done"]]
  /\ gate' = [gate EXCEPT ![r].acc = NewAccumulator]
  /\ worker' = [worker EXCEPT ![r] = NoWorker]
  /\ seen' = [seen EXCEPT ![r] = [shown |-> 0, claimed |-> 0]]
  /\ req' = [req EXCEPT ![r].turn = None, ![r].cancel = FALSE]
  /\ UNCHANGED <<agent, active, world, driver, chan, notes>>

(***************************************************************************)
(* The worker: read_provider                                               *)
(***************************************************************************)
(* the upstream token and the receiver of fragments *)
Upstream(r) == sup[r].pc \in {"join", "late"}

Reading(r) == worker[r].pc = "read" /\ worker[r].out = <<>> /\ ~worker[r].last

Connect(r) ==
  /\ worker[r].pc = "connect" /\ ~Upstream(r)
  /\ worker' = [worker EXCEPT ![r].pc = "read"]
  /\ UNCHANGED <<agent, active, world, driver, req, gate, sup, chan, notes, seen>>

Returns(r, result) ==
  /\ worker' = [worker EXCEPT ![r] = [NoWorker EXCEPT !.pc = "closing", !.result = result]]
  /\ UNCHANGED <<agent, active, world, driver, req, gate, sup, chan, notes>>

(* text the events of a chunk say the response has *)
Claim(format, l) ==
  IF l.line # "data" THEN 0
  ELSE IF format = "chat_completions" THEN (IF l.event.type = "chat" THEN l.event.text ELSE 0)
  ELSE IF format = "messages"
  THEN IF l.event.type = "content_block_start" /\ l.event.kind = "text" THEN l.event.n
       ELSE IF l.event.type = "content_block_delta" /\ l.event.delta = "text_delta"
       THEN l.event.n ELSE 0
  ELSE IF l.event.type = "output_item.done" /\ l.event.kind = "message" THEN l.event.n ELSE 0

Said(format, lines) == Total([i \in DOMAIN lines |-> Claim(format, lines[i])])

Decoded(r, next, last) ==
  IF next.bad THEN Returns(r, "Provider")
  ELSE /\ worker' = [worker EXCEPT ![r].d = next.d, ![r].out = next.out, ![r].last = last,
                                   ![r].chunks = @ + 1]
       /\ UNCHANGED <<agent, active, world, driver, req, gate, sup, chan, notes>>

ReadChunk(r) ==
  /\ Reading(r) /\ ~Upstream(r)
  /\ worker[r].chunks < MaxChunks
  /\ \E lines \in Says[r][worker[r].d.format] :
       /\ Decoded(r, Push(worker[r].d, lines), FALSE)
       /\ seen' = [seen EXCEPT ![r].claimed = @ + Said(worker[r].d.format, lines)]

ReadEnd(r) ==
  /\ Reading(r) /\ ~Upstream(r)
  /\ Decoded(r, Finish(worker[r].d), TRUE)
  /\ UNCHANGED seen

(* Mutant: the channel is not bounded *)
SendUnbounded(r) ==
  /\ worker[r].pc = "read" /\ worker[r].out # <<>> /\ ~Upstream(r)
  /\ chan' = [chan EXCEPT ![r] = Append(@, Head(worker[r].out))]
  /\ worker' = [worker EXCEPT ![r].out = Tail(@)]
  /\ UNCHANGED <<agent, active, world, driver, req, gate, sup, notes, seen>>

SendFragment(r) ==
  /\ worker[r].pc = "read" /\ worker[r].out # <<>> /\ ~Upstream(r)
  /\ Len(chan[r]) < Capacity
  /\ chan' = [chan EXCEPT ![r] = Append(@, Head(worker[r].out))]
  /\ worker' = [worker EXCEPT ![r].out = Tail(@)]
  /\ UNCHANGED <<agent, active, world, driver, req, gate, sup, notes, seen>>

(* all is sent; the stream fails; upstream is cancelled *)
WorkerReturns(r) ==
  /\ worker[r].pc \in {"connect", "read"}
  /\ \/ worker[r].last /\ worker[r].out = <<>> /\ Returns(r, "ok")
     \/ /\ "network" \in Faults[r] /\ (worker[r].pc = "connect" \/ Reading(r)) /\ ~Upstream(r)
        /\ Returns(r, "Provider")
     \/ Upstream(r) /\ Returns(r, "Cancelled")
  /\ UNCHANGED seen

WorkerPanics(r) ==
  /\ "panic" \in Faults[r] /\ worker[r].pc \in {"connect", "read"}
  /\ Returns(r, "panic")
  /\ UNCHANGED seen

WorkerEnds(r) ==
  /\ worker[r].pc = "closing"
  /\ worker' = [worker EXCEPT ![r].pc = "done"]
  /\ UNCHANGED <<agent, active, world, driver, req, gate, sup, chan, notes, seen>>

(* whoever asked goes away *)
DropReply(r) ==
  /\ "reply" \in Faults[r] /\ req[r].phase # "none" /\ ~Replied(r) /\ req[r].heard
  /\ req' = [req EXCEPT ![r].heard = FALSE]
  /\ UNCHANGED <<agent, active, world, driver, tasks>>

(***************************************************************************)
(* Specification                                                           *)
(***************************************************************************)
SystemOf(r) ==
  \/ HandleInference(r) \/ HandleCleanup(r)
  \/ Launch(r) \/ Begin(r) \/ Interrupt(r) \/ Receive(r) \/ AcceptFragment(r) \/ StreamEnds(r)
  \/ Join(r) \/ JoinAtLast(r) \/ Notify(r) \/ EndTask(r)
  \/ SendFragment(r) \/ WorkerReturns(r) \/ WorkerEnds(r)

System == WorldStep \/ Joined \/ \E r \in Request : SystemOf(r)

Environment ==
  \/ StartTurn \/ FinishTurn \/ Abort \/ Stop("stop") \/ Stop("restart")
  \/ \E r \in Request : \/ Ask(r) \/ LaunchFails(r) \/ JoinLate(r) \/ DropReply(r)
                         \/ Connect(r) \/ ReadChunk(r) \/ ReadEnd(r) \/ WorkerPanics(r)

Next == System \/ Environment

Spec == Init /\ [][Next]_vars

(* the host goes on; Drivers and providers may do nothing for ever *)
FairSpec == Spec /\ WF_vars(System)

(***************************************************************************)
(* Properties                                                              *)
(***************************************************************************)
(* types, and what goes with what: a reply ends a request, a handle is of a *)
(* request that was launched, a channel holds at most its capacity          *)
InferenceTypeOK ==
  /\ agent.state \in {"Idle", "Working", "Stopping", "Gone"}
  /\ active # None => req[active].phase \in {"launch", "run", "over", "failed"}
  /\ notes \subseteq Request
  /\ \A r \in Request :
       /\ req[r].phase \in {"none", "queued", "launch", "run", "over", "failed"}
       /\ Replied(r) <=> (req[r].phase \in {"over", "failed"})
       /\ sup[r].pc \in {"off", "ready", "stream", "accept", "join", "late", "notify", "ending", "done"}
       /\ worker[r].pc \in {"off", "connect", "read", "closing", "done"}
       /\ Len(chan[r]) <= Capacity
       /\ sup[r].pc \in {"ending", "done"} => Replied(r)

Runs(r) == req[r].phase = "launch" \/ sup[r].pc \notin {"off", "done"}
             \/ worker[r].pc \notin {"off", "done"}

(* An Agent never has two inferences at work, not even the worker of one    *)
(* that was answered already, and a stopped or restarted Agent leaves none  *)
(* behind (handle_inference's busy check, stop_runtime's wait).             *)
OneWorker ==
  \A q, r \in Request :
     Runs(r) => /\ Runs(q) => q = r
                /\ agent.state # "Gone" /\ req[r].vm = agent.vm

(* When the World has closed the gate nothing more is accepted or shown:    *)
(* the Driver and the client keep what they saw (StreamGate).               *)
Frozen ==
  [][\A r \in Request :
       gate[r].closed /\ sup'[r].pc # "done"
       => gate'[r] = gate[r] /\ seen'[r].shown = seen[r].shown]_vars

(* The client was shown the text of the answer, all of it and no more, for  *)
(* a response that ended as for one that was stopped; and the text of an    *)
(* ended response is what the provider says it is (the digests of           *)
(* responses_event, finish, receive_stream).                                *)
ReplyWhole ==
  \A r \in Request :
     sup[r].pc = "notify" /\ req[r].reply.kind \in {"ok", "frozen"} =>
        /\ req[r].reply.content + req[r].reply.reasoning = seen[r].shown
        /\ req[r].reply.kind = "ok" => req[r].reply.content = seen[r].claimed

(* A response the Agent takes into its history is one that history can go   *)
(* on from: with the results of its calls it passes normalize               *)
(* (ResponseAccumulator::response and normalize agree).                     *)
AcceptedReplayable ==
  \A r \in Request :
     sup[r].pc = "notify" /\ req[r].reply.kind \in {"ok", "frozen"} =>
        Normalize(Continue(req[r].reply), [valid |-> TRUE])

(* A request that is sent is one its API takes: calls and results paired,   *)
(* turns alternating, no image lost (the three encoders, flush,             *)
(* merge_message).                                                          *)
BodySound ==
  \A r \in Request :
     req[r].body # None => WellFormed(req[r].ask.conv, req[r].body)

(* Every request is answered, whatever the provider does: nothing waits for *)
(* a worker, a client or a turn that never comes back.  And a Driver whose  *)
(* turn could not end because an inference still runs is woken when it no   *)
(* longer does (handle_cleanup_finished).                                  *)
Answered ==
  /\ []<>(\A r \in Request : req[r].phase = "none" \/ Replied(r))
  /\ driver.waiting ~> (driver.woken \/ ~driver.waiting \/ agent.state # "Working")
=============================================================================
