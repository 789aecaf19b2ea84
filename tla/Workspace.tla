------------------------------ MODULE Workspace ------------------------------
(***************************************************************************)
(* A workspace: margatroid/workspace, with what it asks of its member      *)
(* Agents and the shutdown of the daemon that asks it to stop.  A start,   *)
(* stop or restart changes the state in a frame and goes on in an          *)
(* asynchronous flow, which reads the definition, makes, closes and joins  *)
(* the execution thread, and starts and stops the members one by one; its  *)
(* result comes back as an event.                                          *)
(*                                                                         *)
(* One path is modelled: a second workspace of a path is refused.  A       *)
(* member stands for its Agent, the one of its name: a second is refused.  *)
(* What an Agent does inside (AgentLifecycle) is its acceptance, its       *)
(* program on the thread, and how it ends.  Paths, symbolic links and the  *)
(* texts of definitions are left out.                                      *)
(***************************************************************************)
EXTENDS Integers, Sequences, FiniteSets, Functions

CONSTANTS
  Member,      (* names of members                                         *)
  Request,     (* lifecycle requests of clients, numbered as they are asked *)
  Closing,     (* those the shutdown makes, numbered too                   *)
  Kinds,       (* what clients ask: "start", "stop", "restart"             *)
  Documents,   (* what the definition file may say when it is read         *)
  None,
  MaxThreads,  (* bound on the execution threads made                      *)
  MaxClient,   (* bound on the starts and restarts of members by clients   *)
  Faults       (* "thread", "panic", "agent", "flow", "work"               *)

ASSUME WorkspaceAssumption ==
  /\ None \notin Nat /\ "close" \notin Member
  /\ None \notin {"Starting", "Idle", "Running", "Restarting", "Stopping"}
  /\ None \notin {"start", "stop", "restart", "flow", "client"}
  /\ None \notin {"InvalidDefinition", "ThreadStartFailed", "StateRejected", "CleanupFailed",
                  "Busy", "ThreadCloseFailed"}
  /\ MaxThreads \in Nat

VARIABLES
  ws,        (* the component Workspace and its executor                   *)
  thread,    (* execution threads                                          *)
  member,    (* the members' Agents                                        *)
  reply,     (* what a member answered the flow                            *)
  flow,      (* the lifecycle flow                                         *)
  req,       (* lifecycle requests                                         *)
  shutdown,  (* shutdown_application                                       *)
  asked      (* starts and restarts of members by clients                  *)

vars == <<ws, thread, member, reply, flow, req, shutdown, asked>>

Thread == 1 .. MaxThreads
All == Request \cup Closing

(***************************************************************************)
(* The definition                                                          *)
(***************************************************************************)
(* the entries of a document, or None: its two forms exclude each other,   *)
(* and a map has no key twice                                              *)
Entries(doc) ==
  IF \/ doc.form \in {"both", "unreadable"}
     \/ doc.form = "agents" /\ ~IsInjective(doc.names)
  THEN None ELSE doc.names

(* the members it names, or None when it is refused: each has a name, and   *)
(* no two the same                                                         *)
Names(doc) ==
  LET entries == Entries(doc)
  IN IF entries = None THEN None
     ELSE IF None \in Range(entries) \/ ~IsInjective(entries) THEN None
     ELSE Range(entries)

(* Member holds every name that a definition may give                       *)
ASSUME NameAssumption ==
  \A doc \in Documents : Names(doc) # None => Names(doc) \subseteq Member

(***************************************************************************)
(* The execution thread                                                    *)
(***************************************************************************)
NewThread == [phase |-> "open", closed |-> FALSE, sent |-> FALSE, inbox |-> <<>>,
              tasks |-> {}, failed |-> FALSE, joined |-> FALSE]

Unmade == [NewThread EXCEPT !.phase = "none"]

(* submit: refused when admission is closed *)
Admits(k) == k # None /\ ~thread[k].closed /\ thread[k].phase # "ended"

(* run: take a command; Close ends the taking *)
Take(k) ==
  /\ thread[k].phase = "open"
  /\ thread[k].inbox # <<>>
  /\ LET c == Head(thread[k].inbox)
         rest == [thread[k] EXCEPT !.inbox = Tail(@)]
     IN thread' = [thread EXCEPT ![k] =
          IF c = "close" THEN [rest EXCEPT !.phase = "drain", !.inbox = <<>>]
          ELSE [rest EXCEPT !.tasks = @ \cup {c}]]
  /\ UNCHANGED <<ws, member, reply, flow, req, shutdown, asked>>

(* the thread ends when its last task has *)
EndThread(k) ==
  /\ thread[k].phase = "drain"
  /\ thread[k].tasks = {}
  /\ thread' = [thread EXCEPT ![k].phase = "ended"]
  /\ UNCHANGED <<ws, member, reply, flow, req, shutdown, asked>>

(***************************************************************************)
(* Member Agents                                                           *)
(***************************************************************************)
NoAgent == [state |-> None, flow |-> "none", by |-> None, on |-> None, work |-> FALSE]

Present == {n \in Member : member[n].state # None}

Unfinished(n) == member[n].work

(* validate_parameters: the Workspace takes members *)
Accepts == ws.state \in {"Starting", "Running", "Restarting"} /\ Admits(ws.exec)

(* handle_start_agent *)
StartAgent(n, by) ==
  IF Accepts /\ member[n].state = None
  THEN /\ member' = [member EXCEPT ![n] = [NoAgent EXCEPT !.state = "Starting",
                                                !.flow = "boot", !.by = by]]
       /\ ws' = [ws EXCEPT !.agents = @ \cup {n}]
       /\ UNCHANGED reply
  ELSE /\ reply' = IF by = "flow" THEN [reply EXCEPT ![n] = "error"] ELSE reply
       /\ UNCHANGED <<member, ws>>

(* handle_stop_agent *)
StopAgent(n) ==
  IF member[n].state = "Idle"
  THEN /\ member' = [member EXCEPT ![n].state = "Stopping", ![n].flow = "end",
                                   ![n].by = "flow", ![n].work = FALSE]
       /\ UNCHANGED reply
  ELSE /\ reply' = [reply EXCEPT ![n] = "error"]
       /\ UNCHANGED member

(* what a lifecycle flow of the Agent ends with *)
Tell(n, answer) ==
  reply' = IF member[n].by = "flow" THEN [reply EXCEPT ![n] = answer] ELSE reply

(* Mutant: despawn_clean leaves the Agent in the Workspace's set *)
DespawnKept(n) ==
  /\ member' = [member EXCEPT ![n] = NoAgent]
  /\ UNCHANGED ws

(* despawn_clean *)
Despawn(n) ==
  /\ member' = [member EXCEPT ![n] = NoAgent]
  /\ ws' = [ws EXCEPT !.agents = @ \ {n}]

(* startup: the program is submitted to the thread, if it takes it *)
Boot(n) ==
  /\ member[n].flow = "boot"
  /\ \/ /\ Admits(ws.exec)
        /\ thread' = [thread EXCEPT ![ws.exec].inbox = Append(@, n)]
        /\ member' = [member EXCEPT ![n].flow = "await", ![n].on = ws.exec]
        /\ UNCHANGED <<ws, reply>>
     \/ /\ ~Admits(ws.exec) \/ "agent" \in Faults
        /\ Despawn(n)
        /\ Tell(n, "error")
        /\ UNCHANGED thread
  /\ UNCHANGED <<flow, req, shutdown, asked>>

(* its program runs *)
Ready(n) ==
  /\ member[n].flow = "await"
  /\ n \in thread[member[n].on].tasks
  /\ member' = [member EXCEPT ![n].state = "Idle", ![n].flow = "none", ![n].by = None]
  /\ Tell(n, "ok")
  /\ UNCHANGED <<ws, thread, flow, req, shutdown, asked>>

(* Mutant: nothing waits for the program to leave the thread *)
EndVmEarly(n) ==
  /\ member[n].flow = "end"
  /\ IF member[n].state = "Stopping"
     THEN Despawn(n) /\ Tell(n, "ok")
     ELSE /\ member' = [member EXCEPT ![n].flow = "boot", ![n].on = None]
          /\ UNCHANGED <<ws, reply>>
  /\ UNCHANGED <<thread, flow, req, shutdown, asked>>

(* its program ends, on a stop or before a restart *)
EndVm(n) ==
  /\ member[n].flow = "end"
  /\ \E bad \in {FALSE} \cup ({TRUE} \cap {"panic" \in Faults}) :
       thread' = [thread EXCEPT ![member[n].on].tasks = @ \ {n},
                                ![member[n].on].failed = @ \/ bad]
  /\ IF member[n].state = "Stopping"
     THEN Despawn(n) /\ Tell(n, "ok")
     ELSE /\ member' = [member EXCEPT ![n].flow = "boot", ![n].on = None]
          /\ UNCHANGED <<ws, reply>>
  /\ UNCHANGED <<flow, req, shutdown, asked>>

(* a flow that fails without proof of cleanup leaves the Agent in its state *)
Stuck(n) ==
  /\ "agent" \in Faults
  /\ member[n].flow \in {"await", "end"}
  /\ member' = [member EXCEPT ![n].flow = "stuck", ![n].by = None]
  /\ Tell(n, "error")
  /\ UNCHANGED <<ws, thread, flow, req, shutdown, asked>>

(* clients: StartAgent, RestartAgent, and tool tasks that begin and end *)
ClientStart(n) ==
  /\ asked < MaxClient
  /\ Accepts /\ member[n].state = None
  /\ StartAgent(n, "client")
  /\ asked' = asked + 1
  /\ UNCHANGED <<thread, flow, req, shutdown>>

ClientRestart(n) ==
  /\ asked < MaxClient
  /\ Accepts
  /\ member[n].state = "Idle"
  /\ ~Unfinished(n)
  /\ member' = [member EXCEPT ![n].state = "Restarting", ![n].flow = "end", ![n].by = "client"]
  /\ asked' = asked + 1
  /\ UNCHANGED <<ws, thread, reply, flow, req, shutdown>>

ToolTask(n) ==
  /\ "work" \in Faults
  /\ member[n].state = "Idle"
  /\ member' = [member EXCEPT ![n].work = ~@]
  /\ UNCHANGED <<ws, thread, reply, flow, req, shutdown, asked>>

(***************************************************************************)
(* Requests                                                                *)
(***************************************************************************)
NoFlow == [kind |-> None, pc |-> "none", for |-> None, names |-> {}, todo |-> {},
           thread |-> None, error |-> None, clean |-> FALSE, restore |-> FALSE]

Init ==
  /\ ws = [state |-> None, agents |-> {}, exec |-> None]
  /\ thread = [k \in Thread |-> Unmade]
  /\ member = [n \in Member |-> NoAgent]
  /\ reply = [n \in Member |-> "none"]
  /\ flow = NoFlow
  /\ req = [r \in All |-> [kind |-> None, answer |-> None]]
  /\ shutdown = "off"
  /\ asked = 0

Ask(r) ==
  /\ req[r].kind = None
  /\ \A q \in Request : q < r => req[q].kind # None
  /\ shutdown = "off"
  /\ \E k \in Kinds : req' = [req EXCEPT ![r].kind = k]
  /\ UNCHANGED <<ws, thread, member, reply, flow, shutdown, asked>>

Pending(r) == req[r].kind # None /\ req[r].answer = None /\ flow.for # r

Answer(r, a) == req' = [req EXCEPT ![r].answer = a]

Begin(r, kind, pc) ==
  /\ flow' = [NoFlow EXCEPT !.kind = kind, !.pc = pc, !.for = r]
  /\ UNCHANGED req

Refuse(r, e) ==
  /\ Answer(r, e)
  /\ UNCHANGED <<ws, thread, flow>>

(* handle_start_workspace *)
HandleStart(r) ==
  /\ Pending(r) /\ req[r].kind = "start"
  /\ \/ ws.state # None /\ Refuse(r, "Duplicate")
     \/ /\ ws.state = None
        /\ ws' = [state |-> "Starting", agents |-> {}, exec |-> None]
        /\ Begin(r, "start", "define")
        /\ UNCHANGED thread
  /\ UNCHANGED <<member, reply, shutdown, asked>>

(* handle_stop_workspace: no more tasks are admitted from here *)
HandleStop(r) ==
  /\ Pending(r) /\ req[r].kind = "stop"
  /\ \/ ws.state = None /\ Refuse(r, "Missing")
     \/ ws.state \notin {None, "Running"} /\ Refuse(r, "StateRejected")
     \/ ws.state = "Running" /\ ws.exec = None /\ Refuse(r, "CleanupFailed")
     \/ /\ ws.state = "Running" /\ ws.exec # None
        /\ ws' = [ws EXCEPT !.state = "Stopping"]
        /\ thread' = [thread EXCEPT ![ws.exec].closed = TRUE]
        /\ Begin(r, "stop", "enumerate")
  /\ UNCHANGED <<member, reply, shutdown, asked>>

(* handle_restart_workspace *)
HandleRestart(r) ==
  /\ Pending(r) /\ req[r].kind = "restart"
  /\ \/ ws.state = None /\ Refuse(r, "Missing")
     \/ ws.state \notin {None, "Running"} /\ Refuse(r, "StateRejected")
     \/ /\ ws.state = "Running"
        /\ \E n \in ws.agents \cup Present : Unfinished(n)
        /\ Refuse(r, "Busy")
     \/ /\ ws.state = "Running"
        /\ ~\E n \in ws.agents \cup Present : Unfinished(n)
        /\ ws' = [ws EXCEPT !.state = "Restarting"]
        /\ Begin(r, "restart", "define")
        /\ UNCHANGED thread
  /\ UNCHANGED <<member, reply, shutdown, asked>>

(***************************************************************************)
(* Flows                                                                   *)
(***************************************************************************)
Expected == [start |-> "Starting", stop |-> "Stopping", restart |-> "Restarting"][flow.kind]

Goto(pc) == flow' = [flow EXCEPT !.pc = pc]

Fails(e, clean, restore) ==
  flow' = [NoFlow EXCEPT !.kind = flow.kind, !.for = flow.for, !.pc = "result",
                         !.error = e, !.clean = clean, !.restore = restore]

(* Mutant: a restart makes the new thread at once *)
DefineSpawns ==
  /\ flow.pc = "define"
  /\ \E doc \in Documents :
       IF Names(doc) = None
       THEN Fails("InvalidDefinition", flow.kind = "start", flow.kind = "restart")
       ELSE flow' = [flow EXCEPT !.names = Names(doc), !.pc = "spawn"]
  /\ UNCHANGED <<ws, thread, member, reply, req, shutdown, asked>>

(* fresh_definition: the file is read at every start and restart *)
Define ==
  /\ flow.pc = "define"
  /\ \E doc \in Documents :
       IF Names(doc) = None
       THEN Fails("InvalidDefinition", flow.kind = "start", flow.kind = "restart")
       ELSE flow' = [flow EXCEPT !.names = Names(doc),
                                 !.pc = IF flow.kind = "start" THEN "spawn" ELSE "enumerate"]
  /\ UNCHANGED <<ws, thread, member, reply, req, shutdown, asked>>

(* mount_executor: a thread is made *)
SpawnThread ==
  /\ flow.pc = "spawn"
  /\ \/ \E k \in Thread :
          /\ thread[k].phase = "none"
          /\ \A j \in Thread : j < k => thread[j].phase # "none"
          /\ thread' = [thread EXCEPT ![k] = NewThread]
          /\ flow' = [flow EXCEPT !.pc = "mount", !.thread = k]
     \/ /\ "thread" \in Faults
        /\ Fails("ThreadStartFailed", FALSE, FALSE)
        /\ UNCHANGED thread
  /\ UNCHANGED <<ws, member, reply, req, shutdown, asked>>

(* and mounted, when the state still fits and no other thread is left *)
Mount ==
  /\ flow.pc = "mount"
  /\ IF ws.state = Expected /\ (ws.exec # None => thread[ws.exec].joined)
     THEN /\ ws' = [ws EXCEPT !.agents = {}, !.exec = flow.thread]
          /\ flow' = [flow EXCEPT !.pc = "start", !.todo = flow.names]
     ELSE /\ flow' = [flow EXCEPT !.pc = "close", !.error = "StateRejected"]
          /\ UNCHANGED ws
  /\ UNCHANGED <<thread, member, reply, req, shutdown, asked>>

(* start_members: one after the other *)
StartMember ==
  /\ flow.pc = "start"
  /\ IF flow.todo = {}
     THEN Goto("result") /\ UNCHANGED <<ws, member, reply>>
     ELSE \E n \in flow.todo :
            /\ StartAgent(n, "flow")
            /\ flow' = [flow EXCEPT !.pc = "started", !.todo = @ \ {n}]
  /\ UNCHANGED <<thread, req, shutdown, asked>>

(* a member that failed does not end the others' starts *)
Started ==
  /\ flow.pc = "started"
  /\ \E n \in Member :
       /\ reply[n] # "none"
       /\ reply' = [reply EXCEPT ![n] = "none"]
       /\ ws' = IF reply[n] = "ok" /\ n \in Present
                THEN [ws EXCEPT !.agents = @ \cup {n}] ELSE ws
  /\ Goto("start")
  /\ UNCHANGED <<thread, member, req, shutdown, asked>>

(* stop_members_and_join: in one closure the members are known, settled, and *)
(* the last                                                                *)
Enumerate ==
  /\ flow.pc = "enumerate"
  /\ LET members == ws.agents \cup Present
     IN \/ /\ ws.state # Expected
           /\ Fails("StateRejected", FALSE, FALSE)
           /\ UNCHANGED thread
        \/ /\ ws.state = Expected
           /\ ~(members \subseteq Present) \/ ws.exec = None
           /\ Fails("CleanupFailed", FALSE, FALSE)
           /\ UNCHANGED thread
        \/ /\ ws.state = Expected /\ members \subseteq Present
           /\ \E n \in members : member[n].state # "Idle"
           /\ Fails("Busy", FALSE, FALSE)
           /\ UNCHANGED thread
        \/ /\ ws.state = Expected /\ members \subseteq Present /\ ws.exec # None
           /\ \A n \in members : member[n].state = "Idle"
           /\ thread' = [thread EXCEPT ![ws.exec].closed = TRUE]
           /\ flow' = [flow EXCEPT !.pc = "stop", !.todo = members, !.thread = ws.exec]
  /\ UNCHANGED <<ws, member, reply, req, shutdown, asked>>

StopMember ==
  /\ flow.pc = "stop"
  /\ IF flow.todo # {}
     THEN \E n \in flow.todo :
            /\ StopAgent(n)
            /\ flow' = [flow EXCEPT !.pc = "stopped", !.todo = @ \ {n}]
     ELSE /\ IF flow.error # None THEN Fails(flow.error, FALSE, FALSE) ELSE Goto("close")
          /\ UNCHANGED <<member, reply>>
  /\ UNCHANGED <<ws, thread, req, shutdown, asked>>

(* all members are asked even when one fails *)
Stopped ==
  /\ flow.pc = "stopped"
  /\ \E n \in Member :
       /\ reply[n] # "none"
       /\ reply' = [reply EXCEPT ![n] = "none"]
       /\ flow' = [flow EXCEPT !.pc = "stop",
                    !.error = IF reply[n] = "ok" THEN @ ELSE "CleanupFailed"]
  /\ UNCHANGED <<ws, thread, member, req, shutdown, asked>>

(* Mutant: Close is sent by who closes the admission *)
CloseThreadOnce ==
  /\ flow.pc = "close"
  /\ thread' = [thread EXCEPT ![flow.thread].closed = TRUE,
                  ![flow.thread].inbox = IF thread[flow.thread].closed THEN @
                                         ELSE Append(@, "close")]
  /\ Goto("join")
  /\ UNCHANGED <<ws, member, reply, req, shutdown, asked>>

(* close_and_join: Close is sent once, behind what is admitted *)
CloseThread ==
  /\ flow.pc = "close"
  /\ thread' = [thread EXCEPT ![flow.thread].closed = TRUE, ![flow.thread].sent = TRUE,
                  ![flow.thread].inbox = IF thread[flow.thread].sent THEN @
                                         ELSE Append(@, "close")]
  /\ Goto("join")
  /\ UNCHANGED <<ws, member, reply, req, shutdown, asked>>

(* SharedJoin: the result of the thread is its first task's failure *)
JoinThread ==
  /\ flow.pc = "join"
  /\ thread[flow.thread].phase = "ended"
  /\ thread' = [thread EXCEPT ![flow.thread] = [Unmade EXCEPT !.phase = "ended", !.joined = TRUE]]
  /\ IF flow.error # None THEN Fails(flow.error, FALSE, FALSE)
     ELSE IF thread[flow.thread].failed THEN Fails("ThreadCloseFailed", FALSE, FALSE)
     ELSE Goto(IF flow.kind = "stop" THEN "result" ELSE "spawn")
  /\ UNCHANGED <<ws, member, reply, req, shutdown, asked>>

(* guarded_start, guarded_stop, guarded_restart *)
FlowPanics ==
  /\ "flow" \in Faults
  /\ flow.pc \notin {"none", "result"}
  /\ Fails("CleanupFailed", FALSE, FALSE)
  /\ UNCHANGED <<ws, thread, member, reply, req, shutdown, asked>>

Gone == [state |-> None, agents |-> {}, exec |-> None]

(* Mutant: whatever failed, the workspace is destroyed *)
AfterFlowGone ==
  IF ws.state # Expected THEN ws
  ELSE IF flow.error = None /\ flow.kind # "stop"
       THEN [ws EXCEPT !.state = "Running", !.agents = @ \cup Present] ELSE Gone

(* finish_running, failure_result *)
AfterFlow ==
  CASE ws.state # Expected -> ws
    [] ws.state = Expected /\ flow.error = None ->
         IF flow.kind = "stop" THEN Gone
         ELSE [ws EXCEPT !.state = "Running", !.agents = @ \cup Present]
    [] ws.state = Expected /\ flow.error # None ->
         IF flow.clean THEN Gone
         ELSE IF flow.restore THEN [ws EXCEPT !.state = "Running"] ELSE ws

(* handle_start_result, handle_stop_result, handle_restart_result *)
HandleResult ==
  /\ flow.pc = "result"
  /\ ws' = AfterFlow
  /\ Answer(flow.for, IF flow.error # None THEN flow.error
                      ELSE IF ws.state # Expected THEN "StateRejected" ELSE "ok")
  /\ flow' = NoFlow
  /\ UNCHANGED <<thread, member, reply, shutdown, asked>>

(***************************************************************************)
(* shutdown_application                                                    *)
(***************************************************************************)
ShutdownBegins ==
  /\ shutdown = "off"
  /\ shutdown' = "on"
  /\ UNCHANGED <<ws, thread, member, reply, flow, req, asked>>

Waiting == \E r \in Closing : req[r].kind # None /\ req[r].answer = None

Failed == \E r \in Closing : req[r].answer \notin {None, "ok"}

(* a pass of the loop: results, then a stop of what runs, then the end *)
ShutdownStep ==
  /\ shutdown = "on"
  /\ \/ Failed /\ shutdown' = "failed" /\ UNCHANGED req
     \/ /\ ~Failed /\ ~Waiting /\ ws.state = "Running"
        /\ \E r \in Closing :
             /\ req[r].kind = None
             /\ \A q \in Closing : q < r => req[q].kind # None
             /\ req' = [req EXCEPT ![r].kind = "stop"]
        /\ UNCHANGED shutdown
     \/ /\ ~Failed /\ ~Waiting /\ ws.state = None
        /\ shutdown' = "done"
        /\ UNCHANGED req
  /\ UNCHANGED <<ws, thread, member, reply, flow, asked>>

AgentStep(n) == Boot(n) \/ Ready(n) \/ EndVm(n)

FlowStep ==
  \/ Define \/ SpawnThread \/ Mount \/ StartMember \/ Started
  \/ Enumerate \/ StopMember \/ Stopped \/ CloseThread \/ JoinThread \/ HandleResult

Handle(r) == HandleStart(r) \/ HandleStop(r) \/ HandleRestart(r)

Next ==
  \/ \E r \in Request : Ask(r)
  \/ \E r \in All : Handle(r)
  \/ \E n \in Member :
       AgentStep(n) \/ Stuck(n) \/ ClientStart(n) \/ ClientRestart(n) \/ ToolTask(n)
  \/ \E k \in Thread : Take(k) \/ EndThread(k)
  \/ FlowStep \/ FlowPanics
  \/ ShutdownBegins \/ ShutdownStep

Spec == Init /\ [][Next]_vars

(* frames run (also in the loop of the shutdown), tasks are polled, and     *)
(* threads and programs told to end do                                     *)
Fairness ==
  /\ \A r \in All : WF_vars(Handle(r))
  /\ \A n \in Member : WF_vars(AgentStep(n))
  /\ \A k \in Thread : WF_vars(Take(k)) /\ WF_vars(EndThread(k))
  /\ WF_vars(FlowStep)
  /\ WF_vars(ShutdownStep)

FairSpec == Spec /\ Fairness

(***************************************************************************)
(* Properties                                                              *)
(***************************************************************************)
Unjoined == {k \in Thread : thread[k].phase # "none" /\ ~thread[k].joined}

(* The program of an Agent is a task of the thread it was submitted to, and *)
(* of no other, until the thread has ended.                                *)
WorkspaceTypeOK ==
  /\ ws.state \in {None, "Starting", "Running", "Restarting", "Stopping"}
  /\ ws.agents \subseteq Member
  /\ ws.exec \in Thread \cup {None}
  /\ \A k \in Thread :
       /\ thread[k].phase \in {"none", "open", "drain", "ended"}
       /\ thread[k].phase = "ended" => thread[k].tasks = {}
       /\ \A n \in thread[k].tasks : member[n].on = k

(* Programs are where they belong (WorkspaceTypeOK), and nothing is left    *)
(* behind, whatever members and clients did meanwhile: a restart makes the  *)
(* new thread after the old one is joined, so that no two are ever alive;   *)
(* and when the workspace is gone no Agent of it lives and every thread     *)
(* made for it is joined.                                                  *)
GoneClean ==
  /\ WorkspaceTypeOK
  /\ Cardinality(Unjoined) <= 1
  /\ ws.state = None => Present = {} /\ Unjoined = {}

(* The members of a running workspace are its Agents, all of them and no    *)
(* other: also those clients started while it was starting or restarting,   *)
(* and not those whose start failed.                                       *)
MembersKnown == ws.state = "Running" => ws.agents = Present

(* Every lifecycle request is answered: in the end none waits.             *)
RequestsAnswered ==
  <>[](\A r \in All : req[r].kind # None => req[r].answer # None)

(* A lifecycle operation failed without proof of cleanup: the workspace     *)
(* stays in its state for ever and no operation is accepted any more.      *)
Wedged == ws.state \notin {None, "Running"} /\ flow.kind = None

(* The shutdown ends, with everything stopped or a diagnosis, unless an     *)
(* operation of somebody else had failed before.                           *)
ShutdownEnds == (shutdown = "on") ~> (shutdown # "on" \/ Wedged)
=============================================================================
