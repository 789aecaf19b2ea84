--------------------------- MODULE WorkspaceProofs ---------------------------
(***************************************************************************)
(* The safety properties of Workspace, for any number of members, requests *)
(* and threads and whatever fails: the inductive invariant WorkspaceInv.   *)
(*                                                                         *)
(* It says where a program may be (PlaceOK), that the set of the component *)
(* is the set of living Agents at every moment (Known), what a flow has    *)
(* secured when it reaches a step (FlowOK), and that a flow waits for one  *)
(* member at a time, whose answer is the one it takes (AskOK).             *)
(***************************************************************************)
EXTENDS Workspace, FiniteSetTheorems, SequenceTheorems, TLAPS

ThreadRecord ==
  [phase : {"none", "open", "drain", "ended"}, closed : BOOLEAN, sent : BOOLEAN,
   inbox : Seq(Member \cup {"close"}), tasks : SUBSET Member, failed : BOOLEAN,
   joined : BOOLEAN]

MemberRecord ==
  [state : {None, "Starting", "Idle", "Stopping", "Restarting"},
   flow : {"none", "boot", "await", "end", "stuck"},
   by : {None, "flow", "client"}, on : Thread \cup {None}, work : BOOLEAN]

Errors == {None, "InvalidDefinition", "ThreadStartFailed", "StateRejected", "CleanupFailed",
           "Busy", "ThreadCloseFailed"}

FlowRecord ==
  [kind : {None, "start", "stop", "restart"},
   pc : {"none", "define", "spawn", "mount", "start", "started", "enumerate", "stop", "stopped",
         "close", "join", "result"},
   for : All \cup {None}, names : SUBSET Member, todo : SUBSET Member,
   thread : Thread \cup {None}, error : Errors, clean : BOOLEAN, restore : BOOLEAN]

WorkspaceType ==
  /\ ws \in [state : {None, "Starting", "Running", "Restarting", "Stopping"},
             agents : SUBSET Member, exec : Thread \cup {None}]
  /\ thread \in [Thread -> ThreadRecord]
  /\ member \in [Member -> MemberRecord]
  /\ reply \in [Member -> {"none", "ok", "error"}]
  /\ flow \in FlowRecord

(* the component knows the living Agents, not only while it is running      *)
Known == ws.agents = Present

(* an Agent's state, the step of its flow and its thread fit each other     *)
MemberOK(n) ==
  /\ member[n].state = None => member[n].by = None /\ member[n].on = None
  /\ member[n].flow = "none" <=> member[n].state \in {None, "Idle"}
  /\ member[n].flow = "boot" => member[n].on = None
  /\ member[n].flow \in {"await", "end", "stuck"} => member[n].on # None
  /\ member[n].state = "Idle" => member[n].by = None /\ member[n].on # None
  /\ member[n].flow = "end" => member[n].state \in {"Stopping", "Restarting"}
  /\ member[n].flow \in {"boot", "await"} => member[n].state \in {"Starting", "Restarting"}
  /\ reply[n] # "none" => member[n].by # "flow"

(* a program is submitted to one thread, once                              *)
PlaceOK(k) ==
  /\ \A i, j \in 1 .. Len(thread[k].inbox) :
       thread[k].inbox[i] \in Member /\ thread[k].inbox[i] = thread[k].inbox[j] => i = j
  /\ \A i \in 1 .. Len(thread[k].inbox) :
       thread[k].inbox[i] \in Member =>
         /\ member[thread[k].inbox[i]].on = k
         /\ member[thread[k].inbox[i]].flow \in {"await", "stuck"}
         /\ thread[k].inbox[i] \notin thread[k].tasks
  /\ \A n \in thread[k].tasks : member[n].on = k
  /\ thread[k].phase = "ended" => thread[k].tasks = {}

(* the thread of the workspace takes no program any more                   *)
Shut ==
  \/ ws.exec = None
  \/ ws.exec # None /\ (thread[ws.exec].closed \/ thread[ws.exec].phase = "ended")

(* the thread of the workspace is the only one that is not joined          *)
Served == ws.exec # None /\ Unjoined = {ws.exec}

Empty == Present = {} /\ Shut

(* what is secured at the steps of a flow                                  *)
StepOK ==
  /\ flow.pc = "none" /\ ws.state = None => Present = {} /\ Unjoined = {}
  /\ flow.pc = "none" /\ ws.state = "Running" => Served
  /\ flow.pc = "define" =>
       IF flow.kind = "start" THEN ws.exec = None /\ Present = {} /\ Unjoined = {} ELSE Served
  /\ flow.pc \in {"spawn", "mount"} =>
       /\ Present = {}
       /\ ws.exec # None => thread[ws.exec].joined /\ thread[ws.exec].phase = "ended"
       /\ Unjoined = IF flow.pc = "spawn" THEN {} ELSE {flow.thread}
  /\ flow.pc = "mount" => flow.thread # None
  /\ flow.pc \in {"start", "started", "enumerate"} => Served
  /\ flow.pc \in {"stop", "stopped", "close", "join"} =>
       Served /\ flow.thread = ws.exec /\ thread[ws.exec].closed
  /\ flow.pc = "stop" /\ flow.error = None => Present \subseteq flow.todo
  /\ flow.pc \in {"close", "join"} => Present = {}
  /\ flow.pc = "result" /\ flow.error = None /\ flow.kind # "stop" => Served
  /\ flow.pc = "result" /\ flow.error = None /\ flow.kind = "stop" => Empty /\ Unjoined = {}
  /\ flow.pc = "result" /\ flow.restore => Served
  /\ flow.pc = "result" /\ flow.clean => ws.exec = None /\ Present = {} /\ Unjoined = {}

FlowOK ==
  /\ flow.kind = None <=> flow.pc = "none"
  /\ flow.kind # None => ws.state = Expected
  /\ flow.pc \in {"spawn", "mount", "start", "started"} => flow.kind \in {"start", "restart"}
  /\ flow.pc = "define" => flow.kind \in {"start", "restart"}
  /\ flow.pc \in {"enumerate", "stop", "stopped", "close", "join"}
       => flow.kind \in {"stop", "restart"}
  /\ flow.pc \notin {"stop", "stopped", "result"} => flow.error = None
  /\ flow.pc # "result" => ~flow.clean /\ ~flow.restore
  /\ StepOK

(* members the flow waits for, or has an answer of                         *)
Asked == {n \in Member : member[n].by = "flow" \/ reply[n] # "none"}

AskOK ==
  /\ \A a, b \in Asked : a = b
  /\ flow.pc = "none" /\ ws.state \in {None, "Running"} => Asked = {}
  /\ flow.pc \notin {"none", "started", "stopped", "result"} => Asked = {}
  /\ flow.pc = "result" /\ (flow.error = None \/ flow.clean \/ flow.restore) => Asked = {}
  /\ flow.pc = "stopped" /\ flow.error = None =>
       \A n \in Present \ flow.todo :
         reply[n] = "error" \/ (member[n].by = "flow" /\ member[n].state = "Stopping")

OneThread == \A j, k \in Unjoined : j = k

WorkspaceInv ==
  /\ WorkspaceType
  /\ Known
  /\ \A n \in Member : MemberOK(n)
  /\ \A k \in Thread : PlaceOK(k)
  /\ OneThread
  /\ FlowOK
  /\ AskOK

-----------------------------------------------------------------------------
(* Helpers *)

LEMMA ExpectedFacts ==
  /\ flow.kind = "start" => Expected = "Starting"
  /\ flow.kind = "stop" => Expected = "Stopping"
  /\ flow.kind = "restart" => Expected = "Restarting"
BY DEF Expected

LEMMA ThreadFacts == Thread \subseteq Nat /\ None \notin Thread
BY WorkspaceAssumption DEF Thread

(* when it accepts Agents a workspace is not shut, and there               *)
LEMMA AcceptsFacts ==
  Accepts => /\ ws.state \in {"Starting", "Running", "Restarting"}
             /\ ws.exec # None /\ ~thread[ws.exec].closed /\ thread[ws.exec].phase # "ended"
BY DEF Accepts, Admits

(* A step of the members or of a thread secures what the flow relies on:   *)
(* new Agents come only while the thread takes programs.                   *)
LEMMA FlowFrame ==
  ASSUME WorkspaceInv,
         UNCHANGED flow, ws'.state = ws.state, ws'.exec = ws.exec,
         Unjoined' = Unjoined,
         \A k \in Thread : /\ thread[k].closed => thread'[k].closed
                           /\ thread[k].joined => thread'[k].joined
                           /\ thread[k].phase = "ended" => thread'[k].phase = "ended",
         Present' \subseteq Present \/ Accepts
  PROVE  FlowOK'
<1>1. WorkspaceType /\ FlowOK /\ StepOK
  BY DEF WorkspaceInv, FlowOK
<1>2. ws.exec # None => ws.exec \in Thread
  BY <1>1 DEF WorkspaceType
<1>3. Shut \/ ws.state = None => Present' \subseteq Present
  BY AcceptsFacts, WorkspaceAssumption DEF Shut
<1>4. Shut => Shut'
  BY <1>2 DEF Shut
<1>5. Served => Served'
  BY DEF Served
<1>6. StepOK'
  <2>1. /\ flow'.pc = "none" /\ ws'.state = None => Present' = {} /\ Unjoined' = {}
        /\ flow'.pc = "none" /\ ws'.state = "Running" => Served'
    BY <1>1, <1>3, <1>5 DEF StepOK
  <2>2. flow'.pc = "define" =>
       IF flow'.kind = "start" THEN ws'.exec = None /\ Present' = {} /\ Unjoined' = {} ELSE Served'
    BY <1>1, <1>3, <1>5 DEF StepOK, Shut
  <2>3. flow'.pc \in {"spawn", "mount"} =>
       /\ Present' = {}
       /\ ws'.exec # None => thread'[ws'.exec].joined /\ thread'[ws'.exec].phase = "ended"
       /\ Unjoined' = IF flow'.pc = "spawn" THEN {} ELSE {flow'.thread}
    BY <1>1, <1>2, <1>3 DEF StepOK, Shut
  <2>4. /\ flow'.pc \in {"start", "started", "enumerate"} => Served'
        /\ flow'.pc \in {"stop", "stopped", "close", "join"} =>
             Served' /\ flow'.thread = ws'.exec /\ thread'[ws'.exec].closed
    BY <1>1, <1>2, <1>5 DEF StepOK, Served
  <2>5. /\ flow'.pc = "stop" /\ flow'.error = None => Present' \subseteq flow'.todo
        /\ flow'.pc \in {"close", "join"} => Present' = {}
    BY <1>1, <1>3 DEF StepOK, Shut, Served
  <2>6. /\ flow'.pc = "result" /\ flow'.error = None /\ flow'.kind # "stop" => Served'
        /\ flow'.pc = "result" /\ flow'.restore => Served'
    BY <1>1, <1>5 DEF StepOK
  <2>7. /\ flow'.pc = "result" /\ flow'.error = None /\ flow'.kind = "stop"
             => Empty' /\ Unjoined' = {}
        /\ flow'.pc = "result" /\ flow'.clean
             => ws'.exec = None /\ Present' = {} /\ Unjoined' = {}
    BY <1>1, <1>3, <1>4 DEF StepOK, Empty, Shut
  <2>8. flow'.pc = "mount" => flow'.thread # None
    BY <1>1 DEF StepOK
  <2>9. QED
    BY <2>1, <2>2, <2>3, <2>4, <2>5, <2>6, <2>7, <2>8 DEF StepOK
<1>7. Expected' = Expected
  BY DEF Expected
<1>8. QED
  BY <1>1, <1>6, <1>7 DEF FlowOK

-----------------------------------------------------------------------------
(* The threads *)

(* only a thread changes, and what it may take or has ended stays so        *)
LEMMA ThreadFrame ==
  ASSUME WorkspaceInv, NEW k \in Thread, UNCHANGED <<ws, member, reply, flow>>,
         \A j \in Thread : j # k => thread'[j] = thread[j],
         thread' \in [Thread -> ThreadRecord],
         PlaceOK(k)',
         thread'[k].closed = thread[k].closed, thread'[k].joined = thread[k].joined,
         thread[k].phase = "none" <=> thread'[k].phase = "none",
         thread[k].phase = "ended" => thread'[k].phase = "ended"
  PROVE  WorkspaceInv'
<1>1. /\ WorkspaceType /\ Known /\ OneThread /\ AskOK
      /\ \A n \in Member : MemberOK(n)
      /\ \A j \in Thread : PlaceOK(j)
  BY DEF WorkspaceInv
<1>2. Unjoined' = Unjoined
  BY DEF Unjoined
<1>3. Present' = Present /\ Asked' = Asked
  BY DEF Present, Asked
<1>4. FlowOK'
  <2>1. \A j \in Thread : /\ thread[j].closed => thread'[j].closed
                          /\ thread[j].joined => thread'[j].joined
                          /\ thread[j].phase = "ended" => thread'[j].phase = "ended"
    OBVIOUS
  <2>2. QED
    BY <1>2, <1>3, <2>1, FlowFrame
<1>5. ASSUME NEW j \in Thread PROVE PlaceOK(j)'
  <2>1. CASE j = k
    BY <2>1
  <2>2. CASE j # k
    BY <1>1, <2>2 DEF PlaceOK
  <2>3. QED
    BY <2>1, <2>2
<1>6. WorkspaceType' /\ Known'
  BY <1>1, <1>3 DEF WorkspaceType, Known
<1>7. \A n \in Member : MemberOK(n)'
  BY <1>1 DEF MemberOK
<1>8. OneThread' /\ AskOK'
  BY <1>1, <1>2, <1>3 DEF OneThread, AskOK
<1>9. QED
  BY <1>4, <1>5, <1>6, <1>7, <1>8 DEF WorkspaceInv

LEMMA TakeInv ==
  ASSUME WorkspaceInv, NEW k \in Thread, Take(k)
  PROVE  WorkspaceInv'
<1> DEFINE c == Head(thread[k].inbox)
<1>1. /\ WorkspaceType /\ Known /\ OneThread /\ AskOK
      /\ \A n \in Member : MemberOK(n)
      /\ \A j \in Thread : PlaceOK(j)
  BY DEF WorkspaceInv
<1>2. /\ thread[k].phase = "open" /\ thread[k].inbox # <<>>
      /\ UNCHANGED <<ws, member, reply, flow>>
  BY DEF Take
<1>3. /\ thread[k] \in ThreadRecord /\ thread[k].inbox \in Seq(Member \cup {"close"})
      /\ c \in Member \cup {"close"} /\ c = thread[k].inbox[1]
      /\ Len(thread[k].inbox) \in Nat \ {0}
      /\ Tail(thread[k].inbox) \in Seq(Member \cup {"close"})
      /\ Len(Tail(thread[k].inbox)) = Len(thread[k].inbox) - 1
      /\ \A i \in 1 .. Len(Tail(thread[k].inbox)) :
           i + 1 \in 1 .. Len(thread[k].inbox) /\ Tail(thread[k].inbox)[i] = thread[k].inbox[i + 1]
  <2>1. thread[k] \in ThreadRecord /\ thread[k].inbox \in Seq(Member \cup {"close"})
    BY <1>1 DEF WorkspaceType, ThreadRecord
  <2>2. QED
    BY <1>2, <2>1, HeadTailProperties, LenProperties, EmptySeq
<1>4. \A j \in Thread : j # k => thread'[j] = thread[j]
  BY <1>1 DEF Take, WorkspaceType
<1>5. CASE c = "close"
  <2>1. thread' = [thread EXCEPT ![k] = [thread[k] EXCEPT !.phase = "drain", !.inbox = <<>>]]
    <3>1. [[thread[k] EXCEPT !.inbox = Tail(@)] EXCEPT !.phase = "drain", !.inbox = <<>>]
            = [thread[k] EXCEPT !.phase = "drain", !.inbox = <<>>]
      BY <1>3 DEF ThreadRecord
    <3>2. QED
      BY <1>5, <3>1 DEF Take
  <2>2. /\ thread'[k].phase = "drain" /\ thread'[k].inbox = <<>>
        /\ thread'[k].tasks = thread[k].tasks /\ thread'[k].closed = thread[k].closed
        /\ thread'[k].joined = thread[k].joined /\ thread'[k] \in ThreadRecord
    BY <1>1, <1>3, <2>1, EmptySeq DEF WorkspaceType, ThreadRecord
  <2>3. PlaceOK(k)'
    BY <1>1, <1>2, <2>2, EmptySeq DEF PlaceOK
  <2>4. thread' \in [Thread -> ThreadRecord]
    BY <1>1, <2>1, <2>2 DEF WorkspaceType
  <2>5. QED
    BY <1>2, <1>4, <2>2, <2>3, <2>4, ThreadFrame
<1>6. CASE c # "close"
  <2>1. thread' = [thread EXCEPT ![k] = [thread[k] EXCEPT !.inbox = Tail(@), !.tasks = @ \cup {c}]]
    <3>1. [[thread[k] EXCEPT !.inbox = Tail(@)] EXCEPT !.tasks = @ \cup {c}]
            = [thread[k] EXCEPT !.inbox = Tail(@), !.tasks = @ \cup {c}]
      BY <1>3 DEF ThreadRecord
    <3>2. QED
      BY <1>6, <3>1 DEF Take
  <2>2. /\ thread'[k].phase = thread[k].phase /\ thread'[k].inbox = Tail(thread[k].inbox)
        /\ thread'[k].tasks = thread[k].tasks \cup {c} /\ thread'[k].closed = thread[k].closed
        /\ thread'[k].joined = thread[k].joined /\ thread'[k] \in ThreadRecord
    BY <1>1, <1>3, <1>6, <2>1 DEF WorkspaceType, ThreadRecord
  <2>3. c \in Member /\ member[c].on = k
    BY <1>1, <1>3, <1>6 DEF PlaceOK
  <2>4. PlaceOK(k)'
    <3>1. PlaceOK(k)
      BY <1>1
    <3>2. \A i \in 1 .. Len(Tail(thread[k].inbox)) : Tail(thread[k].inbox)[i] # c
      BY <1>3, <2>3, <3>1 DEF PlaceOK
    <3>3. QED
      BY <1>2, <1>3, <2>2, <2>3, <3>1, <3>2 DEF PlaceOK
  <2>5. thread' \in [Thread -> ThreadRecord]
    BY <1>1, <2>1, <2>2 DEF WorkspaceType
  <2>6. QED
    BY <1>2, <1>4, <2>2, <2>4, <2>5, ThreadFrame
<1>7. QED
  BY <1>5, <1>6

LEMMA EndThreadInv ==
  ASSUME WorkspaceInv, NEW k \in Thread, EndThread(k)
  PROVE  WorkspaceInv'
<1>1. WorkspaceType /\ PlaceOK(k)
  BY DEF WorkspaceInv
<1>2. /\ thread[k].phase = "drain" /\ thread[k].tasks = {}
      /\ thread' = [thread EXCEPT ![k].phase = "ended"]
      /\ UNCHANGED <<ws, member, reply, flow>>
  BY DEF EndThread
<1>3. /\ \A j \in Thread : j # k => thread'[j] = thread[j]
      /\ thread'[k].phase = "ended" /\ thread'[k].inbox = thread[k].inbox
      /\ thread'[k].tasks = {} /\ thread'[k].closed = thread[k].closed
      /\ thread'[k].joined = thread[k].joined /\ thread' \in [Thread -> ThreadRecord]
  <2>1. thread[k] \in ThreadRecord
    BY <1>1 DEF WorkspaceType
  <2>2. /\ thread'[k] = [thread[k] EXCEPT !.phase = "ended"]
        /\ \A j \in Thread : j # k => thread'[j] = thread[j]
    BY <1>1, <1>2 DEF WorkspaceType
  <2>3. thread'[k] \in ThreadRecord
    BY <2>1, <2>2 DEF ThreadRecord
  <2>4. thread' \in [Thread -> ThreadRecord]
    BY <1>1, <1>2, <2>3 DEF WorkspaceType
  <2>5. QED
    BY <1>2, <2>1, <2>2, <2>4 DEF ThreadRecord
<1>4. PlaceOK(k)'
  BY <1>1, <1>2, <1>3 DEF PlaceOK
<1>5. QED
  BY <1>2, <1>3, <1>4, ThreadFrame

-----------------------------------------------------------------------------
(* The members *)

(* only an Agent changes, and what waits for it was there before, or it was *)
(* accepted                                                                *)
LEMMA MemberFrame ==
  ASSUME WorkspaceInv, NEW n \in Member, WorkspaceType', MemberOK(n)',
         \A k \in Thread : PlaceOK(k)',
         UNCHANGED flow, ws'.state = ws.state, ws'.exec = ws.exec,
         \A m \in Member : m # n => /\ member'[m] = member[m] /\ reply'[m] = reply[m]
                                    /\ m \in ws'.agents <=> m \in ws.agents,
         n \in ws'.agents <=> member'[n].state # None,
         \A k \in Thread : /\ thread'[k].closed = thread[k].closed
                           /\ thread'[k].joined = thread[k].joined
                           /\ thread'[k].phase = thread[k].phase,
         n \in Present' => n \in Present \/ Accepts,
         n \in Asked' => n \in Asked,
         (/\ n \in Present /\ n \in Present'
          /\ reply[n] = "error" \/ (member[n].by = "flow" /\ member[n].state = "Stopping"))
         => reply'[n] = "error" \/ (member'[n].by = "flow" /\ member'[n].state = "Stopping")
  PROVE  WorkspaceInv'
<1>1. /\ WorkspaceType /\ Known /\ OneThread /\ FlowOK /\ StepOK /\ AskOK
      /\ \A m \in Member : MemberOK(m)
  BY DEF WorkspaceInv, FlowOK
<1>2. Unjoined' = Unjoined
  BY DEF Unjoined
<1>3. Present' \subseteq Present \/ Accepts
  BY DEF Present
<1>4. FlowOK'
  BY <1>2, <1>3, FlowFrame
<1>5. Known'
  BY <1>1 DEF WorkspaceType, Known, Present
<1>6. \A m \in Member : MemberOK(m)'
  BY <1>1 DEF MemberOK
<1>7. Asked' \subseteq Asked
  BY DEF Asked
<1>8. AskOK'
  <2>1. /\ \A a, b \in Asked' : a = b
        /\ flow'.pc = "none" /\ ws'.state \in {None, "Running"} => Asked' = {}
        /\ flow'.pc \notin {"none", "started", "stopped", "result"} => Asked' = {}
        /\ flow'.pc = "result" /\ (flow'.error = None \/ flow'.clean \/ flow'.restore)
             => Asked' = {}
    BY <1>1, <1>7 DEF AskOK
  <2>2. ASSUME flow'.pc = "stopped", flow'.error = None, NEW m \in Present' \ flow'.todo
        PROVE  reply'[m] = "error" \/ (member'[m].by = "flow" /\ member'[m].state = "Stopping")
    <3>1. ws.exec # None /\ thread[ws.exec].closed
      BY <1>1, <2>2 DEF StepOK, Served
    <3>2. m \in Member /\ m \in Present
      BY <1>3, <2>2, <3>1, AcceptsFacts DEF Present
    <3>3. reply[m] = "error" \/ (member[m].by = "flow" /\ member[m].state = "Stopping")
      BY <1>1, <2>2, <3>2 DEF AskOK
    <3>4. QED
      BY <2>2, <3>2, <3>3
  <2>3. QED
    BY <2>1, <2>2 DEF AskOK
<1>9. OneThread'
  BY <1>1, <1>2 DEF OneThread
<1>10. QED
  BY <1>4, <1>5, <1>6, <1>8, <1>9 DEF WorkspaceInv

(* where the programs are, when a member changes and no thread does        *)
LEMMA PlacesFrame ==
  ASSUME WorkspaceInv, NEW n \in Member, UNCHANGED thread,
         \A m \in Member : m # n => member'[m] = member[m],
         \/ member[n].on = None
         \/ /\ member'[n].on = member[n].on
            /\ member[n].flow \in {"await", "stuck"} =>
                 \/ member'[n].flow \in {"await", "stuck"}
                 \/ member[n].on \in Thread /\ n \in thread[member[n].on].tasks
  PROVE  \A k \in Thread : PlaceOK(k)'
<1> SUFFICES ASSUME NEW k \in Thread PROVE PlaceOK(k)'
  OBVIOUS
<1>1. WorkspaceType /\ \A j \in Thread : PlaceOK(j)
  BY DEF WorkspaceInv
<1>2. thread[k] \in ThreadRecord
  BY <1>1 DEF WorkspaceType
<1>3. thread[k].tasks \subseteq Member
  BY <1>2 DEF ThreadRecord
<1>4. ASSUME NEW i \in 1 .. Len(thread[k].inbox), thread[k].inbox[i] \in Member
      PROVE  /\ member'[thread[k].inbox[i]].on = k
             /\ member'[thread[k].inbox[i]].flow \in {"await", "stuck"}
             /\ thread[k].inbox[i] \notin thread[k].tasks
  <2>1. /\ member[thread[k].inbox[i]].on = k
        /\ member[thread[k].inbox[i]].flow \in {"await", "stuck"}
        /\ thread[k].inbox[i] \notin thread[k].tasks
    BY <1>1, <1>4 DEF PlaceOK
  <2>2. QED
    BY <1>4, <2>1, ThreadFacts
<1>5. ASSUME NEW m \in thread[k].tasks PROVE member'[m].on = k
  <2>1. member[m].on = k /\ m \in Member
    BY <1>1, <1>3, <1>5 DEF PlaceOK
  <2>2. QED
    BY <2>1, ThreadFacts
<1>6. PlaceOK(k)
  BY <1>1
<1>7. QED
  BY <1>4, <1>5, <1>6 DEF PlaceOK

(* what the parts of the invariant say of a member before a step of it      *)
LEMMA MemberFacts ==
  ASSUME WorkspaceInv, NEW n \in Member
  PROVE  /\ WorkspaceType /\ Known /\ MemberOK(n)
         /\ member[n] \in MemberRecord /\ ws.agents \subseteq Member
         /\ n \in ws.agents <=> member[n].state # None
         /\ n \in Present <=> member[n].state # None
         /\ n \in Asked <=> member[n].by = "flow" \/ reply[n] # "none"
<1>1. WorkspaceType /\ Known /\ MemberOK(n)
  BY DEF WorkspaceInv
<1>2. member[n] \in MemberRecord /\ ws.agents \subseteq Member
  BY <1>1 DEF WorkspaceType
<1>3. QED
  BY <1>1, <1>2 DEF Known, Present, Asked

(* an Agent and its answer are replaced *)
LEMMA MemberSet ==
  ASSUME WorkspaceInv, NEW n \in Member, NEW r \in MemberRecord,
         member' = [member EXCEPT ![n] = r],
         \/ UNCHANGED reply
         \/ \E a \in {"ok", "error"} : reply' = [reply EXCEPT ![n] = a]
  PROVE  /\ member'[n] = r /\ member' \in [Member -> MemberRecord]
         /\ \A m \in Member : m # n => member'[m] = member[m] /\ reply'[m] = reply[m]
         /\ reply' \in [Member -> {"none", "ok", "error"}]
         /\ \/ UNCHANGED reply
            \/ \E a \in {"ok", "error"} : reply' = [reply EXCEPT ![n] = a] /\ reply'[n] = a
<1>1. WorkspaceType
  BY DEF WorkspaceInv
<1>2. /\ member'[n] = r /\ member' \in [Member -> MemberRecord]
      /\ \A m \in Member : m # n => member'[m] = member[m]
  BY <1>1 DEF WorkspaceType
<1>3. CASE UNCHANGED reply
  BY <1>1, <1>2, <1>3 DEF WorkspaceType
<1>4. ASSUME NEW a \in {"ok", "error"}, reply' = [reply EXCEPT ![n] = a]
      PROVE  /\ \A m \in Member : m # n => reply'[m] = reply[m]
             /\ reply' \in [Member -> {"none", "ok", "error"}]
             /\ reply'[n] = a
  BY <1>1, <1>4 DEF WorkspaceType
<1>5. QED
  BY <1>2, <1>3, <1>4

LEMMA ReadyInv == ASSUME WorkspaceInv, NEW n \in Member, Ready(n) PROVE WorkspaceInv'
<1> DEFINE r == [member[n] EXCEPT !.state = "Idle", !.flow = "none", !.by = None]
<1>1. /\ member[n].flow = "await" /\ n \in thread[member[n].on].tasks
      /\ member' = [member EXCEPT ![n] = r]
      /\ reply' = IF member[n].by = "flow" THEN [reply EXCEPT ![n] = "ok"] ELSE reply
      /\ UNCHANGED <<ws, thread, flow>>
  BY DEF Ready, Tell
<1>2. /\ WorkspaceType /\ Known /\ MemberOK(n)
      /\ member[n] \in MemberRecord
      /\ n \in ws.agents <=> member[n].state # None
      /\ n \in Present <=> member[n].state # None
      /\ n \in Asked <=> member[n].by = "flow" \/ reply[n] # "none"
  BY MemberFacts
<1>3. member[n].on \in Thread /\ member[n].state # None
  BY <1>1, <1>2 DEF MemberOK, MemberRecord
<1>4. /\ r \in MemberRecord /\ r.state = "Idle" /\ r.flow = "none" /\ r.by = None
      /\ r.on = member[n].on
  BY <1>2 DEF MemberRecord
<1>5. /\ member'[n] = r /\ member' \in [Member -> MemberRecord]
      /\ \A m \in Member : m # n => member'[m] = member[m] /\ reply'[m] = reply[m]
      /\ reply' \in [Member -> {"none", "ok", "error"}]
      /\ reply'[n] = IF member[n].by = "flow" THEN "ok" ELSE reply[n]
  BY <1>1, <1>2, <1>4, MemberSet DEF WorkspaceType
<1>6. WorkspaceType'
  BY <1>1, <1>2, <1>5 DEF WorkspaceType
<1>7. MemberOK(n)'
  BY <1>1, <1>2, <1>3, <1>4, <1>5, ThreadFacts, WorkspaceAssumption DEF MemberOK
<1>8. \A k \in Thread : PlaceOK(k)'
  BY <1>1, <1>3, <1>4, <1>5, PlacesFrame
<1>9. n \in Asked' => n \in Asked
  BY <1>2, <1>4, <1>5, WorkspaceAssumption DEF Asked
<1>10. /\ n \in Present' => n \in Present \/ Accepts
       /\ n \in ws'.agents <=> member'[n].state # None
  BY <1>1, <1>2, <1>3, <1>4, <1>5, WorkspaceAssumption
<1>11. (reply[n] = "error" \/ (member[n].by = "flow" /\ member[n].state = "Stopping")) =>
             reply'[n] = "error" \/ (member'[n].by = "flow" /\ member'[n].state = "Stopping")
  BY <1>1, <1>2, <1>5 DEF MemberOK
<1>12. QED
  BY <1>1, <1>5, <1>6, <1>7, <1>8, <1>9, <1>10, <1>11, MemberFrame

LEMMA StuckInv == ASSUME WorkspaceInv, NEW n \in Member, Stuck(n) PROVE WorkspaceInv'
<1> DEFINE r == [member[n] EXCEPT !.flow = "stuck", !.by = None]
<1>1. /\ member[n].flow \in {"await", "end"}
      /\ member' = [member EXCEPT ![n] = r]
      /\ reply' = IF member[n].by = "flow" THEN [reply EXCEPT ![n] = "error"] ELSE reply
      /\ UNCHANGED <<ws, thread, flow>>
  BY DEF Stuck, Tell
<1>2. /\ WorkspaceType /\ Known /\ MemberOK(n)
      /\ member[n] \in MemberRecord
      /\ n \in ws.agents <=> member[n].state # None
      /\ n \in Present <=> member[n].state # None
      /\ n \in Asked <=> member[n].by = "flow" \/ reply[n] # "none"
  BY MemberFacts
<1>3. member[n].on # None /\ member[n].state \notin {None, "Idle"}
  BY <1>1, <1>2, WorkspaceAssumption DEF MemberOK
<1>4. /\ r \in MemberRecord /\ r.state = member[n].state /\ r.flow = "stuck" /\ r.by = None
      /\ r.on = member[n].on
  BY <1>2 DEF MemberRecord
<1>5. /\ member'[n] = r /\ member' \in [Member -> MemberRecord]
      /\ \A m \in Member : m # n => member'[m] = member[m] /\ reply'[m] = reply[m]
      /\ reply' \in [Member -> {"none", "ok", "error"}]
      /\ reply'[n] = IF member[n].by = "flow" THEN "error" ELSE reply[n]
  BY <1>1, <1>2, <1>4, MemberSet DEF WorkspaceType
<1>6. WorkspaceType'
  BY <1>1, <1>2, <1>5 DEF WorkspaceType
<1>7. MemberOK(n)'
  BY <1>1, <1>2, <1>3, <1>4, <1>5, WorkspaceAssumption DEF MemberOK
<1>8. \A k \in Thread : PlaceOK(k)'
  BY <1>1, <1>4, <1>5, PlacesFrame
<1>9. n \in Asked' => n \in Asked
  BY <1>2, <1>4, <1>5, WorkspaceAssumption DEF Asked
<1>10. n \in ws'.agents <=> member'[n].state # None
  BY <1>1, <1>2, <1>4, <1>5
<1>11. (reply[n] = "error" \/ (member[n].by = "flow" /\ member[n].state = "Stopping")) =>
             reply'[n] = "error" \/ (member'[n].by = "flow" /\ member'[n].state = "Stopping")
  BY <1>5
<1>12. n \in Present' => n \in Present
  BY <1>2, <1>3
<1>13. QED
  BY <1>1, <1>5, <1>6, <1>7, <1>8, <1>9, <1>10, <1>11, <1>12, MemberFrame

(* a client restarts an Agent; a tool task begins or ends *)
LEMMA IdleInv ==
  ASSUME WorkspaceInv, NEW n \in Member, ClientRestart(n) \/ ToolTask(n)
  PROVE  WorkspaceInv'
<1>1. /\ WorkspaceType /\ Known /\ MemberOK(n)
      /\ member[n] \in MemberRecord
      /\ n \in ws.agents <=> member[n].state # None
      /\ n \in Present <=> member[n].state # None
      /\ n \in Asked <=> member[n].by = "flow" \/ reply[n] # "none"
  BY MemberFacts
<1>2. /\ member[n].state = "Idle" /\ member[n].flow = "none" /\ member[n].by = None
      /\ member[n].on # None
      /\ UNCHANGED <<ws, thread, reply, flow>>
  BY <1>1 DEF ClientRestart, ToolTask, MemberOK
<1>3. PICK r \in MemberRecord :
        /\ member' = [member EXCEPT ![n] = r] /\ r.on = member[n].on
        /\ \/ r.state = "Restarting" /\ r.flow = "end" /\ r.by = "client"
           \/ r.state = "Idle" /\ r.flow = "none" /\ r.by = None
  <2>1. CASE ClientRestart(n)
    <3> DEFINE r == [member[n] EXCEPT !.state = "Restarting", !.flow = "end", !.by = "client"]
    <3>1. r \in MemberRecord /\ r.state = "Restarting" /\ r.flow = "end" /\ r.by = "client"
          /\ r.on = member[n].on
      BY <1>1 DEF MemberRecord
    <3>2. QED
      BY <2>1, <3>1 DEF ClientRestart
  <2>2. CASE ToolTask(n)
    <3> DEFINE r == [member[n] EXCEPT !.work = ~@]
    <3>1. r \in MemberRecord /\ r.state = "Idle" /\ r.flow = "none" /\ r.by = None
          /\ r.on = member[n].on
      BY <1>1, <1>2 DEF MemberRecord
    <3>2. QED
      BY <2>2, <3>1 DEF ToolTask
  <2>3. QED
    BY <2>1, <2>2
<1>4. /\ member'[n] = r /\ member' \in [Member -> MemberRecord]
      /\ \A m \in Member : m # n => member'[m] = member[m] /\ reply'[m] = reply[m]
  BY <1>2, <1>3, MemberSet
<1>5. WorkspaceType'
  BY <1>1, <1>2, <1>4 DEF WorkspaceType
<1>6. MemberOK(n)'
  BY <1>1, <1>2, <1>3, <1>4, WorkspaceAssumption DEF MemberOK
<1>7. \A k \in Thread : PlaceOK(k)'
  BY <1>2, <1>3, <1>4, PlacesFrame
<1>8. n \in Asked' => n \in Asked
  BY <1>1, <1>2, <1>3, <1>4, WorkspaceAssumption DEF Asked
<1>9. n \in ws'.agents <=> member'[n].state # None
  BY <1>1, <1>2, <1>3, <1>4, WorkspaceAssumption
<1>10. n \in Present' => n \in Present
  BY <1>1, <1>2, WorkspaceAssumption
<1>11. (reply[n] = "error" \/ (member[n].by = "flow" /\ member[n].state = "Stopping")) =>
             reply'[n] = "error" \/ (member'[n].by = "flow" /\ member'[n].state = "Stopping")
  BY <1>2
<1>12. QED
  BY <1>2, <1>4, <1>5, <1>6, <1>7, <1>8, <1>9, <1>10, <1>11, MemberFrame

LEMMA ClientStartInv == ASSUME WorkspaceInv, NEW n \in Member, ClientStart(n) PROVE WorkspaceInv'
<1> DEFINE r == [NoAgent EXCEPT !.state = "Starting", !.flow = "boot", !.by = "client"]
<1>1. /\ Accepts /\ member[n].state = None
      /\ member' = [member EXCEPT ![n] = r]
      /\ ws' = [ws EXCEPT !.agents = @ \cup {n}]
      /\ UNCHANGED <<thread, reply, flow>>
  BY DEF ClientStart, StartAgent
<1>2. /\ WorkspaceType /\ Known /\ MemberOK(n)
      /\ member[n] \in MemberRecord /\ ws.agents \subseteq Member
      /\ n \in Asked <=> member[n].by = "flow" \/ reply[n] # "none"
  BY MemberFacts
<1>3. /\ r \in MemberRecord /\ r.state = "Starting" /\ r.flow = "boot" /\ r.by = "client"
      /\ r.on = None
  BY DEF MemberRecord, NoAgent
<1>4. /\ member'[n] = r /\ member' \in [Member -> MemberRecord]
      /\ \A m \in Member : m # n => member'[m] = member[m] /\ reply'[m] = reply[m]
  BY <1>1, <1>3, MemberSet
<1>5. /\ ws'.state = ws.state /\ ws'.exec = ws.exec /\ ws'.agents = ws.agents \cup {n}
      /\ WorkspaceType'
  BY <1>1, <1>2, <1>4 DEF WorkspaceType
<1>6. MemberOK(n)'
  BY <1>1, <1>2, <1>3, <1>4, WorkspaceAssumption DEF MemberOK
<1>7. \A k \in Thread : PlaceOK(k)'
  BY <1>1, <1>2, <1>4, PlacesFrame DEF MemberOK
<1>8. n \in Asked' => n \in Asked
  BY <1>1, <1>2, <1>3, <1>4 DEF Asked
<1>9. n \in ws'.agents <=> member'[n].state # None
  BY <1>3, <1>4, <1>5, WorkspaceAssumption
<1>10. n \notin Present
  BY <1>1 DEF Present
<1>11. QED
  BY <1>1, <1>4, <1>5, <1>6, <1>7, <1>8, <1>9, <1>10, MemberFrame

(* an Agent that was on no thread, or is on none any more, is destroyed     *)
LEMMA DespawnInv ==
  ASSUME WorkspaceInv, NEW n \in Member, Despawn(n), UNCHANGED flow,
         \/ UNCHANGED reply
         \/ \E a \in {"ok", "error"} : reply' = [reply EXCEPT ![n] = a] /\ member[n].by = "flow",
         thread' \in [Thread -> ThreadRecord],
         \A k \in Thread : /\ thread'[k].closed = thread[k].closed
                           /\ thread'[k].joined = thread[k].joined
                           /\ thread'[k].phase = thread[k].phase,
         \A k \in Thread : PlaceOK(k)'
  PROVE  WorkspaceInv'
<1>1. /\ WorkspaceType /\ Known /\ MemberOK(n) /\ ws.agents \subseteq Member
      /\ n \in Asked <=> member[n].by = "flow" \/ reply[n] # "none"
  BY MemberFacts
<1>2. /\ NoAgent \in MemberRecord /\ NoAgent.state = None /\ NoAgent.flow = "none"
      /\ NoAgent.by = None /\ NoAgent.on = None
  BY DEF NoAgent, MemberRecord
<1>3. /\ member' = [member EXCEPT ![n] = NoAgent] /\ ws' = [ws EXCEPT !.agents = @ \ {n}]
  BY DEF Despawn
<1>4. /\ member'[n] = NoAgent /\ member' \in [Member -> MemberRecord]
      /\ \A m \in Member : m # n => member'[m] = member[m] /\ reply'[m] = reply[m]
      /\ reply' \in [Member -> {"none", "ok", "error"}]
  BY <1>2, <1>3, MemberSet
<1>5. /\ ws'.state = ws.state /\ ws'.exec = ws.exec /\ ws'.agents = ws.agents \ {n}
      /\ WorkspaceType'
  BY <1>1, <1>3, <1>4 DEF WorkspaceType
<1>6. MemberOK(n)'
  BY <1>2, <1>4, WorkspaceAssumption DEF MemberOK
<1>7. n \in Asked' => n \in Asked
  BY <1>1, <1>2, <1>4, WorkspaceAssumption DEF Asked
<1>8. n \notin Present' /\ (n \in ws'.agents <=> member'[n].state # None)
  BY <1>2, <1>4, <1>5 DEF Present
<1>9. QED
  BY <1>4, <1>5, <1>6, <1>7, <1>8, MemberFrame

LEMMA BootInv == ASSUME WorkspaceInv, NEW n \in Member, Boot(n) PROVE WorkspaceInv'
<1>1. /\ WorkspaceType /\ Known /\ MemberOK(n)
      /\ member[n] \in MemberRecord /\ ws.agents \subseteq Member
      /\ n \in ws.agents <=> member[n].state # None
      /\ n \in Present <=> member[n].state # None
      /\ n \in Asked <=> member[n].by = "flow" \/ reply[n] # "none"
  BY MemberFacts
<1>2. /\ member[n].flow = "boot" /\ member[n].on = None
      /\ member[n].state \in {"Starting", "Restarting"}
      /\ UNCHANGED flow
  BY <1>1 DEF Boot, MemberOK
<1>3. CASE Despawn(n) /\ Tell(n, "error") /\ UNCHANGED thread
  <2>1. \A k \in Thread : PlaceOK(k)'
    <3>1. \A m \in Member : m # n => member'[m] = member[m]
      BY <1>1, <1>3 DEF Despawn, WorkspaceType
    <3>2. QED
      BY <1>2, <1>3, <3>1, PlacesFrame
  <2>2. \/ UNCHANGED reply
        \/ reply' = [reply EXCEPT ![n] = "error"] /\ member[n].by = "flow"
    BY <1>3 DEF Tell
  <2>3. thread' \in [Thread -> ThreadRecord]
    BY <1>1, <1>3 DEF WorkspaceType
  <2>4. QED
    BY <1>2, <1>3, <2>1, <2>2, <2>3, DespawnInv
<1>4. ASSUME Admits(ws.exec),
             thread' = [thread EXCEPT ![ws.exec].inbox = Append(@, n)],
             member' = [member EXCEPT ![n].flow = "await", ![n].on = ws.exec],
             UNCHANGED <<ws, reply>>
      PROVE  WorkspaceInv'
  <2> DEFINE e == ws.exec
             r == [member[n] EXCEPT !.flow = "await", !.on = e]
             t == [thread[e] EXCEPT !.inbox = Append(@, n)]
  <2>1. e \in Thread
    BY <1>1, <1>4 DEF WorkspaceType, Admits
  <2>2. /\ r \in MemberRecord /\ r.state = member[n].state /\ r.flow = "await" /\ r.on = e
        /\ r.by = member[n].by
    BY <1>1, <2>1 DEF MemberRecord
  <2>3. /\ member'[n] = r /\ member' \in [Member -> MemberRecord]
        /\ \A m \in Member : m # n => member'[m] = member[m] /\ reply'[m] = reply[m]
    <3>1. member' = [member EXCEPT ![n] = r]
      BY <1>4
    <3>2. QED
      BY <1>4, <2>2, <3>1, MemberSet
  <2>4. /\ thread[e] \in ThreadRecord /\ thread[e].inbox \in Seq(Member \cup {"close"})
        /\ thread[e].tasks \subseteq Member
    BY <1>1, <2>1 DEF WorkspaceType, ThreadRecord
  <2>5. /\ Append(thread[e].inbox, n) \in Seq(Member \cup {"close"})
        /\ Len(thread[e].inbox) \in Nat
        /\ Len(Append(thread[e].inbox, n)) = Len(thread[e].inbox) + 1
        /\ \A i \in 1 .. Len(thread[e].inbox) : Append(thread[e].inbox, n)[i] = thread[e].inbox[i]
        /\ Append(thread[e].inbox, n)[Len(thread[e].inbox) + 1] = n
    BY <2>4, AppendProperties, LenProperties
  <2>6. /\ t \in ThreadRecord /\ t.inbox = Append(thread[e].inbox, n)
        /\ t.tasks = thread[e].tasks /\ t.closed = thread[e].closed
        /\ t.joined = thread[e].joined /\ t.phase = thread[e].phase
    BY <2>4, <2>5 DEF ThreadRecord
  <2>7. /\ thread'[e] = t /\ thread' \in [Thread -> ThreadRecord]
        /\ \A k \in Thread : k # e => thread'[k] = thread[k]
    BY <1>1, <1>4, <2>1, <2>6 DEF WorkspaceType
  <2>8. WorkspaceType'
    BY <1>1, <1>2, <1>4, <2>3, <2>7 DEF WorkspaceType
  <2>9. MemberOK(n)'
    BY <1>1, <1>2, <1>4, <2>1, <2>2, <2>3, ThreadFacts, WorkspaceAssumption DEF MemberOK
  <2>10. \A k \in Thread : /\ \A i \in 1 .. Len(thread[k].inbox) : thread[k].inbox[i] # n
                           /\ n \notin thread[k].tasks
    BY <1>2, ThreadFacts DEF WorkspaceInv, PlaceOK
  <2>11. ASSUME NEW k \in Thread PROVE PlaceOK(k)'
    <3>1. PlaceOK(k) /\ thread[k].tasks \subseteq Member
      BY <1>1 DEF WorkspaceInv, WorkspaceType, ThreadRecord
    <3>2. CASE k # e
      BY <2>3, <2>7, <2>10, <3>1, <3>2 DEF PlaceOK
    <3>3. CASE k = e
      <4> DEFINE q == thread[e].inbox
                 q2 == thread'[e].inbox
      <4>1. /\ Len(q2) = Len(q) + 1 /\ Len(q) \in Nat
            /\ \A i \in 1 .. Len(q) : q2[i] = q[i] /\ q[i] # n
            /\ q2[Len(q) + 1] = n
            /\ thread'[e].tasks = thread[e].tasks /\ thread'[e].phase = thread[e].phase
            /\ n \notin thread[e].tasks
        BY <2>1, <2>5, <2>6, <2>7, <2>10
      <4>2. /\ \A i, j \in 1 .. Len(q) : q[i] \in Member /\ q[i] = q[j] => i = j
            /\ \A i \in 1 .. Len(q) : q[i] \in Member =>
                 /\ member[q[i]].on = e /\ member[q[i]].flow \in {"await", "stuck"}
                 /\ q[i] \notin thread[e].tasks
        BY <3>1, <3>3 DEF PlaceOK
      <4> HIDE DEF q, q2
      <4>3. ASSUME NEW i \in 1 .. Len(q2)
            PROVE  /\ q2[i] \in Member => /\ member'[q2[i]].on = e
                                          /\ member'[q2[i]].flow \in {"await", "stuck"}
                                          /\ q2[i] \notin thread'[e].tasks
                   /\ \A j \in 1 .. Len(q2) : q2[i] \in Member /\ q2[i] = q2[j] => i = j
        <5>1. CASE i = Len(q) + 1
          <6>1. \A j \in 1 .. Len(q2) : j # i => j \in 1 .. Len(q)
            BY <4>1, <5>1
          <6>2. q2[i] = n
            BY <4>1, <5>1
          <6>3. \A j \in 1 .. Len(q2) : q2[i] = q2[j] => i = j
            BY <4>1, <6>1, <6>2
          <6>4. QED
            BY <2>2, <2>3, <4>1, <6>2, <6>3
        <5>2. CASE i # Len(q) + 1
          <6>1. i \in 1 .. Len(q) /\ q2[i] = q[i] /\ q[i] # n
            BY <4>1, <5>2
          <6>2. \A j \in 1 .. Len(q2) : j = Len(q) + 1 \/ j \in 1 .. Len(q)
            BY <4>1
          <6>3. \A j \in 1 .. Len(q2) : q2[i] \in Member /\ q2[i] = q2[j] => i = j
            BY <4>1, <4>2, <6>1, <6>2
          <6>4. q2[i] \in Member => member'[q2[i]] = member[q2[i]]
            BY <2>3, <6>1
          <6>5. QED
            BY <4>1, <4>2, <6>1, <6>3, <6>4
        <5>3. QED
          BY <5>1, <5>2
      <4> USE DEF q, q2
      <4>4. /\ \A m \in thread'[e].tasks : member'[m].on = e
            /\ thread'[e].phase = "ended" => thread'[e].tasks = {}
        BY <2>3, <3>1, <3>3, <4>1 DEF PlaceOK
      <4>5. QED
        BY <3>3, <4>3, <4>4 DEF PlaceOK
    <3>4. QED
      BY <3>2, <3>3
  <2>12. /\ n \in Asked' => n \in Asked
         /\ n \in Present' => n \in Present
         /\ n \in ws'.agents <=> member'[n].state # None
    BY <1>1, <1>2, <1>4, <2>2, <2>3, WorkspaceAssumption DEF Asked
  <2>13. (reply[n] = "error" \/ (member[n].by = "flow" /\ member[n].state = "Stopping")) =>
             reply'[n] = "error" \/ (member'[n].by = "flow" /\ member'[n].state = "Stopping")
    BY <1>2, <1>4
  <2>14. \A k \in Thread : /\ thread'[k].closed = thread[k].closed
                           /\ thread'[k].joined = thread[k].joined
                           /\ thread'[k].phase = thread[k].phase
    BY <2>6, <2>7
  <2>15. QED
    BY <1>2, <1>4, <2>3, <2>8, <2>9, <2>11, <2>12, <2>13, <2>14, MemberFrame
<1>5. QED
  BY <1>3, <1>4 DEF Boot

LEMMA EndVmInv == ASSUME WorkspaceInv, NEW n \in Member, EndVm(n) PROVE WorkspaceInv'
<1> DEFINE k == member[n].on
<1>1. /\ WorkspaceType /\ Known /\ MemberOK(n)
      /\ member[n] \in MemberRecord /\ ws.agents \subseteq Member
      /\ n \in ws.agents <=> member[n].state # None
      /\ n \in Present <=> member[n].state # None
      /\ n \in Asked <=> member[n].by = "flow" \/ reply[n] # "none"
  BY MemberFacts
<1>2. /\ member[n].flow = "end" /\ k \in Thread
      /\ member[n].state \in {"Stopping", "Restarting"}
      /\ UNCHANGED flow
  BY <1>1 DEF EndVm, MemberOK, MemberRecord
<1>3. PICK bad \in BOOLEAN :
        thread' = [thread EXCEPT ![k].tasks = @ \ {n}, ![k].failed = @ \/ bad]
  BY DEF EndVm
<1>4. thread[k] \in ThreadRecord
  BY <1>1, <1>2 DEF WorkspaceType
<1>5. PICK t \in ThreadRecord :
        /\ thread' = [thread EXCEPT ![k] = t]
        /\ t.inbox = thread[k].inbox /\ t.tasks = thread[k].tasks \ {n}
        /\ t.closed = thread[k].closed /\ t.joined = thread[k].joined
        /\ t.phase = thread[k].phase
  <2> DEFINE t == [thread[k] EXCEPT !.tasks = @ \ {n}, !.failed = @ \/ bad]
  <2>1. thread[k].failed \/ bad \in BOOLEAN
    OBVIOUS
  <2>2. /\ t \in ThreadRecord
        /\ t.inbox = thread[k].inbox /\ t.tasks = thread[k].tasks \ {n}
        /\ t.closed = thread[k].closed /\ t.joined = thread[k].joined
        /\ t.phase = thread[k].phase
    BY <1>4 DEF ThreadRecord
  <2>3. thread' = [thread EXCEPT ![k] = t]
    BY <1>1, <1>2, <1>3 DEF WorkspaceType
  <2>4. QED
    BY <2>2, <2>3
<1>6. /\ thread' \in [Thread -> ThreadRecord] /\ thread'[k] = t
      /\ \A j \in Thread : j # k => thread'[j] = thread[j]
  BY <1>1, <1>2, <1>5 DEF WorkspaceType
<1>7. /\ \A m \in Member : m # n => member'[m] = member[m]
      /\ \/ /\ Despawn(n) /\ Tell(n, "ok")
            /\ member[n].state = "Stopping"
         \/ /\ member' = [member EXCEPT ![n].flow = "boot", ![n].on = None]
            /\ UNCHANGED <<ws, reply>>
            /\ member[n].state = "Restarting"
  BY <1>1, <1>2 DEF EndVm, Despawn, WorkspaceType
<1>8. ASSUME NEW j \in Thread PROVE PlaceOK(j)'
  <2>1. PlaceOK(j) /\ thread[j].tasks \subseteq Member
    BY <1>1 DEF WorkspaceInv, WorkspaceType, ThreadRecord
  <2>2. /\ thread'[j].inbox = thread[j].inbox /\ thread'[j].phase = thread[j].phase
        /\ thread'[j].tasks = thread[j].tasks \ {n}
    <3>1. CASE j = k
      BY <1>5, <1>6, <3>1
    <3>2. CASE j # k
      BY <1>6, <2>1, <3>2 DEF PlaceOK
    <3>3. QED
      BY <3>1, <3>2
  <2>3. \A i \in 1 .. Len(thread[j].inbox) : thread[j].inbox[i] # n
    BY <1>2, <2>1 DEF PlaceOK
  <2>4. QED
    BY <1>7, <2>1, <2>2, <2>3 DEF PlaceOK
<1>9. \A j \in Thread : /\ thread'[j].closed = thread[j].closed
                        /\ thread'[j].joined = thread[j].joined
                        /\ thread'[j].phase = thread[j].phase
  BY <1>5, <1>6
<1>10. CASE Despawn(n) /\ Tell(n, "ok")
  <2>1. \/ UNCHANGED reply
        \/ reply' = [reply EXCEPT ![n] = "ok"] /\ member[n].by = "flow"
    BY <1>10 DEF Tell
  <2>2. QED
    BY <1>2, <1>6, <1>8, <1>9, <1>10, <2>1, DespawnInv
<1>11. CASE /\ member' = [member EXCEPT ![n].flow = "boot", ![n].on = None]
            /\ UNCHANGED <<ws, reply>>
            /\ member[n].state = "Restarting"
  <2> DEFINE r == [member[n] EXCEPT !.flow = "boot", !.on = None]
  <2>1. /\ r \in MemberRecord /\ r.state = "Restarting" /\ r.flow = "boot" /\ r.on = None
        /\ r.by = member[n].by
    BY <1>1, <1>11 DEF MemberRecord
  <2>2. /\ member'[n] = r /\ member' \in [Member -> MemberRecord]
        /\ \A m \in Member : m # n => member'[m] = member[m] /\ reply'[m] = reply[m]
    <3>1. member' = [member EXCEPT ![n] = r]
      BY <1>11
    <3>2. QED
      BY <1>11, <2>1, <3>1, MemberSet
  <2>3. WorkspaceType'
    BY <1>1, <1>2, <1>6, <1>11, <2>2 DEF WorkspaceType
  <2>4. MemberOK(n)'
    BY <1>1, <1>11, <2>1, <2>2, WorkspaceAssumption DEF MemberOK
  <2>5. /\ n \in Asked' => n \in Asked
        /\ n \in Present' => n \in Present
        /\ n \in ws'.agents <=> member'[n].state # None
    BY <1>1, <1>11, <2>1, <2>2, WorkspaceAssumption DEF Asked
  <2>6. (reply[n] = "error" \/ (member[n].by = "flow" /\ member[n].state = "Stopping")) =>
             reply'[n] = "error" \/ (member'[n].by = "flow" /\ member'[n].state = "Stopping")
    BY <1>11
  <2>7. QED
    BY <1>2, <1>8, <1>9, <1>11, <2>2, <2>3, <2>4, <2>5, <2>6, MemberFrame
<1>12. QED
  BY <1>7, <1>10, <1>11

-----------------------------------------------------------------------------
(* The flows *)

LEMMA NoFlowFacts ==
  /\ NoFlow \in FlowRecord
  /\ NoFlow.kind = None /\ NoFlow.pc = "none" /\ NoFlow.error = None
  /\ NoFlow.clean = FALSE /\ NoFlow.restore = FALSE
BY DEF NoFlow, FlowRecord, Errors

(* a step of a flow that leaves the members alone *)
LEMMA FlowMoves ==
  ASSUME WorkspaceInv, WorkspaceType', UNCHANGED <<member, reply>>, ws'.agents = ws.agents,
         \A k \in Thread : PlaceOK(k)',
         OneThread', FlowOK', AskOK'
  PROVE  WorkspaceInv'
<1>1. Known /\ \A n \in Member : MemberOK(n)
  BY DEF WorkspaceInv
<1>2. Known' /\ \A n \in Member : MemberOK(n)'
  BY <1>1 DEF Known, Present, MemberOK
<1>3. QED
  BY <1>2 DEF WorkspaceInv

(* one that leaves the threads alone, too *)
LEMMA QuietPlaces ==
  ASSUME WorkspaceInv, UNCHANGED <<thread, member>>
  PROVE  /\ \A k \in Thread : PlaceOK(k)'
         /\ OneThread' /\ Unjoined' = Unjoined /\ Present' = Present
BY DEF WorkspaceInv, PlaceOK, OneThread, Unjoined, Present

(* a flow that fails relies on nothing any more *)
LEMMA FailsFacts ==
  ASSUME WorkspaceInv, flow.kind # None, NEW e \in Errors \ {None}, Fails(e, FALSE, FALSE),
         UNCHANGED <<ws, member, reply>>
  PROVE  flow' \in FlowRecord /\ FlowOK' /\ AskOK'
<1>1. WorkspaceType /\ FlowOK /\ AskOK
  BY DEF WorkspaceInv
<1>2. flow \in FlowRecord
  BY <1>1 DEF WorkspaceType
<1>3. /\ flow' \in FlowRecord
      /\ flow'.kind = flow.kind /\ flow'.pc = "result" /\ flow'.error = e
      /\ flow'.clean = FALSE /\ flow'.restore = FALSE
  BY <1>2, NoFlowFacts DEF Fails, FlowRecord
<1>4. Expected' = Expected
  BY <1>3 DEF Expected
<1>5. StepOK'
  BY <1>3 DEF StepOK
<1>6. FlowOK'
  BY <1>1, <1>3, <1>4, <1>5 DEF FlowOK
<1>7. AskOK'
  BY <1>1, <1>3 DEF AskOK, Asked
<1>8. QED
  BY <1>3, <1>6, <1>7

LEMMA FailsInv ==
  ASSUME WorkspaceInv, flow.kind # None, NEW e \in Errors \ {None}, Fails(e, FALSE, FALSE),
         UNCHANGED <<ws, thread, member, reply>>
  PROVE  WorkspaceInv'
<1>1. flow' \in FlowRecord /\ FlowOK' /\ AskOK'
  BY FailsFacts
<1>2. WorkspaceType'
  BY <1>1 DEF WorkspaceInv, WorkspaceType
<1>3. QED
  BY <1>1, <1>2, QuietPlaces, FlowMoves

(* the admission of a thread is closed *)
LEMMA ClosedPlaces ==
  ASSUME WorkspaceInv, NEW k \in Thread, UNCHANGED member,
         thread' = [thread EXCEPT ![k].closed = TRUE]
  PROVE  /\ thread' \in [Thread -> ThreadRecord] /\ Unjoined' = Unjoined
         /\ \A j \in Thread : PlaceOK(j)'
         /\ thread'[k].closed
<1> DEFINE t == [thread[k] EXCEPT !.closed = TRUE]
<1>1. WorkspaceType /\ thread[k] \in ThreadRecord
  BY DEF WorkspaceInv, WorkspaceType
<1>2. /\ t \in ThreadRecord /\ t.closed = TRUE /\ t.inbox = thread[k].inbox
      /\ t.tasks = thread[k].tasks /\ t.phase = thread[k].phase /\ t.joined = thread[k].joined
  BY <1>1 DEF ThreadRecord
<1>3. /\ thread'[k] = t /\ thread' \in [Thread -> ThreadRecord]
      /\ \A j \in Thread : j # k => thread'[j] = thread[j]
  BY <1>1, <1>2 DEF WorkspaceType
<1>4. Unjoined' = Unjoined
  BY <1>2, <1>3 DEF Unjoined
<1>5. ASSUME NEW j \in Thread PROVE PlaceOK(j)'
  <2>1. PlaceOK(j)
    BY DEF WorkspaceInv
  <2>2. /\ thread'[j].inbox = thread[j].inbox /\ thread'[j].tasks = thread[j].tasks
        /\ thread'[j].phase = thread[j].phase
    BY <1>2, <1>3
  <2>3. QED
    BY <2>1, <2>2 DEF PlaceOK
<1>6. QED
  BY <1>2, <1>3, <1>4, <1>5

(* a request is accepted when no flow is at work *)
LEMMA HandleInv ==
  ASSUME WorkspaceInv, NEW r \in All, Handle(r)
  PROVE  WorkspaceInv'
<1>1. WorkspaceType /\ Known /\ OneThread /\ FlowOK /\ StepOK /\ AskOK
  BY DEF WorkspaceInv, FlowOK
<1>2. flow.kind \in {None, "start", "stop", "restart"}
  BY <1>1 DEF WorkspaceType, FlowRecord
<1>3. UNCHANGED <<member, reply>>
  BY DEF Handle, HandleStart, HandleStop, HandleRestart
<1>4. CASE UNCHANGED <<ws, thread, flow>>
  <2>1. WorkspaceType' /\ FlowOK' /\ AskOK'
    BY <1>1, <1>3, <1>4 DEF WorkspaceType, FlowOK, StepOK, Expected, Served, Empty, Shut, Unjoined,
       Present, AskOK, Asked
  <2>2. QED
    BY <1>3, <1>4, <2>1, QuietPlaces, FlowMoves
<1>5. ASSUME ws.state \in {None, "Running"} PROVE flow.pc = "none" /\ Asked = {}
  <2>1. flow.kind = None
    BY <1>1, <1>2, <1>5, ExpectedFacts, WorkspaceAssumption DEF FlowOK
  <2>2. flow.pc = "none"
    BY <1>1, <2>1 DEF FlowOK
  <2>3. QED
    BY <1>1, <1>5, <2>2 DEF AskOK
<1>6. ASSUME NEW kind \in {"start", "stop", "restart"}, NEW pc \in {"define", "enumerate"},
             flow' = [NoFlow EXCEPT !.kind = kind, !.pc = pc, !.for = r]
      PROVE  /\ flow' \in FlowRecord /\ flow'.kind = kind /\ flow'.pc = pc /\ flow'.error = None
             /\ flow'.clean = FALSE /\ flow'.restore = FALSE
  BY <1>6, NoFlowFacts DEF FlowRecord, NoFlow
<1>7. CASE /\ ws.state = None
           /\ ws' = [state |-> "Starting", agents |-> {}, exec |-> None]
           /\ flow' = [NoFlow EXCEPT !.kind = "start", !.pc = "define", !.for = r]
           /\ UNCHANGED thread
  <2>1. /\ flow' \in FlowRecord /\ flow'.kind = "start" /\ flow'.pc = "define"
        /\ flow'.error = None /\ ~flow'.clean /\ ~flow'.restore
    BY <1>6, <1>7
  <2>2. Present = {} /\ Unjoined = {} /\ Asked = {}
    BY <1>1, <1>5, <1>7 DEF StepOK
  <2>3. /\ ws'.state = "Starting" /\ ws'.agents = ws.agents /\ ws'.exec = None
        /\ WorkspaceType'
    BY <1>1, <1>3, <1>7, <2>1, <2>2 DEF WorkspaceType, Known
  <2>4. Present' = {} /\ Unjoined' = {} /\ Asked' = {}
    BY <1>3, <1>7, <2>2 DEF Present, Unjoined, Asked
  <2>5. StepOK'
    BY <2>1, <2>3, <2>4 DEF StepOK
  <2>6. Expected' = "Starting"
    BY <2>1 DEF Expected
  <2>7. FlowOK'
    BY <2>1, <2>3, <2>5, <2>6, WorkspaceAssumption DEF FlowOK
  <2>8. AskOK'
    BY <2>1, <2>4 DEF AskOK
  <2>9. QED
    BY <1>3, <1>7, <2>3, <2>7, <2>8, QuietPlaces, FlowMoves
<1>8. CASE /\ ws.state = "Running"
           /\ ws' = [ws EXCEPT !.state = "Restarting"]
           /\ flow' = [NoFlow EXCEPT !.kind = "restart", !.pc = "define", !.for = r]
           /\ UNCHANGED thread
  <2>1. /\ flow' \in FlowRecord /\ flow'.kind = "restart" /\ flow'.pc = "define"
        /\ flow'.error = None /\ ~flow'.clean /\ ~flow'.restore
    BY <1>6, <1>8
  <2>2. Served /\ Asked = {}
    BY <1>1, <1>5, <1>8 DEF StepOK
  <2>3. /\ ws'.state = "Restarting" /\ ws'.agents = ws.agents /\ ws'.exec = ws.exec
        /\ WorkspaceType'
    BY <1>1, <1>3, <1>8, <2>1 DEF WorkspaceType
  <2>4. Served' /\ Asked' = {}
    BY <1>3, <1>8, <2>2, <2>3 DEF Served, Unjoined, Asked
  <2>5. StepOK'
    BY <2>1, <2>4 DEF StepOK
  <2>6. Expected' = "Restarting"
    BY <2>1 DEF Expected
  <2>7. FlowOK'
    BY <2>1, <2>3, <2>5, <2>6, WorkspaceAssumption DEF FlowOK
  <2>8. AskOK'
    BY <2>1, <2>4 DEF AskOK
  <2>9. QED
    BY <1>3, <1>8, <2>3, <2>7, <2>8, QuietPlaces, FlowMoves
<1>9. CASE /\ ws.state = "Running" /\ ws.exec # None
           /\ ws' = [ws EXCEPT !.state = "Stopping"]
           /\ thread' = [thread EXCEPT ![ws.exec].closed = TRUE]
           /\ flow' = [NoFlow EXCEPT !.kind = "stop", !.pc = "enumerate", !.for = r]
  <2>1. /\ flow' \in FlowRecord /\ flow'.kind = "stop" /\ flow'.pc = "enumerate"
        /\ flow'.error = None /\ ~flow'.clean /\ ~flow'.restore
    BY <1>6, <1>9
  <2>2. Served /\ Asked = {}
    BY <1>1, <1>5, <1>9 DEF StepOK
  <2>3. /\ thread' \in [Thread -> ThreadRecord] /\ Unjoined' = Unjoined
        /\ \A k \in Thread : PlaceOK(k)'
    <3>1. ws.exec \in Thread
      BY <1>1, <1>9 DEF WorkspaceType
    <3>2. QED
      BY <1>3, <1>9, <3>1, ClosedPlaces
  <2>4. /\ ws'.state = "Stopping" /\ ws'.agents = ws.agents /\ ws'.exec = ws.exec
        /\ WorkspaceType'
    BY <1>1, <1>3, <1>9, <2>1, <2>3 DEF WorkspaceType
  <2>5. Served' /\ Asked' = {} /\ OneThread'
    BY <1>1, <1>3, <2>2, <2>3, <2>4 DEF Served, Asked, OneThread
  <2>6. StepOK'
    BY <2>1, <2>5 DEF StepOK
  <2>7. Expected' = "Stopping"
    BY <2>1 DEF Expected
  <2>8. FlowOK'
    BY <2>1, <2>4, <2>6, <2>7, WorkspaceAssumption DEF FlowOK
  <2>9. AskOK'
    BY <2>1, <2>5 DEF AskOK
  <2>10. QED
    BY <1>3, <2>3, <2>4, <2>5, <2>8, <2>9, FlowMoves
<1>10. QED
  BY <1>4, <1>7, <1>8, <1>9 DEF Handle, HandleStart, HandleStop, HandleRestart, Begin, Refuse

(* what a flow at work knows *)
LEMMA FlowFacts ==
  ASSUME WorkspaceInv
  PROVE  /\ WorkspaceType /\ Known /\ OneThread /\ FlowOK /\ StepOK /\ AskOK
         /\ flow \in FlowRecord /\ ws.agents \subseteq Member
         /\ ws.exec # None => ws.exec \in Thread
         /\ flow.thread # None => flow.thread \in Thread
BY DEF WorkspaceInv, FlowOK, WorkspaceType, FlowRecord

(* the place of a flow changes, and what StepOK and AskOK say of the new one *)
(* holds                                                                   *)
LEMMA GotoFacts ==
  ASSUME WorkspaceInv, flow' \in FlowRecord, flow.kind # None, flow'.kind = flow.kind,
         flow'.pc # "none", ws'.state = ws.state,
         flow'.pc \in {"spawn", "mount", "start", "started"} => flow.kind \in {"start", "restart"},
         flow'.pc # "define",
         flow'.pc \in {"enumerate", "stop", "stopped", "close", "join"}
           => flow.kind \in {"stop", "restart"},
         flow'.pc \notin {"stop", "stopped", "result"} => flow'.error = None,
         flow'.pc # "result" => ~flow'.clean /\ ~flow'.restore,
         StepOK'
  PROVE  FlowOK'
<1>1. FlowOK
  BY DEF WorkspaceInv
<1>2. Expected' = Expected
  BY DEF Expected
<1>3. QED
  BY <1>1, <1>2 DEF FlowOK

LEMMA DefineInv == ASSUME WorkspaceInv, Define PROVE WorkspaceInv'
<1>1. /\ WorkspaceType /\ FlowOK /\ StepOK /\ AskOK /\ flow \in FlowRecord
  BY FlowFacts
<1>2. flow.pc = "define" /\ UNCHANGED <<ws, thread, member, reply>>
  BY DEF Define
<1>3. /\ flow.kind \in {"start", "restart"} /\ flow.kind # None /\ flow.error = None
      /\ Asked = {} /\ ~flow.clean /\ ~flow.restore
  BY <1>1, <1>2, WorkspaceAssumption DEF FlowOK, AskOK
<1>4. Unjoined' = Unjoined /\ Present' = Present /\ Asked' = {} /\ (Served => Served')
  BY <1>2, <1>3 DEF Unjoined, Present, Asked, Served
<1>5. PICK doc \in Documents :
        IF Names(doc) = None
        THEN Fails("InvalidDefinition", flow.kind = "start", flow.kind = "restart")
        ELSE flow' = [flow EXCEPT !.names = Names(doc),
                                  !.pc = IF flow.kind = "start" THEN "spawn" ELSE "enumerate"]
  BY DEF Define
<1>6. /\ flow' \in FlowRecord /\ flow'.kind = flow.kind
      /\ \/ /\ flow'.pc = "result" /\ flow'.error = "InvalidDefinition"
            /\ flow'.clean => flow.kind = "start"
            /\ flow'.restore => flow.kind = "restart"
         \/ /\ flow'.error = None /\ ~flow'.clean /\ ~flow'.restore
            /\ \/ flow'.pc = "spawn" /\ flow.kind = "start"
               \/ flow'.pc = "enumerate" /\ flow.kind = "restart"
  <2>1. CASE Names(doc) = None
    <3>1. CASE flow.kind = "start"
      <4>1. Fails("InvalidDefinition", TRUE, FALSE)
        BY <1>5, <2>1, <3>1 DEF Fails
      <4>2. QED
        BY <1>1, <3>1, <4>1, NoFlowFacts DEF Fails, FlowRecord, Errors
    <3>2. CASE flow.kind = "restart"
      <4>1. Fails("InvalidDefinition", FALSE, TRUE)
        BY <1>5, <2>1, <3>2 DEF Fails
      <4>2. QED
        BY <1>1, <3>2, <4>1, NoFlowFacts DEF Fails, FlowRecord, Errors
    <3>3. QED
      BY <1>3, <3>1, <3>2
  <2>2. CASE Names(doc) # None
    <3>1. Names(doc) \subseteq Member
      BY <2>2, NameAssumption
    <3>2. CASE flow.kind = "start"
      <4>1. flow' = [flow EXCEPT !.names = Names(doc), !.pc = "spawn"]
        BY <1>5, <2>2, <3>2
      <4>2. QED
        BY <1>1, <1>3, <3>1, <3>2, <4>1 DEF FlowRecord
    <3>3. CASE flow.kind = "restart"
      <4>1. flow' = [flow EXCEPT !.names = Names(doc), !.pc = "enumerate"]
        BY <1>5, <2>2, <3>3
      <4>2. QED
        BY <1>1, <1>3, <3>1, <3>3, <4>1 DEF FlowRecord
    <3>4. QED
      BY <1>3, <3>2, <3>3
  <2>3. QED
    BY <2>1, <2>2
<1>7. StepOK'
  <2>1. flow.kind = "start" => ws'.exec = None /\ Present' = {} /\ Unjoined' = {}
    BY <1>1, <1>2, <1>4 DEF StepOK
  <2>2. flow.kind = "restart" => Served'
    BY <1>1, <1>2, <1>4 DEF StepOK
  <2>3. QED
    BY <1>3, <1>6, <2>1, <2>2, WorkspaceAssumption DEF StepOK
<1>8. FlowOK'
  BY <1>2, <1>3, <1>6, <1>7, GotoFacts
<1>9. AskOK'
  BY <1>4, <1>6 DEF AskOK
<1>10. WorkspaceType'
  BY <1>1, <1>2, <1>6 DEF WorkspaceType
<1>11. QED
  BY <1>2, <1>8, <1>9, <1>10, QuietPlaces, FlowMoves

LEMMA SpawnThreadInv == ASSUME WorkspaceInv, SpawnThread PROVE WorkspaceInv'
<1>1. /\ WorkspaceType /\ FlowOK /\ StepOK /\ AskOK /\ flow \in FlowRecord
      /\ ws.exec # None => ws.exec \in Thread
  BY FlowFacts
<1>2. flow.pc = "spawn" /\ UNCHANGED <<ws, member, reply>>
  BY DEF SpawnThread
<1>3. /\ flow.kind \in {"start", "restart"} /\ flow.kind # None /\ flow.error = None
      /\ ~flow.clean /\ ~flow.restore /\ Asked = {} /\ Present = {} /\ Unjoined = {}
      /\ ws.exec # None => thread[ws.exec].joined /\ thread[ws.exec].phase = "ended"
  BY <1>1, <1>2, WorkspaceAssumption DEF FlowOK, StepOK, AskOK
<1>4. CASE Fails("ThreadStartFailed", FALSE, FALSE) /\ UNCHANGED thread
  BY <1>2, <1>3, <1>4, FailsInv, WorkspaceAssumption DEF Errors
<1>5. ASSUME NEW k \in Thread, thread[k].phase = "none",
             thread' = [thread EXCEPT ![k] = NewThread],
             flow' = [flow EXCEPT !.pc = "mount", !.thread = k]
      PROVE  WorkspaceInv'
  <2>1. /\ NewThread \in ThreadRecord /\ NewThread.phase = "open" /\ NewThread.joined = FALSE
        /\ NewThread.inbox = <<>> /\ NewThread.tasks = {}
    BY EmptySeq DEF NewThread, ThreadRecord
  <2>2. /\ thread'[k] = NewThread /\ thread' \in [Thread -> ThreadRecord]
        /\ \A j \in Thread : j # k => thread'[j] = thread[j]
    BY <1>1, <1>5, <2>1 DEF WorkspaceType
  <2>3. /\ flow' \in FlowRecord /\ flow'.kind = flow.kind /\ flow'.pc = "mount"
        /\ flow'.error = None /\ flow'.thread = k /\ k # None
        /\ ~flow'.clean /\ ~flow'.restore
    BY <1>1, <1>3, <1>5, ThreadFacts DEF FlowRecord
  <2>4. Unjoined' = {k}
    BY <1>3, <2>1, <2>2 DEF Unjoined
  <2>5. ws'.exec # None => thread'[ws'.exec].joined /\ thread'[ws'.exec].phase = "ended"
    BY <1>1, <1>2, <1>3, <1>5, <2>2
  <2>6. Present' = {} /\ Asked' = {}
    BY <1>2, <1>3 DEF Present, Asked
  <2>7. StepOK'
    BY <2>3, <2>4, <2>5, <2>6 DEF StepOK
  <2>8. FlowOK'
    BY <1>2, <1>3, <2>3, <2>7, GotoFacts
  <2>9. AskOK'
    BY <2>3, <2>6 DEF AskOK
  <2>10. ASSUME NEW j \in Thread PROVE PlaceOK(j)'
    <3>1. CASE j = k
      BY <2>1, <2>2, <3>1, EmptySeq DEF PlaceOK
    <3>2. CASE j # k
      BY <1>2, <2>2, <3>2 DEF WorkspaceInv, PlaceOK
    <3>3. QED
      BY <3>1, <3>2
  <2>11. WorkspaceType' /\ OneThread'
    BY <1>1, <1>2, <2>2, <2>3, <2>4 DEF WorkspaceType, OneThread
  <2>12. QED
    BY <1>2, <2>8, <2>9, <2>10, <2>11, FlowMoves
<1>6. QED
  BY <1>4, <1>5 DEF SpawnThread

LEMMA MountInv == ASSUME WorkspaceInv, Mount PROVE WorkspaceInv'
<1>1. /\ WorkspaceType /\ Known /\ FlowOK /\ StepOK /\ AskOK /\ flow \in FlowRecord
      /\ flow.thread # None => flow.thread \in Thread
  BY FlowFacts
<1>2. flow.pc = "mount" /\ UNCHANGED <<thread, member, reply>>
  BY DEF Mount
<1>3. /\ flow.kind \in {"start", "restart"} /\ flow.kind # None /\ flow.error = None
      /\ ws.state = Expected /\ ~flow.clean /\ ~flow.restore
      /\ Asked = {} /\ Present = {} /\ Unjoined = {flow.thread} /\ flow.thread # None
      /\ ws.exec # None => thread[ws.exec].joined
  BY <1>1, <1>2, WorkspaceAssumption DEF FlowOK, StepOK, AskOK
<1>4. /\ ws' = [ws EXCEPT !.agents = {}, !.exec = flow.thread]
      /\ flow' = [flow EXCEPT !.pc = "start", !.todo = flow.names]
  BY <1>3 DEF Mount
<1>5. /\ flow' \in FlowRecord /\ flow'.kind = flow.kind /\ flow'.pc = "start"
      /\ flow'.error = None /\ ~flow'.clean /\ ~flow'.restore
  BY <1>1, <1>3, <1>4 DEF FlowRecord
<1>6. /\ ws'.state = ws.state /\ ws'.agents = ws.agents /\ ws'.exec = flow.thread
      /\ WorkspaceType'
  BY <1>1, <1>2, <1>3, <1>4, <1>5 DEF WorkspaceType, Known
<1>7. Served' /\ Asked' = {}
  BY <1>2, <1>3, <1>6 DEF Served, Unjoined, Asked
<1>8. StepOK'
  BY <1>5, <1>7 DEF StepOK
<1>9. FlowOK'
  BY <1>3, <1>5, <1>6, <1>8, GotoFacts
<1>10. AskOK'
  BY <1>5, <1>7 DEF AskOK
<1>11. QED
  BY <1>2, <1>6, <1>9, <1>10, QuietPlaces, FlowMoves

(* a step of a flow that takes or gives an answer and leaves the Agents alone *)
LEMMA ReplyMoves ==
  ASSUME WorkspaceInv, WorkspaceType', UNCHANGED <<thread, member>>, ws'.agents = ws.agents,
         \A n \in Member : reply'[n] = reply[n] \/ reply'[n] = "none" \/ member[n].by # "flow",
         FlowOK', AskOK'
  PROVE  WorkspaceInv'
<1>1. Known /\ \A n \in Member : MemberOK(n)
  BY DEF WorkspaceInv
<1>2. Known' /\ \A n \in Member : MemberOK(n)'
  BY <1>1 DEF Known, Present, MemberOK
<1>3. QED
  BY <1>2, QuietPlaces DEF WorkspaceInv

(* a step of a flow that replaces one Agent                                *)
LEMMA AgentMoves ==
  ASSUME WorkspaceInv, WorkspaceType', UNCHANGED <<thread, reply>>, NEW n \in Member,
         \A m \in Member : m # n => member'[m] = member[m] /\ (m \in ws'.agents <=> m \in ws.agents),
         n \in ws'.agents <=> member'[n].state # None,
         MemberOK(n)', \A k \in Thread : PlaceOK(k)',
         FlowOK', AskOK'
  PROVE  WorkspaceInv'
<1>1. Known /\ OneThread /\ \A m \in Member : MemberOK(m)
  BY DEF WorkspaceInv
<1>2. ws'.agents \subseteq Member
  BY DEF WorkspaceType
<1>3. Known'
  BY <1>1, <1>2 DEF Known, Present
<1>4. \A m \in Member : MemberOK(m)'
  BY <1>1 DEF MemberOK
<1>5. OneThread'
  BY <1>1 DEF OneThread, Unjoined
<1>6. QED
  BY <1>3, <1>4, <1>5 DEF WorkspaceInv

LEMMA StartMemberInv == ASSUME WorkspaceInv, StartMember PROVE WorkspaceInv'
<1>1. /\ WorkspaceType /\ FlowOK /\ StepOK /\ AskOK /\ flow \in FlowRecord
  BY FlowFacts
<1>2. flow.pc = "start" /\ UNCHANGED thread
  BY DEF StartMember
<1>3. /\ flow.kind \in {"start", "restart"} /\ flow.kind # None /\ flow.error = None
      /\ ~flow.clean /\ ~flow.restore /\ Asked = {} /\ Served
  BY <1>1, <1>2, WorkspaceAssumption DEF FlowOK, StepOK, AskOK
<1>4. CASE Goto("result") /\ UNCHANGED <<ws, member, reply>>
  <2>1. /\ flow' \in FlowRecord /\ flow'.kind = flow.kind /\ flow'.pc = "result"
        /\ flow'.error = None /\ ~flow'.clean /\ ~flow'.restore
    BY <1>1, <1>3, <1>4 DEF Goto, FlowRecord
  <2>2. Served' /\ Asked' = {}
    BY <1>2, <1>3, <1>4 DEF Served, Unjoined, Asked
  <2>3. StepOK'
    BY <1>3, <2>1, <2>2 DEF StepOK
  <2>4. FlowOK'
    BY <1>3, <1>4, <2>1, <2>3, GotoFacts
  <2>5. AskOK' /\ WorkspaceType'
    BY <1>1, <1>2, <1>4, <2>1, <2>2 DEF AskOK, WorkspaceType
  <2>6. QED
    BY <1>2, <1>4, <2>4, <2>5, QuietPlaces, FlowMoves
<1>5. ASSUME NEW n \in flow.todo, StartAgent(n, "flow"),
             flow' = [flow EXCEPT !.pc = "started", !.todo = @ \ {n}]
      PROVE  WorkspaceInv'
  <2>1. /\ n \in Member /\ MemberOK(n) /\ reply[n] = "none" /\ member[n].by # "flow"
        /\ ws.agents \subseteq Member
    BY <1>1, <1>3, MemberFacts, FlowFacts DEF FlowRecord, Asked
  <2>2. /\ flow' \in FlowRecord /\ flow'.kind = flow.kind /\ flow'.pc = "started"
        /\ flow'.error = None /\ ~flow'.clean /\ ~flow'.restore
    BY <1>1, <1>3, <1>5 DEF FlowRecord
  <2>3. ASSUME ws'.exec = ws.exec, ws'.state = ws.state, Asked' \subseteq {n}
        PROVE  FlowOK' /\ AskOK'
    <3>1. Served'
      BY <1>2, <1>3, <2>3 DEF Served, Unjoined
    <3>2. StepOK'
      BY <2>2, <3>1 DEF StepOK
    <3>3. FlowOK'
      BY <1>3, <2>2, <2>3, <3>2, GotoFacts
    <3>4. AskOK'
      BY <2>2, <2>3 DEF AskOK
    <3>5. QED
      BY <3>3, <3>4
  <2>4. CASE /\ Accepts /\ member[n].state = None
             /\ member' = [member EXCEPT ![n] = [NoAgent EXCEPT !.state = "Starting",
                                                !.flow = "boot", !.by = "flow"]]
             /\ ws' = [ws EXCEPT !.agents = @ \cup {n}]
             /\ UNCHANGED reply
    <3> DEFINE r == [NoAgent EXCEPT !.state = "Starting", !.flow = "boot", !.by = "flow"]
    <3>1. /\ r \in MemberRecord /\ r.state = "Starting" /\ r.flow = "boot" /\ r.by = "flow"
          /\ r.on = None
      BY DEF MemberRecord, NoAgent
    <3>2. /\ member'[n] = r /\ member' \in [Member -> MemberRecord]
          /\ \A m \in Member : m # n => member'[m] = member[m]
      BY <2>1, <2>4, <3>1, MemberSet
    <3>3. /\ ws'.state = ws.state /\ ws'.exec = ws.exec /\ ws'.agents = ws.agents \cup {n}
          /\ WorkspaceType'
      BY <1>1, <1>2, <2>1, <2>2, <2>4, <3>2 DEF WorkspaceType
    <3>4. MemberOK(n)'
      BY <2>1, <2>4, <3>1, <3>2, WorkspaceAssumption DEF MemberOK
    <3>5. \A k \in Thread : PlaceOK(k)'
      BY <1>2, <2>1, <2>4, <3>2, PlacesFrame DEF MemberOK
    <3>6. Asked' \subseteq {n}
      BY <1>3, <2>4, <3>2 DEF Asked
    <3>7. n \in ws'.agents <=> member'[n].state # None
      BY <3>1, <3>2, <3>3, WorkspaceAssumption
    <3>8. QED
      BY <1>2, <2>1, <2>3, <2>4, <3>2, <3>3, <3>4, <3>5, <3>6, <3>7, AgentMoves
  <2>5. CASE reply' = [reply EXCEPT ![n] = "error"] /\ UNCHANGED <<member, ws>>
    <3>1. /\ \A m \in Member : m # n => reply'[m] = reply[m]
          /\ WorkspaceType'
      BY <1>1, <1>2, <2>1, <2>2, <2>5 DEF WorkspaceType
    <3>2. Asked' \subseteq {n}
      BY <1>3, <2>5, <3>1 DEF Asked
    <3>3. QED
      BY <1>2, <2>1, <2>3, <2>5, <3>1, <3>2, ReplyMoves
  <2>6. QED
    BY <1>5, <2>4, <2>5 DEF StartAgent
<1>6. QED
  BY <1>4, <1>5 DEF StartMember

LEMMA StartedInv == ASSUME WorkspaceInv, Started PROVE WorkspaceInv'
<1>1. /\ WorkspaceType /\ Known /\ FlowOK /\ StepOK /\ AskOK /\ flow \in FlowRecord
  BY FlowFacts
<1>2. flow.pc = "started" /\ UNCHANGED <<thread, member>> /\ flow' = [flow EXCEPT !.pc = "start"]
  BY DEF Started, Goto
<1>3. /\ flow.kind \in {"start", "restart"} /\ flow.kind # None /\ flow.error = None
      /\ ~flow.clean /\ ~flow.restore /\ Served
  BY <1>1, <1>2, WorkspaceAssumption DEF FlowOK, StepOK
<1>4. PICK n \in Member :
        /\ reply[n] # "none"
        /\ reply' = [reply EXCEPT ![n] = "none"]
        /\ ws' = IF reply[n] = "ok" /\ n \in Present
                 THEN [ws EXCEPT !.agents = @ \cup {n}] ELSE ws
  BY DEF Started
<1>5. Asked = {n} /\ member[n].by # "flow"
  BY <1>1, <1>4, MemberFacts DEF AskOK, Asked, MemberOK
<1>6. /\ reply'[n] = "none" /\ \A m \in Member : m # n => reply'[m] = reply[m]
      /\ reply' \in [Member -> {"none", "ok", "error"}]
  BY <1>1, <1>4 DEF WorkspaceType
<1>7. /\ flow' \in FlowRecord /\ flow'.kind = flow.kind /\ flow'.pc = "start"
      /\ flow'.error = None /\ ~flow'.clean /\ ~flow'.restore
  BY <1>1, <1>2, <1>3 DEF FlowRecord
<1>8. ws'.state = ws.state /\ ws'.exec = ws.exec /\ ws'.agents = ws.agents /\ WorkspaceType'
  <2>1. CASE n \in Present
    BY <1>1, <1>2, <1>4, <1>6, <1>7, <2>1 DEF WorkspaceType, Known
  <2>2. CASE n \notin Present
    BY <1>1, <1>2, <1>4, <1>6, <1>7, <2>2 DEF WorkspaceType
  <2>3. QED
    BY <2>1, <2>2
<1>9. Served' /\ Asked' = {}
  BY <1>2, <1>3, <1>5, <1>6, <1>8 DEF Served, Unjoined, Asked
<1>10. StepOK'
  BY <1>7, <1>9 DEF StepOK
<1>11. FlowOK'
  BY <1>3, <1>7, <1>8, <1>10, GotoFacts
<1>12. AskOK'
  BY <1>7, <1>9 DEF AskOK
<1>13. QED
  BY <1>2, <1>6, <1>8, <1>11, <1>12, ReplyMoves

LEMMA EnumerateInv == ASSUME WorkspaceInv, Enumerate PROVE WorkspaceInv'
<1>1. /\ WorkspaceType /\ Known /\ OneThread /\ FlowOK /\ StepOK /\ AskOK /\ flow \in FlowRecord
      /\ ws.exec # None => ws.exec \in Thread
  BY FlowFacts
<1>2. flow.pc = "enumerate" /\ UNCHANGED <<ws, member, reply>>
  BY DEF Enumerate
<1>3. /\ flow.kind \in {"stop", "restart"} /\ flow.kind # None /\ flow.error = None
      /\ ~flow.clean /\ ~flow.restore /\ Served /\ Asked = {} /\ ws.state = Expected
  BY <1>1, <1>2, WorkspaceAssumption DEF FlowOK, StepOK, AskOK
<1>4. ASSUME NEW e \in {"CleanupFailed", "Busy"}, Fails(e, FALSE, FALSE), UNCHANGED thread
      PROVE  WorkspaceInv'
  <2>1. e \in Errors \ {None}
    BY WorkspaceAssumption DEF Errors
  <2>2. QED
    BY <1>2, <1>3, <1>4, <2>1, FailsInv
<1>5. CASE /\ thread' = [thread EXCEPT ![ws.exec].closed = TRUE]
           /\ flow' = [flow EXCEPT !.pc = "stop", !.todo = ws.agents \cup Present,
                                   !.thread = ws.exec]
  <2>1. ws.exec \in Thread
    BY <1>1, <1>3 DEF Served
  <2>2. /\ thread' \in [Thread -> ThreadRecord] /\ Unjoined' = Unjoined
        /\ \A k \in Thread : PlaceOK(k)'
        /\ thread'[ws.exec].closed
    BY <1>2, <1>5, <2>1, ClosedPlaces
  <2>3. /\ flow' \in FlowRecord /\ flow'.kind = flow.kind /\ flow'.pc = "stop"
        /\ flow'.error = None /\ ~flow'.clean /\ ~flow'.restore
        /\ flow'.thread = ws.exec /\ flow'.todo = Present
    BY <1>1, <1>3, <1>5, <2>1 DEF FlowRecord, Known, Present
  <2>4. Served' /\ Asked' = {} /\ Present' = Present /\ OneThread' /\ WorkspaceType'
    BY <1>1, <1>2, <1>3, <2>2, <2>3 DEF Served, Asked, Present, OneThread, WorkspaceType
  <2>5. StepOK'
    BY <1>2, <2>2, <2>3, <2>4 DEF StepOK
  <2>6. FlowOK'
    BY <1>2, <1>3, <2>3, <2>5, GotoFacts
  <2>7. AskOK'
    BY <2>3, <2>4 DEF AskOK
  <2>8. QED
    BY <1>2, <2>2, <2>4, <2>6, <2>7, FlowMoves
<1>6. QED
  BY <1>3, <1>4, <1>5 DEF Enumerate

LEMMA StopMemberInv == ASSUME WorkspaceInv, StopMember PROVE WorkspaceInv'
<1>1. /\ WorkspaceType /\ FlowOK /\ StepOK /\ AskOK /\ flow \in FlowRecord
  BY FlowFacts
<1>2. flow.pc = "stop" /\ UNCHANGED <<ws, thread>>
  BY DEF StopMember
<1>3. /\ flow.kind \in {"stop", "restart"} /\ flow.kind # None
      /\ ~flow.clean /\ ~flow.restore /\ Asked = {} /\ Served
      /\ flow.thread = ws.exec /\ thread[ws.exec].closed
      /\ flow.error = None => Present \subseteq flow.todo
  BY <1>1, <1>2, WorkspaceAssumption DEF FlowOK, StepOK, AskOK
<1>4. CASE flow.error # None /\ Fails(flow.error, FALSE, FALSE) /\ UNCHANGED <<member, reply>>
  <2>1. flow.error \in Errors \ {None}
    BY <1>1, <1>4 DEF FlowRecord
  <2>2. QED
    BY <1>2, <1>3, <1>4, <2>1, FailsInv
<1>5. CASE flow.todo = {} /\ flow.error = None /\ Goto("close") /\ UNCHANGED <<member, reply>>
  <2>1. /\ flow' \in FlowRecord /\ flow'.kind = flow.kind /\ flow'.pc = "close"
        /\ flow'.error = None /\ ~flow'.clean /\ ~flow'.restore /\ flow'.thread = ws.exec
    BY <1>1, <1>3, <1>5 DEF Goto, FlowRecord
  <2>2. Served' /\ Asked' = {} /\ Present' = {}
    BY <1>2, <1>3, <1>5 DEF Served, Unjoined, Asked, Present
  <2>3. StepOK'
    BY <1>2, <1>3, <2>1, <2>2 DEF StepOK
  <2>4. FlowOK'
    BY <1>2, <1>3, <2>1, <2>3, GotoFacts
  <2>5. AskOK' /\ WorkspaceType'
    BY <1>1, <1>2, <1>5, <2>1, <2>2 DEF AskOK, WorkspaceType
  <2>6. QED
    BY <1>2, <1>5, <2>4, <2>5, QuietPlaces, FlowMoves
<1>6. ASSUME NEW n \in flow.todo, StopAgent(n),
             flow' = [flow EXCEPT !.pc = "stopped", !.todo = @ \ {n}]
      PROVE  WorkspaceInv'
  <2>1. /\ n \in Member /\ MemberOK(n) /\ reply[n] = "none" /\ member[n].by # "flow"
        /\ member[n] \in MemberRecord
        /\ n \in ws.agents <=> member[n].state # None
    BY <1>1, <1>3, MemberFacts, FlowFacts DEF FlowRecord, Asked
  <2>2. /\ flow' \in FlowRecord /\ flow'.kind = flow.kind /\ flow'.pc = "stopped"
        /\ flow'.error = flow.error /\ ~flow'.clean /\ ~flow'.restore /\ flow'.thread = ws.exec
        /\ flow'.todo = flow.todo \ {n}
    BY <1>1, <1>3, <1>6 DEF FlowRecord
  <2>3. ASSUME Asked' \subseteq {n}, Present' = Present,
               reply'[n] = "error" \/ (member'[n].by = "flow" /\ member'[n].state = "Stopping")
        PROVE  FlowOK' /\ AskOK'
    <3>1. Served'
      BY <1>2, <1>3 DEF Served, Unjoined
    <3>2. StepOK'
      BY <1>2, <1>3, <2>2, <3>1 DEF StepOK
    <3>3. FlowOK'
      BY <1>2, <1>3, <2>2, <3>2, GotoFacts
    <3>4. flow'.error = None => Present' \ flow'.todo \subseteq {n}
      BY <1>3, <2>2, <2>3
    <3>5. AskOK'
      BY <2>2, <2>3, <3>4 DEF AskOK
    <3>6. QED
      BY <3>3, <3>5
  <2>4. CASE /\ member[n].state = "Idle"
             /\ member' = [member EXCEPT ![n].state = "Stopping", ![n].flow = "end",
                                         ![n].by = "flow", ![n].work = FALSE]
             /\ UNCHANGED reply
    <3> DEFINE r == [member[n] EXCEPT !.state = "Stopping", !.flow = "end", !.by = "flow",
                                      !.work = FALSE]
    <3>1. /\ r \in MemberRecord /\ r.state = "Stopping" /\ r.flow = "end" /\ r.by = "flow"
          /\ r.on = member[n].on
      BY <2>1 DEF MemberRecord
    <3>2. member' = [member EXCEPT ![n] = r]
      BY <2>4
    <3>3. /\ member'[n] = r /\ member' \in [Member -> MemberRecord]
          /\ \A m \in Member : m # n => member'[m] = member[m]
      BY <2>1, <2>4, <3>1, <3>2, MemberSet
    <3>4. WorkspaceType'
      BY <1>1, <1>2, <2>2, <2>4, <3>3 DEF WorkspaceType
    <3>5. MemberOK(n)'
      BY <2>1, <2>4, <3>1, <3>3, WorkspaceAssumption DEF MemberOK
    <3>6. \A k \in Thread : PlaceOK(k)'
      BY <1>2, <2>1, <2>4, <3>1, <3>3, PlacesFrame DEF MemberOK
    <3>7. Asked' \subseteq {n}
      BY <1>3, <2>4, <3>3 DEF Asked
    <3>8. n \in ws'.agents <=> member'[n].state # None
      BY <1>2, <2>1, <2>4, <3>1, <3>3, WorkspaceAssumption
    <3>9. Present' = Present
      BY <2>1, <2>4, <3>1, <3>3, WorkspaceAssumption DEF Present
    <3>10. FlowOK' /\ AskOK'
      BY <2>3, <3>1, <3>3, <3>7, <3>9
    <3>11. QED
      BY <1>2, <2>1, <2>4, <3>3, <3>4, <3>5, <3>6, <3>8, <3>10, AgentMoves
  <2>5. CASE reply' = [reply EXCEPT ![n] = "error"] /\ UNCHANGED member
    <3>1. /\ \A m \in Member : m # n => reply'[m] = reply[m]
          /\ reply'[n] = "error" /\ WorkspaceType'
      BY <1>1, <1>2, <2>1, <2>2, <2>5 DEF WorkspaceType
    <3>2. Asked' \subseteq {n} /\ Present' = Present
      BY <1>3, <2>5, <3>1 DEF Asked, Present
    <3>3. FlowOK' /\ AskOK'
      BY <2>3, <3>1, <3>2
    <3>4. QED
      BY <1>2, <2>1, <2>5, <3>1, <3>3, ReplyMoves
  <2>6. QED
    BY <1>6, <2>4, <2>5 DEF StopAgent
<1>7. QED
  BY <1>4, <1>5, <1>6 DEF StopMember

LEMMA StoppedInv == ASSUME WorkspaceInv, Stopped PROVE WorkspaceInv'
<1>1. /\ WorkspaceType /\ FlowOK /\ StepOK /\ AskOK /\ flow \in FlowRecord
  BY FlowFacts
<1>2. flow.pc = "stopped" /\ UNCHANGED <<ws, thread, member>>
  BY DEF Stopped
<1>3. /\ flow.kind \in {"stop", "restart"} /\ flow.kind # None
      /\ ~flow.clean /\ ~flow.restore /\ Served
      /\ flow.thread = ws.exec /\ thread[ws.exec].closed
  BY <1>1, <1>2, WorkspaceAssumption DEF FlowOK, StepOK
<1>4. PICK n \in Member :
        /\ reply[n] # "none"
        /\ reply' = [reply EXCEPT ![n] = "none"]
        /\ flow' = [flow EXCEPT !.pc = "stop",
                     !.error = IF reply[n] = "ok" THEN @ ELSE "CleanupFailed"]
  BY DEF Stopped
<1>5. Asked = {n} /\ member[n].by # "flow"
  BY <1>1, <1>4, MemberFacts DEF AskOK, Asked, MemberOK
<1>6. /\ reply'[n] = "none" /\ \A m \in Member : m # n => reply'[m] = reply[m]
      /\ reply' \in [Member -> {"none", "ok", "error"}]
  BY <1>1, <1>4 DEF WorkspaceType
<1>7. /\ flow' \in FlowRecord /\ flow'.kind = flow.kind /\ flow'.pc = "stop"
      /\ ~flow'.clean /\ ~flow'.restore /\ flow'.thread = ws.exec /\ flow'.todo = flow.todo
      /\ flow'.error = None => flow.error = None /\ reply[n] = "ok"
  <2>1. CASE reply[n] = "ok"
    BY <1>1, <1>3, <1>4, <2>1 DEF FlowRecord
  <2>2. CASE reply[n] # "ok"
    BY <1>1, <1>3, <1>4, <2>2, WorkspaceAssumption DEF FlowRecord, Errors
  <2>3. QED
    BY <2>1, <2>2
<1>8. Served' /\ Asked' = {} /\ Present' = Present
  BY <1>2, <1>3, <1>5, <1>6 DEF Served, Unjoined, Asked, Present
<1>9. flow'.error = None => Present \subseteq flow.todo
  <2>1. ASSUME flow'.error = None, NEW m \in Present \ flow.todo PROVE FALSE
    <3>1. m \in Member /\ (reply[m] = "error" \/ member[m].by = "flow")
      BY <1>1, <1>2, <1>7, <2>1 DEF AskOK, Present
    <3>2. m = n
      BY <1>5, <3>1 DEF Asked
    <3>3. QED
      BY <1>5, <1>7, <2>1, <3>1, <3>2
  <2>2. QED
    BY <2>1
<1>10. StepOK'
  BY <1>2, <1>3, <1>7, <1>8, <1>9 DEF StepOK
<1>11. FlowOK'
  BY <1>2, <1>3, <1>7, <1>10, GotoFacts
<1>12. AskOK' /\ WorkspaceType'
  BY <1>1, <1>2, <1>6, <1>7, <1>8 DEF AskOK, WorkspaceType
<1>13. QED
  BY <1>2, <1>6, <1>11, <1>12, ReplyMoves

LEMMA CloseThreadInv == ASSUME WorkspaceInv, CloseThread PROVE WorkspaceInv'
<1> DEFINE k == flow.thread
           q == thread[k].inbox
           q2 == IF thread[k].sent THEN q ELSE Append(q, "close")
           t == [thread[k] EXCEPT !.closed = TRUE, !.sent = TRUE, !.inbox = q2]
<1>1. /\ WorkspaceType /\ OneThread /\ FlowOK /\ StepOK /\ AskOK /\ flow \in FlowRecord
      /\ k # None => k \in Thread
  BY FlowFacts
<1>2. flow.pc = "close" /\ flow' = [flow EXCEPT !.pc = "join"] /\ UNCHANGED <<ws, member, reply>>
  BY DEF CloseThread, Goto
<1>3. /\ flow.kind \in {"stop", "restart"} /\ flow.kind # None /\ flow.error = None
      /\ ~flow.clean /\ ~flow.restore /\ Served /\ Asked = {} /\ Present = {}
      /\ k = ws.exec
  BY <1>1, <1>2, WorkspaceAssumption DEF FlowOK, StepOK, AskOK
<1>4. k \in Thread /\ thread[k] \in ThreadRecord /\ q \in Seq(Member \cup {"close"})
  BY <1>1, <1>3 DEF Served, WorkspaceType, ThreadRecord
<1>5. /\ q2 \in Seq(Member \cup {"close"})
      /\ \A i \in 1 .. Len(q2) :
           \/ i \in 1 .. Len(q) /\ q2[i] = q[i]
           \/ q2[i] = "close"
  <2>1. /\ Append(q, "close") \in Seq(Member \cup {"close"})
        /\ Len(q) \in Nat
        /\ Len(Append(q, "close")) = Len(q) + 1
        /\ \A i \in 1 .. Len(q) : Append(q, "close")[i] = q[i]
        /\ Append(q, "close")[Len(q) + 1] = "close"
    BY <1>4, AppendProperties, LenProperties
  <2>2. QED
    BY <1>4, <2>1
<1>6. /\ t \in ThreadRecord /\ t.inbox = q2 /\ t.tasks = thread[k].tasks /\ t.closed = TRUE
      /\ t.joined = thread[k].joined /\ t.phase = thread[k].phase
  BY <1>4, <1>5 DEF ThreadRecord
<1>7. thread' = [thread EXCEPT ![k] = t]
  BY DEF CloseThread
<1>8. /\ thread'[k] = t /\ thread' \in [Thread -> ThreadRecord]
      /\ \A j \in Thread : j # k => thread'[j] = thread[j]
  BY <1>1, <1>4, <1>6, <1>7 DEF WorkspaceType
<1>9. Unjoined' = Unjoined
  <2>1. thread'[k].phase = thread[k].phase /\ thread'[k].joined = thread[k].joined
    BY <1>6, <1>8
  <2>2. \A j \in Thread : /\ thread'[j].phase = thread[j].phase
                          /\ thread'[j].joined = thread[j].joined
    BY <1>8, <2>1
  <2>3. QED
    BY <2>2 DEF Unjoined
<1>10. ASSUME NEW j \in Thread PROVE PlaceOK(j)'
  <2>1. PlaceOK(j)
    BY DEF WorkspaceInv
  <2>2. CASE j # k
    BY <1>2, <1>8, <2>1, <2>2 DEF PlaceOK
  <2>3. CASE j = k
    <3>1. /\ thread'[k].inbox = q2 /\ thread'[k].tasks = thread[k].tasks
          /\ thread'[k].phase = thread[k].phase
      BY <1>6, <1>8
    <3>2. PlaceOK(k)
      BY <2>1, <2>3
    <3> HIDE DEF q2, t
    <3>3. \A i, m \in 1 .. Len(q2) : q2[i] \in Member /\ q2[i] = q2[m] => i = m
      BY <1>5, <3>2, WorkspaceAssumption DEF PlaceOK
    <3>4. \A i \in 1 .. Len(q2) : q2[i] \in Member =>
            /\ member[q2[i]].on = k
            /\ member[q2[i]].flow \in {"await", "stuck"}
            /\ q2[i] \notin thread[k].tasks
      BY <1>5, <3>2, WorkspaceAssumption DEF PlaceOK
    <3>5. QED
      BY <1>2, <2>3, <3>1, <3>2, <3>3, <3>4 DEF PlaceOK
  <2>4. QED
    BY <2>2, <2>3
<1>11. /\ flow' \in FlowRecord /\ flow'.kind = flow.kind /\ flow'.pc = "join"
       /\ flow'.error = None /\ ~flow'.clean /\ ~flow'.restore /\ flow'.thread = k
  BY <1>1, <1>2, <1>3 DEF FlowRecord
<1>12. Served' /\ Asked' = {} /\ Present' = {} /\ OneThread' /\ WorkspaceType'
  BY <1>1, <1>2, <1>3, <1>8, <1>9, <1>11 DEF Served, Asked, Present, OneThread, WorkspaceType
<1>13. StepOK'
  BY <1>2, <1>3, <1>6, <1>8, <1>11, <1>12 DEF StepOK
<1>14. FlowOK'
  BY <1>2, <1>3, <1>11, <1>13, GotoFacts
<1>15. AskOK'
  BY <1>11, <1>12 DEF AskOK
<1>16. QED
  BY <1>2, <1>10, <1>12, <1>14, <1>15, FlowMoves

LEMMA JoinThreadInv == ASSUME WorkspaceInv, JoinThread PROVE WorkspaceInv'
<1> DEFINE k == flow.thread
           t == [Unmade EXCEPT !.phase = "ended", !.joined = TRUE]
<1>1. /\ WorkspaceType /\ FlowOK /\ StepOK /\ AskOK /\ flow \in FlowRecord
      /\ k # None => k \in Thread
  BY FlowFacts
<1>2. flow.pc = "join" /\ UNCHANGED <<ws, member, reply>> /\ thread' = [thread EXCEPT ![k] = t]
  BY DEF JoinThread
<1>3. /\ flow.kind \in {"stop", "restart"} /\ flow.kind # None /\ flow.error = None
      /\ ~flow.clean /\ ~flow.restore /\ Served /\ Asked = {} /\ Present = {}
      /\ k = ws.exec
  BY <1>1, <1>2, WorkspaceAssumption DEF FlowOK, StepOK, AskOK
<1>4. k \in Thread /\ k # None
  BY <1>1, <1>3 DEF Served
<1>5. /\ t \in ThreadRecord /\ t.inbox = <<>> /\ t.tasks = {} /\ t.joined = TRUE
      /\ t.phase = "ended"
  BY EmptySeq DEF Unmade, NewThread, ThreadRecord
<1>6. /\ thread'[k] = t /\ thread' \in [Thread -> ThreadRecord]
      /\ \A j \in Thread : j # k => thread'[j] = thread[j]
  BY <1>1, <1>2, <1>4, <1>5 DEF WorkspaceType
<1>7. thread'[k].joined = TRUE /\ thread'[k].phase = "ended"
  BY <1>5, <1>6
<1>8. Unjoined' = {} /\ Present' = {} /\ Asked' = {} /\ OneThread'
  BY <1>2, <1>3, <1>6, <1>7 DEF Served, Unjoined, Present, Asked, OneThread
<1>9. ASSUME NEW j \in Thread PROVE PlaceOK(j)'
  <2>1. PlaceOK(j)
    BY DEF WorkspaceInv
  <2>2. CASE j # k
    BY <1>2, <1>6, <2>1, <2>2 DEF PlaceOK
  <2>3. CASE j = k
    <3>1. /\ Len(thread'[k].inbox) = 0 /\ thread'[k].tasks = {}
          /\ 1 .. Len(thread'[k].inbox) = {}
      BY <1>5, <1>6, EmptySeq
    <3> HIDE DEF t
    <3>2. QED
      BY <2>3, <3>1 DEF PlaceOK
  <2>4. QED
    BY <2>2, <2>3
<1>10. CASE Fails("ThreadCloseFailed", FALSE, FALSE)
  <2>1. flow' \in FlowRecord /\ FlowOK' /\ AskOK'
    BY <1>2, <1>3, <1>10, FailsFacts, WorkspaceAssumption DEF Errors
  <2>2. WorkspaceType'
    BY <1>1, <1>2, <1>6, <2>1 DEF WorkspaceType
  <2>3. QED
    BY <1>2, <1>8, <1>9, <2>1, <2>2, FlowMoves
<1>11. ASSUME NEW pc \in {"result", "spawn"}, flow' = [flow EXCEPT !.pc = pc],
              pc = "result" <=> flow.kind = "stop"
       PROVE  WorkspaceInv'
  <2>1. /\ flow' \in FlowRecord /\ flow'.kind = flow.kind /\ flow'.pc = pc
        /\ flow'.error = None /\ ~flow'.clean /\ ~flow'.restore
    BY <1>1, <1>3, <1>11 DEF FlowRecord
  <2>2. Empty'
    BY <1>2, <1>3, <1>4, <1>7, <1>8 DEF Empty, Shut
  <2>3. thread'[ws'.exec].joined /\ thread'[ws'.exec].phase = "ended"
    BY <1>2, <1>3, <1>7
  <2>4. StepOK'
    BY <1>8, <1>11, <2>1, <2>2, <2>3 DEF StepOK
  <2>5. FlowOK'
    BY <1>2, <1>3, <1>11, <2>1, <2>4, GotoFacts
  <2>6. AskOK' /\ WorkspaceType'
    BY <1>1, <1>2, <1>6, <1>8, <2>1 DEF AskOK, WorkspaceType
  <2>7. QED
    BY <1>2, <1>8, <1>9, <2>5, <2>6, FlowMoves
<1>12. QED
  BY <1>3, <1>10, <1>11 DEF JoinThread, Goto

LEMMA FlowPanicsInv == ASSUME WorkspaceInv, FlowPanics PROVE WorkspaceInv'
<1>1. FlowOK /\ flow.pc # "none" /\ Fails("CleanupFailed", FALSE, FALSE)
      /\ UNCHANGED <<ws, thread, member, reply>>
  BY FlowFacts DEF FlowPanics
<1>2. flow.kind # None
  BY <1>1 DEF FlowOK
<1>3. QED
  BY <1>1, <1>2, FailsInv, WorkspaceAssumption DEF Errors

LEMMA HandleResultInv == ASSUME WorkspaceInv, HandleResult PROVE WorkspaceInv'
<1>1. /\ WorkspaceType /\ Known /\ FlowOK /\ StepOK /\ AskOK /\ flow \in FlowRecord
  BY FlowFacts
<1>2. /\ flow.pc = "result" /\ ws' = AfterFlow /\ flow' = NoFlow
      /\ UNCHANGED <<thread, member, reply>>
  BY DEF HandleResult
<1>3. /\ flow.kind # None /\ flow.kind \in {"start", "stop", "restart"} /\ ws.state = Expected
      /\ ws.state \in {"Starting", "Stopping", "Restarting"}
  BY <1>1, <1>2, ExpectedFacts DEF FlowOK, FlowRecord
<1>4. /\ flow' \in FlowRecord /\ flow'.kind = None /\ flow'.pc = "none" /\ flow'.error = None
      /\ ~flow'.clean /\ ~flow'.restore
  BY <1>2, NoFlowFacts
<1>5. Present' = Present /\ Unjoined' = Unjoined /\ Asked' = Asked
  BY <1>2 DEF Present, Unjoined, Asked
<1>6. ASSUME ws'.agents = ws.agents, AskOK', WorkspaceType',
             ws'.state = None => Present = {} /\ Unjoined = {},
             ws'.state = "Running" => Served'
      PROVE  WorkspaceInv'
  <2>1. StepOK'
    BY <1>4, <1>5, <1>6 DEF StepOK
  <2>2. FlowOK'
    BY <1>4, <2>1 DEF FlowOK
  <2>3. QED
    BY <1>2, <1>6, <2>2, QuietPlaces, FlowMoves
<1>7. CASE ws' = Gone /\ Present = {} /\ Unjoined = {} /\ Asked = {}
  <2>1. ws'.state = None /\ ws'.agents = ws.agents /\ WorkspaceType'
    BY <1>1, <1>2, <1>4, <1>7 DEF Gone, Known, WorkspaceType
  <2>2. AskOK'
    BY <1>4, <1>5, <1>7 DEF AskOK
  <2>3. QED
    BY <1>6, <1>7, <2>1, <2>2, WorkspaceAssumption
<1>8. CASE /\ Served /\ Asked = {}
           /\ ws' = [ws EXCEPT !.state = "Running"] \/
              ws' = [ws EXCEPT !.state = "Running", !.agents = @ \cup Present]
  <2>1. /\ ws'.state = "Running" /\ ws'.agents = ws.agents /\ ws'.exec = ws.exec
        /\ WorkspaceType'
    <3>1. CASE ws' = [ws EXCEPT !.state = "Running"]
      BY <1>1, <1>2, <1>4, <3>1 DEF WorkspaceType
    <3>2. CASE ws' = [ws EXCEPT !.state = "Running", !.agents = @ \cup Present]
      <4>1. ws.agents \cup Present = ws.agents
        BY <1>1 DEF Known
      <4>2. QED
        BY <1>1, <1>2, <1>4, <3>2, <4>1 DEF WorkspaceType
    <3>3. QED
      BY <1>8, <3>1, <3>2
  <2>2. AskOK'
    BY <1>4, <1>5, <1>8 DEF AskOK
  <2>3. Served'
    BY <1>5, <1>8, <2>1 DEF Served
  <2>4. QED
    BY <1>6, <2>1, <2>2, <2>3, WorkspaceAssumption
<1>9. CASE ws' = ws
  <2>1. WorkspaceType' /\ ws'.state \notin {None, "Running"}
    BY <1>1, <1>2, <1>3, <1>4, <1>9, WorkspaceAssumption DEF WorkspaceType
  <2>2. AskOK'
    BY <1>1, <1>4, <1>5, <2>1 DEF AskOK
  <2>3. QED
    BY <1>6, <1>9, <2>1, <2>2
<1>10. CASE flow.error = None
  <2>1. Asked = {}
    BY <1>1, <1>2, <1>10 DEF AskOK
  <2>2. CASE flow.kind = "stop"
    <3>1. ws' = Gone
      BY <1>2, <1>3, <1>10, <2>2 DEF AfterFlow
    <3>2. Present = {} /\ Unjoined = {}
      BY <1>1, <1>2, <1>10, <2>2 DEF StepOK, Empty
    <3>3. QED
      BY <1>7, <2>1, <3>1, <3>2
  <2>3. CASE flow.kind # "stop"
    <3>1. ws' = [ws EXCEPT !.state = "Running", !.agents = @ \cup Present]
      BY <1>2, <1>3, <1>10, <2>3 DEF AfterFlow
    <3>2. Served
      BY <1>1, <1>2, <1>10, <2>3 DEF StepOK
    <3>3. QED
      BY <1>8, <2>1, <3>1, <3>2
  <2>4. QED
    BY <2>2, <2>3
<1>11. CASE flow.error # None
  <2>1. ws' = IF flow.clean THEN Gone
              ELSE IF flow.restore THEN [ws EXCEPT !.state = "Running"] ELSE ws
    BY <1>2, <1>3, <1>11 DEF AfterFlow
  <2>2. CASE flow.clean
    <3>1. Present = {} /\ Unjoined = {} /\ Asked = {}
      BY <1>1, <1>2, <2>2 DEF StepOK, AskOK
    <3>2. QED
      BY <1>7, <2>1, <2>2, <3>1
  <2>3. CASE ~flow.clean /\ flow.restore
    <3>1. Served /\ Asked = {}
      BY <1>1, <1>2, <2>3 DEF StepOK, AskOK
    <3>2. QED
      BY <1>8, <2>1, <2>3, <3>1
  <2>4. CASE ~flow.clean /\ ~flow.restore
    BY <1>9, <2>1, <2>4
  <2>5. QED
    BY <2>2, <2>3, <2>4
<1>12. QED
  BY <1>10, <1>11

-----------------------------------------------------------------------------
(* The workspace *)

(* requests as they are asked, and the shutdown, touch nothing else         *)
LEMMA QuietInv ==
  ASSUME WorkspaceInv, UNCHANGED <<ws, thread, member, reply, flow>>
  PROVE  WorkspaceInv'
<1>1. WorkspaceType /\ Known /\ OneThread /\ FlowOK /\ StepOK /\ AskOK
  BY FlowFacts
<1>2. WorkspaceType' /\ FlowOK' /\ AskOK'
  BY <1>1 DEF WorkspaceType, FlowOK, StepOK, Expected, Served, Empty, Shut, Unjoined,
     Present, AskOK, Asked
<1>3. QED
  BY <1>2, QuietPlaces, FlowMoves

LEMMA WorkspaceInit == Init => WorkspaceInv
<1> SUFFICES ASSUME Init PROVE WorkspaceInv
  OBVIOUS
<1>1. /\ ws.state = None /\ ws.agents = {} /\ ws.exec = None
      /\ ws \in [state : {None, "Starting", "Running", "Restarting", "Stopping"},
                 agents : SUBSET Member, exec : Thread \cup {None}]
      /\ thread = [k \in Thread |-> Unmade] /\ member = [n \in Member |-> NoAgent]
      /\ reply = [n \in Member |-> "none"] /\ flow = NoFlow
  BY DEF Init
<1>2. /\ Unmade \in ThreadRecord /\ Unmade.phase = "none" /\ Unmade.inbox = <<>>
      /\ Unmade.tasks = {}
  BY EmptySeq DEF Unmade, NewThread, ThreadRecord
<1>3. /\ NoAgent \in MemberRecord /\ NoAgent.state = None /\ NoAgent.flow = "none"
      /\ NoAgent.by = None /\ NoAgent.on = None
  BY DEF NoAgent, MemberRecord
<1>4. WorkspaceType
  BY <1>1, <1>2, <1>3, NoFlowFacts DEF WorkspaceType
<1>5. Present = {} /\ Unjoined = {} /\ Asked = {}
  BY <1>1, <1>2, <1>3, WorkspaceAssumption DEF Present, Unjoined, Asked
<1>6. \A n \in Member : MemberOK(n)
  BY <1>1, <1>3, WorkspaceAssumption DEF MemberOK
<1>7. \A k \in Thread : PlaceOK(k)
  BY <1>1, <1>2, EmptySeq DEF PlaceOK
<1>8. StepOK
  BY <1>1, <1>5, NoFlowFacts, WorkspaceAssumption DEF StepOK
<1>9. FlowOK
  BY <1>1, <1>8, NoFlowFacts DEF FlowOK
<1>10. Known /\ OneThread /\ AskOK
  BY <1>1, <1>5, NoFlowFacts DEF Known, OneThread, AskOK
<1>11. QED
  BY <1>4, <1>6, <1>7, <1>9, <1>10 DEF WorkspaceInv

LEMMA WorkspaceStep == WorkspaceInv /\ [Next]_vars => WorkspaceInv'
<1> SUFFICES ASSUME WorkspaceInv, [Next]_vars PROVE WorkspaceInv'
  OBVIOUS
<1>1. ASSUME NEW r \in Request, Ask(r) PROVE WorkspaceInv'
  BY <1>1, QuietInv DEF Ask
<1>2. ASSUME NEW r \in All, Handle(r) PROVE WorkspaceInv'
  BY <1>2, HandleInv
<1>3. ASSUME NEW n \in Member,
             AgentStep(n) \/ Stuck(n) \/ ClientStart(n) \/ ClientRestart(n) \/ ToolTask(n)
      PROVE  WorkspaceInv'
  BY <1>3, BootInv, ReadyInv, EndVmInv, StuckInv, ClientStartInv, IdleInv DEF AgentStep
<1>4. ASSUME NEW k \in Thread, Take(k) \/ EndThread(k) PROVE WorkspaceInv'
  BY <1>4, TakeInv, EndThreadInv
<1>5. CASE FlowStep
  BY <1>5, DefineInv, SpawnThreadInv, MountInv, StartMemberInv, StartedInv, EnumerateInv,
     StopMemberInv, StoppedInv, CloseThreadInv, JoinThreadInv, HandleResultInv DEF FlowStep
<1>6. CASE FlowPanics
  BY <1>6, FlowPanicsInv
<1>7. CASE ShutdownBegins \/ ShutdownStep
  BY <1>7, QuietInv DEF ShutdownBegins, ShutdownStep
<1>8. CASE UNCHANGED vars
  BY <1>8, QuietInv DEF vars
<1>9. QED
  BY <1>1, <1>2, <1>3, <1>4, <1>5, <1>6, <1>7, <1>8 DEF Next

LEMMA WorkspaceInvariant == Spec => []WorkspaceInv
<1>1. QED
  BY WorkspaceInit, WorkspaceStep, PTL DEF Spec

(* The program of an Agent is a task of the thread it was submitted to and  *)
(* of no other, until the thread has ended (run_executor, startup).         *)
LEMMA PlacedTasks == ASSUME WorkspaceInv PROVE WorkspaceTypeOK
<1>1. WorkspaceType /\ \A k \in Thread : PlaceOK(k)
  BY DEF WorkspaceInv
<1>2. \A k \in Thread : thread[k].phase \in {"none", "open", "drain", "ended"}
  BY <1>1 DEF WorkspaceType, ThreadRecord
<1>3. QED
  BY <1>1, <1>2 DEF WorkspaceTypeOK, WorkspaceType, PlaceOK

(* For any number of members, threads and requests: programs are tasks of   *)
(* their own thread until it ended; two execution threads of a workspace    *)
(* are never alive together, however starts, stops and restarts follow each *)
(* other and fail; and a workspace that is gone, by a stop or a start that  *)
(* failed cleanly, has left no Agent and no thread that is not joined       *)
(* (stop_members_and_join, close_and_join, mount_executor, failure_result). *)
THEOREM GoneCleanCorrect == Spec => []GoneClean
<1>1. WorkspaceInv => GoneClean
  <2> SUFFICES ASSUME WorkspaceInv PROVE GoneClean
    OBVIOUS
  <2>1. WorkspaceType /\ OneThread /\ FlowOK /\ StepOK
    BY FlowFacts
  <2>2. Cardinality(Unjoined) <= 1
    <3>1. CASE Unjoined = {}
      BY <3>1, FS_EmptySet
    <3>2. CASE Unjoined # {}
      <4>1. PICK k \in Unjoined : TRUE
        BY <3>2
      <4>2. Unjoined = {k}
        BY <2>1, <4>1 DEF OneThread
      <4>3. QED
        BY <4>2, FS_Singleton
    <3>3. QED
      BY <3>1, <3>2
  <2>3. ws.state = None => Present = {} /\ Unjoined = {}
    <3> SUFFICES ASSUME ws.state = None PROVE Present = {} /\ Unjoined = {}
      OBVIOUS
    <3>1. flow.kind = None
      BY <2>1, ExpectedFacts, WorkspaceAssumption DEF FlowOK, WorkspaceType, FlowRecord
    <3>2. QED
      BY <2>1, <3>1 DEF FlowOK, StepOK
  <2>4. QED
    BY <2>2, <2>3, PlacedTasks DEF GoneClean
<1>2. QED
  BY <1>1, WorkspaceInvariant, PTL

(* The set of members a running workspace keeps is that of its living       *)
(* Agents: those of the definition that came up and those clients started   *)
(* meanwhile, and none whose start or whose stop is over (start_members,    *)
(* handle_start_agent, despawn_clean, finish_running).                     *)
THEOREM MembersKnownCorrect == Spec => []MembersKnown
<1>1. WorkspaceInv => MembersKnown
  BY DEF WorkspaceInv, Known, MembersKnown
<1>2. QED
  BY <1>1, WorkspaceInvariant, PTL
=============================================================================
