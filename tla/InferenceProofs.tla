--------------------------- MODULE InferenceProofs ---------------------------
(***************************************************************************)
(* One inference at a time, the closed gate, and the types, for any number *)
(* of requests, turns, restarts and faults, whatever is asked and said.    *)
(* InferenceInv ties a request to its supervisor, its worker and the       *)
(* Agent's handle; ReplyInv, proved beside it, says when a request has its *)
(* reply.                                                                  *)
(*                                                                         *)
(* TextInv follows the text of a stream from what the provider claims      *)
(* through decoder, channel and accumulator to the answer; BodyInv the     *)
(* history that is asked to the request that is sent.  Under them are the  *)
(* lemmas on what the decoder, the accumulator, normalize and the three    *)
(* encoders compute, for lists of every length: each is an induction over  *)
(* the position in the list (NatSetInduction).                             *)
(***************************************************************************)
EXTENDS Inference, TLAPS, SequenceTheorems, FiniteSetTheorems, WellFoundedInduction

ReqFields == {"phase", "turn", "vm", "cancel", "heard", "reply", "ask", "body"}
GateFields == {"closed", "acc"}

GateOK(g) == g = [f \in GateFields |-> g[f]] /\ g.closed \in BOOLEAN

(* the variables are functions and records with the fields of Init *)
Shapes ==
  /\ DOMAIN agent = {"state", "turn", "turns", "vm", "stop"}
  /\ DOMAIN req = Request /\ DOMAIN gate = Request /\ DOMAIN sup = Request
  /\ DOMAIN worker = Request /\ DOMAIN seen = Request
  /\ \A r \in Request :
       /\ DOMAIN req[r] = ReqFields
       /\ GateOK(gate[r])
       /\ DOMAIN sup[r] = {"pc", "got", "frag"}
       /\ DOMAIN worker[r] = {"pc", "d", "out", "last", "chunks", "result"}
       /\ DOMAIN seen[r] = {"shown", "claimed"}

(* a turn is of the Agent that works, and has a number of its own *)
AgentOK ==
  /\ agent.turns \in Nat
  /\ agent.turn # None => agent.turn \in Nat /\ agent.turn <= agent.turns /\ agent.state = "Working"
  /\ agent.stop \in {"stop", "restart"} => agent.state = "Stopping"

Tasked(r) == req[r].phase = "launch" \/ sup[r].pc \notin {"off", "done"}

(* where a request, its supervisor and its worker may be together *)
TaskOK(r) ==
  /\ req[r].phase \in {"none", "queued", "launch", "run", "over", "failed"}
  /\ req[r].phase \in {"none", "queued", "launch", "failed"} => sup[r].pc = "off"
  /\ worker[r].pc \notin {"off", "done"} => sup[r].pc \in {"stream", "accept", "join", "late"}

(* the one at work is the current one, of the machine that runs; a request   *)
(* of the present turn was made by the machine that runs                     *)
OwnOK(r) ==
  /\ Tasked(r) => active = r /\ agent.state # "Gone" /\ req[r].vm = agent.vm
  /\ req[r].phase = "queued" =>
       /\ req[r].turn \in Nat /\ req[r].turn <= agent.turns
       /\ req[r].turn = agent.turn => req[r].vm = agent.vm

InferenceInv ==
  /\ Shapes
  /\ AgentOK
  /\ \A r \in Request : TaskOK(r) /\ OwnOK(r)

LEMMA InitInv ==
  ASSUME Init
  PROVE  InferenceInv
<1>1. Shapes
  BY DEF Init, Shapes, NoRequest, NoGate, NoSup, NoWorker, ReqFields, GateFields, GateOK
<1>2. AgentOK
  BY InferenceAssumption DEF Init, AgentOK
<1>3. ASSUME NEW r \in Request
      PROVE  TaskOK(r) /\ OwnOK(r)
  BY DEF Init, TaskOK, OwnOK, Tasked, NoRequest, NoSup, NoWorker
<1> QED
  BY <1>1, <1>2, <1>3 DEF InferenceInv

(***************************************************************************)
(* The steps of a request's task                                           *)
(***************************************************************************)
(* A step leaves all other requests as they are, and the Agent.             *)
OnlyOf(r) ==
  /\ UNCHANGED <<agent, active>>
  /\ \A q \in Request \ {r} : req'[q] = req[q] /\ sup'[q] = sup[q] /\ worker'[q] = worker[q]

LEMMA TaskStep ==
  ASSUME InferenceInv, NEW r \in Request, OnlyOf(r), Shapes', TaskOK(r)',
         Tasked(r)' => Tasked(r),
         req'[r].vm = req[r].vm, req'[r].phase = "queued" => req[r].phase = "queued" /\ req'[r].turn = req[r].turn
  PROVE  InferenceInv'
<1>1. AgentOK'
  BY DEF InferenceInv, AgentOK, OnlyOf
<1>2. OwnOK(r)'
  BY DEF InferenceInv, OwnOK, OnlyOf, Tasked
<1>3. ASSUME NEW q \in Request \ {r}
      PROVE  TaskOK(q)' /\ OwnOK(q)'
  BY DEF InferenceInv, OwnOK, OnlyOf, Tasked, TaskOK
<1> QED
  BY <1>1, <1>2, <1>3 DEF InferenceInv

LEMMA GateClosed ==
  ASSUME Shapes, NEW x, gate' = [gate EXCEPT ![x].closed = TRUE]
  PROVE  /\ DOMAIN gate' = Request
         /\ \A r \in Request : GateOK(gate'[r]) /\ (gate[r].closed => gate'[r] = gate[r])
<1>1. DOMAIN gate' = Request
  BY DEF Shapes
<1>2. ASSUME NEW r \in Request
      PROVE  GateOK(gate'[r]) /\ (gate[r].closed => gate'[r] = gate[r])
  <2>1. CASE r # x
    BY <2>1 DEF Shapes
  <2>2. CASE r = x
    <3>1. gate'[r] = [gate[r] EXCEPT !.closed = TRUE]
      BY <2>2 DEF Shapes
    <3>2. gate[r] = [f \in GateFields |-> gate[r][f]] /\ gate[r].closed \in BOOLEAN
      BY DEF Shapes, GateOK
    <3>3. gate'[r] = [f \in GateFields |-> IF f = "closed" THEN TRUE ELSE gate[r][f]]
      BY <3>1, <3>2 DEF GateFields
    <3>4. GateOK(gate'[r])
      BY <3>3 DEF GateOK, GateFields
    <3>5. ASSUME gate[r].closed
          PROVE  gate'[r] = gate[r]
      BY <3>2, <3>3, <3>5 DEF GateFields
    <3> QED BY <3>4, <3>5
  <2> QED BY <2>1, <2>2
<1> QED
  BY <1>1, <1>2

LEMMA ReplyNext ==
  ASSUME Shapes, NEW r \in Request, NEW a, Reply(r, a)
  PROVE  /\ DOMAIN req' = Request
         /\ \A q \in Request \ {r} : req'[q] = req[q]
         /\ DOMAIN req'[r] = ReqFields
         /\ req'[r].phase = "over" /\ req'[r].vm = req[r].vm
  BY DEF Shapes, Reply, NoRequest, ReqFields

LEMMA FinishNext ==
  ASSUME Shapes, NEW r \in Request, NEW a, FinishInference(r, a)
  PROVE  /\ DOMAIN gate' = Request /\ \A q \in Request : GateOK(gate'[q])
         /\ DOMAIN req' = Request
         /\ \A q \in Request \ {r} : req'[q] = req[q]
         /\ DOMAIN req'[r] = ReqFields
         /\ req'[r] = req[r] \/ req'[r].phase = "over"
         /\ req'[r].vm = req[r].vm
<1>1. DOMAIN gate' = Request /\ \A q \in Request : GateOK(gate'[q])
  BY GateClosed DEF FinishInference
<1>2. CASE UNCHANGED req
  BY <1>1, <1>2 DEF Shapes
<1>3. CASE Reply(r, a)
  BY <1>1, <1>3, ReplyNext
<1> QED
  BY <1>2, <1>3 DEF FinishInference

LEMMA LaunchInv ==
  ASSUME InferenceInv, NEW r \in Request, Launch(r)
  PROVE  InferenceInv'
<1>1. TaskOK(r) /\ Shapes /\ worker[r].pc \in {"off", "done"}
  BY DEF InferenceInv, TaskOK, Launch
<1>2. OnlyOf(r) /\ Shapes'
  BY <1>1 DEF Launch, OnlyOf, Shapes
<1>3. req'[r].phase = "run" /\ req'[r].vm = req[r].vm /\ worker'[r] = worker[r] /\ sup'[r].pc = "ready"
  BY <1>1 DEF Launch, Shapes, ReqFields
<1>4. TaskOK(r)' /\ Tasked(r)
  BY <1>1, <1>3 DEF TaskOK, Tasked, Launch
<1> QED
  BY <1>2, <1>3, <1>4, TaskStep

LEMMA LaunchFailsInv ==
  ASSUME InferenceInv, NEW r \in Request, LaunchFails(r)
  PROVE  InferenceInv'
<1>1. TaskOK(r) /\ Shapes /\ req[r].phase = "launch"
  BY DEF InferenceInv, LaunchFails
<1>2. DOMAIN gate' = Request /\ \A q \in Request : GateOK(gate'[q])
  BY <1>1, GateClosed DEF LaunchFails
<1>3. /\ req' = [req EXCEPT ![r] = [req[r] EXCEPT !.phase = "failed", !.reply = Failure("TaskPanicked"),
                                                  !.ask = None, !.body = None]]
      /\ UNCHANGED <<agent, active, sup, worker, seen>>
  BY DEF LaunchFails
<1>4. /\ req'[r].phase = "failed" /\ req'[r].vm = req[r].vm /\ DOMAIN req'[r] = ReqFields
      /\ DOMAIN req' = Request /\ \A q \in Request \ {r} : req'[q] = req[q]
  BY <1>1, <1>3 DEF Shapes, ReqFields
<1>5. OnlyOf(r) /\ Shapes'
  BY <1>1, <1>2, <1>3, <1>4 DEF OnlyOf, Shapes
<1>6. TaskOK(r)' /\ Tasked(r)
  BY <1>1, <1>3, <1>4 DEF TaskOK, Tasked
<1> QED
  BY <1>4, <1>5, <1>6, TaskStep

(* The supervisor of a request answers, or not, and goes on.                *)
LEMMA SupStep ==
  ASSUME InferenceInv, NEW r \in Request,
         UNCHANGED <<agent, active, seen>>,
         DOMAIN gate' = Request, \A q \in Request : GateOK(gate'[q]),
         DOMAIN req' = Request, \A q \in Request \ {r} : req'[q] = req[q],
         DOMAIN req'[r] = ReqFields, req'[r].vm = req[r].vm,
         req'[r].phase \in {req[r].phase, "over"},
         DOMAIN sup' = Request, \A q \in Request \ {r} : sup'[q] = sup[q],
         DOMAIN sup'[r] = {"pc", "got", "frag"},
         sup[r].pc \notin {"off", "done"}, sup'[r].pc # "off",
         DOMAIN worker' = Request, \A q \in Request \ {r} : worker'[q] = worker[q],
         DOMAIN worker'[r] = {"pc", "d", "out", "last", "chunks", "result"},
         worker'[r].pc \notin {"off", "done"} => sup'[r].pc \in {"stream", "accept", "join", "late"}
  PROVE  InferenceInv'
<1>1. Shapes /\ TaskOK(r)
  BY DEF InferenceInv
<1>2. OnlyOf(r) /\ Shapes'
  BY <1>1 DEF OnlyOf, Shapes
<1>3. req[r].phase \in {"run", "over"}
  BY <1>1 DEF TaskOK
<1>4. TaskOK(r)' /\ Tasked(r)
  BY <1>3 DEF TaskOK, Tasked
<1> QED
  BY <1>2, <1>3, <1>4, TaskStep

LEMMA BeginInv ==
  ASSUME InferenceInv, NEW r \in Request, Begin(r)
  PROVE  InferenceInv'
<1>1. Shapes /\ sup[r].pc = "ready" /\ UNCHANGED <<agent, active, seen>> /\ worker[r].pc \in {"off", "done"}
  BY DEF InferenceInv, Begin, TaskOK
<1>2. CASE \E a : FinishInference(r, a) /\ sup' = [sup EXCEPT ![r].pc = "notify"] /\ UNCHANGED worker
  <2>1. /\ DOMAIN gate' = Request /\ \A q \in Request : GateOK(gate'[q])
        /\ DOMAIN req' = Request
        /\ \A q \in Request \ {r} : req'[q] = req[q]
        /\ DOMAIN req'[r] = ReqFields
        /\ req'[r] = req[r] \/ req'[r].phase = "over"
        /\ req'[r].vm = req[r].vm
    BY <1>1, <1>2, FinishNext
  <2>2. /\ DOMAIN sup' = Request /\ \A q \in Request \ {r} : sup'[q] = sup[q]
        /\ DOMAIN sup'[r] = {"pc", "got", "frag"} /\ sup'[r].pc = "notify"
    BY <1>1, <1>2 DEF Shapes
  <2>3. /\ DOMAIN worker' = Request /\ worker' = worker
        /\ DOMAIN worker'[r] = {"pc", "d", "out", "last", "chunks", "result"}
    BY <1>1, <1>2 DEF Shapes
  <2> QED BY <1>1, <2>1, <2>2, <2>3, SupStep
<1>3. CASE /\ sup' = [sup EXCEPT ![r].pc = "stream"]
           /\ worker' = [worker EXCEPT ![r] = [NoWorker EXCEPT !.pc = "connect",
                                                              !.d = NewDecoder(req[r].body.format)]]
           /\ req' = [req EXCEPT ![r].ask = None, ![r].body = None]
           /\ UNCHANGED gate
  <2>1. /\ DOMAIN sup' = Request /\ \A q \in Request \ {r} : sup'[q] = sup[q]
        /\ DOMAIN sup'[r] = {"pc", "got", "frag"} /\ sup'[r].pc = "stream"
    BY <1>1, <1>3 DEF Shapes
  <2>2. /\ DOMAIN worker' = Request /\ \A q \in Request \ {r} : worker'[q] = worker[q]
        /\ DOMAIN worker'[r] = {"pc", "d", "out", "last", "chunks", "result"}
    BY <1>1, <1>3 DEF Shapes, NoWorker
  <2>3. req'[r] = [req[r] EXCEPT !.ask = None, !.body = None]
    BY <1>1, <1>3 DEF Shapes
  <2>4. /\ DOMAIN req' = Request /\ \A q \in Request \ {r} : req'[q] = req[q]
        /\ DOMAIN req'[r] = ReqFields /\ req'[r].vm = req[r].vm /\ req'[r].phase = req[r].phase
    BY <1>1, <1>3, <2>3 DEF Shapes, ReqFields
  <2>5. DOMAIN gate' = Request /\ \A q \in Request : GateOK(gate'[q])
    BY <1>1, <1>3 DEF Shapes
  <2> QED BY <1>1, <2>1, <2>2, <2>4, <2>5, SupStep
<1> QED
  BY <1>2, <1>3 DEF Begin

(* what a supervisor that finishes changes of the requests and gates *)
LEMMA FinishStep ==
  ASSUME InferenceInv, NEW r \in Request, NEW a, FinishInference(r, a) \/ UNCHANGED <<req, gate>>,
         UNCHANGED <<agent, active, seen>>, sup[r].pc \notin {"off", "done"},
         NEW to, to # "off", sup' = [sup EXCEPT ![r].pc = to] \/ \E g, f : sup' = [sup EXCEPT ![r] = [pc |-> to, got |-> g, frag |-> f]],
         UNCHANGED worker, worker[r].pc \notin {"off", "done"} => to \in {"stream", "accept", "join", "late"}
  PROVE  InferenceInv'
<1>1. Shapes
  BY DEF InferenceInv
<1>2. /\ DOMAIN gate' = Request /\ \A q \in Request : GateOK(gate'[q])
      /\ DOMAIN req' = Request
      /\ \A q \in Request \ {r} : req'[q] = req[q]
      /\ DOMAIN req'[r] = ReqFields
      /\ req'[r].phase \in {req[r].phase, "over"}
      /\ req'[r].vm = req[r].vm
  <2>1. CASE FinishInference(r, a)
    BY <1>1, <2>1, FinishNext
  <2>2. CASE UNCHANGED <<req, gate>>
    BY <1>1, <2>2 DEF Shapes
  <2> QED BY <2>1, <2>2
<1>3. /\ DOMAIN sup' = Request /\ \A q \in Request \ {r} : sup'[q] = sup[q]
      /\ DOMAIN sup'[r] = {"pc", "got", "frag"} /\ sup'[r].pc = to
  BY <1>1 DEF Shapes
<1>4. DOMAIN worker' = Request /\ worker' = worker
      /\ DOMAIN worker'[r] = {"pc", "d", "out", "last", "chunks", "result"}
  BY <1>1 DEF Shapes
<1> QED
  BY <1>2, <1>3, <1>4, SupStep

LEMMA SettleInv ==
  ASSUME InferenceInv, NEW r \in Request, NEW got, Settle(r, got), UNCHANGED seen,
         sup[r].pc \in {"stream", "accept"}
  PROVE  InferenceInv'
<1>1. Shapes /\ UNCHANGED <<agent, active, worker>> /\ sup' = [sup EXCEPT ![r] = [pc |-> "join", got |-> got, frag |-> None]]
  BY DEF InferenceInv, Settle
<1>2. CASE \E a : FinishInference(r, a)
  BY <1>1, <1>2, FinishStep
<1>3. CASE gate' = [gate EXCEPT ![r].closed = TRUE] /\ UNCHANGED req
  <2>1. DOMAIN gate' = Request /\ \A q \in Request : GateOK(gate'[q])
    BY <1>1, <1>3, GateClosed
  <2>2. /\ DOMAIN sup' = Request /\ \A q \in Request \ {r} : sup'[q] = sup[q]
        /\ DOMAIN sup'[r] = {"pc", "got", "frag"} /\ sup'[r].pc = "join"
    BY <1>1 DEF Shapes
  <2>3. /\ DOMAIN worker' = Request /\ worker' = worker
        /\ DOMAIN worker'[r] = {"pc", "d", "out", "last", "chunks", "result"}
        /\ DOMAIN req' = Request /\ req' = req /\ DOMAIN req'[r] = ReqFields
    BY <1>1, <1>3 DEF Shapes
  <2> QED BY <1>1, <2>1, <2>2, <2>3, SupStep
<1>4. (\E a : FinishInference(r, a)) \/ (gate' = [gate EXCEPT ![r].closed = TRUE] /\ UNCHANGED req)
  BY DEF Settle
<1> QED
  BY <1>2, <1>3, <1>4

LEMMA InterruptInv ==
  ASSUME InferenceInv, NEW r \in Request, Interrupt(r) \/ StreamEnds(r)
  PROVE  InferenceInv'
<1>1. PICK got : Settle(r, got)
  BY DEF Interrupt, StreamEnds
<1> QED
  BY <1>1, SettleInv DEF Interrupt, StreamEnds

LEMMA ReceiveInv ==
  ASSUME InferenceInv, NEW r \in Request, Receive(r)
  PROVE  InferenceInv'
<1>1. Shapes /\ sup[r].pc = "stream"
  BY DEF InferenceInv, Receive
<1>2. /\ sup' = [sup EXCEPT ![r].pc = "accept", ![r].frag = Head(chan[r])]
      /\ UNCHANGED <<agent, active, req, gate, worker, seen>>
  BY DEF Receive
<1>3. /\ DOMAIN sup' = Request /\ \A q \in Request \ {r} : sup'[q] = sup[q]
      /\ DOMAIN sup'[r] = {"pc", "got", "frag"} /\ sup'[r].pc = "accept"
  BY <1>1, <1>2 DEF Shapes
<1>4. /\ DOMAIN gate' = Request /\ (\A q \in Request : GateOK(gate'[q]))
      /\ DOMAIN req' = Request /\ DOMAIN req'[r] = ReqFields
      /\ DOMAIN worker' = Request /\ DOMAIN worker'[r] = {"pc", "d", "out", "last", "chunks", "result"}
  BY <1>1, <1>2 DEF Shapes
<1> QED
  BY <1>1, <1>2, <1>3, <1>4, SupStep

(* a fragment that is taken leaves the request where it is *)
LEMMA TakeInv ==
  ASSUME InferenceInv, NEW r \in Request, Take(r), sup[r].pc = "accept"
  PROVE  InferenceInv'
<1> DEFINE next == Accept(gate[r].acc, sup[r].frag)
<1>1. CASE next.bad
  BY <1>1, SettleInv DEF Take
<1>2. CASE ~next.bad
  <2>1. /\ gate' = [gate EXCEPT ![r].acc = next.acc]
        /\ sup' = [sup EXCEPT ![r].pc = "stream", ![r].frag = None]
        /\ seen' = [seen EXCEPT ![r].shown = @ + next.text]
        /\ UNCHANGED <<agent, active, req, worker>>
    BY <1>2 DEF Take
  <2> HIDE DEF next
  <2>2. Shapes /\ TaskOK(r)
    BY DEF InferenceInv
  <2>3. GateOK(gate'[r])
    <3>1. gate'[r] = [gate[r] EXCEPT !.acc = next.acc]
      BY <2>1, <2>2 DEF Shapes
    <3>2. gate[r] = [f \in GateFields |-> gate[r][f]] /\ gate[r].closed \in BOOLEAN
      BY <2>2 DEF Shapes, GateOK
    <3>3. gate'[r] = [f \in GateFields |-> IF f = "acc" THEN next.acc ELSE gate[r][f]]
      BY <3>1, <3>2 DEF GateFields
    <3> QED BY <3>2, <3>3 DEF GateOK, GateFields
  <2>4. /\ DOMAIN sup' = Request /\ \A q \in Request \ {r} : sup'[q] = sup[q]
        /\ DOMAIN sup'[r] = {"pc", "got", "frag"} /\ sup'[r].pc = "stream"
    BY <2>1, <2>2 DEF Shapes
  <2>5. DOMAIN seen' = Request /\ \A q \in Request : DOMAIN seen'[q] = {"shown", "claimed"}
    BY <2>1, <2>2 DEF Shapes
  <2>6. DOMAIN gate' = Request /\ \A q \in Request : GateOK(gate'[q])
    BY <2>1, <2>2, <2>3 DEF Shapes
  <2>7. OnlyOf(r) /\ Shapes'
    BY <2>1, <2>2, <2>4, <2>5, <2>6 DEF OnlyOf, Shapes
  <2>8. TaskOK(r)' /\ Tasked(r)
    BY <2>1, <2>2, <2>4 DEF TaskOK, Tasked
  <2> QED BY <2>1, <2>7, <2>8, TaskStep
<1> QED
  BY <1>1, <1>2

LEMMA AcceptInv ==
  ASSUME InferenceInv, NEW r \in Request, AcceptFragment(r)
  PROVE  InferenceInv'
  BY TakeInv, SettleInv DEF AcceptFragment

LEMMA JoinInv ==
  ASSUME InferenceInv, NEW r \in Request, Join(r) \/ JoinLate(r) \/ JoinAtLast(r) \/ Notify(r)
  PROVE  InferenceInv'
<1>1. TaskOK(r)
  BY DEF InferenceInv
<1>2. CASE Join(r)
  BY <1>2, FinishStep DEF Join
<1>3. CASE JoinLate(r)
  BY <1>3, FinishStep DEF JoinLate
<1>4. CASE JoinAtLast(r)
  BY <1>4, FinishStep DEF JoinAtLast
<1>5. CASE Notify(r)
  BY <1>1, <1>5, FinishStep DEF Notify, TaskOK
<1> QED
  BY <1>2, <1>3, <1>4, <1>5

LEMMA EndTaskInv ==
  ASSUME InferenceInv, NEW r \in Request, EndTask(r)
  PROVE  InferenceInv'
<1>1. Shapes /\ TaskOK(r)
  BY DEF InferenceInv
<1>2. /\ sup[r].pc = "ending"
      /\ sup' = [sup EXCEPT ![r] = [NoSup EXCEPT !.pc = "done"]]
      /\ gate' = [gate EXCEPT ![r].acc = NewAccumulator]
      /\ worker' = [worker EXCEPT ![r] = NoWorker]
      /\ seen' = [seen EXCEPT ![r] = [shown |-> 0, claimed |-> 0]]
      /\ req' = [req EXCEPT ![r].turn = None, ![r].cancel = FALSE]
      /\ UNCHANGED <<agent, active>>
  BY DEF EndTask
<1>3. GateOK(gate'[r])
  <2>1. gate'[r] = [gate[r] EXCEPT !.acc = NewAccumulator]
    BY <1>1, <1>2 DEF Shapes
  <2>2. gate[r] = [f \in GateFields |-> gate[r][f]] /\ gate[r].closed \in BOOLEAN
    BY <1>1 DEF Shapes, GateOK
  <2>3. gate'[r] = [f \in GateFields |-> IF f = "acc" THEN NewAccumulator ELSE gate[r][f]]
    BY <2>1, <2>2 DEF GateFields
  <2> QED BY <2>2, <2>3 DEF GateOK, GateFields
<1>4. DOMAIN gate' = Request /\ \A q \in Request : GateOK(gate'[q])
  BY <1>1, <1>2, <1>3 DEF Shapes
<1>5. /\ DOMAIN sup' = Request /\ \A q \in Request \ {r} : sup'[q] = sup[q]
      /\ DOMAIN sup'[r] = {"pc", "got", "frag"} /\ sup'[r].pc = "done"
  BY <1>1, <1>2 DEF Shapes, NoSup
<1>6. /\ DOMAIN worker' = Request /\ \A q \in Request \ {r} : worker'[q] = worker[q]
      /\ DOMAIN worker'[r] = {"pc", "d", "out", "last", "chunks", "result"} /\ worker'[r].pc = "off"
  BY <1>1, <1>2 DEF Shapes, NoWorker
<1>7. DOMAIN seen' = Request /\ \A q \in Request : DOMAIN seen'[q] = {"shown", "claimed"}
  BY <1>1, <1>2 DEF Shapes
<1>8. /\ DOMAIN req' = Request /\ \A q \in Request \ {r} : req'[q] = req[q]
      /\ DOMAIN req'[r] = ReqFields /\ req'[r].vm = req[r].vm /\ req'[r].phase = req[r].phase
  BY <1>1, <1>2 DEF Shapes, ReqFields
<1>9. OnlyOf(r) /\ Shapes'
  BY <1>1, <1>2, <1>4, <1>5, <1>6, <1>7, <1>8 DEF OnlyOf, Shapes
<1>10. TaskOK(r)' /\ Tasked(r) /\ req[r].phase # "queued"
  BY <1>1, <1>2, <1>5, <1>6, <1>8 DEF TaskOK, Tasked
<1> QED
  BY <1>8, <1>9, <1>10, TaskStep

(***************************************************************************)
(* The steps of a worker                                                   *)
(***************************************************************************)
LEMMA WorkerStep ==
  ASSUME InferenceInv, NEW r \in Request, UNCHANGED <<agent, active, req, gate, sup>>,
         DOMAIN worker' = Request, \A q \in Request \ {r} : worker'[q] = worker[q],
         DOMAIN worker'[r] = {"pc", "d", "out", "last", "chunks", "result"},
         worker'[r].pc \notin {"off", "done"} => worker[r].pc \notin {"off", "done"},
         DOMAIN seen' = Request, \A q \in Request : DOMAIN seen'[q] = {"shown", "claimed"}
  PROVE  InferenceInv'
<1>1. Shapes /\ TaskOK(r)
  BY DEF InferenceInv
<1>2. OnlyOf(r) /\ Shapes'
  BY <1>1 DEF OnlyOf, Shapes
<1>3. TaskOK(r)' /\ (Tasked(r)' => Tasked(r))
  BY <1>1 DEF TaskOK, Tasked
<1> QED
  BY <1>2, <1>3, TaskStep

LEMMA ReturnsInv ==
  ASSUME InferenceInv, NEW r \in Request, NEW result, Returns(r, result),
         worker[r].pc \in {"connect", "read"},
         DOMAIN seen' = Request, \A q \in Request : DOMAIN seen'[q] = {"shown", "claimed"}
  PROVE  InferenceInv'
<1>1. Shapes
  BY DEF InferenceInv
<1>2. /\ DOMAIN worker' = Request /\ \A q \in Request \ {r} : worker'[q] = worker[q]
      /\ DOMAIN worker'[r] = {"pc", "d", "out", "last", "chunks", "result"}
  BY <1>1 DEF Shapes, Returns, NoWorker
<1> QED
  BY <1>2, WorkerStep DEF Returns

LEMMA DecodedInv ==
  ASSUME InferenceInv, NEW r \in Request, NEW next, NEW last, Decoded(r, next, last),
         worker[r].pc = "read",
         DOMAIN seen' = Request, \A q \in Request : DOMAIN seen'[q] = {"shown", "claimed"}
  PROVE  InferenceInv'
<1>1. CASE next.bad
  BY <1>1, ReturnsInv DEF Decoded
<1>2. CASE ~next.bad
  <2>1. /\ worker' = [worker EXCEPT ![r].d = next.d, ![r].out = next.out, ![r].last = last,
                                    ![r].chunks = @ + 1]
        /\ UNCHANGED <<agent, active, req, gate, sup>>
    BY <1>2 DEF Decoded
  <2>2. /\ DOMAIN worker' = Request /\ \A q \in Request \ {r} : worker'[q] = worker[q]
        /\ DOMAIN worker'[r] = {"pc", "d", "out", "last", "chunks", "result"}
    BY <2>1 DEF InferenceInv, Shapes
  <2> QED BY <2>1, <2>2, WorkerStep
<1> QED
  BY <1>1, <1>2

LEMMA WorkerInv ==
  ASSUME InferenceInv, NEW r \in Request,
         \/ Connect(r) \/ ReadChunk(r) \/ ReadEnd(r) \/ SendFragment(r)
         \/ WorkerReturns(r) \/ WorkerPanics(r) \/ WorkerEnds(r)
  PROVE  InferenceInv'
<1>1. Shapes
  BY DEF InferenceInv
<1>2. CASE Connect(r) \/ SendFragment(r) \/ WorkerEnds(r)
  <2>1. /\ DOMAIN worker' = Request /\ \A q \in Request \ {r} : worker'[q] = worker[q]
        /\ DOMAIN worker'[r] = {"pc", "d", "out", "last", "chunks", "result"}
    BY <1>1, <1>2 DEF Connect, SendFragment, WorkerEnds, Shapes
  <2>2. DOMAIN seen' = Request /\ \A q \in Request : DOMAIN seen'[q] = {"shown", "claimed"}
    BY <1>1, <1>2 DEF Connect, SendFragment, WorkerEnds, Shapes
  <2> QED BY <1>2, <2>1, <2>2, WorkerStep DEF Connect, SendFragment, WorkerEnds
<1>3. CASE ReadChunk(r)
  <2>1. PICK lines : /\ Decoded(r, Push(worker[r].d, lines), FALSE)
                     /\ seen' = [seen EXCEPT ![r].claimed = @ + Said(worker[r].d.format, lines)]
    BY <1>3 DEF ReadChunk
  <2>2. DOMAIN seen' = Request /\ \A q \in Request : DOMAIN seen'[q] = {"shown", "claimed"}
    BY <1>1, <2>1 DEF Shapes
  <2> QED BY <1>3, <2>1, <2>2, DecodedInv DEF ReadChunk, Reading
<1>4. CASE ReadEnd(r)
  BY <1>1, <1>4, DecodedInv DEF ReadEnd, Reading, Shapes
<1>5. CASE WorkerReturns(r) \/ WorkerPanics(r)
  BY <1>1, <1>5, ReturnsInv DEF WorkerReturns, WorkerPanics, Shapes
<1> QED
  BY <1>2, <1>3, <1>4, <1>5

(***************************************************************************)
(* The steps of the World and of the Driver                                *)
(***************************************************************************)
(* A step that starts, ends and moves no task: what is queued stays of the  *)
(* turn and the machine it was, and nothing takes the current handle from   *)
(* one that is at work.                                                     *)
LEMMA WorldStepInv ==
  ASSUME InferenceInv, UNCHANGED <<sup, worker, seen>>,
         DOMAIN agent' = {"state", "turn", "turns", "vm", "stop"}, AgentOK',
         DOMAIN gate' = Request, \A q \in Request : GateOK(gate'[q]),
         DOMAIN req' = Request, \A q \in Request : DOMAIN req'[q] = ReqFields,
         \A q \in Request : TaskOK(q)' /\ OwnOK(q)'
  PROVE  InferenceInv'
  BY DEF InferenceInv, Shapes

(* what of a request tells where it is *)
Place(q) == <<req[q].phase, req[q].turn, req[q].vm>>

LEMMA TokenSet ==
  ASSUME Shapes, NEW x, req' = [req EXCEPT ![x].cancel = TRUE]
  PROVE  /\ DOMAIN req' = Request
         /\ \A q \in Request : DOMAIN req'[q] = ReqFields /\ Place(q)' = Place(q)
<1>1. ASSUME NEW q \in Request
      PROVE  DOMAIN req'[q] = ReqFields /\ Place(q)' = Place(q)
  <2>1. CASE q # x
    BY <2>1 DEF Shapes, Place
  <2>2. CASE q = x
    <3>1. req'[q] = [req[q] EXCEPT !.cancel = TRUE]
      BY <2>2 DEF Shapes
    <3> QED BY <3>1 DEF Shapes, Place, ReqFields
  <2> QED BY <2>1, <2>2
<1> QED
  BY <1>1 DEF Shapes

LEMMA Untasked ==
  ASSUME InferenceInv, ~Busy
  PROVE  \A q \in Request : ~Tasked(q)
<1>1. ASSUME NEW q \in Request, Tasked(q)
      PROVE  FALSE
  <2>1. active = q /\ TaskOK(q)
    BY <1>1 DEF InferenceInv, OwnOK
  <2>2. IsFinished(q)
    BY <2>1, InferenceAssumption DEF Busy
  <2> QED BY <1>1, <2>1, <2>2 DEF IsFinished, TaskOK, Tasked
<1> QED
  BY <1>1

LEMMA StartTurnInv ==
  ASSUME InferenceInv, StartTurn
  PROVE  InferenceInv'
<1>1. Shapes /\ AgentOK /\ agent.state = "Idle"
  BY DEF InferenceInv, StartTurn
<1>2. /\ DOMAIN agent' = DOMAIN agent
      /\ agent'.state = "Working" /\ agent'.turn = agent.turns + 1 /\ agent'.turns = agent.turns + 1
      /\ agent'.vm = agent.vm /\ agent'.stop = agent.stop
      /\ UNCHANGED <<active, req, gate, sup, worker, seen>>
  BY <1>1 DEF StartTurn, Shapes, tasks
<1>3. AgentOK'
  BY <1>1, <1>2 DEF AgentOK
<1>4. ASSUME NEW q \in Request
      PROVE  TaskOK(q)' /\ OwnOK(q)'
  <2>1. TaskOK(q) /\ OwnOK(q)
    BY DEF InferenceInv
  <2>2. OwnOK(q)'
    BY <1>1, <1>2, <2>1 DEF OwnOK, Tasked, AgentOK
  <2> QED BY <1>2, <2>1, <2>2 DEF TaskOK
<1> QED
  BY <1>1, <1>2, <1>3, <1>4, WorldStepInv DEF Shapes

LEMMA AskInv ==
  ASSUME InferenceInv, NEW r \in Request, Ask(r)
  PROVE  InferenceInv'
<1>1. Shapes /\ AgentOK /\ TaskOK(r)
  BY DEF InferenceInv
<1>2. UNCHANGED <<agent, active, gate, sup, worker, seen>> /\ agent.turn # None /\ req[r].phase = "none"
  BY DEF Ask, tasks
<1>3. /\ DOMAIN req' = Request
      /\ DOMAIN req'[r] = ReqFields
      /\ req'[r].phase = "queued" /\ req'[r].turn = agent.turn /\ req'[r].vm = agent.vm
      /\ \A q \in Request \ {r} : DOMAIN req'[q] = ReqFields /\ Place(q)' = Place(q)
  <2>1. PICK w \in Wanted[r] : \E conv \in Conversations(r, w) :
           req' = [q \in Request |->
                 IF q = r
                 THEN [NoRequest EXCEPT !.phase = "queued", !.turn = agent.turn, !.vm = agent.vm,
                         !.ask = [conv |-> conv, config |-> w.config, route |-> w.route]]
                 ELSE [req[q] EXCEPT !.reply = IF q < r THEN Used ELSE @]]
    BY DEF Ask
  <2>2. DOMAIN req' = Request
    BY <2>1
  <2>3. PICK ask : req'[r] = [NoRequest EXCEPT !.phase = "queued", !.turn = agent.turn, !.vm = agent.vm,
                                               !.ask = ask]
    BY <2>1
  <2>4. ASSUME NEW q \in Request \ {r}
        PROVE  DOMAIN req'[q] = ReqFields /\ Place(q)' = Place(q)
    <3>1. PICK u : req'[q] = [req[q] EXCEPT !.reply = u]
      BY <2>1
    <3> QED BY <1>1, <3>1 DEF Shapes, Place, ReqFields
  <2> QED BY <2>2, <2>3, <2>4 DEF NoRequest, ReqFields
<1>4. ASSUME NEW q \in Request
      PROVE  TaskOK(q)' /\ OwnOK(q)'
  <2>1. TaskOK(q) /\ OwnOK(q)
    BY DEF InferenceInv
  <2>2. CASE q = r
    BY <1>1, <1>2, <1>3, <2>1, <2>2 DEF TaskOK, OwnOK, Tasked, AgentOK
  <2>3. CASE q # r
    BY <1>2, <1>3, <2>1, <2>3 DEF TaskOK, OwnOK, Tasked, Place
  <2> QED BY <2>2, <2>3
<1>5. \A q \in Request : DOMAIN req'[q] = ReqFields
  BY <1>3
<1>6. AgentOK' /\ DOMAIN agent' = {"state", "turn", "turns", "vm", "stop"}
      /\ DOMAIN gate' = Request /\ (\A q \in Request : GateOK(gate'[q]))
  BY <1>1, <1>2 DEF AgentOK, Shapes
<1> QED
  BY <1>2, <1>3, <1>4, <1>5, <1>6, WorldStepInv

LEMMA FinishTurnInv ==
  ASSUME InferenceInv, FinishTurn
  PROVE  InferenceInv'
<1>1. Shapes /\ AgentOK /\ UNCHANGED <<req, gate, sup, worker, seen>> /\ agent.state = "Working"
  BY DEF InferenceInv, FinishTurn, tasks
<1>2. CASE UNCHANGED <<agent, active>>
  BY <1>1, <1>2 DEF InferenceInv, Shapes, AgentOK, TaskOK, OwnOK, Tasked
<1>3. CASE ~Busy /\ active' = None /\ agent' = [agent EXCEPT !.state = "Idle", !.turn = None]
  <2>1. /\ DOMAIN agent' = DOMAIN agent
        /\ agent'.state = "Idle" /\ agent'.turn = None /\ agent'.turns = agent.turns
        /\ agent'.vm = agent.vm /\ agent'.stop = agent.stop
    BY <1>1, <1>3 DEF Shapes
  <2>2. AgentOK'
    BY <1>1, <2>1 DEF AgentOK
  <2>3. ASSUME NEW q \in Request
        PROVE  TaskOK(q)' /\ OwnOK(q)'
    <3>1. TaskOK(q) /\ OwnOK(q) /\ ~Tasked(q)
      BY <1>3, Untasked DEF InferenceInv
    <3>2. OwnOK(q)'
      BY <1>1, <2>1, <3>1, InferenceAssumption DEF OwnOK, Tasked
    <3> QED BY <1>1, <3>1, <3>2 DEF TaskOK
  <2> QED BY <1>1, <2>1, <2>2, <2>3, WorldStepInv DEF Shapes
<1> QED
  BY <1>2, <1>3 DEF FinishTurn, Busy

LEMMA HandleInferenceInv ==
  ASSUME InferenceInv, NEW r \in Request, HandleInference(r)
  PROVE  InferenceInv'
<1>1. Shapes /\ TaskOK(r) /\ OwnOK(r)
  BY DEF InferenceInv
<1>2. UNCHANGED <<agent, gate, sup, worker, seen>> /\ req[r].phase = "queued"
  BY DEF HandleInference, tasks
<1>3. CASE (\E a : Reply(r, a)) /\ UNCHANGED active
  <2>1. /\ DOMAIN req' = Request
        /\ \A q \in Request \ {r} : req'[q] = req[q]
        /\ DOMAIN req'[r] = ReqFields
        /\ req'[r].phase = "over" /\ req'[r].vm = req[r].vm
    BY <1>1, <1>3, ReplyNext
  <2>2. OnlyOf(r) /\ Shapes'
    BY <1>1, <1>2, <1>3, <2>1 DEF OnlyOf, Shapes
  <2>3. TaskOK(r)' /\ (Tasked(r)' => Tasked(r))
    BY <1>1, <1>2, <2>1 DEF TaskOK, Tasked
  <2> QED BY <2>1, <2>2, <2>3, TaskStep
<1>4. CASE /\ agent.state = "Working" /\ agent.turn = req[r].turn /\ ~Busy
           /\ active' = r /\ \E b : req' = [req EXCEPT ![r].phase = "launch", ![r].body = b]
  <2>1. /\ DOMAIN req' = Request
        /\ \A q \in Request \ {r} : req'[q] = req[q]
        /\ DOMAIN req'[r] = ReqFields
        /\ req'[r].phase = "launch" /\ req'[r].vm = req[r].vm
    BY <1>1, <1>4 DEF Shapes, ReqFields
  <2>2. ASSUME NEW q \in Request
        PROVE  TaskOK(q)' /\ OwnOK(q)'
    <3>1. TaskOK(q) /\ OwnOK(q) /\ ~Tasked(q)
      BY <1>4, Untasked DEF InferenceInv
    <3>2. CASE q = r
      BY <1>2, <1>4, <2>1, <3>1, <3>2 DEF TaskOK, OwnOK, Tasked
    <3>3. CASE q # r
      BY <1>2, <1>4, <2>1, <3>1, <3>3 DEF TaskOK, OwnOK, Tasked
    <3> QED BY <3>2, <3>3
  <2>3. AgentOK' /\ DOMAIN agent' = {"state", "turn", "turns", "vm", "stop"}
        /\ DOMAIN gate' = Request /\ (\A q \in Request : GateOK(gate'[q]))
    BY <1>1, <1>2 DEF InferenceInv, AgentOK, Shapes
  <2>4. \A q \in Request : DOMAIN req'[q] = ReqFields
    BY <1>1, <2>1 DEF Shapes
  <2> QED BY <1>2, <2>1, <2>2, <2>3, <2>4, WorldStepInv
<1> QED
  BY <1>3, <1>4 DEF HandleInference

LEMMA AbortInv ==
  ASSUME InferenceInv, Abort
  PROVE  InferenceInv'
<1>1. Shapes /\ AgentOK /\ UNCHANGED <<active, req, sup, worker, seen>>
  BY DEF InferenceInv, Abort
<1>2. DOMAIN gate' = Request /\ \A q \in Request : GateOK(gate'[q])
  BY <1>1, GateClosed DEF Abort, Shapes
<1>3. /\ DOMAIN agent' = DOMAIN agent
      /\ agent'.state = agent.state /\ agent'.turn = None /\ agent'.turns = agent.turns
      /\ agent'.vm = agent.vm /\ agent'.stop = agent.stop
  BY <1>1 DEF Abort, Shapes
<1>4. AgentOK'
  BY <1>1, <1>3 DEF AgentOK
<1>5. ASSUME NEW q \in Request
      PROVE  TaskOK(q)' /\ OwnOK(q)'
  <2>1. TaskOK(q) /\ OwnOK(q)
    BY DEF InferenceInv
  <2>2. OwnOK(q)'
    BY <1>1, <1>3, <2>1, InferenceAssumption DEF OwnOK, Tasked
  <2> QED BY <1>1, <2>1, <2>2 DEF TaskOK
<1> QED
  BY <1>1, <1>2, <1>3, <1>4, <1>5, WorldStepInv DEF Shapes

LEMMA StopInv ==
  ASSUME InferenceInv, NEW how \in {"stop", "restart"}, Stop(how)
  PROVE  InferenceInv'
<1>1. Shapes /\ AgentOK /\ UNCHANGED <<active, gate, sup, worker, seen>>
  BY DEF InferenceInv, Stop, tasks
<1>2. DOMAIN req' = Request /\ \A q \in Request : DOMAIN req'[q] = ReqFields /\ Place(q)' = Place(q)
  BY <1>1, TokenSet DEF Stop, Shapes, Place
<1>3. /\ DOMAIN agent' = DOMAIN agent
      /\ agent'.state = "Stopping" /\ agent'.turn = None /\ agent'.turns = agent.turns
      /\ agent'.vm = agent.vm /\ agent'.stop = how
  BY <1>1 DEF Stop, Shapes
<1>4. AgentOK'
  BY <1>1, <1>3 DEF AgentOK
<1>5. ASSUME NEW q \in Request
      PROVE  TaskOK(q)' /\ OwnOK(q)'
  <2>1. TaskOK(q) /\ OwnOK(q) /\ Place(q)' = Place(q)
    BY <1>2 DEF InferenceInv
  <2>2. OwnOK(q)'
    BY <1>1, <1>3, <2>1, InferenceAssumption DEF OwnOK, Tasked, Place
  <2> QED BY <1>1, <2>1, <2>2 DEF TaskOK, Place
<1> QED
  BY <1>1, <1>2, <1>3, <1>4, <1>5, WorldStepInv DEF Shapes

LEMMA CancelInv ==
  ASSUME InferenceInv, WorldStep
  PROVE  InferenceInv'
<1>1. Shapes /\ AgentOK /\ UNCHANGED <<agent, active, sup, worker, seen>>
  BY DEF InferenceInv, WorldStep
<1>2. DOMAIN req' = Request /\ \A q \in Request : DOMAIN req'[q] = ReqFields /\ Place(q)' = Place(q)
  BY <1>1, TokenSet DEF WorldStep, Shapes, Place
<1>3. DOMAIN gate' = Request /\ \A q \in Request : GateOK(gate'[q])
  BY <1>1, GateClosed DEF WorldStep, Shapes
<1>4. ASSUME NEW q \in Request
      PROVE  TaskOK(q)' /\ OwnOK(q)'
  <2>1. TaskOK(q) /\ OwnOK(q) /\ Place(q)' = Place(q)
    BY <1>2 DEF InferenceInv
  <2> QED BY <1>1, <2>1 DEF TaskOK, OwnOK, Tasked, Place
<1>5. AgentOK'
  BY <1>1 DEF AgentOK
<1> QED
  BY <1>1, <1>2, <1>3, <1>4, <1>5, WorldStepInv DEF Shapes

LEMMA JoinedInv ==
  ASSUME InferenceInv, Joined
  PROVE  InferenceInv'
<1>1. Shapes /\ AgentOK /\ UNCHANGED <<req, gate, sup, worker, seen>> /\ agent.turn = None /\ ~Busy
  BY DEF InferenceInv, Joined, tasks, AgentOK, Busy
<1>2. /\ DOMAIN agent' = DOMAIN agent
      /\ agent'.turn = None /\ agent'.turns = agent.turns /\ agent'.stop \notin {"stop", "restart"}
  BY <1>1, InferenceAssumption DEF Joined, Shapes
<1>3. AgentOK'
  BY <1>1, <1>2 DEF AgentOK
<1>4. ASSUME NEW q \in Request
      PROVE  TaskOK(q)' /\ OwnOK(q)'
  <2>1. TaskOK(q) /\ OwnOK(q) /\ ~Tasked(q)
    BY <1>1, Untasked DEF InferenceInv
  <2>2. OwnOK(q)'
    BY <1>1, <1>2, <2>1, InferenceAssumption DEF OwnOK, Tasked
  <2> QED BY <1>1, <2>1, <2>2 DEF TaskOK
<1> QED
  BY <1>1, <1>2, <1>3, <1>4, WorldStepInv DEF Shapes

LEMMA DropReplyInv ==
  ASSUME InferenceInv, NEW r \in Request, DropReply(r)
  PROVE  InferenceInv'
<1>1. Shapes /\ UNCHANGED <<agent, active, gate, sup, worker, seen>>
  BY DEF InferenceInv, DropReply, tasks
<1>2. /\ DOMAIN req' = Request /\ \A q \in Request \ {r} : req'[q] = req[q]
      /\ DOMAIN req'[r] = ReqFields /\ Place(r)' = Place(r)
  BY <1>1 DEF DropReply, Shapes, Place, ReqFields
<1>3. OnlyOf(r) /\ Shapes'
  BY <1>1, <1>2 DEF OnlyOf, Shapes
<1>4. TaskOK(r)' /\ (Tasked(r)' => Tasked(r))
  BY <1>1, <1>2 DEF InferenceInv, TaskOK, Tasked, Place
<1> QED
  BY <1>2, <1>3, <1>4, TaskStep DEF Place

LEMMA NextInv ==
  ASSUME InferenceInv, [Next]_vars
  PROVE  InferenceInv'
<1>1. CASE Next
  <2>1. CASE System
    <3>1. ASSUME NEW r \in Request, SystemOf(r)
          PROVE  InferenceInv'
      <4>1. CASE HandleCleanup(r)
        BY <4>1 DEF HandleCleanup, InferenceInv, Shapes, AgentOK, TaskOK, OwnOK, Tasked
      <4> QED
        BY <3>1, <4>1, HandleInferenceInv, LaunchInv, BeginInv, InterruptInv, ReceiveInv, AcceptInv,
           JoinInv, EndTaskInv, WorkerInv DEF SystemOf
    <3> QED
      BY <2>1, <3>1, CancelInv, JoinedInv DEF System
  <2>2. CASE Environment
    BY <2>2, StartTurnInv, FinishTurnInv, AbortInv, StopInv, AskInv, LaunchFailsInv, JoinInv,
       DropReplyInv, WorkerInv DEF Environment
  <2> QED
    BY <1>1, <2>1, <2>2 DEF Next
<1>2. CASE UNCHANGED vars
  BY <1>2 DEF vars, InferenceInv, Shapes, AgentOK, TaskOK, OwnOK, Tasked
<1> QED
  BY <1>1, <1>2

LEMMA InvCorrect == Spec => []InferenceInv
  BY InitInv, NextInv, PTL DEF Spec

(* An Agent never has two inferences at work, and a stopped or restarted    *)
(* one leaves none behind: handle_inference refuses while the current       *)
(* handle is not finished, and stop_runtime waits for it.  The worker of a  *)
(* request lives only between the spawn and the join of its supervisor.     *)
THEOREM OneWorkerCorrect == Spec => []OneWorker
<1>1. InferenceInv => OneWorker
  <2> SUFFICES ASSUME InferenceInv, NEW q \in Request, NEW r \in Request, Runs(r)
               PROVE  /\ Runs(q) => q = r
                      /\ agent.state # "Gone" /\ req[r].vm = agent.vm
    BY DEF OneWorker
  <2>1. ASSUME NEW p \in Request, Runs(p)
        PROVE  active = p /\ agent.state # "Gone" /\ req[p].vm = agent.vm
    <3>1. TaskOK(p) /\ OwnOK(p)
      BY DEF InferenceInv
    <3>2. Tasked(p)
      BY <2>1, <3>1 DEF Runs, Tasked, TaskOK
    <3> QED BY <3>1, <3>2 DEF OwnOK
  <2> QED BY <2>1
<1> QED
  BY <1>1, InvCorrect, PTL

(***************************************************************************)
(* A closed gate                                                           *)
(***************************************************************************)
Kept(r) ==
  gate[r].closed /\ sup'[r].pc # "done"
  => gate'[r] = gate[r] /\ seen'[r].shown = seen[r].shown

LEMMA OnlyCloses ==
  ASSUME Shapes, NEW x, gate' = [gate EXCEPT ![x].closed = TRUE] \/ UNCHANGED gate, UNCHANGED seen
  PROVE  \A q \in Request : Kept(q)
  BY GateClosed DEF Kept

LEMMA SettleKeeps ==
  ASSUME Shapes, NEW r \in Request, NEW got, Settle(r, got), UNCHANGED seen
  PROVE  \A q \in Request : Kept(q)
  BY OnlyCloses DEF Settle, FinishInference

LEMMA AcceptKeeps ==
  ASSUME Shapes, NEW r \in Request, AcceptFragment(r)
  PROVE  \A q \in Request : Kept(q)
<1> DEFINE next == Accept(gate[r].acc, sup[r].frag)
<1>1. CASE Stopped(r) \/ next.bad
  BY <1>1, SettleKeeps DEF AcceptFragment, Take
<1>2. CASE ~Stopped(r) /\ ~next.bad
  <2>1. /\ ~gate[r].closed
        /\ gate' = [gate EXCEPT ![r].acc = next.acc]
        /\ seen' = [seen EXCEPT ![r].shown = @ + next.text]
    BY <1>2 DEF AcceptFragment, Take, Stopped
  <2> HIDE DEF next
  <2> QED BY <2>1 DEF Kept, Shapes
<1> QED
  BY <1>1, <1>2

LEMMA TaskKeeps ==
  ASSUME Shapes, NEW r \in Request,
         \/ LaunchFails(r) \/ Begin(r) \/ Interrupt(r) \/ StreamEnds(r) \/ Join(r) \/ JoinLate(r)
         \/ EndTask(r) \/ ReadChunk(r)
  PROVE  \A q \in Request : Kept(q)
<1>1. CASE LaunchFails(r) \/ Begin(r) \/ Join(r) \/ JoinLate(r)
  BY <1>1, OnlyCloses DEF LaunchFails, Begin, Join, JoinLate, FinishInference
<1>2. CASE Interrupt(r) \/ StreamEnds(r)
  BY <1>2, SettleKeeps DEF Interrupt, StreamEnds
<1>3. CASE EndTask(r)
  BY <1>3 DEF EndTask, Kept, Shapes, NoSup
<1>4. CASE ReadChunk(r)
  <2>1. UNCHANGED gate /\ \E n : seen' = [seen EXCEPT ![r].claimed = n]
    BY <1>4 DEF ReadChunk, Decoded, Returns
  <2> QED BY <2>1 DEF Kept, Shapes
<1> QED
  BY <1>1, <1>2, <1>3, <1>4

LEMMA WorldKeeps ==
  ASSUME Shapes, Abort \/ WorldStep
  PROVE  \A q \in Request : Kept(q)
  BY OnlyCloses DEF Abort, WorldStep

(* Once the gate of a request is closed its accumulator and what the client *)
(* was shown stay as they are, whatever supervisor, worker and World still  *)
(* do, until the task itself is over: accept is under the lock of the gate  *)
(* and asks it first (StreamGate, receive_stream).                          *)
THEOREM FrozenCorrect == Spec => Frozen
<1>1. ASSUME InferenceInv, [Next]_vars
      PROVE  \A r \in Request : Kept(r)
  <2>1. Shapes
    BY <1>1 DEF InferenceInv
  <2>2. CASE UNCHANGED <<gate, seen>>
    BY <2>2 DEF Kept
  <2>3. ASSUME NEW r \in Request, SystemOf(r)
        PROVE  \A q \in Request : Kept(q)
    <3>1. CASE \/ HandleInference(r) \/ HandleCleanup(r) \/ Launch(r) \/ Receive(r) \/ JoinAtLast(r)
               \/ Notify(r) \/ SendFragment(r) \/ WorkerReturns(r) \/ WorkerEnds(r)
      BY <2>2, <3>1 DEF HandleInference, HandleCleanup, Launch, Receive, JoinAtLast, Notify, SendFragment,
         WorkerReturns, Returns, WorkerEnds, tasks
    <3> QED
      BY <2>1, <2>3, <3>1, TaskKeeps, AcceptKeeps DEF SystemOf
  <2>4. CASE WorldStep \/ Joined \/ StartTurn \/ FinishTurn \/ Abort \/ Stop("stop") \/ Stop("restart")
    BY <2>1, <2>2, <2>4, WorldKeeps DEF Joined, StartTurn, FinishTurn, Stop, tasks
  <2>5. ASSUME NEW r \in Request,
               \/ Ask(r) \/ LaunchFails(r) \/ JoinLate(r) \/ DropReply(r)
               \/ Connect(r) \/ ReadChunk(r) \/ ReadEnd(r) \/ WorkerPanics(r)
        PROVE  \A q \in Request : Kept(q)
    <3>1. CASE Ask(r) \/ DropReply(r) \/ Connect(r) \/ ReadEnd(r) \/ WorkerPanics(r)
      BY <2>2, <3>1 DEF Ask, DropReply, Connect, ReadEnd, Decoded, WorkerPanics, Returns, tasks
    <3> QED
      BY <2>1, <2>5, <3>1, TaskKeeps
  <2> QED
    BY <1>1, <2>2, <2>3, <2>4, <2>5 DEF Next, System, Environment, vars
<1>2. ASSUME InferenceInv, [Next]_vars
      PROVE  [\A r \in Request : gate[r].closed /\ sup'[r].pc # "done"
                => gate'[r] = gate[r] /\ seen'[r].shown = seen[r].shown]_vars
  BY <1>1, <1>2 DEF Kept
<1> QED
  BY <1>2, InvCorrect, PTL DEF Spec, Frozen

(***************************************************************************)
(* Types, and when a request has its reply                                 *)
(***************************************************************************)
IsSeq(s) == \E S : s \in Seq(S)

(* A request has its reply when it is over, and before its supervisor       *)
(* leaves the join: at its end, or for the worker that is late.             *)
ReplyOK(r) ==
  /\ Replied(r) <=> req[r].phase \in {"over", "failed"}
  /\ sup[r].pc \in {"late", "notify", "ending", "done"} => Replied(r)

PlaceOK(r) ==
  /\ sup[r].pc \in {"off", "ready", "stream", "accept", "join", "late", "notify", "ending", "done"}
  /\ worker[r].pc \in {"off", "connect", "read", "closing", "done"}
  /\ IsSeq(chan[r]) /\ Len(chan[r]) <= Capacity

ReplyInv ==
  /\ agent.state \in {"Idle", "Working", "Stopping", "Gone"}
  /\ active # None => active \in Request /\ req[active].phase \in {"launch", "run", "over", "failed"}
  /\ notes \subseteq Request
  /\ DOMAIN chan = Request
  /\ \A r \in Request : ReplyOK(r) /\ PlaceOK(r)

LEMMA SeqFacts ==
  /\ IsSeq(<<>>) /\ Len(<<>>) = 0
  /\ \A s, e : IsSeq(s) => /\ IsSeq(Append(s, e)) /\ Len(Append(s, e)) = Len(s) + 1
                           /\ Len(s) \in Nat
                           /\ s # <<>> => IsSeq(Tail(s)) /\ Len(Tail(s)) = Len(s) - 1
<1>1. IsSeq(<<>>) /\ Len(<<>>) = 0
  <2>1. <<>> \in Seq({})
    OBVIOUS
  <2> QED BY <2>1 DEF IsSeq
<1>2. ASSUME NEW s, NEW e, IsSeq(s)
      PROVE  /\ IsSeq(Append(s, e)) /\ Len(Append(s, e)) = Len(s) + 1
             /\ Len(s) \in Nat
             /\ s # <<>> => IsSeq(Tail(s)) /\ Len(Tail(s)) = Len(s) - 1
  <2>1. PICK S : s \in Seq(S)
    BY <1>2 DEF IsSeq
  <2>2. s \in Seq(S \cup {e})
    <3>1. s \in [1 .. Len(s) -> S \cup {e}] /\ Len(s) \in Nat
      BY <2>1
    <3> QED BY <3>1
  <2>3. Append(s, e) \in Seq(S \cup {e}) /\ Len(Append(s, e)) = Len(s) + 1
    BY <2>2
  <2>4. s # <<>> => Tail(s) \in Seq(S) /\ Len(Tail(s)) = Len(s) - 1
    BY <2>1
  <2> QED BY <2>1, <2>3, <2>4 DEF IsSeq
<1> QED
  BY <1>1, <1>2

(* no answer is the empty reply *)
LEMMA Replies ==
  /\ \A kind : Failure(kind) # NoReply
  /\ \A n, m, c, p : \A kind \in {"ok", "frozen", "empty"} : Answer(kind, n, m, c, p) # NoReply
  /\ Used # NoReply
<1>1. \A kind : Failure(kind) # NoReply
  <2>1. \A kind : Failure(kind).kind = "error" /\ NoReply.kind = None
    BY DEF Failure, NoReply
  <2> QED BY <2>1, InferenceAssumption
<1>2. \A n, m, c, p : \A kind \in {"ok", "frozen", "empty"} : Answer(kind, n, m, c, p) # NoReply
  <2>1. \A kind, n, m, c, p : Answer(kind, n, m, c, p).kind = kind /\ NoReply.kind = None
    BY DEF Answer, NoReply
  <2> QED BY <2>1, InferenceAssumption
<1>3. Used.kind = "used" /\ NoReply.kind = None
  BY DEF Used, NoReply
<1> QED
  BY <1>1, <1>2, <1>3, InferenceAssumption

LEMMA ResultReplies ==
  ASSUME NEW r, NEW acc
  PROVE  Result(r) # NoReply /\ FrozenResponse(acc) # NoReply
<1>1. \A a : FrozenResponse(a) # NoReply
  BY Replies DEF FrozenResponse
<1>2. \A a : Response(a) = None \/ Response(a) # NoReply
  BY Replies DEF Response
<1>3. Result(r) # NoReply
  BY <1>1, <1>2, Replies DEF Result
<1> QED
  BY <1>1, <1>3

(* The steps of a request's task change the reply of no other.              *)
LEMMA ReplyStep ==
  ASSUME ReplyInv, NEW r \in Request, UNCHANGED <<agent, active>>,
         \A q \in Request \ {r} : req'[q] = req[q] /\ sup'[q] = sup[q] /\ worker'[q] = worker[q],
         DOMAIN chan' = Request, \A q \in Request \ {r} : chan'[q] = chan[q],
         notes' \subseteq Request, ReplyOK(r)', PlaceOK(r)',
         req'[r].phase \in {req[r].phase, "launch", "run", "over", "failed"}
  PROVE  ReplyInv'
<1>1. ASSUME NEW q \in Request PROVE ReplyOK(q)' /\ PlaceOK(q)'
  <2>1. CASE q = r
    BY <2>1
  <2>2. CASE q # r
    BY <2>2 DEF ReplyInv, ReplyOK, PlaceOK, Replied
  <2> QED BY <2>1, <2>2
<1>2. active' # None => active' \in Request /\ req'[active'].phase \in {"launch", "run", "over", "failed"}
  BY DEF ReplyInv
<1> QED
  BY <1>1, <1>2 DEF ReplyInv

LEMMA ReplyNow ==
  ASSUME Shapes, NEW r \in Request, NEW a, Reply(r, a), a # NoReply
  PROVE  req'[r].phase = "over" /\ Replied(r)'
  BY DEF Shapes, Reply, NoRequest, Replied

(* who finishes has answered *)
LEMMA FinishAnswers ==
  ASSUME Shapes, NEW r \in Request, ReplyOK(r), NEW a, FinishInference(r, a), a # NoReply
  PROVE  /\ Replied(r)' /\ req'[r].phase \in {"over", "failed"}
         /\ \A q \in Request \ {r} : req'[q] = req[q]
<1>1. CASE ~Replied(r)
  <2>1. Reply(r, a)
    BY <1>1 DEF FinishInference
  <2> QED BY <2>1, ReplyNow, ReplyNext
<1>2. CASE Replied(r)
  BY <1>2 DEF FinishInference, ReplyOK, Replied
<1> QED
  BY <1>1, <1>2

(* a supervisor that goes on *)
LEMMA SupMoves ==
  ASSUME ReplyInv, InferenceInv, NEW r \in Request, UNCHANGED <<agent, active>>,
         NEW to \in {"ready", "stream", "accept", "join", "late", "notify", "ending", "done"},
         sup'[r].pc = to, \A q \in Request \ {r} : sup'[q] = sup[q],
         \/ UNCHANGED req
         \/ \E a : FinishInference(r, a) /\ a # NoReply,
         to \in {"late", "notify", "ending", "done"} => Replied(r)',
         worker'[r].pc \in {"off", "connect", "read", "closing", "done"},
         \A q \in Request \ {r} : worker'[q] = worker[q],
         DOMAIN chan' = Request, \A q \in Request \ {r} : chan'[q] = chan[q],
         IsSeq(chan'[r]), Len(chan'[r]) <= Capacity, notes' \subseteq Request
  PROVE  ReplyInv'
<1>1. ReplyOK(r) /\ Shapes
  BY DEF ReplyInv, InferenceInv
<1>2. PlaceOK(r)'
  BY DEF PlaceOK
<1>3. CASE UNCHANGED req
  <2>1. ReplyOK(r)'
    BY <1>1, <1>3 DEF ReplyOK, Replied
  <2> QED BY <1>2, <1>3, <2>1, ReplyStep
<1>4. CASE \E a : FinishInference(r, a) /\ a # NoReply
  <2>1. /\ Replied(r)' /\ req'[r].phase \in {"over", "failed"}
        /\ \A q \in Request \ {r} : req'[q] = req[q]
    BY <1>1, <1>4, FinishAnswers
  <2>2. ReplyOK(r)'
    BY <2>1 DEF ReplyOK
  <2> QED BY <1>2, <2>1, <2>2, ReplyStep
<1> QED
  BY <1>3, <1>4

LEMMA SettleReply ==
  ASSUME ReplyInv, InferenceInv, NEW r \in Request, NEW got, Settle(r, got)
  PROVE  ReplyInv'
<1>1. /\ sup' = [sup EXCEPT ![r] = [pc |-> "join", got |-> got, frag |-> None]]
      /\ chan' = [chan EXCEPT ![r] = <<>>]
      /\ UNCHANGED <<agent, active, worker, notes>>
      /\ UNCHANGED req \/ \E a : FinishInference(r, a) /\ a # NoReply
  BY Replies DEF Settle
<1>2. sup'[r].pc = "join" /\ \A q \in Request \ {r} : sup'[q] = sup[q]
  BY <1>1 DEF InferenceInv, Shapes
<1>3. /\ DOMAIN chan' = Request /\ \A q \in Request \ {r} : chan'[q] = chan[q]
      /\ IsSeq(chan'[r]) /\ Len(chan'[r]) <= Capacity
  BY <1>1, SeqFacts, InferenceAssumption DEF ReplyInv
<1>4. /\ worker'[r].pc \in {"off", "connect", "read", "closing", "done"}
      /\ (\A q \in Request \ {r} : worker'[q] = worker[q]) /\ notes' \subseteq Request
  BY <1>1 DEF ReplyInv, PlaceOK
<1> QED
  BY <1>1, <1>2, <1>3, <1>4, SupMoves

LEMMA SupReply ==
  ASSUME ReplyInv, InferenceInv, NEW r \in Request,
         Begin(r) \/ Join(r) \/ JoinLate(r) \/ JoinAtLast(r) \/ Notify(r)
  PROVE  ReplyInv'
<1>1. Shapes /\ ReplyOK(r) /\ PlaceOK(r) /\ UNCHANGED <<agent, active, chan>> /\ DOMAIN chan = Request
  BY DEF ReplyInv, InferenceInv, Begin, Join, JoinLate, JoinAtLast, Notify
<1>2. notes' \subseteq Request
  BY DEF ReplyInv, Begin, Join, JoinLate, JoinAtLast, Notify
<1>3. CASE /\ \E a : FinishInference(r, a) /\ a # NoReply
           /\ \E to \in {"late", "notify"} : sup' = [sup EXCEPT ![r].pc = to]
           /\ UNCHANGED worker
  <2>1. PICK to \in {"late", "notify"} : sup' = [sup EXCEPT ![r].pc = to]
    BY <1>3
  <2>2. sup'[r].pc = to /\ \A q \in Request \ {r} : sup'[q] = sup[q]
    BY <1>1, <2>1 DEF Shapes
  <2>3. Replied(r)'
    BY <1>1, <1>3, FinishAnswers
  <2> QED BY <1>1, <1>2, <1>3, <2>2, <2>3, SupMoves DEF PlaceOK
<1>4. CASE /\ sup' = [sup EXCEPT ![r].pc = "stream"]
           /\ worker' = [worker EXCEPT ![r] = [NoWorker EXCEPT !.pc = "connect",
                                                              !.d = NewDecoder(req[r].body.format)]]
           /\ req' = [req EXCEPT ![r].ask = None, ![r].body = None]
  <2>1. sup'[r].pc = "stream" /\ \A q \in Request \ {r} : sup'[q] = sup[q]
    BY <1>1, <1>4 DEF Shapes
  <2>2. worker'[r].pc = "connect" /\ \A q \in Request \ {r} : worker'[q] = worker[q]
    BY <1>1, <1>4 DEF Shapes, NoWorker
  <2>3. /\ req'[r].reply = req[r].reply /\ req'[r].phase = req[r].phase
        /\ \A q \in Request \ {r} : req'[q] = req[q]
    BY <1>1, <1>4 DEF Shapes, ReqFields
  <2>4. ReplyOK(r)' /\ PlaceOK(r)'
    BY <1>1, <2>1, <2>2, <2>3 DEF ReplyOK, PlaceOK, Replied
  <2> QED BY <1>1, <1>2, <2>1, <2>2, <2>3, <2>4, ReplyStep
<1>5. CASE JoinAtLast(r) \/ Notify(r)
  <2>1. PICK to \in {"notify", "ending"} : sup' = [sup EXCEPT ![r].pc = to]
    BY <1>5 DEF JoinAtLast, Notify
  <2>2. sup'[r].pc = to /\ \A q \in Request \ {r} : sup'[q] = sup[q]
    BY <1>1, <2>1 DEF Shapes
  <2>3. Replied(r)' /\ UNCHANGED <<req, worker>>
    BY <1>1, <1>5 DEF JoinAtLast, Notify, ReplyOK, Replied
  <2> QED BY <1>1, <1>2, <2>2, <2>3, SupMoves DEF PlaceOK
<1>6. CASE Begin(r)
  BY <1>3, <1>4, <1>6, Replies, ResultReplies DEF Begin
<1>7. CASE Join(r)
  BY <1>3, <1>7, ResultReplies DEF Join
<1>8. CASE JoinLate(r)
  BY <1>3, <1>8, Replies DEF JoinLate
<1> QED
  BY <1>5, <1>6, <1>7, <1>8

LEMMA TakeReply ==
  ASSUME ReplyInv, InferenceInv, NEW r \in Request, Receive(r) \/ AcceptFragment(r)
  PROVE  ReplyInv'
<1>1. Shapes /\ ReplyOK(r) /\ PlaceOK(r) /\ DOMAIN chan = Request
  BY DEF ReplyInv, InferenceInv
<1>2. CASE Receive(r)
  <2>1. /\ sup' = [sup EXCEPT ![r].pc = "accept", ![r].frag = Head(chan[r])]
        /\ chan' = [chan EXCEPT ![r] = Tail(@)]
        /\ chan[r] # <<>> /\ UNCHANGED <<agent, active, req, worker, notes>>
    BY <1>2 DEF Receive
  <2>2. sup'[r].pc = "accept" /\ \A q \in Request \ {r} : sup'[q] = sup[q]
    BY <1>1, <2>1 DEF Shapes
  <2>3. chan'[r] = Tail(chan[r]) /\ DOMAIN chan' = Request /\ \A q \in Request \ {r} : chan'[q] = chan[q]
    BY <1>1, <2>1
  <2>4. IsSeq(chan'[r]) /\ Len(chan'[r]) <= Capacity
    BY <1>1, <2>1, <2>3, SeqFacts, InferenceAssumption DEF PlaceOK
  <2>5. notes' \subseteq Request
    BY <2>1 DEF ReplyInv
  <2> QED BY <1>1, <2>1, <2>2, <2>3, <2>4, <2>5, SupMoves DEF PlaceOK
<1>3. CASE \E got : Settle(r, got)
  BY <1>3, SettleReply
<1>4. CASE AcceptFragment(r) /\ ~\E got : Settle(r, got)
  <2>1. sup' = [sup EXCEPT ![r].pc = "stream", ![r].frag = None]
        /\ UNCHANGED <<agent, active, req, worker, chan, notes>>
    BY <1>4 DEF AcceptFragment, Take
  <2>2. sup'[r].pc = "stream" /\ \A q \in Request \ {r} : sup'[q] = sup[q]
    BY <1>1, <2>1 DEF Shapes
  <2>3. notes' \subseteq Request
    BY <2>1 DEF ReplyInv
  <2> QED BY <1>1, <2>1, <2>2, <2>3, SupMoves DEF PlaceOK
<1> QED
  BY <1>2, <1>3, <1>4

LEMMA TaskReply ==
  ASSUME ReplyInv, InferenceInv, NEW r \in Request, Launch(r) \/ LaunchFails(r) \/ EndTask(r)
  PROVE  ReplyInv'
<1>1. Shapes /\ ReplyOK(r) /\ PlaceOK(r) /\ TaskOK(r) /\ UNCHANGED <<agent, active, chan>> /\ DOMAIN chan = Request
  BY DEF ReplyInv, InferenceInv, Launch, LaunchFails, EndTask
<1>2. notes' \subseteq Request
  BY DEF ReplyInv, Launch, LaunchFails, EndTask
<1>3. CASE Launch(r)
  <2>1. req' = [req EXCEPT ![r].phase = "run"] /\ sup' = [sup EXCEPT ![r].pc = "ready"] /\ UNCHANGED worker
        /\ req[r].phase = "launch"
    BY <1>3 DEF Launch
  <2>2. /\ req'[r].phase = "run" /\ req'[r].reply = req[r].reply /\ sup'[r].pc = "ready"
        /\ \A q \in Request \ {r} : req'[q] = req[q] /\ sup'[q] = sup[q]
    BY <1>1, <2>1 DEF Shapes, ReqFields
  <2>3. ReplyOK(r)' /\ PlaceOK(r)'
    BY <1>1, <2>1, <2>2 DEF ReplyOK, PlaceOK, Replied
  <2> QED BY <1>1, <1>2, <2>1, <2>2, <2>3, ReplyStep
<1>4. CASE LaunchFails(r)
  <2>1. /\ req' = [req EXCEPT ![r] = [req[r] EXCEPT !.phase = "failed", !.reply = Failure("TaskPanicked"),
                                                    !.ask = None, !.body = None]]
        /\ UNCHANGED <<sup, worker>>
    BY <1>4 DEF LaunchFails
  <2>2. /\ req'[r].phase = "failed" /\ req'[r].reply = Failure("TaskPanicked")
        /\ \A q \in Request \ {r} : req'[q] = req[q]
    BY <1>1, <2>1 DEF Shapes, ReqFields
  <2>3. ReplyOK(r)' /\ PlaceOK(r)'
    BY <1>1, <2>1, <2>2, Replies DEF ReplyOK, PlaceOK, Replied
  <2> QED BY <1>1, <1>2, <2>1, <2>2, <2>3, ReplyStep
<1>5. CASE EndTask(r)
  <2>1. /\ sup' = [sup EXCEPT ![r] = [NoSup EXCEPT !.pc = "done"]]
        /\ worker' = [worker EXCEPT ![r] = NoWorker]
        /\ req' = [req EXCEPT ![r].turn = None, ![r].cancel = FALSE]
        /\ sup[r].pc = "ending"
    BY <1>5 DEF EndTask
  <2>2. /\ req'[r].phase = req[r].phase /\ req'[r].reply = req[r].reply
        /\ sup'[r].pc = "done" /\ worker'[r].pc = "off"
        /\ \A q \in Request \ {r} : req'[q] = req[q] /\ sup'[q] = sup[q] /\ worker'[q] = worker[q]
    BY <1>1, <2>1 DEF Shapes, ReqFields, NoSup, NoWorker
  <2>3. ReplyOK(r)' /\ PlaceOK(r)'
    BY <1>1, <2>1, <2>2 DEF ReplyOK, PlaceOK, Replied
  <2> QED BY <1>1, <1>2, <2>2, <2>3, ReplyStep
<1> QED
  BY <1>3, <1>4, <1>5

LEMMA WorkerReply ==
  ASSUME ReplyInv, InferenceInv, NEW r \in Request,
         \/ Connect(r) \/ ReadChunk(r) \/ ReadEnd(r) \/ SendFragment(r)
         \/ WorkerReturns(r) \/ WorkerPanics(r) \/ WorkerEnds(r)
  PROVE  ReplyInv'
<1>1. Shapes /\ ReplyOK(r) /\ PlaceOK(r) /\ DOMAIN chan = Request
  BY DEF ReplyInv, InferenceInv
<1>2. UNCHANGED <<agent, active, req, sup, notes>>
  BY DEF Connect, ReadChunk, ReadEnd, Decoded, Returns, SendFragment, WorkerReturns, WorkerPanics, WorkerEnds
<1>3. /\ worker'[r].pc \in {"off", "connect", "read", "closing", "done"}
      /\ \A q \in Request \ {r} : worker'[q] = worker[q]
  <2>1. CASE \E result : Returns(r, result)
    BY <1>1, <2>1 DEF Returns, Shapes, NoWorker
  <2>2. CASE \E next, last : Decoded(r, next, last)
    <3>1. PICK next, last : Decoded(r, next, last)
      BY <2>2
    <3>2. CASE next.bad
      BY <2>1, <3>1, <3>2 DEF Decoded
    <3>3. CASE ~next.bad
      BY <1>1, <3>1, <3>3 DEF Decoded, Shapes, PlaceOK
    <3> QED BY <3>2, <3>3
  <2>3. CASE Connect(r) \/ SendFragment(r) \/ WorkerEnds(r)
    BY <1>1, <2>3 DEF Connect, SendFragment, WorkerEnds, Shapes, PlaceOK
  <2> QED BY <2>1, <2>2, <2>3 DEF ReadChunk, ReadEnd, WorkerReturns, WorkerPanics
<1>4. /\ DOMAIN chan' = Request /\ \A q \in Request \ {r} : chan'[q] = chan[q]
      /\ IsSeq(chan'[r]) /\ Len(chan'[r]) <= Capacity
  <2>1. CASE SendFragment(r)
    <3>1. PICK f : chan' = [chan EXCEPT ![r] = Append(@, f)]
      BY <2>1 DEF SendFragment
    <3>2. chan'[r] = Append(chan[r], f)
      BY <1>1, <3>1
    <3> QED BY <1>1, <2>1, <3>1, <3>2, SeqFacts, InferenceAssumption DEF SendFragment, PlaceOK
  <2>2. CASE ~SendFragment(r)
    <3>1. UNCHANGED chan
      BY <2>2 DEF Connect, ReadChunk, ReadEnd, Decoded, Returns, WorkerReturns, WorkerPanics, WorkerEnds
    <3> QED BY <1>1, <3>1 DEF PlaceOK
  <2> QED BY <2>1, <2>2
<1>5. ReplyOK(r)' /\ PlaceOK(r)'
  BY <1>1, <1>2, <1>3, <1>4 DEF ReplyOK, PlaceOK, Replied
<1> QED
  BY <1>2, <1>3, <1>4, <1>5, ReplyStep DEF ReplyInv

(* the World answers a request, or hands it on *)
LEMMA HandleReply ==
  ASSUME ReplyInv, InferenceInv, NEW r \in Request, HandleInference(r)
  PROVE  ReplyInv'
<1>1. /\ Shapes /\ ReplyOK(r) /\ PlaceOK(r) /\ TaskOK(r) /\ DOMAIN chan = Request
      /\ UNCHANGED <<agent, sup, worker, chan, notes>> /\ req[r].phase = "queued"
  BY DEF ReplyInv, InferenceInv, HandleInference, tasks
<1>2. CASE (\E a : Reply(r, a) /\ a # NoReply) /\ UNCHANGED active
  <2>1. /\ Replied(r)' /\ req'[r].phase = "over"
        /\ \A q \in Request \ {r} : req'[q] = req[q]
    BY <1>1, <1>2, ReplyNow, ReplyNext
  <2>2. ReplyOK(r)' /\ PlaceOK(r)' /\ notes' \subseteq Request
    BY <1>1, <2>1 DEF ReplyOK, PlaceOK, ReplyInv
  <2> QED BY <1>1, <1>2, <2>1, <2>2, ReplyStep
<1>3. CASE active' = r /\ \E b : req' = [req EXCEPT ![r].phase = "launch", ![r].body = b]
  <2>1. /\ req'[r].phase = "launch" /\ req'[r].reply = req[r].reply
        /\ \A q \in Request \ {r} : req'[q] = req[q]
    BY <1>1, <1>3 DEF Shapes, ReqFields
  <2>2. ASSUME NEW q \in Request PROVE ReplyOK(q)' /\ PlaceOK(q)'
    <3>1. CASE q = r
      BY <1>1, <2>1, <3>1 DEF ReplyOK, PlaceOK, Replied
    <3>2. CASE q # r
      BY <1>1, <2>1, <3>2 DEF ReplyInv, ReplyOK, PlaceOK, Replied
    <3> QED BY <3>1, <3>2
  <2> QED BY <1>1, <1>3, <2>1, <2>2 DEF ReplyInv
<1> QED
  BY <1>2, <1>3, Replies DEF HandleInference

(* Steps of the World and the Driver move no request and keep what replies  *)
(* there are.                                                               *)
LEMMA WorldReply ==
  ASSUME ReplyInv, UNCHANGED <<sup, worker, chan>>, notes' \subseteq notes,
         agent'.state \in {"Idle", "Working", "Stopping", "Gone"}, active' \in {active, None},
         \A q \in Request : req'[q].phase = req[q].phase /\ req'[q].reply = req[q].reply
  PROVE  ReplyInv'
<1>1. ASSUME NEW q \in Request PROVE ReplyOK(q)' /\ PlaceOK(q)'
  BY DEF ReplyInv, ReplyOK, PlaceOK, Replied
<1> QED
  BY <1>1 DEF ReplyInv

LEMMA AskReply ==
  ASSUME ReplyInv, InferenceInv, NEW r \in Request, Ask(r)
  PROVE  ReplyInv'
<1>1. /\ Shapes /\ TaskOK(r) /\ req[r].phase = "none"
      /\ UNCHANGED <<agent, active, sup, worker, chan, notes>>
  BY DEF InferenceInv, Ask, tasks
<1>2. PICK w \in Wanted[r] : \E conv \in Conversations(r, w) :
           req' = [q \in Request |->
                 IF q = r
                 THEN [NoRequest EXCEPT !.phase = "queued", !.turn = agent.turn, !.vm = agent.vm,
                         !.ask = [conv |-> conv, config |-> w.config, route |-> w.route]]
                 ELSE [req[q] EXCEPT !.reply = IF q < r THEN Used ELSE @]]
  BY DEF Ask
<1>3. req'[r].phase = "queued" /\ ~Replied(r)'
  <2>1. PICK ask : req'[r] = [NoRequest EXCEPT !.phase = "queued", !.turn = agent.turn, !.vm = agent.vm,
                                               !.ask = ask]
    BY <1>2
  <2> QED BY <2>1 DEF NoRequest, Replied
<1>4. ASSUME NEW q \in Request \ {r}
      PROVE  req'[q].phase = req[q].phase /\ (Replied(q)' <=> Replied(q))
  <2>1. req'[q] = [req[q] EXCEPT !.reply = IF q < r THEN Used ELSE @]
    BY <1>2
  <2>2. req'[q].phase = req[q].phase /\ req'[q].reply = IF q < r THEN Used ELSE req[q].reply
    BY <1>1, <2>1 DEF Shapes, ReqFields
  <2>3. q < r => Replied(q)
    BY DEF Ask
  <2> QED BY <2>2, <2>3, Replies DEF Replied
<1>5. ASSUME NEW q \in Request PROVE ReplyOK(q)' /\ PlaceOK(q)'
  <2>1. CASE q = r
    BY <1>1, <1>3, <2>1 DEF ReplyInv, ReplyOK, PlaceOK, TaskOK
  <2>2. CASE q # r
    BY <1>1, <1>4, <2>2 DEF ReplyInv, ReplyOK, PlaceOK
  <2> QED BY <2>1, <2>2
<1>6. active # None => active \in Request /\ req'[active].phase \in {"launch", "run", "over", "failed"}
  BY <1>1, <1>4 DEF ReplyInv
<1> QED
  BY <1>1, <1>5, <1>6 DEF ReplyInv

LEMMA CancelReply ==
  ASSUME Shapes, NEW x, req' = [req EXCEPT ![x].cancel = TRUE] \/ UNCHANGED req
  PROVE  \A q \in Request : req'[q].phase = req[q].phase /\ req'[q].reply = req[q].reply
<1>1. CASE req' = [req EXCEPT ![x].cancel = TRUE]
  <2> SUFFICES ASSUME NEW q \in Request
               PROVE  req'[q].phase = req[q].phase /\ req'[q].reply = req[q].reply
    OBVIOUS
  <2>1. req'[q] = req[q] \/ req'[q] = [req[q] EXCEPT !.cancel = TRUE]
    BY <1>1 DEF Shapes
  <2> QED BY <2>1 DEF Shapes, ReqFields
<1> QED
  BY <1>1

LEMMA NextReply ==
  ASSUME ReplyInv, InferenceInv, [Next]_vars
  PROVE  ReplyInv'
<1>1. Shapes
  BY DEF InferenceInv
<1>2. CASE UNCHANGED vars
  BY <1>2, WorldReply DEF vars, ReplyInv
<1>3. CASE StartTurn \/ FinishTurn
  BY <1>1, <1>3, WorldReply DEF StartTurn, FinishTurn, ReplyInv, tasks, Shapes
<1>4. CASE Joined
  BY <1>1, <1>4, WorldReply DEF Joined, ReplyInv, tasks, Shapes
<1>5. CASE Abort
  BY <1>1, <1>5, WorldReply DEF Abort, ReplyInv, Shapes
<1>6. CASE WorldStep
  BY <1>1, <1>6, WorldReply, CancelReply DEF WorldStep, ReplyInv
<1>7. ASSUME NEW how, Stop(how) PROVE ReplyInv'
  BY <1>1, <1>7, WorldReply, CancelReply DEF Stop, ReplyInv, tasks, Shapes
<1>8. ASSUME NEW r \in Request, HandleCleanup(r) PROVE ReplyInv'
  BY <1>8, WorldReply DEF HandleCleanup, ReplyInv
<1>9. ASSUME NEW r \in Request, DropReply(r) PROVE ReplyInv'
  <2>1. \A q \in Request : req'[q].phase = req[q].phase /\ req'[q].reply = req[q].reply
    BY <1>1, <1>9 DEF DropReply, Shapes, ReqFields
  <2> QED BY <1>9, <2>1, WorldReply DEF DropReply, ReplyInv, tasks
<1>10. ASSUME NEW r \in Request, SystemOf(r) PROVE ReplyInv'
  <2>1. CASE Interrupt(r) \/ StreamEnds(r)
    BY <2>1, SettleReply DEF Interrupt, StreamEnds
  <2> QED
    BY <1>8, <1>10, <2>1, HandleReply, TaskReply, SupReply, TakeReply, WorkerReply DEF SystemOf
<1> QED
  BY <1>2, <1>3, <1>4, <1>5, <1>6, <1>7, <1>9, <1>10, AskReply, TaskReply, SupReply, WorkerReply
     DEF Next, System, Environment

LEMMA InitReply ==
  ASSUME Init
  PROVE  ReplyInv
<1>1. ASSUME NEW r \in Request PROVE ReplyOK(r) /\ PlaceOK(r)
  BY SeqFacts, InferenceAssumption DEF Init, ReplyOK, PlaceOK, Replied, NoRequest, NoSup, NoWorker
<1> QED
  BY <1>1 DEF Init, ReplyInv

(* Types; a request has a reply exactly when it is over, before its         *)
(* supervisor ends, and the one the Agent holds was launched; the channel   *)
(* of fragments holds no more than its capacity.                            *)
THEOREM InferenceTypeCorrect == Spec => []InferenceTypeOK
<1>1. InferenceInv /\ ReplyInv => InferenceTypeOK
  <2> SUFFICES ASSUME InferenceInv, ReplyInv PROVE InferenceTypeOK
    OBVIOUS
  <2>1. \A r \in Request : TaskOK(r) /\ ReplyOK(r) /\ PlaceOK(r)
    BY DEF InferenceInv, ReplyInv
  <2> QED BY <2>1 DEF ReplyInv, TaskOK, ReplyOK, PlaceOK, InferenceTypeOK
<1> QED
  BY <1>1, InvCorrect, InitReply, NextReply, PTL DEF Spec

(***************************************************************************)
(* Sequences                                                               *)
(***************************************************************************)
(* a sequence has its length and its places *)
LEMMA SeqIs ==
  ASSUME NEW s, IsSeq(s)
  PROVE  Len(s) \in Nat /\ DOMAIN s = 1 .. Len(s) /\ s \in Seq(ToSet(s))
<1>1. PICK S : s \in Seq(S)
  BY DEF IsSeq
<1>2. Len(s) \in Nat /\ DOMAIN s = 1 .. Len(s) /\ s \in [1 .. Len(s) -> S]
  BY <1>1, LenProperties
<1>3. s \in [1 .. Len(s) -> ToSet(s)]
  BY <1>2 DEF ToSet
<1> QED BY <1>2, <1>3

(* sequences of one length with the same elements are one *)
LEMMA SeqSame ==
  ASSUME NEW s, NEW t, IsSeq(s), IsSeq(t), Len(s) = Len(t), \A i \in 1 .. Len(s) : s[i] = t[i]
  PROVE  s = t
<1>1. /\ s \in Seq(ToSet(s) \cup ToSet(t))
      /\ t \in Seq(ToSet(s) \cup ToSet(t))
  BY SeqIs, SeqMonotonic
<1> QED BY <1>1, SeqEqual

(* what stands where in two sequences joined *)
LEMMA SeqConcat ==
  ASSUME NEW s, NEW t, IsSeq(s), IsSeq(t)
  PROVE  /\ IsSeq(s \o t)
         /\ Len(s \o t) = Len(s) + Len(t)
         /\ DOMAIN (s \o t) = 1 .. Len(s) + Len(t)
         /\ \A i \in 1 .. Len(s) : i \in DOMAIN (s \o t) /\ (s \o t)[i] = s[i]
         /\ \A i \in 1 .. Len(t) : Len(s) + i \in DOMAIN (s \o t) /\ (s \o t)[Len(s) + i] = t[i]
         /\ \A i \in DOMAIN (s \o t) : i > Len(s) => i - Len(s) \in 1 .. Len(t) /\ (s \o t)[i] = t[i - Len(s)]
         /\ \A i \in DOMAIN (s \o t) : ~(i > Len(s)) => i \in 1 .. Len(s)
<1>1. /\ s \in Seq(ToSet(s) \cup ToSet(t))
      /\ t \in Seq(ToSet(s) \cup ToSet(t))
      /\ Len(s) \in Nat /\ Len(t) \in Nat
  BY SeqIs, SeqMonotonic
<1>2. /\ s \o t \in Seq(ToSet(s) \cup ToSet(t))
      /\ Len(s \o t) = Len(s) + Len(t)
      /\ \A i \in 1 .. Len(s) + Len(t) : (s \o t)[i] = IF i <= Len(s) THEN s[i] ELSE t[i - Len(s)]
  BY <1>1, ConcatProperties
<1>3. DOMAIN (s \o t) = 1 .. Len(s) + Len(t)
  BY <1>2, LenProperties
<1> DEFINE c == s \o t
<1> HIDE DEF c
<1>4. DOMAIN c = 1 .. Len(s) + Len(t) /\ \A i \in 1 .. Len(s) + Len(t) : c[i] = IF i <= Len(s) THEN s[i] ELSE t[i - Len(s)]
  BY <1>2, <1>3 DEF c
<1>5. \A i \in 1 .. Len(s) : i \in DOMAIN c /\ c[i] = s[i]
  BY <1>1, <1>4
<1>6. ASSUME NEW i \in 1 .. Len(t) PROVE Len(s) + i \in DOMAIN c /\ c[Len(s) + i] = t[i]
  <2>1. PICK j : j = Len(s) + i
    OBVIOUS
  <2>2. j \in 1 .. Len(s) + Len(t) /\ ~(j <= Len(s)) /\ j - Len(s) = i
    BY <1>1, <2>1
  <2> QED BY <1>4, <2>1, <2>2
<1>7. \A i \in DOMAIN c : i > Len(s) => i - Len(s) \in 1 .. Len(t) /\ c[i] = t[i - Len(s)]
  BY <1>1, <1>4
<1>8. \A i \in DOMAIN c : ~(i > Len(s)) => i \in 1 .. Len(s)
  BY <1>1, <1>4
<1> QED BY <1>2, <1>3, <1>5, <1>6, <1>7, <1>8 DEF c, IsSeq

(* what stands where when an element is added *)
LEMMA SeqAppend ==
  ASSUME NEW s, IsSeq(s), NEW e
  PROVE  /\ Append(s, e) = s \o <<e>>
         /\ IsSeq(Append(s, e)) /\ Len(Append(s, e)) = Len(s) + 1
         /\ DOMAIN Append(s, e) = 1 .. Len(s) + 1
         /\ \A i \in 1 .. Len(s) : i \in DOMAIN Append(s, e) /\ Append(s, e)[i] = s[i]
         /\ Append(s, e)[Len(s) + 1] = e
         /\ \A i \in DOMAIN Append(s, e) : i \in 1 .. Len(s) \/ i = Len(s) + 1
<1>1. s \in Seq(ToSet(s) \cup {e}) /\ Len(s) \in Nat
  BY SeqIs, SeqMonotonic
<1>2. Append(s, e) \in Seq(ToSet(s) \cup {e})
      /\ Len(Append(s, e)) = Len(s) + 1
      /\ (\A i \in 1.. Len(s) : Append(s, e)[i] = s[i])
      /\ Append(s, e)[Len(s)+1] = e
      /\ Append(s, e) = s \o <<e>>
  BY <1>1, AppendProperties, AppendIsConcat
<1>3. DOMAIN Append(s, e) = 1 .. Len(s) + 1
  BY <1>2, LenProperties
<1>4. \A i \in 1 .. Len(s) : i \in 1 .. Len(s) + 1
  BY <1>1
<1>5. \A i \in 1 .. Len(s) + 1 : i \in 1 .. Len(s) \/ i = Len(s) + 1
  BY <1>1
<1> QED BY <1>2, <1>3, <1>4, <1>5 DEF IsSeq

(* the sequence of one element *)
LEMMA SeqOne ==
  ASSUME NEW e
  PROVE  IsSeq(<<e>>) /\ Len(<<e>>) = 1 /\ DOMAIN <<e>> = 1 .. 1 /\ <<e>>[1] = e /\ <<e>> = [i \in 1 .. 1 |-> e]
<1>1. <<e>> \in Seq({e})
  OBVIOUS
<1>2. Len(<<e>>) = 1 /\ DOMAIN <<e>> = 1 .. 1 /\ <<e>>[1] = e
  OBVIOUS
<1>3. <<e>> = [i \in 1 .. 1 |-> e]
  OBVIOUS
<1> QED BY <1>1, <1>2, <1>3 DEF IsSeq

(* the empty sequence, and no other, has no elements *)
LEMMA SeqNone == IsSeq(<<>>) /\ Len(<<>>) = 0 /\ DOMAIN <<>> = {} /\ \A s : IsSeq(s) /\ s # <<>> => Len(s) > 0
<1>1. <<>> \in Seq({})
  OBVIOUS
<1>2. ASSUME NEW s, IsSeq(s), s # <<>> PROVE Len(s) > 0
  BY <1>2, SeqIs, EmptySeq
<1> QED BY <1>1, <1>2 DEF IsSeq

(* the sequence without its first element *)
LEMMA SeqTail ==
  ASSUME NEW s, IsSeq(s), s # <<>>
  PROVE  /\ IsSeq(Tail(s)) /\ Len(Tail(s)) = Len(s) - 1 /\ Head(s) = s[1] /\ 1 \in DOMAIN s
         /\ DOMAIN Tail(s) = 1 .. Len(s) - 1
         /\ \A i \in DOMAIN Tail(s) : i + 1 \in DOMAIN s /\ Tail(s)[i] = s[i + 1]
<1>1. s \in Seq(ToSet(s)) /\ Len(s) \in Nat /\ DOMAIN s = 1 .. Len(s) /\ Len(s) > 0
  BY SeqIs, SeqNone
<1>2. Tail(s) \in Seq(ToSet(s)) /\ Len(Tail(s)) = Len(s) - 1
      /\ \A i \in 1 .. Len(Tail(s)) : Tail(s)[i] = s[i+1]
  BY <1>1, HeadTailProperties
<1>3. DOMAIN Tail(s) = 1 .. Len(s) - 1
  BY <1>2, LenProperties
<1>4. \A i \in 1 .. Len(s) - 1 : i + 1 \in DOMAIN s
  BY <1>1
<1> QED BY <1>1, <1>2, <1>3, <1>4 DEF IsSeq

(* two elements, one added after the other *)
LEMMA SeqPair ==
  ASSUME NEW x, NEW y
  PROVE  <<x, y>> = <<x>> \o <<y>>
<1>1. Append(<<x>>, y) = <<x>> \o <<y>>
  BY SeqOne, SeqAppend
<1>2. IsSeq(<<x, y>>)
  <2>1. <<x, y>> \in Seq({x, y})
    OBVIOUS
  <2> QED BY <2>1 DEF IsSeq
<1>3. Len(<<x, y>>) = 2 /\ <<x, y>>[1] = x /\ <<x, y>>[2] = y
  OBVIOUS
<1> DEFINE s == <<x>>
<1>a. IsSeq(s) /\ Len(s) = 1 /\ s[1] = x
  BY SeqOne
<1> HIDE DEF s
<1>b. 1 \in 1 .. Len(s)
  BY <1>a
<1>4. /\ IsSeq(Append(s, y)) /\ Len(Append(s, y)) = 2
      /\ Append(s, y)[1] = x /\ Append(s, y)[2] = y
  <2>1. Append(s, y)[1] = s[1] /\ Append(s, y)[Len(s) + 1] = y
        /\ IsSeq(Append(s, y)) /\ Len(Append(s, y)) = Len(s) + 1
    <3>1. \A i \in 1 .. Len(s) : Append(s, y)[i] = s[i]
      BY <1>a, SeqAppend
    <3>2. Append(s, y)[Len(s) + 1] = y /\ IsSeq(Append(s, y)) /\ Len(Append(s, y)) = Len(s) + 1
      BY <1>a, SeqAppend
    <3> QED BY <1>b, <3>1, <3>2
  <2>2. Len(s) + 1 = 2
    BY <1>a
  <2> QED BY <1>a, <2>1, <2>2
<1>5. \A i \in 1 .. 2 : i = 1 \/ i = 2
  OBVIOUS
<1>6. <<x, y>> = Append(s, y)
  BY <1>2, <1>3, <1>4, <1>5, SeqSame
<1> QED BY <1>1, <1>6 DEF s

(***************************************************************************)
(* Induction over numbers; what a list of numbers comes to                 *)
(***************************************************************************)
(* a set of numbers with 0 and the successor of each of its own is all *)
LEMMA NatSetInduction ==
  ASSUME NEW S, 0 \in S, \A n \in Nat : n \in S => n + 1 \in S
  PROVE  \A n \in Nat : n \in S
<1> DEFINE T == Nat \ S
           R == {ss \in Nat \X Nat : ss[1] < ss[2]}
<1>1. IsWellFoundedOn(R, Nat)
  BY NatLessThanWellFounded DEF OpToRel
<1>2. ASSUME T # {} PROVE FALSE
  <2>1. PICK x \in T : \A y \in T : <<y, x>> \notin R
    <3> HIDE DEF R
    <3> QED BY <1>1, <1>2, WFMin
  <2>2. x # 0 /\ x \in Nat /\ x \notin S
    BY <2>1
  <2>3. x - 1 \in Nat /\ <<x - 1, x>> \in R
    BY <2>2
  <2>4. x - 1 \in S
    BY <2>1, <2>3
  <2>5. (x - 1) + 1 \in S
    BY <2>3, <2>4
  <2> QED BY <2>2, <2>5
<1> QED BY <1>2

(* a run of n steps of an operation, by what it does at each position *)
LEMMA TotalUnfolds ==
  ASSUME NEW ns, Len(ns) \in Nat
  PROVE  \E s : /\ s[0] = 0
                /\ \A i \in 1 .. Len(ns) : s[i] = s[i - 1] + ns[i]
                /\ Total(ns) = s[Len(ns)]
<1> DEFINE Run(g, k) == g = [i \in 0 .. k |-> IF i = 0 THEN 0 ELSE g[i - 1] + ns[i]]
           S == {k \in Nat : \E g : Run(g, k)}
<1>1. 0 \in S
  <2>1. Run([i \in 0 .. 0 |-> 0], 0)
    OBVIOUS
  <2> QED BY <2>1
<1>2. ASSUME NEW k \in Nat, k \in S PROVE k + 1 \in S
  <2>1. PICK g : Run(g, k)
    BY <1>2
  <2>2. /\ \A i \in 0 .. k : g[i] = IF i = 0 THEN 0 ELSE g[i - 1] + ns[i]
    BY <2>1
  <2> DEFINE h == [i \in 0 .. k + 1 |-> IF i = 0 THEN 0 ELSE g[i - 1] + ns[i]]
  <2>3. \A i \in 0 .. k : h[i] = g[i]
    BY <2>2
  <2>4. h = [i \in 0 .. k + 1 |-> IF i = 0 THEN 0 ELSE g[i - 1] + ns[i]]
    OBVIOUS
  <2> HIDE DEF h
  <2>5. h = [i \in 0 .. k + 1 |-> IF i = 0 THEN 0 ELSE h[i - 1] + ns[i]]
    <3>1. ASSUME NEW i \in 1 .. k + 1 PROVE h[i - 1] = g[i - 1]
      BY <2>3
    <3>2. ASSUME NEW i \in 0 .. k + 1
          PROVE  (IF i = 0 THEN 0 ELSE g[i - 1] + ns[i]) = (IF i = 0 THEN 0 ELSE h[i - 1] + ns[i])
      BY <3>1
    <3> QED BY <2>4, <3>2, Zenon
  <2> QED BY <2>5
<1> HIDE DEF S
<1>3. Len(ns) \in S
  BY <1>1, <1>2, NatSetInduction
<1> USE DEF S
<1>4. PICK g : Run(g, Len(ns))
  BY <1>3
<1> DEFINE f == CHOOSE g1 : Run(g1, Len(ns))
<1>5. Run(f, Len(ns))
  BY <1>4
<1>6. Total(ns) = f[Len(ns)]
  BY DEF Total, Fold, Plus
<1> HIDE DEF f
<1>7. /\ f[0] = 0 /\ \A i \in 1 .. Len(ns) : f[i] = f[i - 1] + ns[i]
  BY <1>5
<1> QED
  BY <1>6, <1>7

(* the sums of the first i numbers are numbers *)
LEMMA TotalRun ==
  ASSUME NEW ns \in Seq(Int)
  PROVE  \E s : /\ s[0] = 0
                /\ \A i \in 1 .. Len(ns) : s[i] = s[i - 1] + ns[i]
                /\ \A i \in 0 .. Len(ns) : s[i] \in Int
                /\ Total(ns) = s[Len(ns)]
<1>1. PICK s : /\ s[0] = 0
               /\ \A i \in 1 .. Len(ns) : s[i] = s[i - 1] + ns[i]
               /\ Total(ns) = s[Len(ns)]
  BY TotalUnfolds
<1> DEFINE S == {k \in Nat : k <= Len(ns) => s[k] \in Int}
<1>2. 0 \in S
  BY <1>1
<1>3. ASSUME NEW k \in Nat, k \in S PROVE k + 1 \in S
  <2>1. CASE k + 1 <= Len(ns)
    <3>1. k + 1 \in 1 .. Len(ns) /\ k <= Len(ns)
      BY <2>1
    <3>2. s[k + 1] = s[k] + ns[k + 1]
      <4>1. PICK i \in 1 .. Len(ns) : i = k + 1
        BY <3>1
      <4> QED BY <1>1, <4>1
    <3>3. ns[k + 1] \in Int
      BY <3>1
    <3> QED BY <1>3, <3>1, <3>2, <3>3
  <2> QED BY <2>1
<1>4. \A k \in Nat : k \in S
  <2> HIDE DEF S
  <2> QED BY <1>2, <1>3, NatSetInduction
<1>5. \A k \in 0 .. Len(ns) : s[k] \in Int
  BY <1>4
<1> QED BY <1>1, <1>5

(* the sum of natural numbers is one *)
LEMMA TotalType ==
  ASSUME NEW ns \in Seq(Nat)
  PROVE  Total(ns) \in Nat
<1>1. PICK s : /\ s[0] = 0
               /\ \A i \in 1 .. Len(ns) : s[i] = s[i - 1] + ns[i]
               /\ Total(ns) = s[Len(ns)]
  BY TotalUnfolds
<1> DEFINE S == {k \in Nat : k <= Len(ns) => s[k] \in Nat}
<1>2. 0 \in S
  BY <1>1
<1>3. ASSUME NEW k \in Nat, k \in S PROVE k + 1 \in S
  <2>1. CASE k + 1 <= Len(ns)
    <3>1. k + 1 \in 1 .. Len(ns) /\ k <= Len(ns)
      BY <2>1
    <3>2. s[k + 1] = s[k] + ns[k + 1]
      <4>1. PICK i \in 1 .. Len(ns) : i = k + 1
        BY <3>1
      <4> QED BY <1>1, <4>1
    <3>3. ns[k + 1] \in Nat
      BY <3>1
    <3> QED BY <1>3, <3>1, <3>2, <3>3
  <2> QED BY <2>1
<1>4. \A k \in Nat : k \in S
  <2> HIDE DEF S
  <2> QED BY <1>2, <1>3, NatSetInduction
<1> QED BY <1>1, <1>4

(* one number in another place, or one number more *)
LEMMA TotalUpdate ==
  \A a, b, p :
     /\ a \in Seq(Int) /\ b \in Seq(Int) /\ Len(a) = Len(b) /\ p \in 1 .. Len(a)
     /\ \A i \in 1 .. Len(a) : i # p => a[i] = b[i]
     => Total(b) + a[p] = Total(a) + b[p]
<1>a. SUFFICES ASSUME NEW a, NEW b, NEW p,
                      a \in Seq(Int), b \in Seq(Int), Len(a) = Len(b), p \in 1 .. Len(a),
                      \A i \in 1 .. Len(a) : i # p => a[i] = b[i]
               PROVE  Total(b) + a[p] = Total(a) + b[p]
  OBVIOUS
<1>1. PICK s : /\ s[0] = 0
               /\ \A i \in 1 .. Len(a) : s[i] = s[i - 1] + a[i]
               /\ \A i \in 0 .. Len(a) : s[i] \in Int
               /\ Total(a) = s[Len(a)]
  BY <1>a, TotalRun
<1>2. PICK t : /\ t[0] = 0
               /\ \A i \in 1 .. Len(a) : t[i] = t[i - 1] + b[i]
               /\ \A i \in 0 .. Len(a) : t[i] \in Int
               /\ Total(b) = t[Len(a)]
  BY <1>a, TotalRun
<1> DEFINE S == {k \in Nat : k <= Len(a) => t[k] + (IF k < p THEN 0 ELSE a[p]) = s[k] + (IF k < p THEN 0 ELSE b[p])}
<1>0. p \in Nat /\ p >= 1 /\ p <= Len(a) /\ a[p] \in Int /\ b[p] \in Int /\ Len(a) \in Nat
  BY <1>a
<1>3. 0 \in S
  <2>1. s[0] = 0 /\ t[0] = 0
    BY <1>1, <1>2
  <2>2. t[0] + (IF 0 < p THEN 0 ELSE a[p]) = s[0] + (IF 0 < p THEN 0 ELSE b[p])
    BY <1>0, <2>1
  <2> QED BY <2>2
<1>4. ASSUME NEW k \in Nat, k \in S PROVE k + 1 \in S
  <2>1. CASE k + 1 <= Len(a)
    <3>1. PICK i \in 1 .. Len(a) : i = k + 1
      BY <1>0, <2>1
    <3>2. s[i] = s[k] + a[i] /\ t[i] = t[k] + b[i] /\ k <= Len(a)
      BY <1>0, <1>1, <1>2, <3>1
    <3>3. a[i] \in Int /\ b[i] \in Int /\ s[k] \in Int /\ t[k] \in Int /\ a[p] \in Int /\ b[p] \in Int
      BY <1>a, <1>0, <1>1, <1>2, <3>1
    <3>4. t[k] + (IF k < p THEN 0 ELSE a[p]) = s[k] + (IF k < p THEN 0 ELSE b[p])
      BY <1>4, <3>2
    <3>5. t[i] + (IF i < p THEN 0 ELSE a[p]) = s[i] + (IF i < p THEN 0 ELSE b[p])
      <4>1. CASE i = p
        <5>1. ~(k < p) => FALSE
          BY <1>0, <3>1, <4>1
        <5>2. t[k] = s[k]
          BY <3>3, <3>4, <5>1
        <5>3. t[i] = t[k] + b[p] /\ s[i] = s[k] + a[p] /\ ~(i < p)
          BY <1>0, <3>2, <4>1
        <5>4. (t[k] + b[p]) + a[p] = (s[k] + a[p]) + b[p]
          BY <3>3, <5>2
        <5> QED BY <5>3, <5>4
      <4>2. CASE i # p
        <5>1. a[i] = b[i] /\ ((i < p) <=> (k < p)) /\ i \in Nat
          BY <1>a, <1>0, <3>1, <4>2
        <5>2. CASE i < p
          BY <3>2, <3>3, <3>4, <5>1, <5>2
        <5>3. CASE ~(i < p)
          <6>1. t[k] + a[p] = s[k] + b[p]
            BY <3>4, <5>1, <5>3
          <6>2. t[i] + a[p] = s[i] + b[p]
            <7>1. (t[k] + b[i]) + a[p] = (s[k] + b[i]) + b[p]
              <8>1. (t[k] + b[i]) + a[p] = (t[k] + a[p]) + b[i]
                BY <3>3
              <8>2. (s[k] + b[i]) + b[p] = (s[k] + b[p]) + b[i]
                BY <3>3
              <8> QED BY <6>1, <8>1, <8>2
            <7> QED BY <3>2, <5>1, <7>1
          <6> QED BY <5>3, <6>2
        <5> QED BY <5>2, <5>3
      <4> QED BY <4>1, <4>2
    <3> QED BY <3>1, <3>5
  <2> QED BY <2>1
<1>5. \A k \in Nat : k \in S
  <2> HIDE DEF S
  <2> QED BY <1>3, <1>4, NatSetInduction
<1>6. t[Len(a)] + a[p] = s[Len(a)] + b[p]
  BY <1>0, <1>5
<1>7. s[Len(a)] \in Int /\ t[Len(a)] \in Int
  BY <1>0, <1>1, <1>2
<1> QED BY <1>0, <1>1, <1>2, <1>6, <1>7

(* nothing but zeros comes to zero *)
LEMMA TotalZero ==
  ASSUME NEW ns, Len(ns) \in Nat, \A i \in 1 .. Len(ns) : ns[i] = 0
  PROVE  Total(ns) = 0
<1>1. PICK s : /\ s[0] = 0
               /\ \A i \in 1 .. Len(ns) : s[i] = s[i - 1] + ns[i]
               /\ Total(ns) = s[Len(ns)]
  BY TotalUnfolds
<1> DEFINE S == {k \in Nat : k <= Len(ns) => s[k] = 0}
<1>2. 0 \in S
  BY <1>1
<1>3. ASSUME NEW k \in Nat, k \in S PROVE k + 1 \in S
  <2>1. CASE k + 1 <= Len(ns)
    <3>1. PICK i \in 1 .. Len(ns) : i = k + 1
      BY <2>1
    <3>2. s[i] = s[k] + ns[i] /\ s[k] = 0
      BY <1>1, <1>3, <3>1
    <3> QED BY <3>1, <3>2
  <2> QED BY <2>1
<1>4. \A k \in Nat : k \in S
  <2> HIDE DEF S
  <2> QED BY <1>2, <1>3, NatSetInduction
<1> QED BY <1>1, <1>4

(* the sum of two lists is the sum of their sums *)
LEMMA TotalConcat ==
  ASSUME NEW a \in Seq(Int), NEW b \in Seq(Int)
  PROVE  Total(a \o b) = Total(a) + Total(b)
<1> DEFINE c == a \o b
<1>1. c \in Seq(Int) /\ Len(c) = Len(a) + Len(b)
      /\ (\A i \in 1 .. Len(a) : c[i] = a[i]) /\ \A i \in 1 .. Len(b) : c[Len(a) + i] = b[i]
  OBVIOUS
<1>0. Len(a) \in Nat /\ Len(b) \in Nat
  OBVIOUS
<1> HIDE DEF c
<1>2. PICK s : /\ s[0] = 0
               /\ \A i \in 1 .. Len(a) : s[i] = s[i - 1] + a[i]
               /\ \A i \in 0 .. Len(a) : s[i] \in Int
               /\ Total(a) = s[Len(a)]
  BY TotalRun
<1>3. PICK t : /\ t[0] = 0
               /\ \A i \in 1 .. Len(b) : t[i] = t[i - 1] + b[i]
               /\ \A i \in 0 .. Len(b) : t[i] \in Int
               /\ Total(b) = t[Len(b)]
  BY TotalRun
<1>4. PICK u : /\ u[0] = 0
               /\ \A i \in 1 .. Len(c) : u[i] = u[i - 1] + c[i]
               /\ \A i \in 0 .. Len(c) : u[i] \in Int
               /\ Total(c) = u[Len(c)]
  BY <1>1, TotalRun
<1> DEFINE S == {k \in Nat : k <= Len(a) => u[k] = s[k]}
           T == {k \in Nat : k <= Len(b) => u[Len(a) + k] = s[Len(a)] + t[k]}
<1>5. \A k \in Nat : k \in S
  <2>1. 0 \in S
    BY <1>2, <1>4
  <2>2. ASSUME NEW k \in Nat, k \in S PROVE k + 1 \in S
    <3>1. CASE k + 1 <= Len(a)
      <4>1. PICK i \in 1 .. Len(a) : i = k + 1
        BY <3>1
      <4>2. i \in 1 .. Len(c) /\ k <= Len(a) /\ i - 1 = k
        <5>1. Len(c) = Len(a) + Len(b) /\ i \in Nat /\ 1 <= i /\ i <= Len(a) /\ i = k + 1
          BY <1>1, <4>1
        <5> QED BY <1>0, <5>1
      <4>3. u[i] = u[k] + c[i] /\ s[i] = s[k] + a[i] /\ u[k] = s[k] /\ c[i] = a[i]
        BY <1>1, <1>2, <1>4, <2>2, <4>2
      <4>4. u[i] = s[i]
        BY ONLY <4>3, SMT
      <4>5. u[k + 1] = s[k + 1]
        BY ONLY <4>1, <4>4, Zenon
      <4> QED BY <4>5
    <3> QED BY <3>1
  <2> HIDE DEF S
  <2> QED BY <2>1, <2>2, NatSetInduction
<1>6. \A k \in Nat : k \in T
  <2>1. 0 \in T
    BY <1>2, <1>3, <1>4, <1>5
  <2>2. ASSUME NEW k \in Nat, k \in T PROVE k + 1 \in T
    <3>1. CASE k + 1 <= Len(b)
      <4>1. PICK i \in 1 .. Len(b) : i = k + 1
        BY <3>1
      <4>0. Len(a) + i \in 1 .. Len(c)
        <5>1. Len(c) = Len(a) + Len(b) /\ i \in Nat /\ 1 <= i /\ i <= Len(b)
          BY <1>1, <4>1
        <5> QED BY <1>0, <5>1
      <4>2. PICK j \in 1 .. Len(c) : j = Len(a) + i
        BY <4>0
      <4>3. c[j] = b[i] /\ j - 1 = Len(a) + k /\ i - 1 = k
        BY <1>0, <1>1, <4>1, <4>2
      <4>4. u[j] = u[Len(a) + k] + b[i] /\ t[i] = t[k] + b[i]
        BY <1>3, <1>4, <4>3
      <4>5. u[Len(a) + k] = s[Len(a)] + t[k] /\ s[Len(a)] \in Int /\ t[k] \in Int /\ b[i] \in Int
        BY <1>2, <1>3, <2>2, <4>1
      <4> QED BY <4>1, <4>2, <4>4, <4>5
    <3> QED BY <3>1
  <2> HIDE DEF T
  <2> QED BY <2>1, <2>2, NatSetInduction
<1>7. u[Len(a) + Len(b)] = s[Len(a)] + t[Len(b)]
  BY <1>6
<1>8. Total(c) = Total(a) + Total(b)
  BY <1>1, <1>2, <1>3, <1>4, <1>7
<1> QED BY <1>8 DEF c

(* a list of one number comes to it *)
LEMMA TotalOne ==
  ASSUME NEW n \in Int
  PROVE  Total(<<n>>) = n
<1>1. PICK s : /\ s[0] = 0
               /\ \A i \in 1 .. Len(<<n>>) : s[i] = s[i - 1] + <<n>>[i]
               /\ Total(<<n>>) = s[Len(<<n>>)]
  <2> DEFINE ns == <<n>>
  <2>1. Len(ns) \in Nat
    OBVIOUS
  <2> HIDE DEF ns
  <2>2. \E s : s[0] = 0 /\ (\A i \in 1 .. Len(ns) : s[i] = s[i - 1] + ns[i]) /\ Total(ns) = s[Len(ns)]
    BY <2>1, TotalUnfolds
  <2> QED BY <2>2 DEF ns
<1>2. s[1] = s[0] + n
  BY <1>1
<1> QED BY <1>1, <1>2

(* no numbers come to zero *)
LEMMA TotalNone == Total(<<>>) = 0
<1> DEFINE ns == <<>>
<1>1. Len(ns) \in Nat /\ \A i \in 1 .. Len(ns) : ns[i] = 0
  OBVIOUS
<1> HIDE DEF ns
<1>2. Total(ns) = 0
  BY <1>1, TotalZero
<1> QED BY <1>2 DEF ns

(***************************************************************************)
(* Fragments and the text in them                                          *)
(***************************************************************************)
Amount(f) == IF f.kind = "content" THEN f.n ELSE 0
Contents(fs) == Total([i \in DOMAIN fs |-> Amount(fs[i])])

FragmentOK(f) ==
  /\ f.kind \in {"content", "reasoning", "call", "replay", "usage", "finished"}
  /\ f.kind \in {"content", "reasoning"} => f.n \in Nat
  /\ f.kind = "call" => f.at \in Nat

FragmentsOK(fs) == IsSeq(fs) /\ \A i \in DOMAIN fs : FragmentOK(fs[i])

(* the amounts of text of fragments are numbers, one for each *)
LEMMA AmountsSeq ==
  ASSUME NEW fs, FragmentsOK(fs)
  PROVE  [i \in DOMAIN fs |-> Amount(fs[i])] \in Seq(Nat) /\ Len([i \in DOMAIN fs |-> Amount(fs[i])]) = Len(fs)
<1>1. \A i \in DOMAIN fs : Amount(fs[i]) \in Nat
  BY DEF FragmentsOK, FragmentOK, Amount
<1>2. DOMAIN fs = 1 .. Len(fs) /\ Len(fs) \in Nat
  BY SeqIs DEF FragmentsOK
<1> QED BY <1>1, <1>2

(* fragments after fragments have the text of both *)
LEMMA ContentsConcat ==
  ASSUME NEW a, NEW b, FragmentsOK(a), FragmentsOK(b)
  PROVE  FragmentsOK(a \o b) /\ Contents(a \o b) = Contents(a) + Contents(b)
<1> DEFINE A == [i \in DOMAIN a |-> Amount(a[i])]
           B == [i \in DOMAIN b |-> Amount(b[i])]
           c == a \o b
           C == [i \in DOMAIN c |-> Amount(c[i])]
<1>1. IsSeq(a) /\ IsSeq(b) /\ DOMAIN a = 1 .. Len(a) /\ DOMAIN b = 1 .. Len(b) /\ Len(a) \in Nat /\ Len(b) \in Nat
  BY SeqIs DEF FragmentsOK
<1>2. A \in Seq(Int) /\ B \in Seq(Int) /\ Len(A) = Len(a) /\ Len(B) = Len(b) /\ IsSeq(A) /\ IsSeq(B)
  <2>1. A \in Seq(Nat) /\ B \in Seq(Nat) /\ Len(A) = Len(a) /\ Len(B) = Len(b)
    BY AmountsSeq
  <2> HIDE DEF A, B
  <2> QED BY <2>1 DEF IsSeq
<1>3. FragmentsOK(c)
  <2>1. ASSUME NEW i \in DOMAIN c PROVE FragmentOK(c[i])
    <3>1. CASE i > Len(a)
      <4>1. i - Len(a) \in DOMAIN b /\ c[i] = b[i - Len(a)]
        BY <1>1, <3>1, SeqConcat
      <4> QED BY <4>1 DEF FragmentsOK
    <3>2. CASE ~(i > Len(a))
      <4>1. i \in DOMAIN a /\ c[i] = a[i]
        BY <1>1, <3>2, SeqConcat
      <4> QED BY <4>1 DEF FragmentsOK
    <3> QED BY <3>1, <3>2
  <2> QED BY <1>1, <2>1, SeqConcat DEF FragmentsOK
<1>4. C = A \o B
  <2>1. IsSeq(C) /\ Len(C) = Len(c) /\ DOMAIN C = 1 .. Len(c) /\ DOMAIN c = 1 .. Len(c) /\ Len(c) = Len(a) + Len(b)
    <3>1. C \in Seq(Nat) /\ Len(C) = Len(c) /\ DOMAIN C = DOMAIN c
      <4> HIDE DEF c
      <4> QED BY <1>3, AmountsSeq
    <3>2. DOMAIN c = 1 .. Len(c) /\ Len(c) = Len(a) + Len(b)
      BY <1>1, SeqConcat
    <3> HIDE DEF C, c
    <3> QED BY <3>1, <3>2 DEF IsSeq
  <2>2. \A i \in DOMAIN c : C[i] = Amount(c[i])
    OBVIOUS
  <2>3. (\A i \in DOMAIN a : A[i] = Amount(a[i])) /\ \A i \in DOMAIN b : B[i] = Amount(b[i])
    OBVIOUS
  <2>4. ASSUME NEW i \in 1 .. Len(c) PROVE C[i] = (A \o B)[i]
    <3> HIDE DEF A, B, C
    <3>0. i \in DOMAIN (A \o B) /\ i \in DOMAIN c
      BY <1>2, <2>1, SeqConcat
    <3>1. CASE i > Len(a)
      <4>1. i - Len(a) \in DOMAIN b /\ c[i] = b[i - Len(a)]
        BY <1>1, <3>0, <3>1, SeqConcat
      <4>2. (A \o B)[i] = B[i - Len(a)]
        BY <1>2, <3>0, <3>1, SeqConcat
      <4> HIDE DEF c
      <4> QED BY <2>2, <2>3, <3>0, <4>1, <4>2
    <3>2. CASE ~(i > Len(a))
      <4>1. i \in DOMAIN a /\ c[i] = a[i]
        BY <1>1, <3>0, <3>2, SeqConcat
      <4>2. (A \o B)[i] = A[i]
        BY <1>1, <1>2, <4>1, SeqConcat
      <4> HIDE DEF c
      <4> QED BY <2>2, <2>3, <3>0, <4>1, <4>2
    <3> QED BY <3>1, <3>2
  <2>5. IsSeq(A \o B) /\ Len(A \o B) = Len(c)
    <3> HIDE DEF A, B, C, c
    <3> QED BY <1>2, <2>1, SeqConcat
  <2> HIDE DEF A, B, C, c
  <2> QED BY <2>1, <2>4, <2>5, SeqSame
<1>5. Total(C) = Total(A) + Total(B)
  <2> HIDE DEF A, B, C
  <2> QED BY <1>2, <1>4, TotalConcat
<1> QED BY <1>3, <1>5 DEF Contents

(* one fragment has its own text *)
LEMMA ContentsOne ==
  ASSUME NEW f, FragmentOK(f)
  PROVE  FragmentsOK(<<f>>) /\ Contents(<<f>>) = Amount(f)
<1>1. FragmentsOK(<<f>>)
  <2>1. \A i \in DOMAIN <<f>> : <<f>>[i] = f
    BY SeqOne
  <2> QED BY <2>1, SeqOne DEF FragmentsOK
<1> DEFINE A == [i \in DOMAIN <<f>> |-> Amount(<<f>>[i])]
<1>2. A = <<Amount(f)>>
  <2>1. A = [i \in 1 .. 1 |-> Amount(f)]
    <3>1. DOMAIN <<f>> = 1 .. 1 /\ <<f>>[1] = f
      BY SeqOne
    <3>2. \A i \in 1 .. 1 : Amount(<<f>>[i]) = Amount(f)
      BY <3>1
    <3> QED BY <3>1, <3>2, Zenon
  <2> QED BY <2>1, SeqOne
<1>3. Amount(f) \in Int
  BY DEF FragmentOK, Amount
<1>4. Total(A) = Amount(f)
  <2> HIDE DEF A
  <2> QED BY <1>2, <1>3, TotalOne
<1> QED BY <1>1, <1>4 DEF Contents

(* no fragments have no text *)
LEMMA ContentsNone ==
  FragmentsOK(<<>>) /\ Contents(<<>>) = 0
<1>1. FragmentsOK(<<>>)
  BY SeqNone DEF FragmentsOK
<1> DEFINE A == [i \in DOMAIN <<>> |-> Amount(<<>>[i])]
<1>2. A = <<>>
  OBVIOUS
<1>3. Total(A) = 0
  <2> HIDE DEF A
  <2> QED BY <1>2, TotalNone
<1> QED BY <1>1, <1>3 DEF Contents

(* the text of fragments has a length *)
LEMMA ContentsType ==
  ASSUME NEW fs, FragmentsOK(fs)
  PROVE  Contents(fs) \in Nat
  BY AmountsSeq, TotalType DEF Contents

(* a fragment more has its text more *)
LEMMA ContentsAppend ==
  ASSUME NEW fs, FragmentsOK(fs), NEW f, FragmentOK(f)
  PROVE  FragmentsOK(Append(fs, f)) /\ Contents(Append(fs, f)) = Contents(fs) + Amount(f)
<1>1. Append(fs, f) = fs \o <<f>>
  BY SeqAppend DEF FragmentsOK
<1> QED BY <1>1, ContentsOne, ContentsConcat

(* the text of the first fragment and of the others is the text of all *)
LEMMA ContentsSplit ==
  ASSUME NEW fs, FragmentsOK(fs), fs # <<>>
  PROVE  /\ FragmentOK(Head(fs)) /\ FragmentsOK(Tail(fs))
         /\ Contents(fs) = Amount(Head(fs)) + Contents(Tail(fs))
<1>1. IsSeq(fs)
  BY DEF FragmentsOK
<1>3. FragmentOK(Head(fs)) /\ FragmentsOK(Tail(fs))
  BY <1>1, SeqTail DEF FragmentsOK
<1>4. fs = <<Head(fs)>> \o Tail(fs)
  BY <1>1, SeqIs
<1>5. Contents(<<Head(fs)>> \o Tail(fs)) = Contents(<<Head(fs)>>) + Contents(Tail(fs))
  BY <1>3, ContentsOne, ContentsConcat
<1>6. Contents(<<Head(fs)>>) = Amount(Head(fs))
  BY <1>3, ContentsOne
<1> QED BY <1>3, <1>4, <1>5, <1>6

(***************************************************************************)
(* What an event does to a decoder                                         *)
(***************************************************************************)
DecoderFields == {"format", "data", "name", "started", "terminal", "reason", "refused", "blocks"}
BlockFields == {"kind", "id", "closed", "text", "reasoning", "args", "filled"}

(* the text of a message item its provider has not completed yet *)
Undone(d, at) ==
  IF at \in DOMAIN d.blocks /\ d.blocks[at].kind = "message" /\ ~d.blocks[at].closed
  THEN d.blocks[at].text ELSE 0

DecoderOK(d) ==
  /\ DOMAIN d = DecoderFields
  /\ IsSeq(d.data) /\ \A i \in DOMAIN d.data : EventOK(d.data[i])
  /\ \A at \in DOMAIN d.blocks : DOMAIN d.blocks[at] = BlockFields /\ d.blocks[at].text \in Nat
  /\ d.terminal \/ d.format # "responses" => \A at : Undone(d, at) = 0

ClaimOf(format, e) == Claim(format, [line |-> "data", event |-> e])

(* what an event does: text is shown that is claimed, now or when its item is complete *)
Handled(d, e, o) ==
  /\ DecoderOK(o.d) /\ o.d.format = d.format /\ o.d.data = d.data
  /\ FragmentsOK(o.out)
  /\ \E at \in Nat : /\ \A x : x # at => Undone(o.d, x) = Undone(d, x)
                     /\ Contents(o.out) + Undone(d, at) = ClaimOf(d.format, e) + Undone(o.d, at)

(* an event that leaves every block and emits the text it claims is handled *)
(* well                                                                     *)
LEMMA Quiet ==
  ASSUME NEW d, NEW e, NEW n, NEW out, DecoderOK(d),
         DOMAIN n = DecoderFields, n.format = d.format, n.data = d.data, n.blocks = d.blocks,
         n.terminal => d.terminal \/ \A at : Undone(d, at) = 0,
         FragmentsOK(out), Contents(out) = ClaimOf(d.format, e)
  PROVE  Handled(d, e, Out(n, out))
<1>1. \A x : Undone(n, x) = Undone(d, x)
  BY DEF Undone
<1>2. DecoderOK(n)
  BY <1>1 DEF DecoderOK
<1>3. Out(n, out).d = n /\ Out(n, out).out = out
  BY DEF Out
<1>4. 0 \in Nat
  OBVIOUS
<1> QED BY <1>1, <1>2, <1>3, <1>4 DEF Handled

(* the fragments the handlers build are fragments *)
LEMMA Fragments ==
  /\ \A n : Content(n).kind = "content" /\ Content(n).n = n
  /\ \A n : Reasoning(n).kind = "reasoning" /\ Reasoning(n).n = n
  /\ \A a, i, n, g : CallDelta(a, i, n, g).kind = "call" /\ CallDelta(a, i, n, g).at = a
  /\ \A f, a, o, i : Replay(f, a, o, i).kind = "replay"
  /\ Usage.kind = "usage"
  /\ \A r : Finished(r).kind = "finished"
  BY DEF Content, Reasoning, CallDelta, Replay, Usage, Finished

(* what the kinds of fragments hold *)
LEMMA FragmentFacts ==
  /\ \A n \in Nat : /\ FragmentOK(Content(n)) /\ Amount(Content(n)) = n
                    /\ FragmentOK(Reasoning(n)) /\ Amount(Reasoning(n)) = 0
  /\ \A a \in Nat : \A i, n, g : FragmentOK(CallDelta(a, i, n, g)) /\ Amount(CallDelta(a, i, n, g)) = 0
  /\ \A f, a, o, i : FragmentOK(Replay(f, a, o, i)) /\ Amount(Replay(f, a, o, i)) = 0
  /\ FragmentOK(Usage) /\ Amount(Usage) = 0
  /\ \A r : FragmentOK(Finished(r)) /\ Amount(Finished(r)) = 0
  BY Fragments DEF FragmentOK, Amount

(* fragments that are not content have no text *)
LEMMA ContentsSilent ==
  ASSUME NEW fs, IsSeq(fs), \A i \in DOMAIN fs : FragmentOK(fs[i]) /\ Amount(fs[i]) = 0
  PROVE  FragmentsOK(fs) /\ Contents(fs) = 0
<1> DEFINE A == [i \in DOMAIN fs |-> Amount(fs[i])]
<1>1. FragmentsOK(fs) /\ DOMAIN fs = 1 .. Len(fs) /\ Len(fs) \in Nat
  BY SeqIs DEF FragmentsOK
<1>2. Len(A) = Len(fs) /\ \A i \in 1 .. Len(A) : A[i] = 0
  BY <1>1, AmountsSeq
<1>3. Total(A) = 0
  <2> HIDE DEF A
  <2> QED BY <1>1, <1>2, TotalZero
<1> QED BY <1>1, <1>3 DEF Contents

(***************************************************************************)
(* Chat completions                                                        *)
(***************************************************************************)
(* chat_event: what a chunk says is what it emits *)
LEMMA ChatHandled ==
  ASSUME NEW d, NEW e, DecoderOK(d), ~d.terminal, EventOK(e), d.format = "chat_completions",
         ~ChatEvent(d, e).bad
  PROVE  Handled(d, e, ChatEvent(d, e))
<1>1. ClaimOf(d.format, e) = IF e.type = "chat" THEN e.text ELSE 0
  BY DEF ClaimOf, Claim
<1>2. DOMAIN d = DecoderFields /\ \A at : Undone(d, at) = 0
  BY DEF DecoderOK
<1>3. \A x : Bad(x).bad
  BY DEF Bad
<1>4. CASE e.type = "done"
  <2>1. d.started /\ d.reason # None /\ ChatEvent(d, e) = Out([d EXCEPT !.terminal = TRUE], <<Finished(d.reason)>>)
    BY <1>3, <1>4 DEF ChatEvent, ChatDone
  <2>2. FragmentsOK(<<Finished(d.reason)>>) /\ Contents(<<Finished(d.reason)>>) = 0
    BY ContentsOne, FragmentFacts
  <2> DEFINE n == [d EXCEPT !.terminal = TRUE]
  <2>3. DOMAIN n = DecoderFields /\ n.format = d.format /\ n.data = d.data /\ n.blocks = d.blocks
    BY <1>2 DEF DecoderFields
  <2> HIDE DEF n
  <2>4. Handled(d, e, Out(n, <<Finished(d.reason)>>))
    BY <1>1, <1>2, <1>4, <2>2, <2>3, Quiet
  <2> QED BY <2>1, <2>4 DEF n
<1>5. CASE e.type # "done"
  <2>1. e.type = "chat" /\ ~(e.choices > 1)
    BY <1>3, <1>5 DEF ChatEvent
  <2>2. /\ e.text \in Nat /\ e.think \in Nat
        /\ IsSeq(e.calls) /\ \A i \in DOMAIN e.calls : e.calls[i].at \in Nat
        /\ e.choices = 0 => e.text = 0
    BY <2>1 DEF EventOK, IsSeq
  <2>3. FragmentsOK(Optional(e.usage, Usage)) /\ Contents(Optional(e.usage, Usage)) = 0
    BY FragmentFacts, ContentsOne, ContentsNone DEF Optional
  <2>4. CASE e.choices = 0
    <3>1. ChatEvent(d, e) = Out(d, Optional(e.usage, Usage))
      BY <2>1, <2>4 DEF ChatEvent
    <3> QED BY <1>1, <1>2, <2>1, <2>2, <2>3, <2>4, <3>1, Quiet
  <2>5. CASE e.choices # 0 /\ d.reason # None
    <3>1. e.text = 0 /\ ChatEvent(d, e) = Out(d, Optional(e.usage, Usage))
      BY <1>3, <2>1, <2>5 DEF ChatEvent, ChatTail
    <3> QED BY <1>1, <1>2, <2>1, <2>2, <2>3, <3>1, Quiet
  <2>6. CASE e.choices # 0 /\ d.reason = None
    <3> DEFINE n == [d EXCEPT !.started = TRUE, !.reason = e.end]
               calls == [i \in DOMAIN e.calls |->
                           CallDelta(e.calls[i].at, e.calls[i].id, e.calls[i].named, e.calls[i].args)]
               u == Optional(e.usage, Usage)
               t == Optional(e.think > 0, Reasoning(e.think))
               c == Optional(e.text > 0, Content(e.text))
    <3>1. ChatEvent(d, e) = Out(n, u \o t \o c \o calls)
      BY <2>1, <2>6 DEF ChatEvent, ChatChoice
    <3>2. DOMAIN n = DecoderFields /\ n.format = d.format /\ n.data = d.data /\ n.blocks = d.blocks /\ n.terminal = d.terminal
      BY <1>2 DEF DecoderFields
    <3>3. FragmentsOK(t) /\ Contents(t) = 0
      BY <2>2, FragmentFacts, ContentsOne, ContentsNone DEF Optional
    <3>4. FragmentsOK(c) /\ Contents(c) = e.text
      BY <2>2, FragmentFacts, ContentsOne, ContentsNone DEF Optional
    <3>5. FragmentsOK(calls) /\ Contents(calls) = 0
      <4>1. IsSeq(calls)
        <5>1. DOMAIN e.calls = 1 .. Len(e.calls) /\ Len(e.calls) \in Nat
          BY <2>2, SeqIs
        <5>2. PICK S : calls \in [1 .. Len(e.calls) -> S]
          <6>1. calls \in [1 .. Len(e.calls) -> {calls[i] : i \in 1 .. Len(e.calls)}]
            BY <5>1
          <6> QED BY <6>1
        <5> HIDE DEF calls
        <5>3. calls \in Seq(S)
          BY <5>1, <5>2
        <5> QED BY <5>3 DEF IsSeq
      <4>2. \A i \in DOMAIN calls : FragmentOK(calls[i]) /\ Amount(calls[i]) = 0
        BY <2>2, FragmentFacts
      <4> HIDE DEF calls
      <4> QED BY <4>1, <4>2, ContentsSilent
    <3>6. FragmentsOK(u \o t \o c \o calls) /\ Contents(u \o t \o c \o calls) = e.text
      <4> HIDE DEF u, t, c, calls
      <4>0. FragmentsOK(u) /\ Contents(u) = 0
        BY <2>3 DEF u
      <4>1. FragmentsOK(u \o t) /\ Contents(u \o t) = 0
        BY <4>0, <3>3, ContentsConcat
      <4>2. FragmentsOK(u \o t \o c) /\ Contents(u \o t \o c) = e.text
        BY <2>2, <4>1, <3>4, ContentsConcat
      <4> QED BY <2>2, <4>2, <3>5, ContentsConcat
    <3> HIDE DEF n, u, t, c, calls
    <3>7. Handled(d, e, Out(n, u \o t \o c \o calls))
      BY <1>1, <2>1, <3>2, <3>6, Quiet
    <3> QED BY <3>1, <3>7
  <2> QED BY <2>4, <2>5, <2>6
<1> QED BY <1>4, <1>5

(* the events of a message around its blocks hold no text *)
LEMMA MessageEnds ==
  ASSUME NEW d, NEW e, DecoderOK(d), ~d.terminal, d.format = "messages", NEW o, ~o.bad,
         \/ e.type = "ping" /\ o = Out(d, <<>>)
         \/ e.type = "message_start" /\ o = MessageStart(d, e)
         \/ e.type = "message_delta" /\ o = MessageDelta(d, e)
         \/ e.type = "message_stop" /\ o = MessageStop(d)
  PROVE  Handled(d, e, o)
<1>1. ClaimOf(d.format, e) = 0
  BY DEF ClaimOf, Claim
<1>2. DOMAIN d = DecoderFields /\ \A at : Undone(d, at) = 0
  BY DEF DecoderOK
<1>3. \A x : Bad(x).bad
  BY DEF Bad
<1>4. /\ FragmentsOK(<<Usage>>) /\ Contents(<<Usage>>) = 0
      /\ \A r : FragmentsOK(<<Finished(r)>>) /\ Contents(<<Finished(r)>>) = 0
  BY ContentsOne, FragmentFacts
<1>5. PICK n, out :
        /\ o = Out(n, out) /\ DOMAIN n = DecoderFields
        /\ n.format = d.format /\ n.data = d.data /\ n.blocks = d.blocks
        /\ FragmentsOK(out) /\ Contents(out) = 0
  <2>1. CASE e.type = "ping" /\ o = Out(d, <<>>)
    BY <1>2, <2>1, ContentsNone
  <2>2. CASE o = MessageStart(d, e)
    <3> DEFINE n == [d EXCEPT !.started = TRUE]
    <3>1. o = Out(n, <<Usage>>)
      BY <1>3, <2>2 DEF MessageStart
    <3>2. DOMAIN n = DecoderFields /\ n.format = d.format /\ n.data = d.data /\ n.blocks = d.blocks
      BY <1>2 DEF DecoderFields
    <3> HIDE DEF n
    <3> QED BY <1>4, <3>1, <3>2
  <2>3. CASE o = MessageDelta(d, e)
    <3> DEFINE n == [d EXCEPT !.reason = e.reason]
    <3>1. o = Out(n, <<Usage>>)
      BY <1>3, <2>3 DEF MessageDelta
    <3>2. DOMAIN n = DecoderFields /\ n.format = d.format /\ n.data = d.data /\ n.blocks = d.blocks
      BY <1>2 DEF DecoderFields
    <3> HIDE DEF n
    <3> QED BY <1>4, <3>1, <3>2
  <2>4. CASE o = MessageStop(d)
    <3> DEFINE n == [d EXCEPT !.terminal = TRUE]
    <3>1. o = Out(n, <<Finished(d.reason)>>)
      BY <1>3, <2>4 DEF MessageStop
    <3>2. DOMAIN n = DecoderFields /\ n.format = d.format /\ n.data = d.data /\ n.blocks = d.blocks
      BY <1>2 DEF DecoderFields
    <3> HIDE DEF n
    <3> QED BY <1>4, <3>1, <3>2
  <2> QED BY <2>1, <2>2, <2>3, <2>4
<1>6. Handled(d, e, Out(n, out))
  BY <1>1, <1>2, <1>5, Quiet
<1> QED BY <1>5, <1>6

(* An event that changes one content block of the messages API. *)
LEMMA BlockChanged ==
  ASSUME NEW d, NEW e, DecoderOK(d), ~d.terminal, d.format = "messages", NEW n, NEW out,
         DOMAIN n = DecoderFields, n.format = d.format, n.data = d.data, n.terminal = d.terminal,
         \A at \in DOMAIN n.blocks :
            /\ DOMAIN n.blocks[at] = BlockFields /\ n.blocks[at].text \in Nat
            /\ n.blocks[at].kind = "message" =>
                 /\ at \in DOMAIN d.blocks /\ d.blocks[at].kind = "message"
                 /\ n.blocks[at].text = d.blocks[at].text
                 /\ d.blocks[at].closed => n.blocks[at].closed,
         FragmentsOK(out), Contents(out) = ClaimOf(d.format, e)
  PROVE  Handled(d, e, Out(n, out))
<1>1. \A at : Undone(d, at) = 0
  BY DEF DecoderOK
<1>2. ASSUME NEW at PROVE Undone(n, at) = 0
  <2>1. Undone(d, at) = 0
    BY <1>1
  <2> QED BY <2>1 DEF Undone
<1>3. DecoderOK(n)
  BY <1>2 DEF DecoderOK
<1>4. Out(n, out).d = n /\ Out(n, out).out = out
  BY DEF Out
<1>5. Contents(out) + Undone(d, 0) = ClaimOf(d.format, e) + Undone(n, 0)
  BY <1>1, <1>2
<1>6. 0 \in Nat /\ \A x : Undone(n, x) = Undone(d, x)
  BY <1>1, <1>2
<1> QED BY <1>3, <1>4, <1>5, <1>6 DEF Handled

(* the events of a content block: the text of its start and of its deltas   *)
(* is emitted at once                                                       *)
LEMMA BlockHandled ==
  ASSUME NEW d, NEW e, DecoderOK(d), ~d.terminal, EventOK(e), d.format = "messages", NEW o, ~o.bad,
         \/ e.type = "content_block_start" /\ o = BlockStart(d, e)
         \/ e.type = "content_block_delta" /\ o = BlockDelta(d, e)
         \/ e.type = "content_block_stop" /\ o = BlockStop(d, e)
  PROVE  Handled(d, e, o)
<1>1. e.at \in Nat
  BY DEF EventOK
<1>2. DOMAIN d = DecoderFields /\ \A at \in DOMAIN d.blocks : DOMAIN d.blocks[at] = BlockFields /\ d.blocks[at].text \in Nat
  BY DEF DecoderOK
<1>3. \A x : Bad(x).bad
  BY DEF Bad
<1>4. CASE e.type = "content_block_start" /\ o = BlockStart(d, e)
  <2>1. e.n \in Nat
    BY <1>4 DEF EventOK
  <2> DEFINE b == [NewBlock(e.kind) EXCEPT !.id = e.id, !.filled = e.kind = "tool_use" /\ e.n > 0]
             n == [d EXCEPT !.blocks = Put(@, e.at, b)]
  <2>2. e.kind \in {"text", "thinking", "redacted_thinking", "tool_use"} /\ o = Out(n, BlockFragments(e))
    BY <1>3, <1>4 DEF BlockStart
  <2>3. DOMAIN b = BlockFields /\ b.text = 0 /\ b.kind = e.kind
    BY DEF NewBlock, BlockFields
  <2>4. DOMAIN n = DecoderFields /\ n.format = d.format /\ n.data = d.data /\ n.terminal = d.terminal
        /\ n.blocks = Put(d.blocks, e.at, b)
    <3> HIDE DEF b
    <3> QED BY <1>2 DEF DecoderFields
  <2>5. FragmentsOK(BlockFragments(e)) /\ Contents(BlockFragments(e)) = ClaimOf(d.format, e)
    <3>1. ClaimOf(d.format, e) = IF e.kind = "text" THEN e.n ELSE 0
      BY <1>4 DEF ClaimOf, Claim
    <3>2. \A op, item : LET r == Replay("messages", e.at, op, item) IN FragmentsOK(<<r>>) /\ Contents(<<r>>) = 0
      BY ContentsOne, FragmentFacts
    <3>3. CASE e.kind = "text"
      BY <2>1, <3>1, <3>3, ContentsOne, FragmentFacts DEF BlockFragments
    <3>4. CASE e.kind = "thinking"
      <4>1. BlockFragments(e) = <<Reasoning(e.n)>> \o <<Replay("messages", e.at, "start", [kind |-> "thinking", sound |-> e.sound])>>
        BY <3>4, SeqPair DEF BlockFragments
      <4>2. FragmentsOK(<<Reasoning(e.n)>>) /\ Contents(<<Reasoning(e.n)>>) = 0
        BY <2>1, ContentsOne, FragmentFacts
      <4> QED BY <3>1, <3>2, <3>4, <4>1, <4>2, ContentsConcat
    <3>5. CASE e.kind = "redacted_thinking"
      BY <3>1, <3>2, <3>5 DEF BlockFragments
    <3>6. CASE e.kind = "tool_use"
      <4>1. PICK f : f = CallDelta(e.at, e.id, TRUE, e.n)
        OBVIOUS
      <4>2. BlockFragments(e) = <<f>>
        BY <4>1, <3>6 DEF BlockFragments
      <4>3. f.kind = "call" /\ f.at = e.at
        BY <4>1 DEF CallDelta
      <4>4. FragmentOK(f) /\ Amount(f) = 0
        BY <1>1, <4>3 DEF FragmentOK, Amount
      <4> QED BY <3>1, <3>6, <4>2, <4>4, ContentsOne
    <3>7. e.kind \in {"text", "thinking", "redacted_thinking", "tool_use"}
      BY <2>2
    <3> HIDE DEF b, n
    <3> QED BY <3>3, <3>4, <3>5, <3>6, <3>7
  <2> HIDE DEF b, n
  <2>6. \A at \in DOMAIN n.blocks :
            /\ DOMAIN n.blocks[at] = BlockFields /\ n.blocks[at].text \in Nat
            /\ n.blocks[at].kind = "message" =>
                 /\ at \in DOMAIN d.blocks /\ d.blocks[at].kind = "message"
                 /\ n.blocks[at].text = d.blocks[at].text
                 /\ d.blocks[at].closed => n.blocks[at].closed
    BY <1>2, <2>2, <2>3, <2>4 DEF Put
  <2>7. Handled(d, e, Out(n, BlockFragments(e)))
    BY <2>4, <2>5, <2>6, BlockChanged
  <2> QED BY <2>2, <2>7
<1>5. CASE e.type = "content_block_delta" /\ o = BlockDelta(d, e)
  <2>1. e.n \in Nat
    BY <1>5 DEF EventOK
  <2> DEFINE n == [d EXCEPT !.blocks[e.at].filled = @ \/ e.delta = "input_json_delta"]
  <2>2. IsOpen(d, e.at) /\ <<e.delta, d.blocks[e.at].kind>> \in DeltaOf /\ o = Out(n, DeltaFragments(e))
    BY <1>3, <1>5 DEF BlockDelta
  <2>3. DOMAIN n = DecoderFields /\ n.format = d.format /\ n.data = d.data /\ n.terminal = d.terminal
        /\ n.blocks = [d.blocks EXCEPT ![e.at] = [d.blocks[e.at] EXCEPT !.filled = @ \/ e.delta = "input_json_delta"]]
    BY <1>2 DEF DecoderFields
  <2>4. e.at \in DOMAIN d.blocks /\ d.blocks[e.at].kind # "message"
    BY <2>2 DEF IsOpen, Has, DeltaOf
  <2>5. FragmentsOK(DeltaFragments(e)) /\ Contents(DeltaFragments(e)) = ClaimOf(d.format, e)
    <3>1. ClaimOf(d.format, e) = IF e.delta = "text_delta" THEN e.n ELSE 0
      BY <1>5 DEF ClaimOf, Claim
    <3>2. \A op, item : LET r == Replay("messages", e.at, op, item) IN FragmentsOK(<<r>>) /\ Contents(<<r>>) = 0
      BY ContentsOne, FragmentFacts
    <3>3. CASE e.delta = "text_delta"
      BY <2>1, <3>1, <3>3, ContentsOne, FragmentFacts DEF DeltaFragments
    <3>4. CASE e.delta = "thinking_delta"
      <4>1. DeltaFragments(e) = <<Reasoning(e.n)>> \o <<Replay("messages", e.at, "thinking_delta", None)>>
        BY <3>4, SeqPair DEF DeltaFragments
      <4>2. FragmentsOK(<<Reasoning(e.n)>>) /\ Contents(<<Reasoning(e.n)>>) = 0
        BY <2>1, ContentsOne, FragmentFacts
      <4> QED BY <3>1, <3>2, <3>4, <4>1, <4>2, ContentsConcat
    <3>5. CASE e.delta = "signature_delta"
      BY <3>1, <3>2, <3>5 DEF DeltaFragments
    <3>6. CASE e.delta = "input_json_delta"
      <4>1. PICK f : f = CallDelta(e.at, <<>>, FALSE, e.n)
        OBVIOUS
      <4>2. DeltaFragments(e) = <<f>>
        BY <4>1, <3>6 DEF DeltaFragments
      <4>3. f.kind = "call" /\ f.at = e.at
        BY <4>1 DEF CallDelta
      <4>4. FragmentOK(f) /\ Amount(f) = 0
        BY <1>1, <4>3 DEF FragmentOK, Amount
      <4> QED BY <3>1, <3>6, <4>2, <4>4, ContentsOne
    <3>7. e.delta \in {"text_delta", "thinking_delta", "signature_delta", "input_json_delta"}
      BY <2>2 DEF DeltaOf
    <3> HIDE DEF n
    <3> QED BY <3>3, <3>4, <3>5, <3>6, <3>7
  <2> HIDE DEF n
  <2>6. \A at \in DOMAIN n.blocks :
            /\ DOMAIN n.blocks[at] = BlockFields /\ n.blocks[at].text \in Nat
            /\ n.blocks[at].kind = "message" =>
                 /\ at \in DOMAIN d.blocks /\ d.blocks[at].kind = "message"
                 /\ n.blocks[at].text = d.blocks[at].text
                 /\ d.blocks[at].closed => n.blocks[at].closed
    BY <1>2, <2>3, <2>4 DEF BlockFields
  <2>7. Handled(d, e, Out(n, DeltaFragments(e)))
    BY <2>3, <2>5, <2>6, BlockChanged
  <2> QED BY <2>2, <2>7
<1>6. CASE e.type = "content_block_stop" /\ o = BlockStop(d, e)
  <2> DEFINE n == [d EXCEPT !.blocks[e.at].closed = TRUE]
             out == Optional(d.blocks[e.at].kind = "tool_use" /\ ~d.blocks[e.at].filled,
                             CallDelta(e.at, <<>>, FALSE, Whole))
  <2>2. IsOpen(d, e.at) /\ o = Out(n, out)
    BY <1>3, <1>6 DEF BlockStop
  <2>3. DOMAIN n = DecoderFields /\ n.format = d.format /\ n.data = d.data /\ n.terminal = d.terminal
        /\ n.blocks = [d.blocks EXCEPT ![e.at] = [d.blocks[e.at] EXCEPT !.closed = TRUE]]
    BY <1>2 DEF DecoderFields
  <2>4. e.at \in DOMAIN d.blocks
    BY <2>2 DEF IsOpen, Has
  <2>5. FragmentsOK(out) /\ Contents(out) = ClaimOf(d.format, e)
    <3>1. ClaimOf(d.format, e) = 0
      BY <1>6 DEF ClaimOf, Claim
    <3>2. CASE d.blocks[e.at].kind = "tool_use" /\ ~d.blocks[e.at].filled
      <4>1. PICK f : f = CallDelta(e.at, <<>>, FALSE, Whole)
        OBVIOUS
      <4>2. out = <<f>>
        BY <4>1, <3>2 DEF Optional
      <4>3. f.kind = "call" /\ f.at = e.at
        BY <4>1 DEF CallDelta
      <4>4. FragmentOK(f) /\ Amount(f) = 0
        BY <1>1, <4>3 DEF FragmentOK, Amount
      <4> HIDE DEF out
      <4> QED BY <3>1, <4>2, <4>4, ContentsOne
    <3>3. CASE ~(d.blocks[e.at].kind = "tool_use" /\ ~d.blocks[e.at].filled)
      <4>1. out = <<>>
        BY <3>3 DEF Optional
      <4> HIDE DEF out
      <4> QED BY <3>1, <4>1, ContentsNone
    <3> QED BY <3>2, <3>3
  <2> HIDE DEF n, out
  <2>6. \A at \in DOMAIN n.blocks :
            /\ DOMAIN n.blocks[at] = BlockFields /\ n.blocks[at].text \in Nat
            /\ n.blocks[at].kind = "message" =>
                 /\ at \in DOMAIN d.blocks /\ d.blocks[at].kind = "message"
                 /\ n.blocks[at].text = d.blocks[at].text
                 /\ d.blocks[at].closed => n.blocks[at].closed
    BY <1>2, <2>3, <2>4 DEF BlockFields
  <2>7. Handled(d, e, Out(n, out))
    BY <2>3, <2>5, <2>6, BlockChanged
  <2> QED BY <2>2, <2>7
<1> QED BY <1>4, <1>5, <1>6

(* messages_event keeps the text claimed and the text emitted together *)
LEMMA MessagesHandled ==
  ASSUME NEW d, NEW e, DecoderOK(d), ~d.terminal, EventOK(e), d.format = "messages",
         ~MessagesEvent(d, e).bad
  PROVE  Handled(d, e, MessagesEvent(d, e))
<1> DEFINE o == MessagesEvent(d, e)
<1>1. \A x : Bad(x).bad
  BY DEF Bad
<1>2. \/ e.type = "ping" /\ o = Out(d, <<>>)
      \/ e.type = "message_start" /\ o = MessageStart(d, e)
      \/ e.type = "message_delta" /\ o = MessageDelta(d, e)
      \/ e.type = "message_stop" /\ o = MessageStop(d)
      \/ e.type = "content_block_start" /\ o = BlockStart(d, e)
      \/ e.type = "content_block_delta" /\ o = BlockDelta(d, e)
      \/ e.type = "content_block_stop" /\ o = BlockStop(d, e)
  BY <1>1 DEF MessagesEvent
<1> HIDE DEF o
<1>3. ~o.bad
  BY DEF o
<1>4. Handled(d, e, o)
  BY <1>2, <1>3, MessageEnds, BlockHandled
<1> QED BY <1>4 DEF o

(* An event that changes one item of the responses API. *)
LEMMA ItemChanged ==
  ASSUME NEW d, NEW e, DecoderOK(d), ~d.terminal, d.format = "responses", NEW n, NEW out,
         NEW at \in Nat, NEW b, DOMAIN n = DecoderFields,
         n.format = d.format, n.data = d.data, n.terminal = d.terminal,
         DOMAIN n.blocks = DOMAIN d.blocks \cup {at}, n.blocks[at] = b,
         \A x \in DOMAIN d.blocks : x # at => n.blocks[x] = d.blocks[x],
         DOMAIN b = BlockFields, b.text \in Nat,
         FragmentsOK(out),
         Contents(out) + Undone(d, at)
           = ClaimOf(d.format, e) + (IF b.kind = "message" /\ ~b.closed THEN b.text ELSE 0)
  PROVE  Handled(d, e, Out(n, out))
<1>1. Undone(n, at) = IF b.kind = "message" /\ ~b.closed THEN b.text ELSE 0
  BY DEF Undone
<1>2. \A x : x # at => Undone(n, x) = Undone(d, x)
  BY DEF Undone
<1>3. \A x \in DOMAIN n.blocks : DOMAIN n.blocks[x] = BlockFields /\ n.blocks[x].text \in Nat
  BY DEF DecoderOK
<1>4. DecoderOK(n)
  BY <1>3 DEF DecoderOK
<1>5. Out(n, out).d = n /\ Out(n, out).out = out
  BY DEF Out
<1> QED BY <1>1, <1>2, <1>4, <1>5 DEF Handled

(* output_item.added: an item begins without text *)
LEMMA ItemAddedHandled ==
  ASSUME NEW d, NEW e, DecoderOK(d), ~d.terminal, EventOK(e), d.format = "responses",
         e.type = "output_item.added", ~ItemAdded(d, e).bad
  PROVE  Handled(d, e, ItemAdded(d, e))
<1> DEFINE b == [NewBlock(e.kind) EXCEPT !.id = e.id, !.args = e.n]
           n == [d EXCEPT !.blocks = Put(@, e.at, b)]
           out == Optional(e.kind = "function_call", CallDelta(e.at, e.id, TRUE, e.n))
<1>1. e.at \in Nat /\ e.n \in Nat
  BY DEF EventOK
<1>2. ~Has(d, e.at) /\ ItemAdded(d, e) = Out(n, out)
  BY DEF ItemAdded, Bad
<1>3. DOMAIN b = BlockFields /\ b.text = 0 /\ b.kind = e.kind
  BY DEF NewBlock, BlockFields
<1>4. ClaimOf(d.format, e) = 0
  BY DEF ClaimOf, Claim
<1>5. FragmentsOK(out) /\ Contents(out) = 0
  <2>1. CASE e.kind = "function_call"
    <3>1. PICK f : f = CallDelta(e.at, e.id, TRUE, e.n)
      OBVIOUS
    <3>2. out = <<f>>
      BY <3>1, <2>1 DEF Optional
    <3>3. f.kind = "call" /\ f.at = e.at
      BY <3>1 DEF CallDelta
    <3>4. FragmentOK(f) /\ Amount(f) = 0
      BY <1>1, <3>3 DEF FragmentOK, Amount
    <3> HIDE DEF out
    <3> QED BY <3>2, <3>4, ContentsOne
  <2>2. CASE e.kind # "function_call"
    <3>1. out = <<>>
      BY <2>2 DEF Optional
    <3> HIDE DEF out
    <3> QED BY <3>1, ContentsNone
  <2> QED BY <2>1, <2>2
<1>6. DOMAIN n = DecoderFields /\ n.format = d.format /\ n.data = d.data /\ n.terminal = d.terminal
      /\ n.blocks = Put(d.blocks, e.at, b)
  <2> HIDE DEF b
  <2> QED BY DEF DecoderFields, DecoderOK
<1>7. Undone(d, e.at) = 0
  BY <1>2 DEF Undone, Has
<1> HIDE DEF b, n, out
<1>8. DOMAIN n.blocks = DOMAIN d.blocks \cup {e.at} /\ n.blocks[e.at] = b
      /\ \A x \in DOMAIN d.blocks : x # e.at => n.blocks[x] = d.blocks[x]
  BY <1>6 DEF Put
<1>9. Contents(out) + Undone(d, e.at)
           = ClaimOf(d.format, e) + (IF b.kind = "message" /\ ~b.closed THEN b.text ELSE 0)
  BY <1>3, <1>4, <1>5, <1>7
<1>10. Handled(d, e, Out(n, out))
  <2>1. b.text \in Nat
    BY <1>3
  <2> QED BY <1>1, <1>3, <1>5, <1>6, <1>8, <1>9, <2>1, ItemChanged
<1> QED BY <1>2, <1>10

(* an item that is there, open and of a kind *)
LEMMA OpenBlock ==
  ASSUME NEW d, NEW at, DecoderOK(d), IsOpen(d, at)
  PROVE  /\ at \in DOMAIN d.blocks /\ ~d.blocks[at].closed
         /\ DOMAIN d.blocks[at] = BlockFields /\ d.blocks[at].text \in Nat
         /\ Undone(d, at) = IF d.blocks[at].kind = "message" THEN d.blocks[at].text ELSE 0
  BY DEF IsOpen, Has, DecoderOK, Undone

(* a delta of text is emitted before its item claims it *)
LEMMA TextDeltaHandled ==
  ASSUME NEW d, NEW e, DecoderOK(d), ~d.terminal, EventOK(e), d.format = "responses",
         e.type = "text.delta", ~TextDelta(d, e).bad
  PROVE  Handled(d, e, TextDelta(d, e))
<1> DEFINE c == d.blocks[e.at]
           n == [d EXCEPT !.refused = @ \/ e.channel = "refusal",
                     !.blocks[e.at].reasoning = IF e.channel = "reasoning_text" THEN @ + e.n ELSE @,
                     !.blocks[e.at].text = IF e.channel = "reasoning_text" THEN @ ELSE @ + e.n]
           b == n.blocks[e.at]
           f == IF Thought(e) THEN Reasoning(e.n) ELSE Content(e.n)
<1>1. e.at \in Nat /\ e.n \in Nat
  BY DEF EventOK
<1>2. IsOpen(d, e.at) /\ d.blocks[e.at].kind = (IF Thought(e) THEN "reasoning" ELSE "message")
      /\ TextDelta(d, e) = Out(n, <<f>>)
  BY DEF TextDelta, Bad
<1>3. /\ e.at \in DOMAIN d.blocks /\ ~c.closed
      /\ DOMAIN c = BlockFields /\ c.text \in Nat
      /\ Undone(d, e.at) = IF c.kind = "message" THEN c.text ELSE 0
  BY <1>2, OpenBlock
<1>4. ClaimOf(d.format, e) = 0
  BY DEF ClaimOf, Claim
<1>5. FragmentsOK(<<f>>) /\ Contents(<<f>>) = IF Thought(e) THEN 0 ELSE e.n
  BY <1>1, FragmentFacts, ContentsOne
<1>6. /\ DOMAIN n = DecoderFields /\ n.format = d.format /\ n.data = d.data /\ n.terminal = d.terminal
      /\ DOMAIN n.blocks = DOMAIN d.blocks
      /\ \A x \in DOMAIN d.blocks : x # e.at => n.blocks[x] = d.blocks[x]
      /\ DOMAIN b = BlockFields /\ b.kind = c.kind /\ b.closed = c.closed
      /\ b.text = IF e.channel = "reasoning_text" THEN c.text ELSE c.text + e.n
  BY <1>3 DEF DecoderFields, DecoderOK, BlockFields
<1>7. Thought(e) <=> e.channel \in {"summary", "reasoning_text"}
  BY DEF Thought
<1> HIDE DEF f, n
<1>8. b.text \in Nat /\ DOMAIN n.blocks = DOMAIN d.blocks \cup {e.at}
  BY <1>1, <1>3, <1>6
<1>9. Contents(<<f>>) + Undone(d, e.at)
           = ClaimOf(d.format, e) + (IF b.kind = "message" /\ ~b.closed THEN b.text ELSE 0)
  BY <1>1, <1>2, <1>3, <1>4, <1>5, <1>6, <1>7
<1>10. Handled(d, e, Out(n, <<f>>))
  BY <1>1, <1>5, <1>6, <1>8, <1>9, ItemChanged
<1> QED BY <1>2, <1>10

(* a delta of arguments holds no text *)
LEMMA ArgumentsDeltaHandled ==
  ASSUME NEW d, NEW e, DecoderOK(d), ~d.terminal, EventOK(e), d.format = "responses",
         e.type = "arguments.delta", ~ArgumentsDelta(d, e).bad
  PROVE  Handled(d, e, ArgumentsDelta(d, e))
<1> DEFINE c == d.blocks[e.at]
           n == [d EXCEPT !.blocks[e.at].args = @ + e.n]
           b == n.blocks[e.at]
<1>1. e.at \in Nat
  BY DEF EventOK
<1>0. PICK f : f = CallDelta(e.at, <<>>, FALSE, e.n)
  OBVIOUS
<1>2. IsOpen(d, e.at) /\ d.blocks[e.at].kind = "function_call" /\ ArgumentsDelta(d, e) = Out(n, <<f>>)
  BY <1>0 DEF ArgumentsDelta, Bad
<1>3. /\ e.at \in DOMAIN d.blocks /\ ~c.closed
      /\ DOMAIN c = BlockFields /\ c.text \in Nat
      /\ Undone(d, e.at) = 0
  BY <1>2, OpenBlock
<1>4. ClaimOf(d.format, e) = 0
  BY DEF ClaimOf, Claim
<1>5. FragmentsOK(<<f>>) /\ Contents(<<f>>) = 0
  <2>1. f.kind = "call" /\ f.at = e.at
    BY <1>0 DEF CallDelta
  <2>2. FragmentOK(f) /\ Amount(f) = 0
    BY <1>1, <2>1 DEF FragmentOK, Amount
  <2> QED BY <2>2, ContentsOne
<1>6. /\ DOMAIN n = DecoderFields /\ n.format = d.format /\ n.data = d.data /\ n.terminal = d.terminal
      /\ DOMAIN n.blocks = DOMAIN d.blocks
      /\ \A x \in DOMAIN d.blocks : x # e.at => n.blocks[x] = d.blocks[x]
      /\ DOMAIN b = BlockFields /\ b.kind = c.kind /\ b.text = c.text
  BY <1>3 DEF DecoderFields, DecoderOK, BlockFields
<1> HIDE DEF n
<1>8. b.text \in Nat /\ DOMAIN n.blocks = DOMAIN d.blocks \cup {e.at}
  BY <1>3, <1>6
<1>9. Contents(<<f>>) + Undone(d, e.at)
           = ClaimOf(d.format, e) + (IF b.kind = "message" /\ ~b.closed THEN b.text ELSE 0)
  BY <1>2, <1>3, <1>4, <1>5, <1>6
<1>10. Handled(d, e, Out(n, <<f>>))
  BY <1>1, <1>5, <1>6, <1>8, <1>9, ItemChanged
<1> QED BY <1>2, <1>10

(* output_item.done: an item claims exactly the text its deltas emitted *)
LEMMA ItemDoneHandled ==
  ASSUME NEW d, NEW e, DecoderOK(d), ~d.terminal, EventOK(e), d.format = "responses",
         e.type = "output_item.done", ~ItemDone(d, e).bad
  PROVE  Handled(d, e, ItemDone(d, e))
<1> DEFINE c == d.blocks[e.at]
           n == [d EXCEPT !.blocks[e.at].closed = TRUE]
           b == n.blocks[e.at]
           out == Optional(e.kind = "reasoning",
                    Replay("responses", e.at, "replace", [kind |-> "reasoning", sound |-> e.id # <<>>]))
<1>1. e.at \in Nat /\ e.n \in Nat
  BY DEF EventOK
<1>2. IsOpen(d, e.at) /\ Agrees(c, e) /\ ItemDone(d, e) = Out(n, out)
  BY DEF ItemDone, Bad
<1>3. /\ e.at \in DOMAIN d.blocks /\ ~c.closed
      /\ DOMAIN c = BlockFields /\ c.text \in Nat
      /\ Undone(d, e.at) = IF c.kind = "message" THEN c.text ELSE 0
  BY <1>2, OpenBlock
<1>4. ClaimOf(d.format, e) = IF e.kind = "message" THEN e.n ELSE 0
  BY DEF ClaimOf, Claim
<1>5. FragmentsOK(out) /\ Contents(out) = 0
  <2>1. PICK b0 : b0 = (e.id # <<>>)
    OBVIOUS
  <2>2. PICK f : f = Replay("responses", e.at, "replace", [kind |-> "reasoning", sound |-> e.id # <<>>])
    OBVIOUS
  <2>3. f.kind = "replay"
    BY <2>2 DEF Replay
  <2>4. FragmentOK(f) /\ Amount(f) = 0
    BY <2>3 DEF FragmentOK, Amount
  <2>5. out = <<f>> \/ out = <<>>
    BY <2>2 DEF Optional
  <2> HIDE DEF out
  <2> QED BY <2>4, <2>5, ContentsOne, ContentsNone
<1>6. /\ DOMAIN n = DecoderFields /\ n.format = d.format /\ n.data = d.data /\ n.terminal = d.terminal
      /\ DOMAIN n.blocks = DOMAIN d.blocks
      /\ \A x \in DOMAIN d.blocks : x # e.at => n.blocks[x] = d.blocks[x]
      /\ DOMAIN b = BlockFields /\ b.kind = c.kind /\ b.text = c.text /\ b.closed
  BY <1>3 DEF DecoderFields, DecoderOK, BlockFields
<1>7. c.kind = e.kind /\ (c.kind = "message" => e.n = c.text)
  BY <1>2 DEF Agrees
<1> HIDE DEF n, out
<1>8. b.text \in Nat /\ DOMAIN n.blocks = DOMAIN d.blocks \cup {e.at}
  BY <1>3, <1>6
<1>9. Contents(out) + Undone(d, e.at)
           = ClaimOf(d.format, e) + (IF b.kind = "message" /\ ~b.closed THEN b.text ELSE 0)
  <2>1. Contents(out) + Undone(d, e.at) = Undone(d, e.at)
    BY <1>3, <1>5
  <2>2. Undone(d, e.at) = ClaimOf(d.format, e)
    BY <1>3, <1>4, <1>7
  <2>3. ClaimOf(d.format, e) + 0 = ClaimOf(d.format, e)
    BY <1>1, <1>4
  <2> QED BY <1>6, <2>1, <2>2, <2>3
<1>10. Handled(d, e, Out(n, out))
  BY <1>1, <1>5, <1>6, <1>8, <1>9, ItemChanged
<1> QED BY <1>2, <1>10

(* response.completed: the response ends when no item is open *)
LEMMA ResponseEnds ==
  ASSUME NEW d, NEW e, DecoderOK(d), ~d.terminal, d.format = "responses",
         e.type = "end", ~ResponseEnd(d, e).bad
  PROVE  Handled(d, e, ResponseEnd(d, e))
<1> DEFINE calls == \E at \in DOMAIN d.blocks : d.blocks[at].kind = "function_call"
           reason == IF e.status = "incomplete" THEN e.reason
                ELSE IF d.refused THEN "content_filter"
                ELSE IF calls THEN "tool_calls" ELSE "completed"
           n == [d EXCEPT !.terminal = TRUE]
           out == Optional(e.usage, Usage) \o <<Finished(reason)>>
<1>1. AllClosed(d) /\ ResponseEnd(d, e) = Out(n, out)
  BY DEF ResponseEnd, Bad
<1>2. \A at : Undone(d, at) = 0
  BY <1>1 DEF Undone, AllClosed
<1>3. ClaimOf(d.format, e) = 0
  BY DEF ClaimOf, Claim
<1>4. DOMAIN n = DecoderFields /\ n.format = d.format /\ n.data = d.data /\ n.blocks = d.blocks
  BY DEF DecoderFields, DecoderOK
<1>5. FragmentsOK(out) /\ Contents(out) = 0
  <2>1. FragmentsOK(Optional(e.usage, Usage)) /\ Contents(Optional(e.usage, Usage)) = 0
    BY FragmentFacts, ContentsOne, ContentsNone DEF Optional
  <2> HIDE DEF reason
  <2>2. FragmentsOK(<<Finished(reason)>>) /\ Contents(<<Finished(reason)>>) = 0
    BY FragmentFacts, ContentsOne
  <2> QED BY <2>1, <2>2, ContentsConcat
<1> HIDE DEF n, out
<1>6. Handled(d, e, Out(n, out))
  BY <1>2, <1>3, <1>4, <1>5, Quiet
<1> QED BY <1>1, <1>6

(* responses_event keeps the text claimed and the text emitted together *)
LEMMA ResponsesHandled ==
  ASSUME NEW d, NEW e, DecoderOK(d), ~d.terminal, EventOK(e), d.format = "responses",
         ~ResponsesEvent(d, e).bad
  PROVE  Handled(d, e, ResponsesEvent(d, e))
<1>0. PICK o : o = ResponsesEvent(d, e)
  OBVIOUS
<1> DEFINE n == [d EXCEPT !.started = TRUE]
<1>1. \A x : Bad(x).bad
  BY DEF Bad
<1>2. \/ e.type = "created" /\ o = Out(n, <<>>)
      \/ e.type \in {"in_progress", "part", "arguments.done"} /\ o = Out(d, <<>>)
      \/ e.type = "output_item.added" /\ o = ItemAdded(d, e)
      \/ e.type = "text.delta" /\ o = TextDelta(d, e)
      \/ e.type = "arguments.delta" /\ o = ArgumentsDelta(d, e)
      \/ e.type = "output_item.done" /\ o = ItemDone(d, e)
      \/ e.type = "end" /\ o = ResponseEnd(d, e)
  BY <1>0, <1>1 DEF ResponsesEvent, ArgumentsDone
<1>3. DOMAIN d = DecoderFields
  BY DEF DecoderOK
<1>4. DOMAIN n = DecoderFields /\ n.format = d.format /\ n.data = d.data /\ n.blocks = d.blocks /\ n.terminal = d.terminal
  BY <1>3 DEF DecoderFields
<1>5. ~o.bad
  BY <1>0
<1> HIDE DEF n
<1>6. CASE \/ e.type = "created" /\ o = Out(n, <<>>)
           \/ e.type \in {"in_progress", "part", "arguments.done"} /\ o = Out(d, <<>>)
  <2>1. ClaimOf(d.format, e) = 0
    BY <1>6 DEF ClaimOf, Claim
  <2>2. Handled(d, e, Out(n, <<>>)) /\ Handled(d, e, Out(d, <<>>))
    BY <1>3, <1>4, <2>1, ContentsNone, Quiet
  <2> QED BY <1>0, <1>6, <2>2
<1>7. CASE e.type = "output_item.added" /\ o = ItemAdded(d, e)
  BY <1>0, <1>5, <1>7, ItemAddedHandled
<1>8. CASE e.type = "text.delta" /\ o = TextDelta(d, e)
  BY <1>0, <1>5, <1>8, TextDeltaHandled
<1>9. CASE e.type = "arguments.delta" /\ o = ArgumentsDelta(d, e)
  BY <1>0, <1>5, <1>9, ArgumentsDeltaHandled
<1>10. CASE e.type = "output_item.done" /\ o = ItemDone(d, e)
  BY <1>0, <1>5, <1>10, ItemDoneHandled
<1>11. CASE e.type = "end" /\ o = ResponseEnd(d, e)
  BY <1>0, <1>5, <1>11, ResponseEnds
<1> QED BY <1>2, <1>6, <1>7, <1>8, <1>9, <1>10, <1>11

(***************************************************************************)
(* The text claimed is the text shown, or still to come                    *)
(***************************************************************************)
(* the text of the message items among the first n that are not complete *)
Open(d, n) == Total([i \in 1 .. n |-> Undone(d, i - 1)])

Pending(d) == IF d.data = <<>> THEN 0 ELSE ClaimOf(d.format, d.data[1])

(* the text claimed, and what is still to be claimed, is the text that came out *)
Balanced(d, claimed, emitted) ==
  Len(d.data) <= 1 =>
    \E low \in Nat : \A n \in Nat : n >= low => claimed + Open(d, n) = emitted + Pending(d)

(* what an event claims is a number *)
LEMMA ClaimType ==
  ASSUME NEW format, NEW e, EventOK(e)
  PROVE  ClaimOf(format, e) \in Nat
  BY DEF ClaimOf, Claim, EventOK

(* the text of an item that is not complete is a number *)
LEMMA UndoneType ==
  ASSUME NEW d, DecoderOK(d), NEW at
  PROVE  Undone(d, at) \in Nat
  BY DEF Undone, DecoderOK

(* the texts of the open items are numbers *)
LEMMA OpenSeq ==
  ASSUME NEW d, DecoderOK(d), NEW n \in Nat
  PROVE  /\ [i \in 1 .. n |-> Undone(d, i - 1)] \in Seq(Nat)
         /\ Len([i \in 1 .. n |-> Undone(d, i - 1)]) = n
         /\ Open(d, n) \in Nat
<1> DEFINE s == [i \in 1 .. n |-> Undone(d, i - 1)]
<1>1. s \in [1 .. n -> Nat]
  BY UndoneType
<1>2. s \in Seq(Nat) /\ Len(s) = n
  BY <1>1
<1>3. Total(s) \in Nat
  <2> HIDE DEF s
  <2> QED BY <1>2, TotalType
<1> QED BY <1>2, <1>3 DEF Open

(* blocks with the same open text each have the same together *)
LEMMA OpenSame ==
  ASSUME NEW d, NEW x, \A at : Undone(x, at) = Undone(d, at), NEW n
  PROVE  Open(x, n) = Open(d, n)
<1>1. \A i \in 1 .. n : Undone(x, i - 1) = Undone(d, i - 1)
  OBVIOUS
<1>2. [i \in 1 .. n |-> Undone(x, i - 1)] = [i \in 1 .. n |-> Undone(d, i - 1)]
  BY <1>1, Zenon
<1> QED BY <1>2 DEF Open

(* a response that has ended has no open text *)
LEMMA OpenNone ==
  ASSUME NEW d, \A at : Undone(d, at) = 0, NEW n \in Nat
  PROVE  Open(d, n) = 0
<1> DEFINE s == [i \in 1 .. n |-> Undone(d, i - 1)]
<1>1. Len(s) = n /\ \A i \in 1 .. n : s[i] = 0
  OBVIOUS
<1>2. Total(s) = 0
  <2> HIDE DEF s
  <2> QED BY <1>1, TotalZero
<1> QED BY <1>2 DEF Open

(* the open text changes by what one item changes *)
LEMMA OpenMoves ==
  ASSUME NEW d, NEW x, DecoderOK(d), DecoderOK(x), NEW at \in Nat,
         \A y : y # at => Undone(x, y) = Undone(d, y),
         NEW n \in Nat, n >= at + 1
  PROVE  Open(x, n) + Undone(d, at) = Open(d, n) + Undone(x, at)
<1> DEFINE a == [i \in 1 .. n |-> Undone(d, i - 1)]
           b == [i \in 1 .. n |-> Undone(x, i - 1)]
           p == at + 1
<1>1. a \in Seq(Nat) /\ b \in Seq(Nat) /\ Len(a) = n /\ Len(b) = n
  BY OpenSeq
<1>2. p \in 1 .. n /\ (at + 1) - 1 = at
  OBVIOUS
<1>3. a[p] = Undone(d, at) /\ b[p] = Undone(x, at)
  <2>1. a[p] = Undone(d, p - 1) /\ b[p] = Undone(x, p - 1) /\ p - 1 = at
    BY <1>2
  <2> QED BY <2>1
<1>4. ASSUME NEW i \in 1 .. n, i # p PROVE a[i] = b[i]
  <2>1. i - 1 # at
    BY <1>4
  <2>2. Undone(x, i - 1) = Undone(d, i - 1)
    BY <2>1
  <2> QED BY <2>2
<1>5. a \in Seq(Int) /\ b \in Seq(Int)
  <2> HIDE DEF a, b
  <2> QED BY <1>1
<1>6. Total(b) + a[p] = Total(a) + b[p]
  <2> HIDE DEF a, b, p
  <2> QED BY <1>1, <1>2, <1>4, <1>5, TotalUpdate
<1>7. Total(a) = Open(d, n) /\ Total(b) = Open(x, n)
  BY DEF Open
<1> HIDE DEF a, b, p
<1> QED BY <1>3, <1>6, <1>7

(* an event moves the balance from what is pending to what is out *)
LEMMA EventBalances ==
  ASSUME NEW d, DecoderOK(d), NEW e, EventOK(e), NEW o, d.data = <<>>, Handled(d, e, o),
         NEW c \in Nat, NEW m \in Nat, NEW low \in Nat,
         \A n \in Nat : n >= low => c + Open(d, n) = m + ClaimOf(d.format, e)
  PROVE  Balanced(o.d, c, m + Contents(o.out))
<1>1. /\ DecoderOK(o.d) /\ o.d.data = <<>> /\ FragmentsOK(o.out)
  BY DEF Handled
<1>2. PICK at \in Nat : /\ \A x : x # at => Undone(o.d, x) = Undone(d, x)
                        /\ Contents(o.out) + Undone(d, at) = ClaimOf(d.format, e) + Undone(o.d, at)
  BY DEF Handled
<1>3. Pending(o.d) = 0
  BY <1>1 DEF Pending
<1>4. low + at + 1 \in Nat
  OBVIOUS
<1>5. ASSUME NEW n \in Nat, n >= low + at + 1
      PROVE  c + Open(o.d, n) = m + Contents(o.out) + Pending(o.d)
  <2>1. n >= low /\ n >= at + 1
    BY <1>5
  <2>2. Open(o.d, n) + Undone(d, at) = Open(d, n) + Undone(o.d, at)
    BY <1>1, <1>2, <2>1, OpenMoves
  <2>3. c + Open(d, n) = m + ClaimOf(d.format, e)
    BY <2>1
  <2>4. Open(o.d, n) \in Nat /\ Open(d, n) \in Nat /\ Undone(d, at) \in Nat /\ Undone(o.d, at) \in Nat
    BY <1>1, OpenSeq, UndoneType
  <2>5. ClaimOf(d.format, e) \in Nat /\ Contents(o.out) \in Nat
    BY <1>1, ClaimType, ContentsType
  <2>6. PICK a1 \in Nat, a2 \in Nat, u1 \in Nat, u2 \in Nat, k \in Nat, f \in Nat :
          /\ a1 = Open(d, n) /\ a2 = Open(o.d, n) /\ u1 = Undone(d, at) /\ u2 = Undone(o.d, at)
          /\ k = ClaimOf(d.format, e) /\ f = Contents(o.out)
    BY <2>4, <2>5
  <2>7. a2 + u1 = a1 + u2 /\ c + a1 = m + k /\ f + u1 = k + u2
    BY <1>2, <2>2, <2>3, <2>6
  <2>8. c + a2 = m + f + 0
    BY <2>7
  <2> QED BY <1>3, <2>6, <2>8
<1> QED BY <1>4, <1>5 DEF Balanced

(* a decoder whose gathered lines are dispatched is as before, without them *)
LEMMA Cleared ==
  ASSUME NEW d, DecoderOK(d)
  PROVE  LET clear == [d EXCEPT !.data = <<>>, !.name = None]
         IN /\ DecoderOK(clear) /\ clear.data = <<>> /\ clear.format = d.format /\ clear.terminal = d.terminal
            /\ \A at : Undone(clear, at) = Undone(d, at)
<1> DEFINE clear == [d EXCEPT !.data = <<>>, !.name = None]
<1>1. DOMAIN clear = DecoderFields /\ clear.data = <<>> /\ clear.format = d.format /\ clear.terminal = d.terminal
      /\ clear.blocks = d.blocks
  BY DEF DecoderOK, DecoderFields
<1> HIDE DEF clear
<1>2. \A at : Undone(clear, at) = Undone(d, at)
  BY <1>1 DEF Undone
<1>3. IsSeq(clear.data) /\ DOMAIN clear.data = {}
  BY <1>1, SeqNone
<1>4. DecoderOK(clear)
  BY <1>1, <1>2, <1>3 DEF DecoderOK
<1> QED BY <1>1, <1>2, <1>4 DEF clear

(* dispatching what was gathered keeps the balance *)
LEMMA DispatchBalances ==
  ASSUME NEW d, DecoderOK(d), d.format \in Formats, NEW o, o = Dispatch(d), ~o.bad,
         NEW c \in Nat, NEW m \in Nat, Balanced(d, c, m)
  PROVE  /\ DecoderOK(o.d) /\ o.d.format = d.format /\ o.d.data = <<>> /\ FragmentsOK(o.out)
         /\ Balanced(o.d, c, m + Contents(o.out))
<1> DEFINE clear == [d EXCEPT !.data = <<>>, !.name = None]
           e == Head(d.data)
<1>1. /\ DecoderOK(clear) /\ clear.data = <<>> /\ clear.format = d.format /\ clear.terminal = d.terminal
      /\ \A at : Undone(clear, at) = Undone(d, at)
  BY Cleared
<1>2. \A n \in Nat : Open(clear, n) = Open(d, n) /\ Open(d, n) \in Nat
  <2> HIDE DEF clear
  <2> QED BY <1>1, OpenSame, OpenSeq
<1>3. CASE d.data = <<>>
  <2>1. o = Out(clear, <<>>)
    BY <1>3 DEF Dispatch
  <2> HIDE DEF clear
  <2>2. o.d = clear /\ o.out = <<>>
    BY <2>1 DEF Out
  <2>3. Pending(d) = 0 /\ Pending(clear) = 0
    BY <1>1, <1>3 DEF Pending
  <2>4. Len(d.data) <= 1
    BY <1>3
  <2>5. PICK low \in Nat : \A n \in Nat : n >= low => c + Open(d, n) = m + 0
    BY <2>3, <2>4 DEF Balanced
  <2>6. \A n \in Nat : n >= low => c + Open(clear, n) = m + 0 + Pending(clear)
    BY <1>2, <2>3, <2>5
  <2>7. Balanced(clear, c, m + 0)
    BY <2>6 DEF Balanced
  <2> QED BY <1>1, <2>2, <2>7, ContentsNone
<1>4. CASE d.data # <<>>
  <2>1. \A x : Bad(x).bad
    BY DEF Bad
  <2>2. /\ ~d.terminal /\ ~(Len(d.data) > 1)
        /\ \/ d.format = "chat_completions" /\ o = ChatEvent(clear, e)
           \/ d.format = "messages" /\ o = MessagesEvent(clear, e)
           \/ d.format = "responses" /\ o = ResponsesEvent(clear, e)
    <3>1. o = IF d.terminal \/ Len(d.data) > 1 THEN Bad(clear)
              ELSE IF d.format = "chat_completions" THEN ChatEvent(clear, e)
              ELSE IF d.name \notin {None, e.type} THEN Bad(clear)
              ELSE IF d.format = "messages" THEN MessagesEvent(clear, e)
              ELSE ResponsesEvent(clear, e)
      BY <1>4 DEF Dispatch
    <3> HIDE DEF clear, e
    <3> QED BY <2>1, <3>1 DEF Formats
  <2> HIDE DEF clear
  <2>3. IsSeq(d.data) /\ Len(d.data) \in Nat /\ e = d.data[1] /\ 1 \in DOMAIN d.data
    BY <1>4, SeqTail, SeqIs DEF DecoderOK
  <2>4. EventOK(e)
    BY <2>3 DEF DecoderOK
  <2> HIDE DEF e
  <2>5. Handled(clear, e, o)
    BY <1>1, <2>2, <2>4, ChatHandled, MessagesHandled, ResponsesHandled
  <2>6. Pending(d) = ClaimOf(clear.format, e) /\ Len(d.data) <= 1
    BY <1>1, <1>4, <2>2, <2>3 DEF Pending
  <2>7. PICK low \in Nat : \A n \in Nat : n >= low => c + Open(d, n) = m + Pending(d)
    BY <2>6 DEF Balanced
  <2>8. \A n \in Nat : n >= low => c + Open(clear, n) = m + ClaimOf(clear.format, e)
    BY <1>2, <2>6, <2>7
  <2>9. Balanced(o.d, c, m + Contents(o.out))
    BY <1>1, <2>4, <2>5, <2>8, EventBalances
  <2> QED BY <1>1, <2>5, <2>9 DEF Handled
<1> QED BY <1>3, <1>4

LineOK(l) == l.line \in {"blank", "data", "event", "comment"} /\ (l.line = "data" => EventOK(l.event))

(* a decoder of a format, its fragments so far, and the balance of both *)
Decoding(format, x, claimed, emitted) ==
  /\ DecoderOK(x.d) /\ x.d.format = format /\ FragmentsOK(x.out)
  /\ Balanced(x.d, claimed, emitted + Contents(x.out))

(* a line claims what the event it carries claims *)
LEMMA LineClaims ==
  ASSUME NEW format, NEW l, LineOK(l)
  PROVE  /\ Claim(format, l) = IF l.line = "data" THEN ClaimOf(format, l.event) ELSE 0
         /\ Claim(format, l) \in Nat
<1>1. Claim(format, l) = IF l.line = "data" THEN ClaimOf(format, l.event) ELSE 0
  BY DEF ClaimOf, Claim
<1> QED BY <1>1, ClaimType DEF LineOK

(* a line keeps the balance *)
LEMMA LineBalances ==
  ASSUME NEW d, DecoderOK(d), d.format \in Formats, NEW l, LineOK(l), NEW o, o = Line(d, l), ~o.bad,
         NEW c \in Nat, NEW m \in Nat, Balanced(d, c, m)
  PROVE  Decoding(d.format, o, c + Claim(d.format, l), m)
<1>1. Claim(d.format, l) \in Nat /\ Claim(d.format, l) = IF l.line = "data" THEN ClaimOf(d.format, l.event) ELSE 0
  BY LineClaims
<1>2. CASE l.line = "blank"
  <2>1. o = Dispatch(d) /\ c + Claim(d.format, l) = c
    BY <1>1, <1>2 DEF Line
  <2> QED BY <2>1, DispatchBalances DEF Decoding
<1>3. ASSUME NEW n, DOMAIN n = DecoderFields, n.format = d.format, n.data = d.data, n.blocks = d.blocks,
             n.terminal = d.terminal, o = Out(n, <<>>), l.line # "data"
      PROVE  Decoding(d.format, o, c + Claim(d.format, l), m)
  <2>1. o.d = n /\ o.out = <<>>
    BY <1>3 DEF Out
  <2>2. c + Claim(d.format, l) = c /\ m + Contents(<<>>) = m
    BY <1>1, <1>3, ContentsNone
  <2>3. \A at : Undone(n, at) = Undone(d, at)
    BY <1>3 DEF Undone
  <2>4. DecoderOK(n)
    BY <1>3, <2>3 DEF DecoderOK
  <2>5. Pending(n) = Pending(d) /\ \A k \in Nat : Open(n, k) = Open(d, k)
    BY <1>3, <2>3, OpenSame DEF Pending
  <2>6. Balanced(n, c, m)
    BY <1>3, <2>5 DEF Balanced
  <2> QED BY <1>3, <2>1, <2>2, <2>4, <2>6, ContentsNone DEF Decoding
<1>4. CASE l.line = "comment"
  <2>1. o = Out(d, <<>>)
    BY <1>4 DEF Line
  <2> QED BY <1>3, <1>4, <2>1 DEF DecoderOK
<1>5. CASE l.line = "event"
  <2> DEFINE n == [d EXCEPT !.name = l.name]
  <2>1. o = Out(n, <<>>)
    BY <1>5 DEF Line
  <2>2. DOMAIN n = DecoderFields /\ n.format = d.format /\ n.data = d.data /\ n.blocks = d.blocks /\ n.terminal = d.terminal
    BY DEF DecoderOK, DecoderFields
  <2> HIDE DEF n
  <2> QED BY <1>3, <1>5, <2>1, <2>2
<1>6. CASE l.line = "data"
  <2> DEFINE n == [d EXCEPT !.data = Append(@, l.event)]
  <2>1. o = Out(n, <<>>)
    BY <1>6 DEF Line
  <2>2. /\ DOMAIN n = DecoderFields /\ n.format = d.format /\ n.data = Append(d.data, l.event)
        /\ n.blocks = d.blocks /\ n.terminal = d.terminal
    BY DEF DecoderOK, DecoderFields
  <2> HIDE DEF n
  <2>3. \A at : Undone(n, at) = Undone(d, at)
    BY <2>2 DEF Undone
  <2>4. /\ IsSeq(d.data) /\ Len(d.data) \in Nat /\ DOMAIN d.data = 1 .. Len(d.data)
        /\ IsSeq(n.data) /\ Len(n.data) = Len(d.data) + 1
        /\ \A i \in DOMAIN n.data : \/ i \in DOMAIN d.data /\ n.data[i] = d.data[i]
                                   \/ i = Len(d.data) + 1
        /\ n.data[Len(d.data) + 1] = l.event
    <3>1. IsSeq(d.data) /\ Len(d.data) \in Nat /\ DOMAIN d.data = 1 .. Len(d.data)
      BY SeqIs DEF DecoderOK
    <3>2. PICK s, v : s = d.data /\ v = l.event
      OBVIOUS
    <3>3. /\ IsSeq(Append(s, v)) /\ Len(Append(s, v)) = Len(s) + 1
          /\ \A i \in 1 .. Len(s) : i \in DOMAIN Append(s, v) /\ Append(s, v)[i] = s[i]
          /\ Append(s, v)[Len(s) + 1] = v
          /\ \A i \in DOMAIN Append(s, v) : i \in 1 .. Len(s) \/ i = Len(s) + 1
      <4>1. IsSeq(s)
        BY <3>1, <3>2
      <4> QED BY <4>1, SeqAppend
    <3>4. n.data = Append(s, v)
      BY <2>2, <3>2
    <3> QED BY <3>1, <3>2, <3>3, <3>4
  <2>5. \A i \in DOMAIN n.data : EventOK(n.data[i])
    BY <1>6, <2>4 DEF DecoderOK, LineOK
  <2>6. DecoderOK(n)
    BY <2>2, <2>3, <2>4, <2>5 DEF DecoderOK
  <2>7. \A k \in Nat : Open(n, k) = Open(d, k)
    BY <2>3, OpenSame
  <2>8. ASSUME Len(n.data) <= 1
        PROVE  \E low \in Nat : \A k \in Nat : k >= low => c + Claim(d.format, l) + Open(n, k) = m + Pending(n)
    <3>1. Len(d.data) = 0 /\ Len(d.data) <= 1
      BY <2>4, <2>8
    <3>2. d.data = <<>>
      BY <2>4, <3>1, SeqNone
    <3>3. Pending(d) = 0
      BY <3>2 DEF Pending
    <3>4. n.data[1] = l.event /\ n.data # <<>>
      BY <2>4, <3>1
    <3>5. Pending(n) = Claim(d.format, l)
      BY <1>1, <1>6, <2>2, <3>4 DEF Pending
    <3>6. PICK low \in Nat : \A k \in Nat : k >= low => c + Open(d, k) = m + 0
      BY <3>1, <3>3 DEF Balanced
    <3>7. ASSUME NEW k \in Nat, k >= low PROVE c + Claim(d.format, l) + Open(n, k) = m + Pending(n)
      <4>1. PICK p \in Nat, q \in Nat : p = Open(d, k) /\ q = Claim(d.format, l)
        BY <1>1, OpenSeq
      <4>2. c + p = m + 0
        BY <3>6, <3>7, <4>1
      <4>3. c + q + p = m + q
        BY <4>2
      <4> QED BY <2>7, <3>5, <4>1, <4>3
    <3> QED BY <3>7
  <2>9. Balanced(n, c + Claim(d.format, l), m)
    BY <2>8 DEF Balanced
  <2>10. o.d = n /\ o.out = <<>> /\ m + Contents(<<>>) = m
    BY <2>1, ContentsNone DEF Out
  <2> QED BY <2>2, <2>6, <2>9, <2>10, ContentsNone DEF Decoding
<1> QED BY <1>2, <1>4, <1>5, <1>6 DEF LineOK

(* a line after lines keeps the balance, or the stream is refused *)
LEMMA StepBalances ==
  ASSUME NEW format \in Formats, NEW s, ~s.bad, NEW l, LineOK(l), NEW c \in Nat, NEW m \in Nat,
         Decoding(format, s, c, m), NEW o, o = PushLine(s, l), ~o.bad
  PROVE  Decoding(format, o, c + Claim(format, l), m)
<1>1. PICK x : x = Line(s.d, l)
  OBVIOUS
<1>2. ~x.bad /\ o = Out(x.d, s.out \o x.out)
  BY <1>1 DEF PushLine, Bad
<1>3. PICK k \in Nat : k = Contents(s.out)
  BY ContentsType DEF Decoding
<1>4. DecoderOK(s.d) /\ s.d.format = format /\ FragmentsOK(s.out) /\ Balanced(s.d, c, m + k)
  BY <1>3 DEF Decoding
<1>5. Decoding(format, x, c + Claim(format, l), m + k)
  BY <1>1, <1>2, <1>4, LineBalances
<1>6. FragmentsOK(x.out) /\ FragmentsOK(s.out \o x.out) /\ Contents(s.out \o x.out) = k + Contents(x.out)
      /\ Contents(x.out) \in Nat
  BY <1>3, <1>4, <1>5, ContentsConcat, ContentsType DEF Decoding
<1>7. (m + k) + Contents(x.out) = m + (k + Contents(x.out))
  BY <1>6
<1>8. o.d = x.d /\ o.out = s.out \o x.out
  <2>1. PICK w : w = s.out \o x.out
    OBVIOUS
  <2>2. o = Out(x.d, w)
    BY <1>2, <2>1
  <2>3. o.d = x.d /\ o.out = w
    BY <2>2 DEF Out
  <2> QED BY <2>1, <2>3
<1>9. Balanced(x.d, c + Claim(format, l), m + Contents(o.out))
  <2>1. PICK z : z = m + k + Contents(x.out)
    OBVIOUS
  <2>2. Balanced(x.d, c + Claim(format, l), z)
    BY <1>5, <2>1 DEF Decoding
  <2>3. z = m + Contents(o.out)
    BY <1>6, <1>7, <1>8, <2>1
  <2> QED BY <2>2, <2>3
<1> QED BY <1>5, <1>6, <1>8, <1>9 DEF Decoding

(* pushing lines, by the line it has come to *)
LEMMA PushUnfolds ==
  ASSUME NEW d, NEW ls, Len(ls) \in Nat
  PROVE  \E s : /\ s[0] = Out(d, <<>>)
                /\ \A i \in 1 .. Len(ls) : s[i] = PushLine(s[i - 1], ls[i])
                /\ Push(d, ls) = s[Len(ls)]
<1> DEFINE Run(g, k) == g = [i \in 0 .. k |-> IF i = 0 THEN Out(d, <<>>) ELSE PushLine(g[i - 1], ls[i])]
           S == {k \in Nat : \E g : Run(g, k)}
<1>1. 0 \in S
  <2>1. Run([i \in 0 .. 0 |-> Out(d, <<>>)], 0)
    OBVIOUS
  <2> QED BY <2>1
<1>2. ASSUME NEW k \in Nat, k \in S PROVE k + 1 \in S
  <2>1. PICK g : Run(g, k)
    BY <1>2
  <2>2. \A i \in 0 .. k : g[i] = IF i = 0 THEN Out(d, <<>>) ELSE PushLine(g[i - 1], ls[i])
    BY <2>1
  <2> DEFINE h == [i \in 0 .. k + 1 |-> IF i = 0 THEN Out(d, <<>>) ELSE PushLine(g[i - 1], ls[i])]
  <2>3. \A i \in 0 .. k : h[i] = g[i]
    BY <2>2
  <2>4. h = [i \in 0 .. k + 1 |-> IF i = 0 THEN Out(d, <<>>) ELSE PushLine(g[i - 1], ls[i])]
    OBVIOUS
  <2> HIDE DEF h
  <2>5. h = [i \in 0 .. k + 1 |-> IF i = 0 THEN Out(d, <<>>) ELSE PushLine(h[i - 1], ls[i])]
    <3>1. ASSUME NEW i \in 1 .. k + 1 PROVE h[i - 1] = g[i - 1]
      BY <2>3
    <3>2. ASSUME NEW i \in 0 .. k + 1
          PROVE  (IF i = 0 THEN Out(d, <<>>) ELSE PushLine(g[i - 1], ls[i]))
                 = (IF i = 0 THEN Out(d, <<>>) ELSE PushLine(h[i - 1], ls[i]))
      BY <3>1
    <3> QED BY <2>4, <3>2, Zenon
  <2> QED BY <2>5
<1> HIDE DEF S
<1>3. Len(ls) \in S
  BY <1>1, <1>2, NatSetInduction
<1> USE DEF S
<1>4. PICK g : Run(g, Len(ls))
  BY <1>3
<1> DEFINE f == CHOOSE g1 : Run(g1, Len(ls))
<1>5. Run(f, Len(ls))
  BY <1>4
<1>6. Push(d, ls) = f[Len(ls)]
  BY DEF Push, Fold
<1> HIDE DEF f
<1>7. /\ f[0] = Out(d, <<>>) /\ \A i \in 1 .. Len(ls) : f[i] = PushLine(f[i - 1], ls[i])
  BY <1>5
<1> QED
  BY <1>6, <1>7

(* a chunk that is understood keeps the balance *)
LEMMA PushBalances ==
  ASSUME NEW d, DecoderOK(d), d.format \in Formats, NEW ls, LinesOK(ls), NEW o, o = Push(d, ls), ~o.bad,
         NEW c \in Nat, NEW m \in Nat, Balanced(d, c, m)
  PROVE  Decoding(d.format, o, c + Said(d.format, ls), m) /\ Said(d.format, ls) \in Nat
<1> DEFINE cs == [i \in DOMAIN ls |-> Claim(d.format, ls[i])]
<1>1. IsSeq(ls)
  BY DEF LinesOK, IsSeq
<1>2. Len(ls) \in Nat /\ DOMAIN ls = 1 .. Len(ls)
  BY <1>1, SeqIs
<1>3. \A i \in 1 .. Len(ls) : LineOK(ls[i])
  BY <1>2 DEF LinesOK, LineOK
<1>4. \A i \in 1 .. Len(ls) : Claim(d.format, ls[i]) \in Nat
  BY <1>3, LineClaims
<1>5. cs \in Seq(Nat) /\ Len(cs) = Len(ls) /\ \A i \in 1 .. Len(ls) : cs[i] = Claim(d.format, ls[i])
  BY <1>2, <1>4
<1>6. Said(d.format, ls) = Total(cs)
  BY DEF Said
<1> HIDE DEF cs
<1>7. PICK s : /\ s[0] = Out(d, <<>>)
               /\ \A i \in 1 .. Len(ls) : s[i] = PushLine(s[i - 1], ls[i])
               /\ o = s[Len(ls)]
  BY <1>2, PushUnfolds
<1>8. PICK t : /\ t[0] = 0
               /\ \A i \in 1 .. Len(ls) : t[i] = t[i - 1] + cs[i]
               /\ Total(cs) = t[Len(ls)]
  BY <1>2, <1>5, TotalUnfolds
<1> DEFINE S == {k \in Nat : k <= Len(ls) =>
                    t[k] \in Nat /\ (~s[k].bad => Decoding(d.format, s[k], c + t[k], m))}
<1>9. 0 \in S
  <2>1. Out(d, <<>>).d = d /\ Out(d, <<>>).out = <<>>
    BY DEF Out
  <2>2. m + Contents(<<>>) = m /\ c + 0 = c
    BY ContentsNone
  <2>3. Decoding(d.format, Out(d, <<>>), c + 0, m)
    BY <2>1, <2>2, ContentsNone DEF Decoding
  <2> QED BY <1>7, <1>8, <2>3
<1>10. ASSUME NEW k \in Nat, k \in S PROVE k + 1 \in S
  <2>1. PICK i : i = k + 1
    OBVIOUS
  <2>2. ASSUME i <= Len(ls) PROVE t[i] \in Nat /\ (~s[i].bad => Decoding(d.format, s[i], c + t[i], m))
    <3>1. i \in 1 .. Len(ls) /\ i - 1 = k /\ k <= Len(ls)
      BY <1>2, <2>1, <2>2
    <3>2. t[k] \in Nat /\ (~s[k].bad => Decoding(d.format, s[k], c + t[k], m))
      BY <1>10, <3>1
    <3>3. t[i] = t[k] + cs[i] /\ s[i] = PushLine(s[k], ls[i])
      BY <1>7, <1>8, <3>1
    <3>4. cs[i] = Claim(d.format, ls[i]) /\ Claim(d.format, ls[i]) \in Nat /\ LineOK(ls[i])
      BY <1>3, <1>4, <1>5, <3>1
    <3>5. PICK p \in Nat, q \in Nat : p = t[k] /\ q = Claim(d.format, ls[i])
      BY <3>2, <3>4
    <3>6. t[i] = p + q /\ t[i] \in Nat /\ c + t[i] = (c + p) + q /\ c + p \in Nat
      BY <3>3, <3>4, <3>5
    <3>7. ASSUME ~s[i].bad PROVE Decoding(d.format, s[i], c + t[i], m)
      <4>1. ~s[k].bad
        BY <3>3, <3>7 DEF PushLine
      <4>2. Decoding(d.format, s[k], c + p, m)
        BY <3>2, <3>5, <4>1
      <4>3. Decoding(d.format, s[i], (c + p) + Claim(d.format, ls[i]), m)
        BY <3>3, <3>4, <3>6, <3>7, <4>1, <4>2, StepBalances
      <4> QED BY <3>5, <3>6, <4>3
    <3> QED BY <3>6, <3>7
  <2> QED BY <2>1, <2>2
<1>11. \A k \in Nat : k \in S
  <2> HIDE DEF S
  <2> QED BY <1>9, <1>10, NatSetInduction
<1>12. t[Len(ls)] \in Nat /\ (~s[Len(ls)].bad => Decoding(d.format, s[Len(ls)], c + t[Len(ls)], m))
  BY <1>2, <1>11
<1> HIDE DEF S
<1> QED BY <1>6, <1>7, <1>8, <1>12

(* a stream that ends has shown what it claims *)
LEMMA FinishBalances ==
  ASSUME NEW d, DecoderOK(d), d.format \in Formats, NEW o, o = Finish(d), ~o.bad,
         NEW c \in Nat, NEW m \in Nat, Balanced(d, c, m)
  PROVE  FragmentsOK(o.out) /\ c = m + Contents(o.out)
<1>1. o = Dispatch(d) /\ o.d.terminal
  BY DEF Finish, Bad
<1>2. /\ DecoderOK(o.d) /\ o.d.data = <<>> /\ FragmentsOK(o.out)
      /\ Balanced(o.d, c, m + Contents(o.out))
  BY <1>1, DispatchBalances
<1>3. \A at : Undone(o.d, at) = 0
  BY <1>1, <1>2 DEF DecoderOK
<1>4. Pending(o.d) = 0 /\ Len(o.d.data) <= 1
  BY <1>2 DEF Pending
<1>5. PICK low \in Nat : \A n \in Nat : n >= low => c + Open(o.d, n) = m + Contents(o.out) + Pending(o.d)
  BY <1>2, <1>4 DEF Balanced
<1>6. c + Open(o.d, low) = m + Contents(o.out) + Pending(o.d)
  BY <1>5
<1>7. Open(o.d, low) = 0
  BY <1>3, OpenNone
<1>8. Contents(o.out) \in Nat
  BY <1>2, ContentsType
<1> QED BY <1>2, <1>4, <1>6, <1>7, <1>8

(* a new decoder owes nothing *)
LEMMA NewBalances ==
  ASSUME NEW format
  PROVE  /\ DecoderOK(NewDecoder(format)) /\ NewDecoder(format).format = format
         /\ Balanced(NewDecoder(format), 0, 0)
<1> DEFINE d == NewDecoder(format)
<1>1. DOMAIN d = DecoderFields /\ d.format = format /\ d.data = <<>> /\ d.blocks = <<>>
  BY DEF NewDecoder, DecoderFields
<1> HIDE DEF d
<1>2. IsSeq(d.data) /\ DOMAIN d.data = {} /\ DOMAIN d.blocks = {}
  BY <1>1, SeqNone
<1>3. \A at : Undone(d, at) = 0
  BY <1>2 DEF Undone
<1>4. DecoderOK(d)
  BY <1>1, <1>2, <1>3 DEF DecoderOK
<1>5. \A n \in Nat : Open(d, n) = 0
  BY <1>3, OpenNone
<1>6. Pending(d) = 0
  BY <1>1 DEF Pending
<1>7. Balanced(d, 0, 0)
  <2>1. \A n \in Nat : n >= 0 => 0 + Open(d, n) = 0 + Pending(d)
    BY <1>5, <1>6
  <2> QED BY <2>1 DEF Balanced
<1> QED BY <1>1, <1>4, <1>7 DEF d

(***************************************************************************)
(* The text of a stream, from the decoder to the answer                    *)
(***************************************************************************)
AccFields == {"content", "reasoning", "calls", "replay", "format", "reason", "usage"}

AccOK(acc) ==
  /\ DOMAIN acc = AccFields
  /\ acc.content \in Nat /\ acc.reasoning \in Nat
  /\ DOMAIN acc.calls \subseteq Nat /\ IsFiniteSet(DOMAIN acc.calls)

(* the text that is accumulated or has left the worker *)
Taken(acc, s, ch) == acc.content + (IF s.pc = "accept" THEN Amount(s.frag) ELSE 0) + Contents(ch)

(* what the provider claims is taken, or still with the worker *)
Sending(w, claimed, taken) ==
  /\ w.pc \in {"connect", "read"} =>
       /\ FragmentsOK(w.out)
       /\ w.last => claimed = taken + Contents(w.out)
       /\ ~w.last => /\ DecoderOK(w.d) /\ w.d.format \in Formats
                     /\ Balanced(w.d, claimed, taken + Contents(w.out))
  /\ w.pc \in {"closing", "done"} /\ w.result = "ok" => claimed = taken

(* an answer that says what the stream said *)
AnswerWhole(a, se) ==
  a.content + a.reasoning = se.shown /\ (a.kind = "ok" => a.content = se.claimed)

(* the calls of an answer have their ids *)
AnswerOK(a) ==
  /\ a.content \in Nat /\ a.reasoning \in Nat
  /\ IsSeq(a.calls)
  /\ \A i \in DOMAIN a.calls : a.calls[i] # <<>>
  /\ \A i, j \in DOMAIN a.calls : i # j => a.calls[i] # a.calls[j]

TextOf(q, acc, s, w, ch, se) ==
  /\ AccOK(acc) /\ se.shown = acc.content + acc.reasoning /\ se.claimed \in Nat
  /\ FragmentsOK(ch)
  /\ s.pc = "accept" => FragmentOK(s.frag)
  /\ q.phase = "launch" \/ s.pc = "ready" => q.body.format \in Formats
  /\ s.pc \in {"off", "ready"} => acc = NewAccumulator /\ se.claimed = 0 /\ ch = <<>>
  /\ s.pc \in {"stream", "accept"} => Sending(w, se.claimed, Taken(acc, s, ch))
  /\ s.pc = "join" /\ s.got = None => /\ w.pc \in {"closing", "done"}
                                      /\ w.result = "ok" => se.claimed = acc.content
  /\ q.reply.kind \in {"ok", "frozen"} => s.pc \in {"notify", "ending", "done"} /\ AnswerOK(q.reply)
  /\ s.pc = "notify" /\ q.reply.kind \in {"ok", "frozen"} => AnswerWhole(q.reply, se)

TextOK(r) == TextOf(req[r], gate[r].acc, sup[r], worker[r], chan[r], seen[r])

TextInv == \A r \in Request : TextOK(r)

(* a new accumulator is empty *)
LEMMA NewAcc == AccOK(NewAccumulator) /\ NewAccumulator.content = 0 /\ NewAccumulator.reasoning = 0
<1>1. DOMAIN NewAccumulator = AccFields /\ NewAccumulator.content = 0 /\ NewAccumulator.reasoning = 0
      /\ NewAccumulator.calls = <<>>
  BY DEF NewAccumulator, AccFields
<1>2. DOMAIN <<>> = {}
  BY SeqNone
<1>3. IsFiniteSet({})
  BY FS_EmptySet
<1> QED BY <1>1, <1>2, <1>3 DEF AccOK

(* accepting a fragment adds its text to the answer and to what is shown *)
LEMMA Accepts ==
  ASSUME NEW acc, AccOK(acc), NEW f, FragmentOK(f), NEW o, o = Accept(acc, f), ~o.bad
  PROVE  /\ AccOK(o.acc) /\ o.text \in Nat
         /\ o.acc.content = acc.content + Amount(f)
         /\ o.acc.content + o.acc.reasoning = acc.content + acc.reasoning + o.text
<1>1. /\ \A a, n : Accepted(a, n).acc = a /\ Accepted(a, n).text = n
      /\ \A a : Refused(a).bad
  BY DEF Accepted, Refused
<1>2. DOMAIN acc = AccFields /\ acc.content \in Nat /\ acc.reasoning \in Nat
      /\ DOMAIN acc.calls \subseteq Nat /\ IsFiniteSet(DOMAIN acc.calls)
  BY DEF AccOK
<1>3. ASSUME NEW n, DOMAIN n = AccFields, n.content = acc.content, n.reasoning = acc.reasoning,
             n.calls = acc.calls, o = Accepted(n, 0), Amount(f) = 0
      PROVE  /\ AccOK(o.acc) /\ o.text \in Nat
             /\ o.acc.content = acc.content + Amount(f)
             /\ o.acc.content + o.acc.reasoning = acc.content + acc.reasoning + o.text
  <2>1. o.acc = n /\ o.text = 0
    BY <1>1, <1>3
  <2>2. AccOK(n)
    BY <1>2, <1>3 DEF AccOK
  <2> QED BY <1>2, <1>3, <2>1, <2>2
<1>4. CASE f.kind = "content"
  <2> DEFINE n == [acc EXCEPT !.content = @ + f.n]
  <2>1. o = Accepted(n, f.n) /\ f.n \in Nat /\ Amount(f) = f.n
    BY <1>4 DEF Accept, FragmentOK, Amount
  <2>2. DOMAIN n = AccFields /\ n.content = acc.content + f.n /\ n.reasoning = acc.reasoning /\ n.calls = acc.calls
    BY <1>2 DEF AccFields
  <2> HIDE DEF n
  <2>3. o.acc = n /\ o.text = f.n
    BY <1>1, <2>1
  <2>4. AccOK(n)
    BY <1>2, <2>1, <2>2 DEF AccOK
  <2> QED BY <1>2, <2>1, <2>2, <2>3, <2>4
<1>5. CASE f.kind = "reasoning"
  <2> DEFINE n == [acc EXCEPT !.reasoning = @ + f.n]
  <2>1. o = Accepted(n, f.n) /\ f.n \in Nat /\ Amount(f) = 0
    BY <1>5 DEF Accept, FragmentOK, Amount
  <2>2. DOMAIN n = AccFields /\ n.content = acc.content /\ n.reasoning = acc.reasoning + f.n /\ n.calls = acc.calls
    BY <1>2 DEF AccFields
  <2> HIDE DEF n
  <2>3. o.acc = n /\ o.text = f.n
    BY <1>1, <2>1
  <2>4. AccOK(n)
    BY <1>2, <2>1, <2>2 DEF AccOK
  <2> QED BY <1>2, <2>1, <2>2, <2>3, <2>4
<1>6. CASE f.kind = "call"
  <2>1. f.at \in Nat /\ Amount(f) = 0
    BY <1>6 DEF FragmentOK, Amount
  <2>2. PICK v : AcceptCall(acc, f) = [acc EXCEPT !.calls = Put(@, f.at, v)]
    BY DEF AcceptCall
  <2> DEFINE n == [acc EXCEPT !.calls = Put(@, f.at, v)]
  <2>3. o = Accepted(n, 0)
    BY <1>6, <2>2 DEF Accept
  <2>4. DOMAIN n = AccFields /\ n.content = acc.content /\ n.reasoning = acc.reasoning
        /\ n.calls = Put(acc.calls, f.at, v)
    BY <1>2 DEF AccFields
  <2> HIDE DEF n
  <2>5. DOMAIN n.calls = DOMAIN acc.calls \cup {f.at}
    BY <2>4 DEF Put
  <2>6. IsFiniteSet(DOMAIN n.calls)
    BY <1>2, <2>5, FS_AddElement
  <2>7. AccOK(n)
    BY <1>2, <2>1, <2>4, <2>5, <2>6 DEF AccOK
  <2>8. o.acc = n /\ o.text = 0
    BY <1>1, <2>3
  <2> QED BY <1>2, <2>1, <2>4, <2>7, <2>8
<1>7. CASE f.kind = "usage"
  <2> DEFINE n == [acc EXCEPT !.usage = TRUE]
  <2>1. o = Accepted(n, 0) /\ Amount(f) = 0
    BY <1>7 DEF Accept, Amount
  <2>2. DOMAIN n = AccFields /\ n.content = acc.content /\ n.reasoning = acc.reasoning /\ n.calls = acc.calls
    BY <1>2 DEF AccFields
  <2> HIDE DEF n
  <2> QED BY <1>3, <2>1, <2>2
<1>8. CASE f.kind = "finished"
  <2> DEFINE n == [acc EXCEPT !.reason = f.reason]
  <2>1. o = Accepted(n, 0) /\ Amount(f) = 0
    BY <1>1, <1>8 DEF Accept, Amount
  <2>2. DOMAIN n = AccFields /\ n.content = acc.content /\ n.reasoning = acc.reasoning /\ n.calls = acc.calls
    BY <1>2 DEF AccFields
  <2> HIDE DEF n
  <2> QED BY <1>3, <2>1, <2>2
<1>9. CASE f.kind = "replay"
  <2>0. o = AcceptReplay(acc, f) /\ Amount(f) = 0
    BY <1>9 DEF Accept, Amount
  <2> DEFINE n1 == [acc EXCEPT !.format = f.format, !.replay = Put(@, f.at, f.item)]
             n2 == [acc EXCEPT !.replay[f.at].sound = @ \/ f.op = "signature_delta"]
  <2>1. o = Accepted(n1, 0) \/ o = Accepted(n2, 0)
    BY <1>1, <2>0 DEF AcceptReplay
  <2>2. DOMAIN n1 = AccFields /\ n1.content = acc.content /\ n1.reasoning = acc.reasoning /\ n1.calls = acc.calls
    BY <1>2 DEF AccFields
  <2>3. DOMAIN n2 = AccFields /\ n2.content = acc.content /\ n2.reasoning = acc.reasoning /\ n2.calls = acc.calls
    BY <1>2 DEF AccFields
  <2> HIDE DEF n1, n2
  <2> QED BY <1>3, <2>0, <2>1, <2>2, <2>3
<1> QED BY <1>4, <1>5, <1>6, <1>7, <1>8, <1>9 DEF FragmentOK

(* the calls of a response have the ranks 0 to n - 1 *)
LEMMA BeforeRanks ==
  ASSUME NEW calls, DOMAIN calls \subseteq Nat, IsFiniteSet(DOMAIN calls)
  PROVE  /\ Cardinality(DOMAIN calls) \in Nat
         /\ \A k \in 1 .. Cardinality(DOMAIN calls) :
              \E at \in DOMAIN calls : Before(calls, at) = k - 1
<1> DEFINE D == DOMAIN calls
           n == Cardinality(D)
           Low(at) == {i \in D : i < at}
           f == [at \in D |-> Cardinality(Low(at))]
<1>1. n \in Nat
  BY FS_CardinalityType
<1>2. ASSUME NEW at \in D PROVE IsFiniteSet(Low(at)) /\ Cardinality(Low(at)) \in 0 .. n - 1
  <2>1. IsFiniteSet(Low(at)) /\ Cardinality(Low(at)) <= n /\ (n = Cardinality(Low(at)) => D = Low(at))
    <3>1. Low(at) \in SUBSET D
      OBVIOUS
    <3> HIDE DEF Low
    <3> QED BY <3>1, FS_Subset
  <2>2. at \notin Low(at)
    OBVIOUS
  <2>3. D # Low(at)
    BY <2>2
  <2> HIDE DEF Low
  <2>4. Cardinality(Low(at)) \in Nat
    BY <2>1, FS_CardinalityType
  <2> QED BY <1>1, <2>1, <2>3, <2>4
<1>3. ASSUME NEW a \in D, NEW b \in D, a < b PROVE Cardinality(Low(a)) # Cardinality(Low(b))
  <2>1. Low(a) \in SUBSET Low(b) /\ a \in Low(b) /\ a \notin Low(a)
    BY <1>3
  <2>2. Low(a) # Low(b)
    BY <2>1
  <2>3. IsFiniteSet(Low(b))
    BY <1>2
  <2> HIDE DEF Low
  <2> QED BY <2>1, <2>2, <2>3, FS_Subset
<1>4. f \in [D -> 0 .. n - 1]
  BY <1>2
<1>5. \A a, b \in D : f[a] = f[b] => a = b
  <2> SUFFICES ASSUME NEW a \in D, NEW b \in D, a # b PROVE f[a] # f[b]
    OBVIOUS
  <2>1. a < b \/ b < a
    OBVIOUS
  <2>2. f[a] = Cardinality(Low(a)) /\ f[b] = Cardinality(Low(b))
    OBVIOUS
  <2> HIDE DEF Low, f
  <2> QED BY <1>3, <2>1, <2>2
<1> HIDE DEF f, Low
<1>6. f \in Injection(D, 0 .. n - 1)
  BY <1>4, <1>5 DEF Injection, IsInjective
<1>7. IsFiniteSet(0 .. n - 1) /\ Cardinality(0 .. n - 1) = n
  <2> HIDE DEF n
  <2>1. 0 \in Int /\ n - 1 \in Int
    BY <1>1
  <2> QED BY <1>1, <2>1, FS_Interval
<1>8. f \in Surjection(D, 0 .. n - 1)
  BY <1>6, <1>7, FS_Injection
<1>9. ASSUME NEW k \in 1 .. n PROVE \E at \in D : Before(calls, at) = k - 1
  <2>1. k - 1 \in 0 .. n - 1
    BY <1>1, <1>9
  <2>2. PICK at \in D : f[at] = k - 1
    BY <1>8, <2>1 DEF Surjection
  <2>3. Before(calls, at) = f[at]
    BY DEF Before, f, Low
  <2> QED BY <2>2, <2>3
<1> QED BY <1>1, <1>9

(* the ids of complete calls are ids, and each call has its own *)
LEMMA CallIdsOK ==
  ASSUME NEW acc, AccOK(acc), CallsComplete(acc.calls)
  PROVE  /\ IsSeq(CallIds(acc.calls))
         /\ \A i \in DOMAIN CallIds(acc.calls) : CallIds(acc.calls)[i] # <<>>
         /\ \A i, j \in DOMAIN CallIds(acc.calls) : i # j => CallIds(acc.calls)[i] # CallIds(acc.calls)[j]
<1> DEFINE calls == acc.calls
           n == Cardinality(DOMAIN calls)
           at(k) == CHOOSE x \in DOMAIN calls : Before(calls, x) = k - 1
           s == [k \in 1 .. n |-> calls[at(k)].id]
<1>1. n \in Nat /\ \A k \in 1 .. n : at(k) \in DOMAIN calls /\ Before(calls, at(k)) = k - 1
  BY BeforeRanks DEF AccOK
<1>2. s = CallIds(calls)
  BY DEF CallIds
<1>3. /\ \A x \in DOMAIN calls : calls[x].id # <<>>
      /\ \A x, y \in DOMAIN calls : x # y => calls[x].id # calls[y].id
  BY DEF CallsComplete
<1> HIDE DEF at, calls, n
<1>4. DOMAIN s = 1 .. n /\ \A k \in 1 .. n : s[k] = calls[at(k)].id
  OBVIOUS
<1>5. IsSeq(s)
  <2>1. PICK S : s \in [1 .. n -> S]
    <3>1. s \in [1 .. n -> {calls[at(k)].id : k \in 1 .. n}]
      OBVIOUS
    <3> QED BY <3>1
  <2> HIDE DEF s
  <2>2. s \in Seq(S)
    BY <1>1, <2>1
  <2> QED BY <2>2 DEF IsSeq
<1> HIDE DEF s
<1>6. \A i \in DOMAIN s : s[i] # <<>>
  BY <1>1, <1>3, <1>4
<1>7. ASSUME NEW i \in DOMAIN s, NEW j \in DOMAIN s, i # j PROVE s[i] # s[j]
  <2>1. i \in 1 .. n /\ j \in 1 .. n /\ i - 1 # j - 1
    BY <1>4, <1>7
  <2>2. at(i) # at(j)
    BY <1>1, <2>1
  <2> QED BY <1>1, <1>3, <1>4, <2>1, <2>2
<1> QED BY <1>2, <1>5, <1>6, <1>7 DEF calls

(* an answer to a stream that ended has the text accumulated, and its calls *)
(* their ids                                                                *)
LEMMA ResponseOK ==
  ASSUME NEW acc, AccOK(acc), Response(acc) # None
  PROVE  LET a == Response(acc)
         IN a.kind = "ok" /\ a.content = acc.content /\ a.reasoning = acc.reasoning /\ AnswerOK(a)
<1>1. CallsComplete(acc.calls) /\
      \E replay : Response(acc) = Answer("ok", acc.content, acc.reasoning, CallIds(acc.calls), replay)
  BY DEF Response
<1>2. PICK replay : Response(acc) = Answer("ok", acc.content, acc.reasoning, CallIds(acc.calls), replay)
  BY <1>1
<1>3. PICK a, ids : a = Response(acc) /\ ids = CallIds(acc.calls)
  OBVIOUS
<1>4. a.kind = "ok" /\ a.content = acc.content /\ a.reasoning = acc.reasoning /\ a.calls = ids
  BY <1>2, <1>3 DEF Answer
<1>5. IsSeq(ids) /\ (\A i \in DOMAIN ids : ids[i] # <<>>) /\ \A i, j \in DOMAIN ids : i # j => ids[i] # ids[j]
  BY <1>1, <1>3, CallIdsOK
<1>6. AnswerOK(a)
  BY <1>4, <1>5 DEF AnswerOK, AccOK
<1> QED BY <1>3, <1>4, <1>6

(* so has an answer to a stream that was stopped *)
LEMMA FrozenOK ==
  ASSUME NEW acc, AccOK(acc)
  PROVE  LET a == FrozenResponse(acc)
         IN a.kind = "frozen" /\ a.content = acc.content /\ a.reasoning = acc.reasoning /\ AnswerOK(a)
<1>1. PICK a : a = FrozenResponse(acc)
  OBVIOUS
<1>2. a.kind = "frozen" /\ a.content = acc.content /\ a.reasoning = acc.reasoning /\ a.calls = <<>>
  BY <1>1 DEF FrozenResponse, Answer
<1>3. AnswerOK(a)
  BY <1>2, SeqNone DEF AnswerOK, AccOK
<1> QED BY <1>1, <1>2, <1>3

(***************************************************************************)
(* The text through every step                                             *)
(***************************************************************************)
(* Steps that change one request leave the others as they are.              *)
LEMMA TextStep ==
  ASSUME TextInv, NEW r \in Request, TextOK(r)',
         \A q \in Request \ {r} :
            /\ req'[q] = req[q] /\ gate'[q].acc = gate[q].acc /\ sup'[q] = sup[q]
            /\ worker'[q] = worker[q] /\ chan'[q] = chan[q] /\ seen'[q] = seen[q]
  PROVE  TextInv'
  BY DEF TextInv, TextOK

(* A request that keeps its place, its body and its answer, or loses them,  *)
(* has what it had.                                                         *)
LEMMA TextKept ==
  ASSUME NEW q, NEW q2, NEW acc, NEW s, NEW w, NEW ch, NEW se, TextOf(q, acc, s, w, ch, se),
         q2.phase = q.phase \/ (q2.phase # "launch" /\ s.pc # "ready"),
         q2.body = q.body \/ (q2.phase # "launch" /\ s.pc # "ready"),
         q2.reply = q.reply \/ q2.reply.kind \notin {"ok", "frozen"}
  PROVE  TextOf(q2, acc, s, w, ch, se)
  BY DEF TextOf

(* closing a gate leaves the accumulator *)
LEMMA GateOnly ==
  ASSUME Shapes, NEW x, gate' = [gate EXCEPT ![x].closed = TRUE] \/ UNCHANGED gate
  PROVE  DOMAIN gate' = Request /\ \A q \in Request : gate'[q].acc = gate[q].acc
<1>1. DOMAIN gate' = Request
  BY DEF Shapes
<1>2. ASSUME NEW q \in Request PROVE gate'[q].acc = gate[q].acc
  <2>1. DOMAIN gate = Request /\ gate[q] = [f \in GateFields |-> gate[q][f]]
    BY DEF Shapes, GateOK
  <2>2. gate'[q] = gate[q] \/ gate'[q] = [gate[q] EXCEPT !.closed = TRUE]
    BY <2>1
  <2> QED BY <2>1, <2>2 DEF GateFields
<1> QED BY <1>1, <1>2

(* who finishes answers a request that has no answer, and no other *)
LEMMA FinishText ==
  ASSUME Shapes, NEW r \in Request, NEW a, FinishInference(r, a)
  PROVE  /\ \A q \in Request : gate'[q].acc = gate[q].acc
         /\ \A q \in Request \ {r} : req'[q] = req[q]
         /\ \/ req'[r] = req[r]
            \/ req'[r].phase = "over" /\ req'[r].reply = a
<1>1. \A q \in Request : gate'[q].acc = gate[q].acc
  BY GateOnly DEF FinishInference
<1>2. CASE UNCHANGED req
  BY <1>1, <1>2
<1>3. CASE Reply(r, a)
  <2>1. req'[r] = [NoRequest EXCEPT !.phase = "over", !.turn = req[r].turn, !.vm = req[r].vm, !.reply = a]
        /\ \A q \in Request \ {r} : req'[q] = req[q]
    BY <1>3 DEF Reply, Shapes
  <2>2. req'[r].phase = "over" /\ req'[r].reply = a
    BY <2>1 DEF NoRequest
  <2> QED BY <1>1, <2>1, <2>2
<1> QED BY <1>2, <1>3 DEF FinishInference

(* the kinds of failures and answers *)
LEMMA Kinds ==
  /\ \A e : Failure(e).kind = "error"
  /\ \A k, n, m, c, p : Answer(k, n, m, c, p).kind = k
  /\ Used.kind = "used" /\ NoReply.kind = None /\ None \notin {"ok", "frozen"}
  BY InferenceAssumption DEF Failure, Answer, Used, NoReply

(* the supervisor goes on to the end, with an answer *)
LEMMA EndText ==
  ASSUME Shapes, TextInv, NEW r \in Request, NEW a, FinishInference(r, a),
         a.kind \in {"ok", "frozen"} => AnswerOK(a) /\ AnswerWhole(a, seen[r]),
         sup[r].pc \in {"ready", "join"},
         \/ sup' = [sup EXCEPT ![r].pc = "notify"]
         \/ sup' = [sup EXCEPT ![r].pc = "late"] /\ a.kind \notin {"ok", "frozen"},
         UNCHANGED <<worker, chan, seen>>
  PROVE  TextInv'
<1>1. /\ \A q \in Request : gate'[q].acc = gate[q].acc
      /\ \A q \in Request \ {r} : req'[q] = req[q]
      /\ \/ req'[r] = req[r]
         \/ req'[r].phase = "over" /\ req'[r].reply = a
  BY FinishText
<1>2. /\ sup'[r].pc = "notify" \/ (sup'[r].pc = "late" /\ a.kind \notin {"ok", "frozen"})
      /\ \A q \in Request \ {r} : sup'[q] = sup[q]
  BY DEF Shapes
<1>3. TextOf(req[r], gate[r].acc, sup[r], worker[r], chan[r], seen[r])
  BY DEF TextInv, TextOK
<1>4. req[r].reply.kind \notin {"ok", "frozen"}
  BY <1>3 DEF TextOf
<1>5. ASSUME NEW q, NEW s, s = sup'[r], q = req[r] \/ (q.phase = "over" /\ q.reply = a)
      PROVE  TextOf(q, gate[r].acc, s, worker[r], chan[r], seen[r])
  BY <1>2, <1>3, <1>4, <1>5 DEF TextOf
<1>6. TextOK(r)'
  BY <1>1, <1>5 DEF TextOK
<1> QED BY <1>1, <1>2, <1>6, TextStep

(* a stream that is over has been taken whole, unless it is cut off *)
LEMMA SettleText ==
  ASSUME Shapes, TextInv, ReplyInv, NEW r \in Request, NEW got, Settle(r, got), UNCHANGED seen,
         sup[r].pc \in {"stream", "accept"},
         got = None => sup[r].pc = "stream" /\ chan[r] = <<>> /\ worker[r].pc \in {"closing", "done"}
  PROVE  TextInv'
<1>1. /\ sup' = [sup EXCEPT ![r] = [pc |-> "join", got |-> got, frag |-> None]]
      /\ chan' = [chan EXCEPT ![r] = <<>>]
      /\ UNCHANGED <<worker, seen>>
      /\ \/ gate' = [gate EXCEPT ![r].closed = TRUE] /\ UNCHANGED req
         \/ \E e : FinishInference(r, Failure(e))
  BY DEF Settle
<1>2. /\ \A q \in Request : gate'[q].acc = gate[q].acc
      /\ \A q \in Request \ {r} : req'[q] = req[q]
      /\ \/ req'[r] = req[r]
         \/ req'[r].phase = "over" /\ req'[r].reply.kind = "error"
  BY <1>1, GateOnly, FinishText, Kinds
<1>3. /\ sup'[r].pc = "join" /\ sup'[r].got = got /\ chan'[r] = <<>>
      /\ \A q \in Request \ {r} : sup'[q] = sup[q] /\ chan'[q] = chan[q]
  BY <1>1 DEF Shapes, ReplyInv
<1>4. TextOf(req[r], gate[r].acc, sup[r], worker[r], chan[r], seen[r])
  BY DEF TextInv, TextOK
<1>5. FragmentsOK(<<>>) /\ Contents(<<>>) = 0
  BY ContentsNone
<1>6. ASSUME got = None, worker[r].result = "ok" PROVE seen[r].claimed = gate[r].acc.content
  <2>1. seen[r].claimed = Taken(gate[r].acc, sup[r], chan[r])
    BY <1>4, <1>6 DEF TextOf, Sending
  <2>2. Taken(gate[r].acc, sup[r], chan[r]) = gate[r].acc.content
    BY <1>4, <1>5, <1>6 DEF Taken, TextOf, AccOK
  <2> QED BY <2>1, <2>2
<1>7. ASSUME NEW q, NEW s, s.pc = "join", s.got = got, q = req[r] \/ (q.phase = "over" /\ q.reply.kind = "error")
      PROVE  TextOf(q, gate[r].acc, s, worker[r], <<>>, seen[r])
  BY <1>4, <1>5, <1>6, <1>7 DEF TextOf
<1>8. TextOK(r)'
  BY <1>1, <1>2, <1>3, <1>4, <1>7 DEF TextOK
<1> QED BY <1>1, <1>2, <1>3, <1>8, TextStep

(* a launch changes no text *)
LEMMA LaunchText ==
  ASSUME Shapes, TextInv, NEW r \in Request, TaskOK(r), Launch(r) \/ LaunchFails(r)
  PROVE  TextInv'
<1>1. TextOf(req[r], gate[r].acc, sup[r], worker[r], chan[r], seen[r])
  BY DEF TextInv, TextOK
<1>2. sup[r].pc = "off" /\ req[r].phase = "launch" /\ UNCHANGED <<worker, chan, seen>>
  BY DEF TaskOK, Launch, LaunchFails
<1>3. CASE Launch(r)
  <2>1. req' = [req EXCEPT ![r].phase = "run"] /\ sup' = [sup EXCEPT ![r].pc = "ready"] /\ UNCHANGED gate
    BY <1>3 DEF Launch
  <2>2. /\ req'[r].phase = "run" /\ req'[r].reply = req[r].reply /\ req'[r].body = req[r].body
        /\ sup'[r].pc = "ready" /\ \A q \in Request \ {r} : req'[q] = req[q] /\ sup'[q] = sup[q]
    BY <2>1 DEF Shapes, ReqFields
  <2>3. ASSUME NEW q, NEW s, q.phase = "run", q.reply = req[r].reply, q.body = req[r].body, s.pc = "ready"
        PROVE  TextOf(q, gate[r].acc, s, worker[r], chan[r], seen[r])
    BY <1>1, <1>2, <2>3 DEF TextOf
  <2>4. TextOK(r)'
    BY <1>2, <2>1, <2>2, <2>3 DEF TextOK
  <2> QED BY <1>2, <2>1, <2>2, <2>4, TextStep
<1>4. CASE LaunchFails(r)
  <2>1. /\ req' = [req EXCEPT ![r] = [req[r] EXCEPT !.phase = "failed", !.reply = Failure("TaskPanicked"),
                                                    !.ask = None, !.body = None]]
        /\ gate' = [gate EXCEPT ![r].closed = TRUE] /\ UNCHANGED sup
    BY <1>4 DEF LaunchFails
  <2>2. /\ req'[r].phase = "failed" /\ req'[r].reply.kind = "error"
        /\ \A q \in Request \ {r} : req'[q] = req[q]
    BY <2>1, Kinds DEF Shapes, ReqFields
  <2>3. \A q \in Request : gate'[q].acc = gate[q].acc
    BY <2>1, GateOnly
  <2>4. ASSUME NEW q, q.phase = "failed", q.reply.kind = "error"
        PROVE  TextOf(q, gate[r].acc, sup[r], worker[r], chan[r], seen[r])
    BY <1>1, <1>2, <2>4 DEF TextOf
  <2>5. TextOK(r)'
    BY <1>2, <2>1, <2>2, <2>3, <2>4 DEF TextOK
  <2> QED BY <1>2, <2>1, <2>2, <2>3, <2>5, TextStep
<1> QED BY <1>3, <1>4

(* a supervisor that starts its worker starts with an empty stream, or      *)
(* answers at once                                                          *)
LEMMA BeginText ==
  ASSUME Shapes, TextInv, NEW r \in Request, TaskOK(r), Begin(r)
  PROVE  TextInv'
<1>1. TextOf(req[r], gate[r].acc, sup[r], worker[r], chan[r], seen[r]) /\ sup[r].pc = "ready"
      /\ UNCHANGED <<chan, seen>>
  BY DEF TextInv, TextOK, Begin
<1>2. CASE /\ \/ FinishInference(r, FrozenResponse(gate[r].acc))
              \/ \E e : FinishInference(r, Failure(e))
           /\ sup' = [sup EXCEPT ![r].pc = "notify"] /\ UNCHANGED worker
  <2>1. PICK a : /\ FinishInference(r, a)
                 /\ a = FrozenResponse(gate[r].acc) \/ a.kind = "error"
    BY <1>2, Kinds
  <2>2. a.kind \in {"ok", "frozen"} => AnswerOK(a) /\ AnswerWhole(a, seen[r])
    <3>1. AccOK(gate[r].acc) /\ seen[r].shown = gate[r].acc.content + gate[r].acc.reasoning
      BY <1>1 DEF TextOf
    <3> QED BY <2>1, <3>1, FrozenOK DEF AnswerWhole
  <2> QED BY <1>1, <1>2, <2>1, <2>2, EndText
<1>3. CASE /\ sup' = [sup EXCEPT ![r].pc = "stream"]
           /\ worker' = [worker EXCEPT ![r] = [NoWorker EXCEPT !.pc = "connect",
                                                              !.d = NewDecoder(req[r].body.format)]]
           /\ req' = [req EXCEPT ![r].ask = None, ![r].body = None]
           /\ UNCHANGED gate
  <2>1. /\ req'[r].phase = req[r].phase /\ req'[r].reply = req[r].reply
        /\ sup'[r].pc = "stream"
        /\ worker'[r] = [NoWorker EXCEPT !.pc = "connect", !.d = NewDecoder(req[r].body.format)]
        /\ \A q \in Request \ {r} : req'[q] = req[q] /\ sup'[q] = sup[q] /\ worker'[q] = worker[q]
    BY <1>3 DEF Shapes, ReqFields
  <2>2. worker'[r].pc = "connect" /\ worker'[r].d = NewDecoder(req[r].body.format)
        /\ worker'[r].out = <<>> /\ worker'[r].last = FALSE
    BY <2>1 DEF NoWorker
  <2>3. PICK format \in Formats : format = req[r].body.format
    BY <1>1 DEF TextOf
  <2>4. /\ gate[r].acc = NewAccumulator /\ seen[r].claimed = 0 /\ chan[r] = <<>>
        /\ req[r].phase # "launch"
    BY <1>1 DEF TextOf, TaskOK
  <2>5. ASSUME NEW s, NEW w, s.pc = "stream", w.pc = "connect", w.d = NewDecoder(format), w.out = <<>>,
               w.last = FALSE
        PROVE  Sending(w, 0, Taken(NewAccumulator, s, <<>>))
    <3>1. Taken(NewAccumulator, s, <<>>) = 0
      BY <2>5, NewAcc, ContentsNone DEF Taken
    <3>2. DecoderOK(w.d) /\ w.d.format = format /\ Balanced(w.d, 0, 0) /\ FragmentsOK(w.out) /\ 0 + Contents(w.out) = 0
      BY <2>5, NewBalances, ContentsNone
    <3> QED BY <2>5, <3>1, <3>2 DEF Sending
  <2>6. ASSUME NEW q, NEW s, NEW w, s.pc = "stream", w.pc = "connect", w.d = NewDecoder(format), w.out = <<>>,
               w.last = FALSE, q.phase # "launch", q.reply = req[r].reply
        PROVE  TextOf(q, gate[r].acc, s, w, chan[r], seen[r])
    <3>1. Sending(w, seen[r].claimed, Taken(gate[r].acc, s, chan[r]))
      BY <2>4, <2>5, <2>6
    <3> QED BY <1>1, <2>6, <3>1 DEF TextOf
  <2>7. TextOK(r)'
    BY <1>1, <1>3, <2>1, <2>2, <2>3, <2>4, <2>6 DEF TextOK
  <2> QED BY <1>1, <1>3, <2>1, <2>7, TextStep
<1> QED BY <1>2, <1>3 DEF Begin

(* a fragment received is still counted *)
LEMMA ReceiveText ==
  ASSUME Shapes, TextInv, ReplyInv, NEW r \in Request, Receive(r)
  PROVE  TextInv'
<1>1. TextOf(req[r], gate[r].acc, sup[r], worker[r], chan[r], seen[r])
  BY DEF TextInv, TextOK
<1>2. /\ sup[r].pc = "stream" /\ chan[r] # <<>>
      /\ sup' = [sup EXCEPT ![r].pc = "accept", ![r].frag = Head(chan[r])]
      /\ chan' = [chan EXCEPT ![r] = Tail(@)]
      /\ UNCHANGED <<req, gate, worker, seen>>
  BY DEF Receive
<1>3. /\ sup'[r].pc = "accept" /\ sup'[r].frag = Head(chan[r]) /\ chan'[r] = Tail(chan[r])
      /\ \A q \in Request \ {r} : sup'[q] = sup[q] /\ chan'[q] = chan[q]
  BY <1>2 DEF Shapes, ReplyInv
<1>4. PICK f, ch : f = Head(chan[r]) /\ ch = Tail(chan[r])
  OBVIOUS
<1>5. /\ FragmentOK(f) /\ FragmentsOK(ch) /\ Contents(chan[r]) = Amount(f) + Contents(ch)
      /\ Contents(ch) \in Nat /\ Amount(f) \in Nat
  <2>1. FragmentsOK(chan[r])
    BY <1>1 DEF TextOf
  <2>2. FragmentOK(f) /\ FragmentsOK(ch) /\ Contents(chan[r]) = Amount(f) + Contents(ch)
    BY <1>2, <1>4, <2>1, ContentsSplit
  <2>3. Amount(f) \in Nat
    BY <2>2 DEF Amount, FragmentOK
  <2> QED BY <2>2, <2>3, ContentsType
<1>6. ASSUME NEW s, s.pc = "accept", s.frag = f
      PROVE  Taken(gate[r].acc, s, ch) = Taken(gate[r].acc, sup[r], chan[r])
  <2>1. PICK n \in Nat, a \in Nat, k \in Nat : n = gate[r].acc.content /\ a = Amount(f) /\ k = Contents(ch)
    BY <1>1, <1>5 DEF TextOf, AccOK
  <2>2. Taken(gate[r].acc, s, ch) = n + a + k
    BY <1>6, <2>1 DEF Taken
  <2>3. Taken(gate[r].acc, sup[r], chan[r]) = n + 0 + (a + k)
    BY <1>2, <1>5, <2>1 DEF Taken
  <2> QED BY <2>2, <2>3
<1>7. ASSUME NEW s, s.pc = "accept", s.frag = f
      PROVE  TextOf(req[r], gate[r].acc, s, worker[r], ch, seen[r])
  BY <1>1, <1>2, <1>5, <1>6, <1>7 DEF TextOf
<1>8. TextOK(r)'
  BY <1>2, <1>3, <1>4, <1>7 DEF TextOK
<1> QED BY <1>2, <1>3, <1>8, TextStep

(* a fragment accepted is counted where it went *)
LEMMA TakeText ==
  ASSUME Shapes, TextInv, ReplyInv, NEW r \in Request, sup[r].pc = "accept", Take(r)
  PROVE  TextInv'
<1>1. TextOf(req[r], gate[r].acc, sup[r], worker[r], chan[r], seen[r])
  BY DEF TextInv, TextOK
<1>2. PICK o : o = Accept(gate[r].acc, sup[r].frag)
  OBVIOUS
<1>3. CASE o.bad
  <2>1. Settle(r, "Provider") /\ UNCHANGED seen /\ None # "Provider"
    BY <1>2, <1>3, InferenceAssumption DEF Take
  <2> QED BY <2>1, SettleText
<1>4. CASE ~o.bad
  <2>1. /\ gate' = [gate EXCEPT ![r].acc = o.acc]
        /\ sup' = [sup EXCEPT ![r].pc = "stream", ![r].frag = None]
        /\ seen' = [seen EXCEPT ![r].shown = @ + o.text]
        /\ UNCHANGED <<req, worker, chan>>
    BY <1>2, <1>4 DEF Take
  <2>2. /\ gate'[r].acc = o.acc /\ sup'[r].pc = "stream"
        /\ seen'[r].shown = seen[r].shown + o.text /\ seen'[r].claimed = seen[r].claimed
        /\ \A q \in Request \ {r} : gate'[q] = gate[q] /\ sup'[q] = sup[q] /\ seen'[q] = seen[q]
    <3>1. gate'[r].acc = o.acc
      <4>1. gate[r] = [f \in GateFields |-> gate[r][f]] /\ gate'[r] = [gate[r] EXCEPT !.acc = o.acc]
        BY <2>1 DEF Shapes, GateOK
      <4> QED BY <4>1 DEF GateFields
    <3> QED BY <2>1, <3>1 DEF Shapes
  <2>3. PICK f : f = sup[r].frag
    OBVIOUS
  <2>4. /\ AccOK(o.acc) /\ o.text \in Nat
        /\ o.acc.content = gate[r].acc.content + Amount(f)
        /\ o.acc.content + o.acc.reasoning = gate[r].acc.content + gate[r].acc.reasoning + o.text
    <3>1. AccOK(gate[r].acc) /\ FragmentOK(f)
      BY <1>1, <2>3 DEF TextOf
    <3> QED BY <1>2, <1>4, <2>3, <3>1, Accepts
  <2>5. ASSUME NEW s, s.pc = "stream"
        PROVE  Taken(o.acc, s, chan[r]) = Taken(gate[r].acc, sup[r], chan[r])
    <3>1. Contents(chan[r]) \in Nat /\ Amount(f) \in Nat /\ gate[r].acc.content \in Nat
      BY <1>1, <2>3, ContentsType DEF TextOf, AccOK, Amount, FragmentOK
    <3>2. PICK n \in Nat, a \in Nat, k \in Nat : n = gate[r].acc.content /\ a = Amount(f) /\ k = Contents(chan[r])
      BY <3>1
    <3>3. Taken(o.acc, s, chan[r]) = (n + a) + 0 + k
      BY <2>4, <2>5, <3>2 DEF Taken
    <3>4. Taken(gate[r].acc, sup[r], chan[r]) = n + a + k
      BY <2>3, <3>2 DEF Taken
    <3> QED BY <3>3, <3>4
  <2>6. ASSUME NEW s, NEW se, s.pc = "stream", se.shown = seen[r].shown + o.text, se.claimed = seen[r].claimed
        PROVE  TextOf(req[r], o.acc, s, worker[r], chan[r], se)
    <3>1. se.shown = o.acc.content + o.acc.reasoning
      BY <1>1, <2>4, <2>6 DEF TextOf
    <3> QED BY <1>1, <2>4, <2>5, <2>6, <3>1 DEF TextOf
  <2>7. TextOK(r)'
    BY <2>1, <2>2, <2>6 DEF TextOK
  <2> QED BY <2>1, <2>2, <2>7, TextStep
<1> QED BY <1>3, <1>4

(* the steps of the stream keep the text *)
LEMMA StreamText ==
  ASSUME Shapes, TextInv, ReplyInv, NEW r \in Request, AcceptFragment(r) \/ Interrupt(r) \/ StreamEnds(r)
  PROVE  TextInv'
<1>1. None \notin {"Cancelled", "ReplyClosed", "Timeout", "Provider"}
  BY InferenceAssumption
<1>2. CASE AcceptFragment(r)
  <2>1. sup[r].pc = "accept" /\ (Take(r) \/ (Settle(r, "Cancelled") /\ UNCHANGED seen))
    BY <1>2 DEF AcceptFragment
  <2> QED BY <1>1, <2>1, TakeText, SettleText
<1>3. CASE Interrupt(r)
  <2>1. PICK got \in {"Cancelled", "ReplyClosed", "Timeout"} : Settle(r, got)
    BY <1>3 DEF Interrupt
  <2>2. sup[r].pc = "stream" /\ UNCHANGED seen /\ got # None
    BY <1>1, <1>3 DEF Interrupt
  <2> QED BY <2>1, <2>2, SettleText
<1>4. CASE StreamEnds(r)
  BY <1>4, SettleText DEF StreamEnds, Ended
<1> QED BY <1>2, <1>3, <1>4

(* the answer of a joined worker says what was shown *)
LEMMA JoinText ==
  ASSUME Shapes, TextInv, NEW r \in Request, Join(r) \/ JoinLate(r)
  PROVE  TextInv'
<1>1. TextOf(req[r], gate[r].acc, sup[r], worker[r], chan[r], seen[r])
  BY DEF TextInv, TextOK
<1>2. CASE Join(r)
  <2>1. PICK a : a = Result(r)
    OBVIOUS
  <2>2. /\ FinishInference(r, a) /\ sup[r].pc = "join" /\ sup' = [sup EXCEPT ![r].pc = "notify"]
        /\ UNCHANGED <<worker, chan, seen>>
    BY <1>2, <2>1 DEF Join
  <2>3. /\ AccOK(gate[r].acc) /\ seen[r].shown = gate[r].acc.content + gate[r].acc.reasoning
        /\ sup[r].got = None /\ worker[r].result = "ok" => seen[r].claimed = gate[r].acc.content
    BY <1>1, <2>2 DEF TextOf
  <2>4. \/ \E e : a = Failure(e)
        \/ a = FrozenResponse(gate[r].acc)
        \/ /\ sup[r].got = None /\ worker[r].result = "ok"
           /\ Response(gate[r].acc) # None /\ a = Response(gate[r].acc)
    BY <2>1 DEF Result
  <2>5. a.kind \in {"ok", "frozen"} => AnswerOK(a) /\ AnswerWhole(a, seen[r])
    BY <2>3, <2>4, Kinds, FrozenOK, ResponseOK DEF AnswerWhole
  <2> QED BY <2>2, <2>5, EndText
<1>3. CASE JoinLate(r)
  <2>1. PICK a : a = Failure("CleanupFailed")
    OBVIOUS
  <2>2. /\ FinishInference(r, a) /\ sup[r].pc = "join" /\ sup' = [sup EXCEPT ![r].pc = "late"]
        /\ UNCHANGED <<worker, chan, seen>> /\ a.kind = "error"
    BY <1>3, <2>1, Kinds DEF JoinLate
  <2> QED BY <2>2, EndText
<1> QED BY <1>2, <1>3

(* what follows the answer leaves it *)
LEMMA OverText ==
  ASSUME Shapes, TextInv, NEW r \in Request, JoinAtLast(r) \/ Notify(r) \/ EndTask(r)
  PROVE  TextInv'
<1>1. TextOf(req[r], gate[r].acc, sup[r], worker[r], chan[r], seen[r])
  BY DEF TextInv, TextOK
<1>2. CASE JoinAtLast(r) \/ Notify(r)
  <2>1. PICK to \in {"notify", "ending"} :
          /\ sup' = [sup EXCEPT ![r].pc = to]
          /\ to = "notify" => sup[r].pc = "late"
          /\ to = "ending" => sup[r].pc = "notify"
    BY <1>2 DEF JoinAtLast, Notify
  <2>2. sup'[r].pc = to /\ \A q \in Request \ {r} : sup'[q] = sup[q]
    BY <2>1 DEF Shapes
  <2>3. UNCHANGED <<req, gate, worker, chan, seen>>
    BY <1>2 DEF JoinAtLast, Notify
  <2>4. ASSUME NEW s, s.pc = to PROVE TextOf(req[r], gate[r].acc, s, worker[r], chan[r], seen[r])
    BY <1>1, <2>1, <2>4 DEF TextOf
  <2>5. TextOK(r)'
    BY <2>2, <2>3, <2>4 DEF TextOK
  <2> QED BY <2>2, <2>3, <2>5, TextStep
<1>3. CASE EndTask(r)
  <2>1. /\ sup[r].pc = "ending"
        /\ sup' = [sup EXCEPT ![r] = [NoSup EXCEPT !.pc = "done"]]
        /\ gate' = [gate EXCEPT ![r].acc = NewAccumulator]
        /\ worker' = [worker EXCEPT ![r] = NoWorker]
        /\ seen' = [seen EXCEPT ![r] = [shown |-> 0, claimed |-> 0]]
        /\ req' = [req EXCEPT ![r].turn = None, ![r].cancel = FALSE]
        /\ UNCHANGED chan
    BY <1>3 DEF EndTask
  <2>2. /\ sup'[r].pc = "done" /\ seen'[r].shown = 0 /\ seen'[r].claimed = 0
        /\ req'[r].phase = req[r].phase /\ req'[r].body = req[r].body /\ req'[r].reply = req[r].reply
    BY <2>1 DEF Shapes, NoSup, ReqFields
  <2>3. gate'[r].acc = NewAccumulator
    <3>1. gate[r] = [f \in GateFields |-> gate[r][f]] /\ gate'[r] = [gate[r] EXCEPT !.acc = NewAccumulator]
      BY <2>1 DEF Shapes, GateOK
    <3> QED BY <3>1 DEF GateFields
  <2>4. \A q \in Request \ {r} :
            /\ req'[q] = req[q] /\ gate'[q].acc = gate[q].acc /\ sup'[q] = sup[q]
            /\ worker'[q] = worker[q] /\ chan'[q] = chan[q] /\ seen'[q] = seen[q]
    BY <2>1 DEF Shapes
  <2>5. ASSUME NEW q, NEW s, NEW w, NEW se, s.pc = "done", se.shown = 0, se.claimed = 0,
               q.phase = req[r].phase, q.body = req[r].body, q.reply = req[r].reply
        PROVE  TextOf(q, NewAccumulator, s, w, chan[r], se)
    BY <1>1, <2>1, <2>5, NewAcc DEF TextOf
  <2>6. TextOK(r)'
    BY <2>1, <2>2, <2>3, <2>5 DEF TextOK
  <2> QED BY <2>4, <2>6, TextStep
<1> QED BY <1>2, <1>3

(* what is claimed is a number *)
LEMMA SaidType ==
  ASSUME NEW format, NEW ls, LinesOK(ls)
  PROVE  Said(format, ls) \in Nat
<1> DEFINE cs == [i \in DOMAIN ls |-> Claim(format, ls[i])]
<1>1. IsSeq(ls)
  BY DEF LinesOK, IsSeq
<1>2. Len(ls) \in Nat /\ DOMAIN ls = 1 .. Len(ls)
  BY <1>1, SeqIs
<1>3. \A i \in 1 .. Len(ls) : LineOK(ls[i])
  BY <1>2 DEF LinesOK, LineOK
<1>4. \A i \in 1 .. Len(ls) : Claim(format, ls[i]) \in Nat
  BY <1>3, LineClaims
<1>5. cs \in Seq(Nat)
  BY <1>2, <1>4
<1> QED BY <1>5, TotalType DEF Said

(* a step of the worker, by what it leaves of the stream *)
LEMMA WorkText ==
  ASSUME NEW q, NEW acc, NEW s, NEW w, NEW ch, NEW se, TextOf(q, acc, s, w, ch, se),
         s.pc \in {"stream", "accept", "join", "late"},
         NEW w2, NEW ch2, NEW se2, se2.shown = se.shown, se2.claimed \in Nat, FragmentsOK(ch2),
         s.pc \in {"stream", "accept"} => Sending(w2, se2.claimed, Taken(acc, s, ch2)),
         s.pc = "join" /\ s.got = None => /\ w2.pc \in {"closing", "done"}
                                          /\ w2.result = "ok" => se2.claimed = acc.content
  PROVE  TextOf(q, acc, s, w2, ch2, se2)
  BY DEF TextOf

(* what is taken is a number *)
LEMMA TakenType ==
  ASSUME NEW q, NEW acc, NEW s, NEW w, NEW ch, NEW se, TextOf(q, acc, s, w, ch, se)
  PROVE  Taken(acc, s, ch) \in Nat
<1>1. acc.content \in Nat /\ Contents(ch) \in Nat /\ (s.pc = "accept" => Amount(s.frag) \in Nat)
  BY ContentsType DEF TextOf, AccOK, FragmentOK, Amount
<1>2. PICK n, k, a : n \in Nat /\ k \in Nat /\ n = acc.content /\ k = Contents(ch) /\ a = Amount(s.frag)
  BY <1>1
<1> QED BY <1>1, <1>2 DEF Taken

(* a worker that returns, or ends *)
LEMMA ReturnText ==
  ASSUME Shapes, TextInv, NEW r \in Request, TaskOK(r), WorkerReturns(r) \/ WorkerPanics(r) \/ WorkerEnds(r)
  PROVE  TextInv'
<1>1. TextOf(req[r], gate[r].acc, sup[r], worker[r], chan[r], seen[r])
      /\ sup[r].pc \in {"stream", "accept", "join", "late"}
      /\ UNCHANGED <<req, gate, sup, chan, seen>>
  BY DEF TextInv, TextOK, TaskOK, WorkerReturns, WorkerPanics, WorkerEnds, Returns
<1>2. CASE WorkerEnds(r)
  <2>1. /\ worker[r].pc = "closing" /\ worker'[r].pc = "done" /\ worker'[r].result = worker[r].result
        /\ \A q \in Request \ {r} : worker'[q] = worker[q]
    BY <1>2 DEF WorkerEnds, Shapes
  <2>2. ASSUME NEW w, w.pc = "done", w.result = worker[r].result
        PROVE  TextOf(req[r], gate[r].acc, sup[r], w, chan[r], seen[r])
    BY <1>1, <2>1, <2>2, WorkText DEF TextOf, Sending
  <2>3. TextOK(r)'
    BY <1>1, <2>1, <2>2 DEF TextOK
  <2> QED BY <1>1, <2>1, <2>3, TextStep
<1>3. CASE WorkerReturns(r) \/ WorkerPanics(r)
  <2>1. PICK result : /\ Returns(r, result) /\ worker[r].pc \in {"connect", "read"}
                      /\ result = "ok" => worker[r].last /\ worker[r].out = <<>>
    BY <1>3 DEF WorkerReturns, WorkerPanics
  <2>2. /\ worker'[r].pc = "closing" /\ worker'[r].result = result
        /\ \A q \in Request \ {r} : worker'[q] = worker[q]
    BY <2>1 DEF Returns, Shapes, NoWorker
  <2>3. sup[r].pc = "join" => sup[r].got # None
    BY <1>1, <2>1 DEF TextOf
  <2>4. ASSUME sup[r].pc \in {"stream", "accept"}, result = "ok"
        PROVE  seen[r].claimed = Taken(gate[r].acc, sup[r], chan[r])
    <3>1. seen[r].claimed = Taken(gate[r].acc, sup[r], chan[r]) + Contents(<<>>)
      BY <1>1, <2>1, <2>4 DEF TextOf, Sending
    <3> QED BY <1>1, <3>1, ContentsNone, TakenType
  <2>5. ASSUME NEW w, w.pc = "closing", w.result = result
        PROVE  TextOf(req[r], gate[r].acc, sup[r], w, chan[r], seen[r])
    <3>1. sup[r].pc \in {"stream", "accept"} => Sending(w, seen[r].claimed, Taken(gate[r].acc, sup[r], chan[r]))
      BY <2>4, <2>5 DEF Sending
    <3>2. seen[r].claimed \in Nat /\ FragmentsOK(chan[r])
      BY <1>1 DEF TextOf
    <3> QED BY <1>1, <2>3, <3>1, <3>2, WorkText
  <2>6. TextOK(r)'
    BY <1>1, <2>2, <2>5 DEF TextOK
  <2> QED BY <1>1, <2>2, <2>6, TextStep
<1> QED BY <1>2, <1>3

(* connecting begins to read *)
LEMMA ConnectText ==
  ASSUME Shapes, TextInv, NEW r \in Request, TaskOK(r), Connect(r)
  PROVE  TextInv'
<1>1. TextOf(req[r], gate[r].acc, sup[r], worker[r], chan[r], seen[r])
      /\ sup[r].pc \in {"stream", "accept"} /\ worker[r].pc = "connect"
      /\ UNCHANGED <<req, gate, sup, chan, seen>>
  BY DEF TextInv, TextOK, TaskOK, Connect, Upstream
<1>2. /\ worker'[r].pc = "read" /\ worker'[r].d = worker[r].d /\ worker'[r].out = worker[r].out
      /\ worker'[r].last = worker[r].last
      /\ \A q \in Request \ {r} : worker'[q] = worker[q]
  BY DEF Connect, Shapes
<1>3. ASSUME NEW w, w.pc = "read", w.d = worker[r].d, w.out = worker[r].out, w.last = worker[r].last
      PROVE  TextOf(req[r], gate[r].acc, sup[r], w, chan[r], seen[r])
  <2>1. Sending(w, seen[r].claimed, Taken(gate[r].acc, sup[r], chan[r]))
    BY <1>1, <1>3 DEF TextOf, Sending
  <2>2. seen[r].claimed \in Nat /\ FragmentsOK(chan[r])
    BY <1>1 DEF TextOf
  <2> QED BY <1>1, <2>1, <2>2, WorkText
<1>4. TextOK(r)'
  BY <1>1, <1>2, <1>3 DEF TextOK
<1> QED BY <1>1, <1>2, <1>4, TextStep

(* a fragment sent is counted in the channel *)
LEMMA SendText ==
  ASSUME Shapes, TextInv, ReplyInv, NEW r \in Request, TaskOK(r), SendFragment(r)
  PROVE  TextInv'
<1>1. TextOf(req[r], gate[r].acc, sup[r], worker[r], chan[r], seen[r])
      /\ sup[r].pc \in {"stream", "accept"} /\ worker[r].pc = "read" /\ worker[r].out # <<>>
      /\ UNCHANGED <<req, gate, sup, seen>>
  BY DEF TextInv, TextOK, TaskOK, SendFragment, Upstream
<1>2. PICK f, out, ch : f = Head(worker[r].out) /\ out = Tail(worker[r].out) /\ ch = Append(chan[r], f)
  OBVIOUS
<1>3. /\ worker'[r].pc = "read" /\ worker'[r].d = worker[r].d /\ worker'[r].out = out
      /\ worker'[r].last = worker[r].last /\ chan'[r] = ch
      /\ \A q \in Request \ {r} : worker'[q] = worker[q] /\ chan'[q] = chan[q]
  BY <1>1, <1>2 DEF SendFragment, Shapes, ReplyInv
<1>4. /\ FragmentOK(f) /\ FragmentsOK(out) /\ Contents(worker[r].out) = Amount(f) + Contents(out)
      /\ FragmentsOK(ch) /\ Contents(ch) = Contents(chan[r]) + Amount(f) /\ FragmentsOK(chan[r])
  <2>1. FragmentsOK(worker[r].out) /\ FragmentsOK(chan[r])
    BY <1>1 DEF TextOf, Sending
  <2>2. FragmentOK(f) /\ FragmentsOK(out) /\ Contents(worker[r].out) = Amount(f) + Contents(out)
    BY <1>1, <1>2, <2>1, ContentsSplit
  <2> QED BY <1>2, <2>1, <2>2, ContentsAppend
<1>5. PICK t \in Nat : t = Taken(gate[r].acc, sup[r], chan[r])
  BY <1>1, TakenType
<1>6. PICK a \in Nat, k \in Nat : a = Amount(f) /\ k = Contents(out)
  <2>1. Amount(f) \in Nat /\ Contents(out) \in Nat
    BY <1>4, ContentsType DEF FragmentOK, Amount
  <2> QED BY <2>1
<1>7. Taken(gate[r].acc, sup[r], ch) = t + a
  <2>1. PICK x : x = IF sup[r].pc = "accept" THEN Amount(sup[r].frag) ELSE 0
    OBVIOUS
  <2>2. x \in Nat /\ gate[r].acc.content \in Nat /\ Contents(chan[r]) \in Nat
    BY <1>1, <1>4, <2>1, ContentsType DEF TextOf, AccOK, FragmentOK, Amount
  <2>3. PICK n \in Nat, c \in Nat : n = gate[r].acc.content /\ c = Contents(chan[r])
    BY <2>2
  <2>4. t = n + x + c /\ Taken(gate[r].acc, sup[r], ch) = n + x + (c + a)
    BY <1>4, <1>5, <1>6, <2>1, <2>3 DEF Taken
  <2> QED BY <2>2, <2>3, <2>4
<1>8. t + Contents(worker[r].out) = Taken(gate[r].acc, sup[r], ch) + Contents(out)
  BY <1>4, <1>6, <1>7
<1>9. ASSUME NEW w, w.pc = "read", w.d = worker[r].d, w.out = out, w.last = worker[r].last
      PROVE  TextOf(req[r], gate[r].acc, sup[r], w, ch, seen[r])
  <2>1. Sending(w, seen[r].claimed, Taken(gate[r].acc, sup[r], ch))
    <3>1. Sending(worker[r], seen[r].claimed, t)
      BY <1>1, <1>5 DEF TextOf
    <3>2. PICK z : z = t + Contents(worker[r].out)
      OBVIOUS
    <3>3. z = Taken(gate[r].acc, sup[r], ch) + Contents(w.out)
      BY <1>8, <1>9, <3>2
    <3>4. worker[r].last => seen[r].claimed = z
      BY <1>1, <3>1, <3>2 DEF Sending
    <3>5. ~worker[r].last => /\ DecoderOK(worker[r].d) /\ worker[r].d.format \in Formats
                             /\ Balanced(worker[r].d, seen[r].claimed, z)
      BY <1>1, <3>1, <3>2 DEF Sending
    <3> QED BY <1>4, <1>9, <3>3, <3>4, <3>5 DEF Sending
  <2>2. seen[r].claimed \in Nat
    BY <1>1 DEF TextOf
  <2> QED BY <1>1, <1>4, <2>1, <2>2, WorkText
<1>10. TextOK(r)'
  BY <1>1, <1>3, <1>9 DEF TextOK
<1> QED BY <1>1, <1>3, <1>10, TextStep

(* what the decoder makes of the end of the body, or of a chunk *)
LEMMA ReadText ==
  ASSUME Shapes, TextInv, NEW r \in Request, TaskOK(r), ReadChunk(r) \/ ReadEnd(r)
  PROVE  TextInv'
<1>1. TextOf(req[r], gate[r].acc, sup[r], worker[r], chan[r], seen[r])
      /\ sup[r].pc \in {"stream", "accept"} /\ worker[r].pc = "read" /\ worker[r].out = <<>> /\ ~worker[r].last
      /\ UNCHANGED <<req, gate, sup, chan>>
  BY DEF TextInv, TextOK, TaskOK, ReadChunk, ReadEnd, Reading, Upstream, Decoded, Returns
<1>2. PICK t \in Nat, c \in Nat : t = Taken(gate[r].acc, sup[r], chan[r]) /\ c = seen[r].claimed
  BY <1>1, TakenType DEF TextOf
<1>3. PICK d : d = worker[r].d
  OBVIOUS
<1>4. DecoderOK(d) /\ d.format \in Formats /\ Balanced(d, c, t)
  <2>1. t + Contents(<<>>) = t
    BY ContentsNone
  <2> QED BY <1>1, <1>2, <1>3, <2>1 DEF TextOf, Sending
<1>5. PICK o, last, n :
        /\ n \in Nat
        /\ Decoded(r, o, last)
        /\ seen'[r].shown = seen[r].shown /\ seen'[r].claimed = c + n
        /\ \A q \in Request \ {r} : seen'[q] = seen[q]
        /\ ~o.bad /\ ~last => Decoding(d.format, o, c + n, t)
        /\ ~o.bad /\ last => FragmentsOK(o.out) /\ c + n = t + Contents(o.out)
        /\ last \in BOOLEAN
  <2>1. CASE ReadChunk(r)
    <3>1. PICK ls \in Says[r][d.format] :
            /\ Decoded(r, Push(d, ls), FALSE)
            /\ seen' = [seen EXCEPT ![r].claimed = @ + Said(d.format, ls)]
      BY <1>3, <2>1 DEF ReadChunk
    <3>2. LinesOK(ls)
      BY <1>4, <3>1, InputAssumption
    <3>3. PICK n, o : n \in Nat /\ n = Said(d.format, ls) /\ o = Push(d, ls)
      BY <3>2, SaidType
    <3>4. /\ seen'[r].shown = seen[r].shown /\ seen'[r].claimed = c + n
          /\ \A q \in Request \ {r} : seen'[q] = seen[q]
      BY <1>2, <3>1, <3>3 DEF Shapes
    <3>5. ~o.bad => Decoding(d.format, o, c + n, t)
      BY <1>4, <3>2, <3>3, PushBalances
    <3>6. Decoded(r, o, FALSE)
      BY <3>1, <3>3
    <3>7. n \in Nat /\ FALSE \in BOOLEAN
      BY <3>3
    <3>8. PICK last : last = FALSE
      OBVIOUS
    <3>9. /\ Decoded(r, o, last)
          /\ ~o.bad /\ ~last => Decoding(d.format, o, c + n, t)
          /\ ~o.bad /\ last => FragmentsOK(o.out) /\ c + n = t + Contents(o.out)
          /\ last \in BOOLEAN
      BY <3>5, <3>6, <3>8
    <3> QED BY <3>4, <3>7, <3>9, Zenon
  <2>2. CASE ReadEnd(r)
    <3>1. PICK o : o = Finish(d)
      OBVIOUS
    <3>2. Decoded(r, o, TRUE) /\ UNCHANGED seen
      BY <1>3, <2>2, <3>1 DEF ReadEnd
    <3>3. ~o.bad => FragmentsOK(o.out) /\ c = t + Contents(o.out)
      BY <1>4, <3>1, FinishBalances
    <3>4. c + 0 = c
      OBVIOUS
    <3> QED BY <1>2, <3>2, <3>3, <3>4
  <2> QED BY <2>1, <2>2
<1>6. c + n \in Nat
  BY <1>5
<1>7. CASE o.bad
  <2>1. Returns(r, "Provider")
    BY <1>5, <1>7 DEF Decoded
  <2>2. /\ worker'[r].pc = "closing" /\ worker'[r].result = "Provider"
        /\ \A q \in Request \ {r} : worker'[q] = worker[q]
    BY <2>1 DEF Returns, Shapes, NoWorker
  <2>3. ASSUME NEW w, w.pc = "closing", w.result = "Provider", NEW x, x.shown = seen[r].shown, x.claimed = c + n
        PROVE  TextOf(req[r], gate[r].acc, sup[r], w, chan[r], x)
    <3>1. Sending(w, x.claimed, Taken(gate[r].acc, sup[r], chan[r]))
      BY <2>3 DEF Sending
    <3>2. x.claimed \in Nat /\ FragmentsOK(chan[r])
      BY <1>1, <1>6, <2>3 DEF TextOf
    <3>3. x.shown = seen[r].shown
      BY <2>3
    <3> QED BY <1>1, <3>1, <3>2, <3>3, WorkText
  <2>4. TextOK(r)'
    BY <1>1, <1>5, <2>2, <2>3 DEF TextOK
  <2> QED BY <1>1, <1>5, <2>2, <2>4, TextStep
<1>8. CASE ~o.bad
  <2>1. worker' = [worker EXCEPT ![r].d = o.d, ![r].out = o.out, ![r].last = last, ![r].chunks = @ + 1]
    BY <1>5, <1>8 DEF Decoded
  <2>2. /\ worker'[r].pc = "read" /\ worker'[r].d = o.d /\ worker'[r].out = o.out /\ worker'[r].last = last
        /\ \A q \in Request \ {r} : worker'[q] = worker[q]
    BY <1>1, <2>1 DEF Shapes
  <2>3. ASSUME NEW w, w.pc = "read", w.d = o.d, w.out = o.out, w.last = last,
               NEW x, x.shown = seen[r].shown, x.claimed = c + n
        PROVE  TextOf(req[r], gate[r].acc, sup[r], w, chan[r], x)
    <3>1. Sending(w, x.claimed, t)
      BY <1>4, <1>5, <1>8, <2>3 DEF Sending, Decoding
    <3>2. x.claimed \in Nat /\ FragmentsOK(chan[r])
      BY <1>1, <1>6, <2>3 DEF TextOf
    <3>3. x.shown = seen[r].shown
      BY <2>3
    <3>4. Sending(w, x.claimed, Taken(gate[r].acc, sup[r], chan[r]))
      BY <1>2, <3>1
    <3> QED BY <1>1, <3>2, <3>3, <3>4, WorkText
  <2>4. TextOK(r)'
    BY <1>1, <1>5, <2>2, <2>3 DEF TextOK
  <2> QED BY <1>1, <1>5, <2>2, <2>4, TextStep
<1> QED BY <1>7, <1>8

(* a request that is sent is sent in a format that has an adapter *)
LEMMA BuiltFormat ==
  ASSUME NEW conv, NEW config, NEW route, BuildRequest(conv, config, route) # None
  PROVE  BuildRequest(conv, config, route).format \in Formats
<1>1. BuildAdapter(route) /\ \E content : BuildRequest(conv, config, route) = Prepare(route.format, content)
  BY DEF BuildRequest
<1>2. PICK content : BuildRequest(conv, config, route) = Prepare(route.format, content)
  BY <1>1
<1>3. Prepare(route.format, content).format = route.format
  BY DEF Prepare
<1>4. PICK v, f : v = route.vendor /\ f = route.format
  OBVIOUS
<1>5. <<v, f>> \in Supports
  BY <1>1, <1>4 DEF BuildAdapter
<1>6. f \in Formats
  BY <1>5 DEF Supports, Formats
<1> QED BY <1>2, <1>3, <1>4, <1>6

(* steps of the World and the Driver, by what they leave of a request *)
LEMMA WorldText ==
  ASSUME TextInv, UNCHANGED <<sup, worker, chan, seen>>,
         \A q \in Request : gate'[q].acc = gate[q].acc,
         \A q \in Request :
            /\ req'[q].phase = req[q].phase \/ (req'[q].phase # "launch" /\ sup[q].pc # "ready")
            /\ req'[q].body = req[q].body \/ (req'[q].phase # "launch" /\ sup[q].pc # "ready")
            /\ req'[q].reply = req[q].reply \/ req'[q].reply.kind \notin {"ok", "frozen"}
  PROVE  TextInv'
<1>1. ASSUME NEW q \in Request PROVE TextOK(q)'
  <2>1. TextOf(req[q], gate[q].acc, sup[q], worker[q], chan[q], seen[q])
    BY DEF TextInv, TextOK
  <2>2. PICK x : x = req'[q]
    OBVIOUS
  <2>3. TextOf(x, gate[q].acc, sup[q], worker[q], chan[q], seen[q])
    BY <2>1, <2>2, TextKept
  <2> QED BY <2>2, <2>3 DEF TextOK
<1> QED BY <1>1 DEF TextInv

(* a request that is taken has a body in a format that has an adapter *)
LEMMA HandleText ==
  ASSUME Shapes, TextInv, NEW r \in Request, TaskOK(r), HandleInference(r)
  PROVE  TextInv'
<1>1. req[r].phase = "queued" /\ sup[r].pc = "off" /\ UNCHANGED <<gate, sup, worker, chan, seen>>
      /\ TextOf(req[r], gate[r].acc, sup[r], worker[r], chan[r], seen[r])
  BY DEF TaskOK, HandleInference, tasks, TextInv, TextOK
<1>2. CASE \E a : Reply(r, a) /\ a.kind \notin {"ok", "frozen"}
  <2>1. PICK a : Reply(r, a) /\ a.kind \notin {"ok", "frozen"}
    BY <1>2
  <2>2. req'[r] = [NoRequest EXCEPT !.phase = "over", !.turn = req[r].turn, !.vm = req[r].vm, !.reply = a]
        /\ \A q \in Request \ {r} : req'[q] = req[q]
    BY <2>1 DEF Reply, Shapes
  <2>3. req'[r].phase = "over" /\ req'[r].reply = a
    BY <2>2 DEF NoRequest
  <2>4. \A q \in Request :
            /\ req'[q].phase = req[q].phase \/ (req'[q].phase # "launch" /\ sup[q].pc # "ready")
            /\ req'[q].body = req[q].body \/ (req'[q].phase # "launch" /\ sup[q].pc # "ready")
            /\ req'[q].reply = req[q].reply \/ req'[q].reply.kind \notin {"ok", "frozen"}
    BY <1>1, <2>1, <2>2, <2>3
  <2> QED BY <1>1, <2>4, WorldText
<1>3. CASE \E body : /\ body = BuildRequest(req[r].ask.conv, req[r].ask.config, req[r].ask.route) /\ body # None
                     /\ req' = [req EXCEPT ![r].phase = "launch", ![r].body = body]
  <2>1. PICK body : /\ body = BuildRequest(req[r].ask.conv, req[r].ask.config, req[r].ask.route) /\ body # None
                    /\ req' = [req EXCEPT ![r].phase = "launch", ![r].body = body]
    BY <1>3
  <2>2. body.format \in Formats
    BY <2>1, BuiltFormat
  <2>3. /\ req'[r].body = body /\ req'[r].reply = req[r].reply
        /\ \A q \in Request \ {r} : req'[q] = req[q]
    BY <2>1 DEF Shapes, ReqFields
  <2>4. ASSUME NEW q, q.body = body, q.reply = req[r].reply
        PROVE  TextOf(q, gate[r].acc, sup[r], worker[r], chan[r], seen[r])
    BY <1>1, <2>2, <2>4 DEF TextOf
  <2>5. TextOK(r)'
    BY <1>1, <2>3, <2>4 DEF TextOK
  <2> QED BY <1>1, <2>3, <2>5, TextStep
<1>4. (\E a : Reply(r, a) /\ a.kind \notin {"ok", "frozen"}) \/
      \E body : /\ body = BuildRequest(req[r].ask.conv, req[r].ask.config, req[r].ask.route) /\ body # None
                /\ req' = [req EXCEPT ![r].phase = "launch", ![r].body = body]
  BY Kinds DEF HandleInference
<1> QED BY <1>2, <1>3, <1>4

(* asking uses the last answer up *)
LEMMA AskText ==
  ASSUME Shapes, TextInv, NEW r \in Request, TaskOK(r), Ask(r)
  PROVE  TextInv'
<1>1. sup[r].pc = "off" /\ UNCHANGED <<gate, sup, worker, chan, seen>>
  BY DEF TaskOK, Ask, tasks
<1>2. PICK ask : req' = [q \in Request |->
                 IF q = r
                 THEN [NoRequest EXCEPT !.phase = "queued", !.turn = agent.turn, !.vm = agent.vm, !.ask = ask]
                 ELSE [req[q] EXCEPT !.reply = IF q < r THEN Used ELSE @]]
  BY DEF Ask
<1>3. req'[r].phase = "queued" /\ req'[r].reply = NoReply
  <2>1. req'[r] = [NoRequest EXCEPT !.phase = "queued", !.turn = agent.turn, !.vm = agent.vm, !.ask = ask]
    BY <1>2
  <2> QED BY <2>1 DEF NoRequest
<1>4. ASSUME NEW q \in Request \ {r}
      PROVE  req'[q].phase = req[q].phase /\ req'[q].body = req[q].body /\ req'[q].reply \in {req[q].reply, Used}
  <2>1. req'[q] = [req[q] EXCEPT !.reply = IF q < r THEN Used ELSE @]
    BY <1>2
  <2> QED BY <2>1 DEF Shapes, ReqFields
<1>5. \A q \in Request :
            /\ req'[q].phase = req[q].phase \/ (req'[q].phase # "launch" /\ sup[q].pc # "ready")
            /\ req'[q].body = req[q].body \/ (req'[q].phase # "launch" /\ sup[q].pc # "ready")
            /\ req'[q].reply = req[q].reply \/ req'[q].reply.kind \notin {"ok", "frozen"}
  BY <1>1, <1>3, <1>4, Kinds
<1> QED BY <1>1, <1>5, WorldText

(* cancelling a request or ceasing to listen changes nothing else of it *)
LEMMA CancelText ==
  ASSUME Shapes, NEW x, req' = [req EXCEPT ![x].cancel = TRUE] \/ req' = [req EXCEPT ![x].heard = FALSE] \/ UNCHANGED req
  PROVE  \A q \in Request : /\ req'[q].phase = req[q].phase /\ req'[q].body = req[q].body
                            /\ req'[q].reply = req[q].reply
<1> SUFFICES ASSUME NEW q \in Request
             PROVE  /\ req'[q].phase = req[q].phase /\ req'[q].body = req[q].body
                    /\ req'[q].reply = req[q].reply
  OBVIOUS
<1>1. req'[q] = req[q] \/ req'[q] = [req[q] EXCEPT !.cancel = TRUE] \/ req'[q] = [req[q] EXCEPT !.heard = FALSE]
  BY DEF Shapes
<1> QED BY <1>1 DEF Shapes, ReqFields

(* steps of the Agent leave the text *)
LEMMA AgentText ==
  ASSUME Shapes, TextInv, UNCHANGED <<sup, worker, chan, seen>>,
         NEW x, req' = [req EXCEPT ![x].cancel = TRUE] \/ req' = [req EXCEPT ![x].heard = FALSE] \/ UNCHANGED req,
         NEW y, gate' = [gate EXCEPT ![y].closed = TRUE] \/ UNCHANGED gate
  PROVE  TextInv'
<1>1. \A q \in Request : gate'[q].acc = gate[q].acc
  BY GateOnly
<1>2. \A q \in Request : /\ req'[q].phase = req[q].phase /\ req'[q].body = req[q].body
                         /\ req'[q].reply = req[q].reply
  BY CancelText
<1> QED BY <1>1, <1>2, WorldText

(* every step keeps the text *)
LEMMA NextText ==
  ASSUME InferenceInv, ReplyInv, TextInv, [Next]_vars
  PROVE  TextInv'
<1>1. Shapes /\ \A r \in Request : TaskOK(r)
  BY DEF InferenceInv
<1>2. CASE UNCHANGED vars
  BY <1>1, <1>2, AgentText DEF vars
<1>3. CASE StartTurn \/ FinishTurn \/ Joined
  BY <1>1, <1>3, AgentText DEF StartTurn, FinishTurn, Joined, tasks
<1>4. CASE Abort
  BY <1>1, <1>4, AgentText DEF Abort
<1>5. CASE WorldStep
  BY <1>1, <1>5, AgentText DEF WorldStep
<1>6. ASSUME NEW how, Stop(how) PROVE TextInv'
  BY <1>1, <1>6, AgentText DEF Stop, tasks
<1>7. ASSUME NEW r \in Request, HandleCleanup(r) \/ DropReply(r) PROVE TextInv'
  BY <1>1, <1>7, AgentText DEF HandleCleanup, DropReply, tasks
<1>8. ASSUME NEW r \in Request, SystemOf(r) PROVE TextInv'
  BY <1>1, <1>7, <1>8, HandleText, LaunchText, BeginText, StreamText, ReceiveText, JoinText, OverText, SendText,
     ReturnText DEF SystemOf
<1>9. ASSUME NEW r \in Request, \/ Ask(r) \/ LaunchFails(r) \/ JoinLate(r) \/ DropReply(r)
                                \/ Connect(r) \/ ReadChunk(r) \/ ReadEnd(r) \/ WorkerPanics(r)
      PROVE TextInv'
  BY <1>1, <1>7, <1>9, AskText, LaunchText, JoinText, ConnectText, ReadText, ReturnText
<1> QED
  BY <1>2, <1>3, <1>4, <1>5, <1>6, <1>8, <1>9 DEF Next, System, Environment

(* there is no text in the beginning *)
LEMMA InitText ==
  ASSUME Init
  PROVE  TextInv
<1>1. ASSUME NEW r \in Request PROVE TextOK(r)
  <2>1. /\ req[r] = NoRequest /\ gate[r].acc = NewAccumulator /\ sup[r].pc = "off" /\ chan[r] = <<>>
        /\ seen[r].shown = 0 /\ seen[r].claimed = 0
    BY <1>1 DEF Init, NoGate, NoSup
  <2>2. req[r].phase = "none" /\ req[r].reply.kind \notin {"ok", "frozen"}
    BY <2>1, Kinds DEF NoRequest
  <2> QED BY <2>1, <2>2, NewAcc, ContentsNone DEF TextOK, TextOf
<1> QED BY <1>1 DEF TextInv

(* the text invariant holds *)
LEMMA TextCorrect == Spec => []TextInv
  BY InvCorrect, InitReply, NextReply, InitText, NextText, PTL DEF Spec

(* The client was shown the text of an answer, all of it and no more,       *)
(* whether the response ended or was stopped; and an ended response has the *)
(* text the provider says it has, however the stream is cut into chunks and *)
(* whenever the worker, the supervisor and the World take their steps       *)
(* (finish, receive_stream, ResponseAccumulator).                           *)
THEOREM ReplyWholeCorrect == Spec => []ReplyWhole
<1>1. TextInv => ReplyWhole
  <2> SUFFICES ASSUME TextInv PROVE ReplyWhole
    OBVIOUS
  <2>1. ASSUME NEW r \in Request, sup[r].pc = "notify", req[r].reply.kind \in {"ok", "frozen"}
        PROVE  AnswerWhole(req[r].reply, seen[r])
    BY <2>1 DEF TextInv, TextOK, TextOf
  <2> QED BY <2>1 DEF ReplyWhole, AnswerWhole
<1> QED BY <1>1, TextCorrect, PTL

(***************************************************************************)
(* An answer can be asked again                                            *)
(***************************************************************************)
(* normalize, by the message it has come to *)
LEMMA FollowUnfolds ==
  ASSUME NEW conv, Len(conv) \in Nat
  PROVE  \E s : /\ s[0] = NothingYet
                /\ \A i \in 1 .. Len(conv) : s[i] = Follow(s[i - 1], conv[i])
                /\ Fold(Follow, NothingYet, conv) = s[Len(conv)]
<1> DEFINE Run(g, k) == g = [i \in 0 .. k |-> IF i = 0 THEN NothingYet ELSE Follow(g[i - 1], conv[i])]
           S == {k \in Nat : \E g : Run(g, k)}
<1>1. 0 \in S
  <2>1. Run([i \in 0 .. 0 |-> NothingYet], 0)
    OBVIOUS
  <2> QED BY <2>1
<1>2. ASSUME NEW k \in Nat, k \in S PROVE k + 1 \in S
  <2>1. PICK g : Run(g, k)
    BY <1>2
  <2>2. \A i \in 0 .. k : g[i] = IF i = 0 THEN NothingYet ELSE Follow(g[i - 1], conv[i])
    BY <2>1
  <2> DEFINE h == [i \in 0 .. k + 1 |-> IF i = 0 THEN NothingYet ELSE Follow(g[i - 1], conv[i])]
  <2>3. \A i \in 0 .. k : h[i] = g[i]
    BY <2>2
  <2>4. h = [i \in 0 .. k + 1 |-> IF i = 0 THEN NothingYet ELSE Follow(g[i - 1], conv[i])]
    OBVIOUS
  <2> HIDE DEF h
  <2>5. h = [i \in 0 .. k + 1 |-> IF i = 0 THEN NothingYet ELSE Follow(h[i - 1], conv[i])]
    <3>1. ASSUME NEW i \in 1 .. k + 1 PROVE h[i - 1] = g[i - 1]
      BY <2>3
    <3>2. ASSUME NEW i \in 0 .. k + 1
          PROVE  (IF i = 0 THEN NothingYet ELSE Follow(g[i - 1], conv[i]))
                 = (IF i = 0 THEN NothingYet ELSE Follow(h[i - 1], conv[i]))
      BY <3>1
    <3> QED BY <2>4, <3>2, Zenon
  <2> QED BY <2>5
<1> HIDE DEF S
<1>3. Len(conv) \in S
  BY <1>1, <1>2, NatSetInduction
<1> USE DEF S
<1>4. PICK g : Run(g, Len(conv))
  BY <1>3
<1> DEFINE f == CHOOSE g1 : Run(g1, Len(conv))
<1>5. Run(f, Len(conv))
  BY <1>4
<1>6. Fold(Follow, NothingYet, conv) = f[Len(conv)]
  BY DEF Fold
<1> HIDE DEF f
<1>7. /\ f[0] = NothingYet /\ \A i \in 1 .. Len(conv) : f[i] = Follow(f[i - 1], conv[i])
  BY <1>5
<1> QED
  BY <1>6, <1>7

(* what a message does to what is pending *)
LEMMA Follows ==
  ASSUME NEW s, NEW m
  PROVE  /\ Follow(s, m).ok <=> s.ok /\ ImagesFit(m) /\ Fits(s, m)
         /\ m.role = "assistant" => /\ Follow(s, m).pending = s.pending \cup ToSet(m.calls)
                                    /\ Follow(s, m).seen = s.seen \cup ToSet(m.calls)
         /\ m.role = "tool" => /\ Follow(s, m).pending = s.pending \ {m.call}
                               /\ Follow(s, m).seen = s.seen
         /\ m.role \in {"system", "user"} => Follow(s, m).pending = s.pending /\ Follow(s, m).seen = s.seen
  BY DEF Follow

(* the fields of the messages of a history *)
LEMMA Roles ==
  /\ \A n : User(n).role = "user" /\ User(n).images = n /\ User(n).sound = TRUE
  /\ \A c, n : /\ ToolResult(c, n).role = "tool" /\ ToolResult(c, n).images = n /\ ToolResult(c, n).sound = TRUE
               /\ ToolResult(c, n).call = c
  /\ \A t, k, c, p : /\ Assistant(t, k, c, p).role = "assistant" /\ Assistant(t, k, c, p).calls = c
                     /\ Assistant(t, k, c, p).text = t
  BY DEF User, ToolResult, Assistant

(* the history that goes on from an answer, message by message *)
LEMMA ContinueIs ==
  ASSUME NEW a, AnswerOK(a)
  PROVE  LET conv == Continue(a) n == Len(a.calls)
         IN /\ n \in Nat /\ DOMAIN a.calls = 1 .. n
            /\ \/ /\ Len(conv) = n + 2 /\ conv[1] = User(0)
                  /\ conv[2].role = "assistant" /\ conv[2].calls = a.calls /\ Speaks(conv[2])
                  /\ \A i \in 1 .. n : conv[i + 2] = ToolResult(a.calls[i], i % 2)
               \/ n = 0 /\ Len(conv) = 1 /\ conv[1] = User(0)
<1> DEFINE n == Len(a.calls)
           said == Assistant(a.content > 0, a.reasoning > 0, a.calls, a.replay)
           mid == IF Speaks(said) THEN <<said>> ELSE <<>>
           results == [i \in DOMAIN a.calls |-> ToolResult(a.calls[i], i % 2)]
           user == <<User(0)>>
           pre == user \o mid
           conv == pre \o results
<1>1. n \in Nat /\ DOMAIN a.calls = 1 .. n
  BY SeqIs DEF AnswerOK
<1>2. conv = Continue(a)
  BY DEF Continue
<1>3. said.role = "assistant" /\ said.calls = a.calls
  BY Roles
<1>4. IsSeq(user) /\ Len(user) = 1 /\ user[1] = User(0)
  BY SeqOne
<1>5. IsSeq(results) /\ Len(results) = n /\ \A i \in 1 .. n : results[i] = ToolResult(a.calls[i], i % 2)
  <2>1. results \in [1 .. n -> {results[i] : i \in 1 .. n}]
    BY <1>1
  <2>2. results \in Seq({results[i] : i \in 1 .. n}) /\ Len(results) = n
    BY <1>1, <2>1
  <2>3. \A i \in 1 .. n : results[i] = ToolResult(a.calls[i], i % 2)
    BY <1>1
  <2> QED BY <2>2, <2>3 DEF IsSeq
<1> HIDE DEF user, results, n, said
<1>6. CASE Speaks(said)
  <2>1. mid = <<said>>
    BY <1>6
  <2>2. IsSeq(mid) /\ Len(mid) = 1 /\ mid[1] = said
    BY <2>1, SeqOne
  <2> HIDE DEF mid
  <2>3. IsSeq(pre) /\ Len(pre) = 2 /\ pre[1] = User(0) /\ pre[2] = said
    <3>1. /\ IsSeq(pre) /\ Len(pre) = Len(user) + Len(mid)
          /\ \A i \in 1 .. Len(user) : pre[i] = user[i]
          /\ \A i \in 1 .. Len(mid) : pre[Len(user) + i] = mid[i]
      <4>1. IsSeq(user) /\ IsSeq(mid)
        BY <1>4, <2>2
      <4> QED BY <4>1, SeqConcat
    <3>2. pre[1] = user[1]
      BY <1>4, <3>1
    <3>3. pre[1 + 1] = mid[1]
      BY <1>4, <2>2, <3>1
    <3> QED BY <1>4, <2>2, <3>1, <3>2, <3>3
  <2> HIDE DEF pre
  <2>4. Len(conv) = n + 2 /\ conv[1] = User(0) /\ conv[2] = said /\ \A i \in 1 .. n : conv[i + 2] = results[i]
    <3>1. /\ Len(conv) = Len(pre) + Len(results)
          /\ \A i \in 1 .. Len(pre) : conv[i] = pre[i]
          /\ \A i \in 1 .. Len(results) : conv[Len(pre) + i] = results[i]
      <4>1. IsSeq(pre) /\ IsSeq(results)
        BY <1>5, <2>3
      <4> QED BY <4>1, SeqConcat
    <3>2. conv[1] = pre[1] /\ conv[2] = pre[2]
      BY <2>3, <3>1
    <3>3. ASSUME NEW i \in 1 .. n PROVE conv[i + 2] = results[i]
      <4>1. Len(pre) + i = i + 2
        BY <1>1, <2>3
      <4> QED BY <1>5, <3>1, <4>1
    <3> HIDE DEF conv
    <3> QED BY <1>1, <1>5, <2>3, <3>1, <3>2, <3>3
  <2> HIDE DEF conv
  <2> QED BY <1>1, <1>2, <1>3, <1>5, <1>6, <2>4 DEF n
<1>7. CASE ~Speaks(said)
  <2>1. mid = <<>> /\ a.calls = <<>>
    BY <1>3, <1>7 DEF Speaks
  <2>2. n = 0 /\ IsSeq(mid) /\ Len(mid) = 0
    BY <2>1, SeqNone DEF n
  <2> HIDE DEF mid
  <2>3. IsSeq(pre) /\ Len(pre) = 1 /\ pre[1] = User(0)
    <3>1. /\ IsSeq(pre) /\ Len(pre) = Len(user) + Len(mid)
          /\ \A i \in 1 .. Len(user) : pre[i] = user[i]
      <4>1. IsSeq(user) /\ IsSeq(mid)
        BY <1>4, <2>2
      <4> QED BY <4>1, SeqConcat
    <3>2. pre[1] = user[1]
      BY <1>4, <3>1
    <3> QED BY <1>4, <2>2, <3>1, <3>2
  <2> HIDE DEF pre
  <2>4. Len(conv) = 1 /\ conv[1] = User(0)
    <3>1. /\ Len(conv) = Len(pre) + Len(results)
          /\ \A i \in 1 .. Len(pre) : conv[i] = pre[i]
      <4>1. IsSeq(pre) /\ IsSeq(results)
        BY <1>5, <2>3
      <4> QED BY <4>1, SeqConcat
    <3>2. conv[1] = pre[1]
      BY <2>3, <3>1
    <3> HIDE DEF conv
    <3> QED BY <1>5, <2>2, <2>3, <3>1, <3>2
  <2> HIDE DEF conv
  <2> QED BY <1>1, <1>2, <2>2, <2>4 DEF n
<1> QED BY <1>6, <1>7

(* an answer whose calls have ids of their own, with their results, can be   *)
(* asked again                                                              *)
LEMMA Replays ==
  ASSUME NEW a, AnswerOK(a)
  PROVE  Normalize(Continue(a), [valid |-> TRUE])
<1> DEFINE c == Continue(a)
<1>1. PICK conv, n, calls : conv = Continue(a) /\ n = Len(a.calls) /\ calls = a.calls
  OBVIOUS
<1>2. /\ n \in Nat /\ DOMAIN calls = 1 .. n
      /\ \/ /\ Len(conv) = n + 2 /\ conv[1] = User(0)
            /\ conv[2].role = "assistant" /\ conv[2].calls = calls /\ Speaks(conv[2])
            /\ \A i \in 1 .. n : conv[i + 2] = ToolResult(calls[i], i % 2)
         \/ n = 0 /\ Len(conv) = 1 /\ conv[1] = User(0)
  BY <1>1, ContinueIs
<1>3. /\ \A i \in 1 .. n : calls[i] # <<>>
      /\ \A i, j \in 1 .. n : i # j => calls[i] # calls[j]
  BY <1>1, <1>2 DEF AnswerOK
<1>4. Len(conv) \in Nat /\ Len(conv) > 0
  BY <1>2
<1>5. PICK s : /\ s[0] = NothingYet
               /\ \A i \in 1 .. Len(conv) : s[i] = Follow(s[i - 1], conv[i])
               /\ Fold(Follow, NothingYet, conv) = s[Len(conv)]
  BY <1>4, FollowUnfolds
<1>6. s[1].ok /\ s[1].pending = {} /\ s[1].seen = {}
  <2>1. s[1] = Follow(s[0], User(0))
    BY <1>2, <1>4, <1>5
  <2>2. s[0].ok /\ s[0].pending = {} /\ s[0].seen = {}
    BY <1>5 DEF NothingYet
  <2>3. PICK m : m = User(0)
    OBVIOUS
  <2>4. m.role = "user" /\ m.images = 0 /\ m.sound
    BY <2>3, Roles
  <2>5. ImagesFit(m) /\ Fits(s[0], m)
    BY <2>2, <2>4, ImagesAssumption DEF ImagesFit, Fits
  <2> QED BY <2>1, <2>2, <2>3, <2>4, <2>5, Follows
<1>7. CASE n = 0 /\ Len(conv) = 1 /\ conv[1] = User(0)
  <2>1. conv # <<>>
    BY <1>4
  <2>2. Fold(Follow, NothingYet, conv) = s[1]
    BY <1>5, <1>7
  <2> QED BY <1>1, <1>6, <2>1, <2>2 DEF Normalize
<1>8. CASE /\ Len(conv) = n + 2 /\ conv[1] = User(0)
           /\ conv[2].role = "assistant" /\ conv[2].calls = calls /\ Speaks(conv[2])
           /\ \A i \in 1 .. n : conv[i + 2] = ToolResult(calls[i], i % 2)
  <2>1. s[2].ok /\ s[2].pending = {calls[i] : i \in 1 .. n}
    <3>1. s[2] = Follow(s[1], conv[2])
      <4>1. 2 \in 1 .. Len(conv) /\ 2 - 1 = 1
        BY <1>2, <1>8
      <4> QED BY <1>5, <4>1
    <3>2. PICK m : m = conv[2]
      OBVIOUS
    <3>3. ImagesFit(m)
      BY <1>8, <3>2 DEF ImagesFit
    <3>4. NewIds(m.calls, {})
      BY <1>2, <1>3, <1>8, <3>2 DEF NewIds
    <3>5. Fits(s[1], m)
      BY <1>6, <1>8, <3>2, <3>4 DEF Fits
    <3>6. ToSet(calls) = {calls[i] : i \in 1 .. n}
      BY <1>2 DEF ToSet
    <3> QED BY <1>6, <1>8, <3>1, <3>2, <3>3, <3>5, <3>6, Follows
  <2> DEFINE T == {k \in Nat : k <= n => s[k + 2].ok /\ s[k + 2].pending = {calls[i] : i \in k + 1 .. n}}
  <2>2. 0 \in T
    BY <2>1
  <2>3. ASSUME NEW k \in Nat, k \in T PROVE k + 1 \in T
    <3>1. PICK j : j = k + 1
      OBVIOUS
    <3>2. ASSUME j <= n
          PROVE  s[j + 2].ok /\ s[j + 2].pending = {calls[i] : i \in j + 1 .. n}
      <4>1. k <= n /\ j \in 1 .. n /\ j + 2 \in 1 .. Len(conv) /\ (j + 2) - 1 = k + 2
        BY <1>2, <1>8, <3>1, <3>2
      <4>2. s[k + 2].ok /\ s[k + 2].pending = {calls[i] : i \in j .. n}
        BY <2>3, <3>1, <4>1
      <4>3. PICK m : m = conv[j + 2]
        OBVIOUS
      <4>4. m.role = "tool" /\ m.images = j % 2 /\ m.sound /\ m.call = calls[j]
        BY <1>8, <4>1, <4>3, Roles
      <4>5. ImagesFit(m)
        <5>1. j % 2 <= MaxImages
          BY <4>1, ImagesAssumption
        <5> QED BY <4>4, <5>1 DEF ImagesFit
      <4>6. calls[j] \in s[k + 2].pending
        BY <4>1, <4>2
      <4>7. s[k + 2].pending \ {calls[j]} = {calls[i] : i \in j + 1 .. n}
        <5>1. \A i \in j .. n : i \in 1 .. n /\ (i = j \/ i \in j + 1 .. n)
          BY <1>2, <4>1
        <5>0. j \in Nat /\ n \in Nat
          BY <1>2, <4>1
        <5>2. \A i \in j + 1 .. n : i \in j .. n /\ i # j
          BY <5>0
        <5>3. ASSUME NEW x, x \in s[k + 2].pending \ {calls[j]} PROVE x \in {calls[i] : i \in j + 1 .. n}
          <6>1. PICK i \in j .. n : x = calls[i]
            BY <4>2, <5>3
          <6> QED BY <5>1, <5>3, <6>1
        <5>4. ASSUME NEW i \in j + 1 .. n PROVE calls[i] \in s[k + 2].pending \ {calls[j]}
          <6>1. i \in 1 .. n /\ i # j /\ i \in j .. n
            BY <5>1, <5>2
          <6> QED BY <1>3, <4>1, <4>2, <6>1
        <5> QED BY <5>3, <5>4
      <4>8. s[j + 2] = Follow(s[k + 2], m)
        BY <1>5, <4>1, <4>3
      <4>9. Fits(s[k + 2], m)
        BY <4>4, <4>6 DEF Fits
      <4>10. /\ Follow(s[k + 2], m).ok
             /\ Follow(s[k + 2], m).pending = s[k + 2].pending \ {calls[j]}
        BY <4>2, <4>4, <4>5, <4>9, Follows
      <4> QED BY <4>7, <4>8, <4>10
    <3> QED BY <3>1, <3>2
  <2>4. n \in T
    <3> HIDE DEF T
    <3> QED BY <1>2, <2>2, <2>3, NatSetInduction
  <2>5. s[n + 2].ok /\ s[n + 2].pending = {}
    BY <1>2, <2>4
  <2>6. conv # <<>>
    BY <1>4
  <2>7. Fold(Follow, NothingYet, conv) = s[n + 2]
    BY <1>5, <1>8
  <2> QED BY <1>1, <2>5, <2>6, <2>7 DEF Normalize
<1> QED BY <1>2, <1>7, <1>8

(* A response the Agent takes into its history, with one result for each of *)
(* its calls, passes normalize: what the accumulator accepts, the next      *)
(* request does not refuse (ResponseAccumulator::response, normalize).      *)
THEOREM AcceptedReplayableCorrect == Spec => []AcceptedReplayable
<1>1. TextInv => AcceptedReplayable
  <2> SUFFICES ASSUME TextInv PROVE AcceptedReplayable
    OBVIOUS
  <2>1. ASSUME NEW r \in Request, sup[r].pc = "notify", req[r].reply.kind \in {"ok", "frozen"}
        PROVE  Normalize(Continue(req[r].reply), [valid |-> TRUE])
    <3>1. AnswerOK(req[r].reply)
      BY <2>1 DEF TextInv, TextOK, TextOf
    <3> QED BY <3>1, Replays
  <2> QED BY <2>1 DEF AcceptedReplayable
<1> QED BY <1>1, TextCorrect, PTL

(***************************************************************************)
(* Calls and results in a history                                          *)
(***************************************************************************)
(* what normalize takes next, by the calls that are pending before and after *)
Goes(p, m, q) ==
  \/ /\ m.role = "assistant" /\ p = {} /\ q = ToSet(m.calls)
     /\ \A i, j \in DOMAIN m.calls : i # j => m.calls[i] # m.calls[j]
  \/ m.role = "tool" /\ m.call \in p /\ q = p \ {m.call}
  \/ m.role \in {"system", "user"} /\ p = {} /\ q = {}

(* the calls that are pending after each message of a history *)
PairedBy(conv, p) ==
  /\ p[0] = {} /\ p[Len(conv)] = {}
  /\ \A i \in 1 .. Len(conv) : Goes(p[i - 1], conv[i], p[i])

(* a history that normalize takes pairs its calls with results *)
LEMMA Pairs ==
  ASSUME NEW conv, ConversationOK(conv), NEW config, Normalize(conv, config)
  PROVE  /\ IsSeq(conv) /\ \A i \in 1 .. Len(conv) : MessageOK(conv[i])
         /\ \E p : PairedBy(conv, p)
<1>1. IsSeq(conv)
  BY DEF ConversationOK, IsSeq
<1>2. PICK n : n = Len(conv)
  OBVIOUS
<1>3. n \in Nat /\ DOMAIN conv = 1 .. n
  BY <1>1, <1>2, SeqIs
<1>4. \A i \in 1 .. n : MessageOK(conv[i])
  BY <1>3 DEF ConversationOK
<1>5. PICK f : /\ f[0] = NothingYet
               /\ \A i \in 1 .. n : f[i] = Follow(f[i - 1], conv[i])
               /\ Fold(Follow, NothingYet, conv) = f[n]
  BY <1>2, <1>3, FollowUnfolds
<1>6. f[n].ok /\ f[n].pending = {}
  BY <1>5 DEF Normalize
<1>7. \A i \in 1 .. n : f[i].ok <=> f[i - 1].ok /\ ImagesFit(conv[i]) /\ Fits(f[i - 1], conv[i])
  BY <1>5, Follows
<1> DEFINE S == {k \in Nat : k <= n => f[n - k].ok}
<1>8. 0 \in S
  BY <1>3, <1>6
<1>9. ASSUME NEW k \in Nat, k \in S PROVE k + 1 \in S
  <2>1. PICK i : i = n - k
    OBVIOUS
  <2>2. CASE k + 1 <= n
    <3>1. i \in 1 .. n /\ n - (k + 1) = i - 1 /\ k <= n
      BY <1>3, <2>1, <2>2
    <3>2. f[i].ok
      BY <1>9, <2>1, <3>1
    <3> QED BY <1>7, <3>1, <3>2
  <2>3. CASE ~(k + 1 <= n)
    BY <2>3
  <2> QED BY <2>2, <2>3
<1>10. \A k \in Nat : k \in S
  <2> HIDE DEF S
  <2> QED BY <1>8, <1>9, NatSetInduction
<1>11. \A i \in 0 .. n : f[i].ok
  <2> SUFFICES ASSUME NEW i \in 0 .. n PROVE f[i].ok
    OBVIOUS
  <2>1. PICK k : k = n - i
    OBVIOUS
  <2>2. k \in Nat /\ k <= n /\ n - k = i
    BY <1>3, <2>1
  <2> QED BY <1>10, <2>2
<1> HIDE DEF S
<1>12. \A i \in 1 .. n : Fits(f[i - 1], conv[i])
  BY <1>3, <1>7, <1>11
<1> DEFINE p == [i \in 0 .. n |-> f[i].pending]
<1>13. p[0] = {} /\ p[n] = {}
  BY <1>3, <1>5, <1>6 DEF NothingYet
<1>14. ASSUME NEW i \in 1 .. n PROVE Goes(p[i - 1], conv[i], p[i])
  <2>1. i - 1 \in 0 .. n /\ i \in 0 .. n
    BY <1>3
  <2>2. p[i - 1] = f[i - 1].pending /\ p[i] = f[i].pending
    BY <2>1
  <2>3. PICK s, m : s = f[i - 1] /\ m = conv[i]
    OBVIOUS
  <2>4. Fits(s, m) /\ f[i] = Follow(s, m)
    BY <1>5, <1>12, <2>3
  <2>5. CASE m.role = "assistant" /\ s.pending = {} /\ NewIds(m.calls, s.seen)
    <3>1. f[i].pending = ToSet(m.calls)
      BY <2>4, <2>5, Follows
    <3> QED BY <2>2, <2>3, <2>5, <3>1 DEF Goes, NewIds
  <2>6. CASE m.role = "tool" /\ m.call \in s.pending
    <3>1. f[i].pending = s.pending \ {m.call}
      BY <2>4, <2>6, Follows
    <3> QED BY <2>2, <2>3, <2>6, <3>1 DEF Goes
  <2>7. CASE m.role \in {"system", "user"} /\ s.pending = {}
    BY <2>2, <2>3, <2>4, <2>7, Follows DEF Goes
  <2> QED BY <2>4, <2>5, <2>6, <2>7 DEF Fits
<1> HIDE DEF p
<1>15. PairedBy(conv, p)
  BY <1>2, <1>13, <1>14 DEF PairedBy
<1> QED BY <1>1, <1>2, <1>4, <1>15

(***************************************************************************)
(* Responses                                                               *)
(***************************************************************************)
(* the responses encoder, by the message it has come to *)
LEMMA ResponsesUnfolds ==
  ASSUME NEW conv, Len(conv) \in Nat
  PROVE  \E s : /\ s[0] = <<>>
                /\ \A i \in 1 .. Len(conv) : s[i] = ResponsesStep(s[i - 1], conv[i])
                /\ ResponsesEncode(conv) = s[Len(conv)]
<1> DEFINE Run(g, k) == g = [i \in 0 .. k |-> IF i = 0 THEN <<>> ELSE ResponsesStep(g[i - 1], conv[i])]
           S == {k \in Nat : \E g : Run(g, k)}
<1>1. 0 \in S
  <2>1. Run([i \in 0 .. 0 |-> <<>>], 0)
    OBVIOUS
  <2> QED BY <2>1
<1>2. ASSUME NEW k \in Nat, k \in S PROVE k + 1 \in S
  <2>1. PICK g : Run(g, k)
    BY <1>2
  <2>2. \A i \in 0 .. k : g[i] = IF i = 0 THEN <<>> ELSE ResponsesStep(g[i - 1], conv[i])
    BY <2>1
  <2> DEFINE h == [i \in 0 .. k + 1 |-> IF i = 0 THEN <<>> ELSE ResponsesStep(g[i - 1], conv[i])]
  <2>3. \A i \in 0 .. k : h[i] = g[i]
    BY <2>2
  <2>4. h = [i \in 0 .. k + 1 |-> IF i = 0 THEN <<>> ELSE ResponsesStep(g[i - 1], conv[i])]
    OBVIOUS
  <2> HIDE DEF h
  <2>5. h = [i \in 0 .. k + 1 |-> IF i = 0 THEN <<>> ELSE ResponsesStep(h[i - 1], conv[i])]
    <3>1. ASSUME NEW i \in 1 .. k + 1 PROVE h[i - 1] = g[i - 1]
      BY <2>3
    <3>2. ASSUME NEW i \in 0 .. k + 1
          PROVE  (IF i = 0 THEN <<>> ELSE ResponsesStep(g[i - 1], conv[i]))
                 = (IF i = 0 THEN <<>> ELSE ResponsesStep(h[i - 1], conv[i]))
      BY <3>1
    <3> QED BY <2>4, <3>2, Zenon
  <2> QED BY <2>5
<1> HIDE DEF S
<1>3. Len(conv) \in S
  BY <1>1, <1>2, NatSetInduction
<1> USE DEF S
<1>4. PICK g : Run(g, Len(conv))
  BY <1>3
<1> DEFINE f == CHOOSE g1 : Run(g1, Len(conv))
<1>5. Run(f, Len(conv))
  BY <1>4
<1>6. ResponsesEncode(conv) = f[Len(conv)]
  BY DEF ResponsesEncode, Fold
<1> HIDE DEF f
<1>7. /\ f[0] = <<>> /\ \A i \in 1 .. Len(conv) : f[i] = ResponsesStep(f[i - 1], conv[i])
  BY <1>5
<1> QED
  BY <1>6, <1>7

CallItem(c) == [type |-> "function_call", id |-> c]
OutputItem(c) == [type |-> "function_call_output", id |-> c]

(* calls have their outputs or are pending, and outputs have their calls *)
ItemsPaired(p, out) ==
  /\ IsSeq(out)
  /\ \A i \in DOMAIN out :
       /\ out[i].type = "function_call" =>
            out[i].id \in p \/ \E j \in DOMAIN out : j > i /\ out[j] = OutputItem(out[i].id)
       /\ out[i].type = "function_call_output" =>
            \E j \in DOMAIN out : j < i /\ out[j] = CallItem(out[i].id)
  /\ \A c \in p : \E i \in DOMAIN out : out[i] = CallItem(c)

(* the items of a message: its calls, or its output, and no others *)
LEMMA ItemsOf ==
  ASSUME NEW m, MessageOK(m)
  PROVE  /\ IsSeq(Items(m))
         /\ m.role = "assistant" =>
              /\ \A i \in DOMAIN Items(m) :
                   /\ Items(m)[i].type # "function_call_output"
                   /\ Items(m)[i].type = "function_call" => Items(m)[i].id \in ToSet(m.calls)
              /\ \A c \in ToSet(m.calls) : \E i \in DOMAIN Items(m) : Items(m)[i] = CallItem(c)
         /\ m.role = "tool" => Items(m) = <<OutputItem(m.call)>>
         /\ m.role \in {"system", "user"} =>
              \A i \in DOMAIN Items(m) : Items(m)[i].type \in {"system", "user"}
<1>1. CASE m.role = "assistant"
  <2> DEFINE a == ReplayItems(m.replay, "responses")
             b == IF m.text THEN <<[type |-> "message"]>> ELSE <<>>
             c == [k \in DOMAIN m.calls |-> CallItem(m.calls[k])]
             ab == a \o b
             all == ab \o c
  <2>1. Items(m) = all
    BY <1>1 DEF Items, CallItem
  <2>2. IsSeq(a) /\ \A i \in DOMAIN a : a[i].type = "replay"
    BY SeqOne, SeqNone DEF ReplayItems
  <2>3. IsSeq(b) /\ \A i \in DOMAIN b : b[i].type = "message"
    BY SeqOne, SeqNone
  <2>4. /\ IsSeq(c) /\ DOMAIN c = DOMAIN m.calls /\ DOMAIN c = 1 .. Len(c)
        /\ \A i \in DOMAIN m.calls : c[i] = CallItem(m.calls[i])
    <3>1. IsSeq(m.calls)
      BY <1>1 DEF MessageOK, IsSeq
    <3>2. Len(m.calls) \in Nat /\ DOMAIN m.calls = 1 .. Len(m.calls)
      BY <3>1, SeqIs
    <3>3. c \in [1 .. Len(m.calls) -> {CallItem(m.calls[k]) : k \in DOMAIN m.calls}]
      BY <3>2
    <3>4. c \in Seq({CallItem(m.calls[k]) : k \in DOMAIN m.calls})
      BY <3>2, <3>3
    <3> QED BY <3>4, SeqIs DEF IsSeq
  <2> HIDE DEF a, b, c
  <2>5. IsSeq(ab) /\ \A i \in DOMAIN ab : ab[i].type \in {"replay", "message"}
    <3>1. /\ IsSeq(ab)
          /\ \A i \in DOMAIN ab : i > Len(a) => i - Len(a) \in 1 .. Len(b) /\ ab[i] = b[i - Len(a)]
          /\ \A i \in DOMAIN ab : ~(i > Len(a)) => i \in 1 .. Len(a)
          /\ \A i \in 1 .. Len(a) : ab[i] = a[i]
      <4>1. IsSeq(a) /\ IsSeq(b)
        BY <2>2, <2>3
      <4> QED BY <4>1, SeqConcat
    <3>2. DOMAIN a = 1 .. Len(a) /\ DOMAIN b = 1 .. Len(b)
      BY <2>2, <2>3, SeqIs
    <3> HIDE DEF ab
    <3>3. ASSUME NEW i \in DOMAIN ab PROVE ab[i].type \in {"replay", "message"}
      <4>1. CASE i > Len(a)
        BY <2>3, <3>1, <3>2, <4>1
      <4>2. CASE ~(i > Len(a))
        BY <2>2, <3>1, <3>2, <4>2
      <4> QED BY <4>1, <4>2
    <3> QED BY <3>1, <3>3
  <2> HIDE DEF ab
  <2>6. /\ IsSeq(all)
        /\ \A i \in DOMAIN all : i > Len(ab) => i - Len(ab) \in 1 .. Len(c) /\ all[i] = c[i - Len(ab)]
        /\ \A i \in DOMAIN all : ~(i > Len(ab)) => i \in 1 .. Len(ab)
        /\ \A i \in 1 .. Len(ab) : all[i] = ab[i]
        /\ \A i \in 1 .. Len(c) : Len(ab) + i \in DOMAIN all /\ all[Len(ab) + i] = c[i]
    <3>1. IsSeq(ab) /\ IsSeq(c)
      BY <2>4, <2>5
    <3> QED BY <3>1, SeqConcat
  <2> HIDE DEF all
  <2>7. DOMAIN ab = 1 .. Len(ab)
    BY <2>5, SeqIs
  <2>8. \A x : CallItem(x).type = "function_call" /\ CallItem(x).id = x
    BY DEF CallItem
  <2>9. ASSUME NEW i \in DOMAIN all
        PROVE  /\ all[i].type # "function_call_output"
               /\ all[i].type = "function_call" => all[i].id \in ToSet(m.calls)
    <3>1. CASE i > Len(ab)
      <4>1. PICK k : k = i - Len(ab)
        OBVIOUS
      <4>2. k \in DOMAIN m.calls /\ all[i] = CallItem(m.calls[k])
        BY <2>4, <2>6, <3>1, <4>1
      <4> QED BY <2>8, <4>2 DEF ToSet
    <3>2. CASE ~(i > Len(ab))
      BY <2>5, <2>6, <2>7, <3>2
    <3> QED BY <3>1, <3>2
  <2>10. ASSUME NEW x \in ToSet(m.calls) PROVE \E i \in DOMAIN all : all[i] = CallItem(x)
    <3>1. PICK k \in DOMAIN m.calls : x = m.calls[k]
      BY DEF ToSet
    <3>2. k \in 1 .. Len(c) /\ c[k] = CallItem(x)
      BY <2>4, <3>1
    <3> QED BY <2>6, <3>2
  <2> QED BY <1>1, <2>1, <2>6, <2>9, <2>10
<1>2. CASE m.role = "tool"
  <2>1. Items(m) = <<OutputItem(m.call)>>
    BY <1>2 DEF Items, OutputItem
  <2> QED BY <1>2, <2>1, SeqOne
<1>3. CASE m.role \in {"system", "user"}
  <2>1. Items(m) = <<[type |-> m.role]>>
    BY <1>3 DEF Items
  <2>2. PICK x : x = [type |-> m.role]
    OBVIOUS
  <2>3. Items(m) = <<x>> /\ x.type \in {"system", "user"}
    BY <1>3, <2>1, <2>2
  <2>4. IsSeq(<<x>>) /\ \A i \in DOMAIN <<x>> : <<x>>[i] = x
    BY SeqOne
  <2> QED BY <1>3, <2>3, <2>4
<1> QED BY <1>1, <1>2, <1>3 DEF MessageOK

(* a message keeps the items paired *)
LEMMA ResponsesGoes ==
  ASSUME NEW p, NEW out, ItemsPaired(p, out), NEW m, MessageOK(m), NEW q, Goes(p, m, q)
  PROVE  ItemsPaired(q, ResponsesStep(out, m))
<1>1. PICK its : its = Items(m)
  OBVIOUS
<1>2. PICK o : o = out \o its
  OBVIOUS
<1>3. o = ResponsesStep(out, m)
  BY <1>1, <1>2 DEF ResponsesStep
<1>4. IsSeq(out) /\ IsSeq(its)
  BY <1>1, ItemsOf DEF ItemsPaired
<1>5. /\ IsSeq(o)
      /\ \A i \in DOMAIN o : i > Len(out) => i - Len(out) \in 1 .. Len(its) /\ o[i] = its[i - Len(out)]
      /\ \A i \in DOMAIN o : ~(i > Len(out)) => i \in 1 .. Len(out)
      /\ \A i \in 1 .. Len(out) : i \in DOMAIN o /\ o[i] = out[i]
      /\ \A i \in 1 .. Len(its) : Len(out) + i \in DOMAIN o /\ o[Len(out) + i] = its[i]
  BY <1>2, <1>4, SeqConcat
<1>6. /\ DOMAIN out = 1 .. Len(out) /\ Len(out) \in Nat /\ DOMAIN its = 1 .. Len(its) /\ Len(its) \in Nat
      /\ Len(o) \in Nat /\ DOMAIN o = 1 .. Len(o)
  BY <1>4, <1>5, SeqIs
<1>7. \A i \in DOMAIN out : /\ i \in DOMAIN o /\ o[i] = out[i]
                            /\ \A j \in DOMAIN o : j > Len(out) => j > i
  BY <1>5, <1>6
<1>8. \A x : /\ CallItem(x).type = "function_call" /\ CallItem(x).id = x
             /\ OutputItem(x).type = "function_call_output" /\ OutputItem(x).id = x
  BY DEF CallItem, OutputItem
<1>9. CASE m.role = "assistant" /\ p = {} /\ q = ToSet(m.calls)
  <2>1. /\ \A i \in DOMAIN its : /\ its[i].type # "function_call_output"
                                 /\ its[i].type = "function_call" => its[i].id \in q
        /\ \A c \in q : \E i \in DOMAIN its : its[i] = CallItem(c)
    BY <1>1, <1>9, ItemsOf
  <2>2. ASSUME NEW i \in DOMAIN o
        PROVE  /\ o[i].type = "function_call" =>
                    o[i].id \in q \/ \E j \in DOMAIN o : j > i /\ o[j] = OutputItem(o[i].id)
               /\ o[i].type = "function_call_output" =>
                    \E j \in DOMAIN o : j < i /\ o[j] = CallItem(o[i].id)
    <3>1. CASE i > Len(out)
      BY <1>5, <1>6, <2>1, <3>1
    <3>2. CASE ~(i > Len(out))
      <4>1. i \in DOMAIN out /\ o[i] = out[i]
        BY <1>5, <1>6, <3>2
      <4> QED BY <1>7, <1>9, <4>1 DEF ItemsPaired
    <3> QED BY <3>1, <3>2
  <2>3. ASSUME NEW c \in q PROVE \E i \in DOMAIN o : o[i] = CallItem(c)
    <3>1. PICK i \in 1 .. Len(its) : its[i] = CallItem(c)
      BY <1>6, <2>1
    <3> QED BY <1>5, <3>1
  <2> QED BY <1>3, <1>5, <2>2, <2>3 DEF ItemsPaired
<1>10. CASE m.role = "tool" /\ m.call \in p /\ q = p \ {m.call}
  <2>1. its = <<OutputItem(m.call)>>
    BY <1>1, <1>10, ItemsOf
  <2>2. Len(its) = 1 /\ its[1] = OutputItem(m.call)
    BY <2>1, SeqOne
  <2>3. PICK n : n = Len(out) + 1
    OBVIOUS
  <2>4. n \in DOMAIN o /\ o[n] = OutputItem(m.call) /\ n \in Nat /\ \A i \in DOMAIN out : n > i
    BY <1>5, <1>6, <2>2, <2>3
  <2>5. \A i \in DOMAIN o : i \in DOMAIN out \/ i = n
    <3>1. ASSUME NEW i \in DOMAIN o, i > Len(out) PROVE i = n
      <4>1. i - Len(out) \in 1 .. 1 /\ i \in Nat
        BY <1>5, <1>6, <2>2, <3>1
      <4> QED BY <1>6, <2>3, <4>1
    <3> QED BY <1>5, <1>6, <3>1
  <2>6. ASSUME NEW i \in DOMAIN o
        PROVE  /\ o[i].type = "function_call" =>
                    o[i].id \in q \/ \E j \in DOMAIN o : j > i /\ o[j] = OutputItem(o[i].id)
               /\ o[i].type = "function_call_output" =>
                    \E j \in DOMAIN o : j < i /\ o[j] = CallItem(o[i].id)
    <3>1. CASE i \in DOMAIN out
      <4>1. o[i] = out[i]
        BY <1>7, <3>1
      <4>2. ASSUME o[i].type = "function_call", o[i].id \notin q
            PROVE  \E j \in DOMAIN o : j > i /\ o[j] = OutputItem(o[i].id)
        <5>1. CASE o[i].id = m.call
          BY <2>4, <3>1, <5>1
        <5>2. CASE o[i].id \notin p
          BY <1>7, <3>1, <4>1, <4>2, <5>2 DEF ItemsPaired
        <5> QED BY <1>10, <4>2, <5>1, <5>2
      <4>3. o[i].type = "function_call_output" => \E j \in DOMAIN o : j < i /\ o[j] = CallItem(o[i].id)
        BY <1>7, <3>1, <4>1 DEF ItemsPaired
      <4> QED BY <4>2, <4>3
    <3>2. CASE i = n
      <4>1. PICK j \in DOMAIN out : out[j] = CallItem(m.call)
        BY <1>10 DEF ItemsPaired
      <4>2. j \in DOMAIN o /\ o[j] = CallItem(m.call) /\ j < n
        BY <1>6, <1>7, <2>4, <4>1
      <4> QED BY <1>8, <2>4, <3>2, <4>2
    <3> QED BY <2>5, <3>1, <3>2
  <2>7. ASSUME NEW c \in q PROVE \E i \in DOMAIN o : o[i] = CallItem(c)
    BY <1>7, <1>10 DEF ItemsPaired
  <2> QED BY <1>3, <1>5, <2>6, <2>7 DEF ItemsPaired
<1>11. CASE m.role \in {"system", "user"} /\ p = {} /\ q = {}
  <2>1. \A i \in DOMAIN its : its[i].type \in {"system", "user"}
    BY <1>1, <1>11, ItemsOf
  <2>2. ASSUME NEW i \in DOMAIN o
        PROVE  /\ o[i].type = "function_call" =>
                    o[i].id \in q \/ \E j \in DOMAIN o : j > i /\ o[j] = OutputItem(o[i].id)
               /\ o[i].type = "function_call_output" =>
                    \E j \in DOMAIN o : j < i /\ o[j] = CallItem(o[i].id)
    <3>1. CASE i > Len(out)
      BY <1>5, <1>6, <2>1, <3>1
    <3>2. CASE ~(i > Len(out))
      <4>1. i \in DOMAIN out /\ o[i] = out[i]
        BY <1>5, <1>6, <3>2
      <4> QED BY <1>7, <1>11, <4>1 DEF ItemsPaired
    <3> QED BY <3>1, <3>2
  <2> QED BY <1>3, <1>5, <1>11, <2>2 DEF ItemsPaired
<1> QED BY <1>9, <1>10, <1>11 DEF Goes

(* every call of a responses request has its output after it and every      *)
(* output its call before                                                   *)
LEMMA ResponsesSound ==
  ASSUME NEW conv, ConversationOK(conv), NEW config, Normalize(conv, config)
  PROVE  ResponsesPaired(ResponsesEncode(conv))
<1>1. IsSeq(conv) /\ Len(conv) \in Nat /\ \A i \in 1 .. Len(conv) : MessageOK(conv[i])
  BY Pairs, SeqIs
<1>2. PICK p : PairedBy(conv, p)
  BY Pairs
<1>3. PICK s : /\ s[0] = <<>>
               /\ \A i \in 1 .. Len(conv) : s[i] = ResponsesStep(s[i - 1], conv[i])
               /\ ResponsesEncode(conv) = s[Len(conv)]
  BY <1>1, ResponsesUnfolds
<1> DEFINE S == {k \in Nat : k <= Len(conv) => ItemsPaired(p[k], s[k])}
<1>4. 0 \in S
  <2>1. ItemsPaired({}, <<>>)
    BY SeqNone DEF ItemsPaired
  <2> QED BY <1>2, <1>3, <2>1 DEF PairedBy
<1>5. ASSUME NEW k \in Nat, k \in S PROVE k + 1 \in S
  <2>1. PICK i : i = k + 1
    OBVIOUS
  <2>2. ASSUME i <= Len(conv) PROVE ItemsPaired(p[i], s[i])
    <3>1. i \in 1 .. Len(conv) /\ i - 1 = k /\ k <= Len(conv)
      BY <1>1, <2>1, <2>2
    <3>2. ItemsPaired(p[k], s[k]) /\ Goes(p[k], conv[i], p[i]) /\ s[i] = ResponsesStep(s[k], conv[i])
          /\ MessageOK(conv[i])
      BY <1>1, <1>2, <1>3, <1>5, <3>1 DEF PairedBy
    <3> QED BY <3>2, ResponsesGoes
  <2> QED BY <2>1, <2>2
<1>6. ItemsPaired(p[Len(conv)], s[Len(conv)])
  <2>1. Len(conv) \in S
    <3> HIDE DEF S
    <3> QED BY <1>1, <1>4, <1>5, NatSetInduction
  <2> QED BY <1>1, <2>1
<1>7. ItemsPaired({}, ResponsesEncode(conv))
  BY <1>2, <1>3, <1>6 DEF PairedBy
<1> QED BY <1>7 DEF ItemsPaired, ResponsesPaired, CallItem, OutputItem

(***************************************************************************)
(* Messages                                                                *)
(***************************************************************************)
(* the messages encoder, by the message it has come to *)
LEMMA MessagesUnfolds ==
  ASSUME NEW conv, Len(conv) \in Nat
  PROVE  \E s : /\ s[0] = <<>>
                /\ \A i \in 1 .. Len(conv) : s[i] = MessagesStep(s[i - 1], conv[i])
                /\ MessagesEncode(conv) = s[Len(conv)]
<1> DEFINE Run(g, k) == g = [i \in 0 .. k |-> IF i = 0 THEN <<>> ELSE MessagesStep(g[i - 1], conv[i])]
           S == {k \in Nat : \E g : Run(g, k)}
<1>1. 0 \in S
  <2>1. Run([i \in 0 .. 0 |-> <<>>], 0)
    OBVIOUS
  <2> QED BY <2>1
<1>2. ASSUME NEW k \in Nat, k \in S PROVE k + 1 \in S
  <2>1. PICK g : Run(g, k)
    BY <1>2
  <2>2. \A i \in 0 .. k : g[i] = IF i = 0 THEN <<>> ELSE MessagesStep(g[i - 1], conv[i])
    BY <2>1
  <2> DEFINE h == [i \in 0 .. k + 1 |-> IF i = 0 THEN <<>> ELSE MessagesStep(g[i - 1], conv[i])]
  <2>3. \A i \in 0 .. k : h[i] = g[i]
    BY <2>2
  <2>4. h = [i \in 0 .. k + 1 |-> IF i = 0 THEN <<>> ELSE MessagesStep(g[i - 1], conv[i])]
    OBVIOUS
  <2> HIDE DEF h
  <2>5. h = [i \in 0 .. k + 1 |-> IF i = 0 THEN <<>> ELSE MessagesStep(h[i - 1], conv[i])]
    <3>1. ASSUME NEW i \in 1 .. k + 1 PROVE h[i - 1] = g[i - 1]
      BY <2>3
    <3>2. ASSUME NEW i \in 0 .. k + 1
          PROVE  (IF i = 0 THEN <<>> ELSE MessagesStep(g[i - 1], conv[i]))
                 = (IF i = 0 THEN <<>> ELSE MessagesStep(h[i - 1], conv[i]))
      BY <3>1
    <3> QED BY <2>4, <3>2, Zenon
  <2> QED BY <2>5
<1> HIDE DEF S
<1>3. Len(conv) \in S
  BY <1>1, <1>2, NatSetInduction
<1> USE DEF S
<1>4. PICK g : Run(g, Len(conv))
  BY <1>3
<1> DEFINE f == CHOOSE g1 : Run(g1, Len(conv))
<1>5. Run(f, Len(conv))
  BY <1>4
<1>6. MessagesEncode(conv) = f[Len(conv)]
  BY DEF MessagesEncode, Fold
<1> HIDE DEF f
<1>7. /\ f[0] = <<>> /\ \A i \in 1 .. Len(conv) : f[i] = MessagesStep(f[i - 1], conv[i])
  BY <1>5
<1> QED
  BY <1>6, <1>7

Uses(t) == Ids(t.blocks, "tool_use")
Results(t) == Ids(t.blocks, "tool_result")

(* the ids in blocks joined *)
LEMMA IdsConcat ==
  ASSUME NEW a, NEW b, IsSeq(a), IsSeq(b), NEW type
  PROVE  Ids(a \o b, type) = Ids(a, type) \cup Ids(b, type)
<1>1. PICK c : c = a \o b
  OBVIOUS
<1>2. /\ \A i \in DOMAIN c : i > Len(a) => i - Len(a) \in 1 .. Len(b) /\ c[i] = b[i - Len(a)]
      /\ \A i \in DOMAIN c : ~(i > Len(a)) => i \in 1 .. Len(a)
      /\ \A i \in 1 .. Len(a) : i \in DOMAIN c /\ c[i] = a[i]
      /\ \A i \in 1 .. Len(b) : Len(a) + i \in DOMAIN c /\ c[Len(a) + i] = b[i]
  BY <1>1, SeqConcat
<1>3. DOMAIN a = 1 .. Len(a) /\ DOMAIN b = 1 .. Len(b)
  BY SeqIs
<1>4. ASSUME NEW x \in Ids(c, type) PROVE x \in Ids(a, type) \cup Ids(b, type)
  <2>1. PICK i \in DOMAIN c : c[i].type = type /\ x = c[i].id
    BY DEF Ids
  <2>2. CASE i > Len(a)
    <3>1. PICK k \in DOMAIN b : c[i] = b[k]
      BY <1>2, <1>3, <2>2
    <3> QED BY <2>1, <3>1 DEF Ids
  <2>3. CASE ~(i > Len(a))
    <3>1. i \in DOMAIN a /\ c[i] = a[i]
      BY <1>2, <1>3, <2>3
    <3> QED BY <2>1, <3>1 DEF Ids
  <2> QED BY <2>2, <2>3
<1>5. ASSUME NEW x \in Ids(a, type) PROVE x \in Ids(c, type)
  <2>1. PICK i \in DOMAIN a : a[i].type = type /\ x = a[i].id
    BY DEF Ids
  <2>2. i \in DOMAIN c /\ c[i] = a[i]
    BY <1>2, <1>3
  <2> QED BY <2>1, <2>2 DEF Ids
<1>6. ASSUME NEW x \in Ids(b, type) PROVE x \in Ids(c, type)
  <2>1. PICK i \in DOMAIN b : b[i].type = type /\ x = b[i].id
    BY DEF Ids
  <2>2. PICK k : k = Len(a) + i
    OBVIOUS
  <2>3. k \in DOMAIN c /\ c[k] = b[i]
    BY <1>2, <1>3, <2>2
  <2> QED BY <2>1, <2>3 DEF Ids
<1> QED BY <1>1, <1>4, <1>5, <1>6

(* the id in one block *)
LEMMA IdsOne ==
  ASSUME NEW x, NEW type
  PROVE  Ids(<<x>>, type) = IF x.type = type THEN {x.id} ELSE {}
<1>1. DOMAIN <<x>> = {1} /\ <<x>>[1] = x
  <2>1. DOMAIN <<x>> = 1 .. 1 /\ <<x>>[1] = x
    BY SeqOne
  <2> QED BY <2>1
<1>2. PICK s : s = <<x>>
  OBVIOUS
<1>3. DOMAIN s = {1} /\ s[1] = x
  BY <1>1, <1>2
<1>4. Ids(s, type) = IF x.type = type THEN {x.id} ELSE {}
  BY <1>3 DEF Ids
<1> QED BY <1>2, <1>4

(* there is no id in no blocks *)
LEMMA IdsNone == \A type : Ids(<<>>, type) = {}
  BY SeqNone DEF Ids

(* what the blocks of a message call and answer *)
LEMMA BlocksOf ==
  ASSUME NEW m, MessageOK(m)
  PROVE  /\ m.role = "assistant" => /\ IsSeq(Blocks(m)) /\ Ids(Blocks(m), "tool_use") = ToSet(m.calls)
                                    /\ Ids(Blocks(m), "tool_result") = {}
         /\ m.role = "tool" => /\ IsSeq(Blocks(m)) /\ Ids(Blocks(m), "tool_use") = {}
                               /\ Ids(Blocks(m), "tool_result") = {m.call}
                               /\ Blocks(m) # <<>>
         /\ m.role = "user" => /\ IsSeq(Blocks(m)) /\ Ids(Blocks(m), "tool_use") = {}
                               /\ Ids(Blocks(m), "tool_result") = {}
<1>1. CASE m.role = "assistant"
  <2> DEFINE use(x) == [type |-> "tool_use", id |-> x]
             a == ReplayItems(m.replay, "messages")
             b == IF m.text THEN <<[type |-> "text"]>> ELSE <<>>
             c == [i \in DOMAIN m.calls |-> use(m.calls[i])]
             ab == a \o b
  <2>1. Blocks(m) = ab \o c
    BY <1>1 DEF Blocks
  <2>2. IsSeq(a) /\ Ids(a, "tool_use") = {} /\ Ids(a, "tool_result") = {}
    <3>1. PICK x : x = [type |-> "replay"]
      OBVIOUS
    <3>2. x.type = "replay" /\ (a = <<x>> \/ a = <<>>)
      BY <3>1 DEF ReplayItems
    <3>3. IsSeq(<<x>>) /\ IsSeq(<<>>)
      BY SeqOne, SeqNone
    <3>4. Ids(<<x>>, "tool_use") = {} /\ Ids(<<x>>, "tool_result") = {}
      BY <3>2, IdsOne
    <3>5. Ids(<<>>, "tool_use") = {} /\ Ids(<<>>, "tool_result") = {}
      BY IdsNone
    <3> HIDE DEF a
    <3>6. CASE a = <<x>>
      BY <3>3, <3>4, <3>6
    <3>7. CASE a = <<>>
      BY <3>3, <3>5, <3>7
    <3> QED BY <3>2, <3>6, <3>7
  <2>3. IsSeq(b) /\ Ids(b, "tool_use") = {} /\ Ids(b, "tool_result") = {}
    <3>1. PICK x : x = [type |-> "text"]
      OBVIOUS
    <3>2. x.type = "text" /\ (b = <<x>> \/ b = <<>>)
      BY <3>1
    <3>3. IsSeq(<<x>>) /\ IsSeq(<<>>)
      BY SeqOne, SeqNone
    <3>4. Ids(<<x>>, "tool_use") = {} /\ Ids(<<x>>, "tool_result") = {}
      BY <3>2, IdsOne
    <3>5. Ids(<<>>, "tool_use") = {} /\ Ids(<<>>, "tool_result") = {}
      BY IdsNone
    <3> HIDE DEF b
    <3>6. CASE b = <<x>>
      BY <3>3, <3>4, <3>6
    <3>7. CASE b = <<>>
      BY <3>3, <3>5, <3>7
    <3> QED BY <3>2, <3>6, <3>7
  <2>4. IsSeq(c) /\ Ids(c, "tool_use") = ToSet(m.calls) /\ Ids(c, "tool_result") = {}
    <3>1. IsSeq(m.calls)
      BY <1>1 DEF MessageOK, IsSeq
    <3>2. Len(m.calls) \in Nat /\ DOMAIN m.calls = 1 .. Len(m.calls)
      BY <3>1, SeqIs
    <3>3. c \in [1 .. Len(m.calls) -> {use(m.calls[k]) : k \in DOMAIN m.calls}]
      BY <3>2
    <3>4. c \in Seq({use(m.calls[k]) : k \in DOMAIN m.calls})
      BY <3>2, <3>3
    <3>5. \A x : use(x).type = "tool_use" /\ use(x).id = x
      OBVIOUS
    <3>6. DOMAIN c = DOMAIN m.calls /\ \A i \in DOMAIN m.calls : c[i] = use(m.calls[i])
      OBVIOUS
    <3> HIDE DEF c, use
    <3>7. \A i \in DOMAIN m.calls : c[i].type = "tool_use" /\ c[i].id = m.calls[i]
      BY <3>5, <3>6
    <3>8. Ids(c, "tool_use") = {m.calls[i] : i \in DOMAIN m.calls}
      BY <3>6, <3>7 DEF Ids
    <3>9. Ids(c, "tool_result") = {}
      BY <3>6, <3>7 DEF Ids
    <3> QED BY <3>4, <3>8, <3>9 DEF IsSeq, ToSet
  <2> HIDE DEF a, b, c
  <2>5. IsSeq(ab) /\ Ids(ab, "tool_use") = {} /\ Ids(ab, "tool_result") = {}
    BY <2>2, <2>3, SeqConcat, IdsConcat
  <2> HIDE DEF ab
  <2>6. /\ IsSeq(ab \o c) /\ Ids(ab \o c, "tool_use") = ToSet(m.calls) /\ Ids(ab \o c, "tool_result") = {}
    <3>1. IsSeq(ab) /\ IsSeq(c)
      BY <2>4, <2>5
    <3>2. IsSeq(ab \o c)
      BY <3>1, SeqConcat
    <3>3. \A type : Ids(ab \o c, type) = Ids(ab, type) \cup Ids(c, type)
      BY <3>1, IdsConcat
    <3>4. PICK abc : abc = ab \o c
      OBVIOUS
    <3>5. IsSeq(abc) /\ \A type : Ids(abc, type) = Ids(ab, type) \cup Ids(c, type)
      BY <3>2, <3>3, <3>4
    <3> QED BY <2>4, <2>5, <3>4, <3>5
  <2> QED BY <1>1, <2>1, <2>6
<1>2. CASE m.role = "tool"
  <2>1. PICK x : x = [type |-> "tool_result", id |-> m.call, images |-> m.images]
    OBVIOUS
  <2>2. x.type = "tool_result" /\ x.id = m.call /\ Blocks(m) = <<x>>
    BY <1>2, <2>1 DEF Blocks
  <2>3. <<x>> # <<>> /\ IsSeq(<<x>>)
    BY SeqOne, SeqNone
  <2>4. Ids(<<x>>, "tool_use") = {} /\ Ids(<<x>>, "tool_result") = {m.call}
    BY <2>2, IdsOne
  <2>5. PICK b : b = Blocks(m)
    OBVIOUS
  <2>6. IsSeq(b) /\ b # <<>> /\ Ids(b, "tool_use") = {} /\ Ids(b, "tool_result") = {m.call}
    BY <2>2, <2>3, <2>4, <2>5
  <2> QED BY <1>2, <2>5, <2>6
<1>3. CASE m.role = "user"
  <2>1. PICK x : x = [type |-> "text"]
    OBVIOUS
  <2>2. x.type = "text" /\ Blocks(m) = <<x>>
    BY <1>3, <2>1 DEF Blocks
  <2>3. IsSeq(<<x>>)
    BY SeqOne
  <2>4. Ids(<<x>>, "tool_use") = {} /\ Ids(<<x>>, "tool_result") = {}
    BY <2>2, IdsOne
  <2>5. PICK b : b = Blocks(m)
    OBVIOUS
  <2>6. IsSeq(b) /\ Ids(b, "tool_use") = {} /\ Ids(b, "tool_result") = {}
    BY <2>2, <2>3, <2>4, <2>5
  <2> QED BY <1>3, <2>5, <2>6
<1>4. m.role = "system" \/ m.role = "assistant" \/ m.role = "tool" \/ m.role = "user"
  BY DEF MessageOK
<1>5. CASE m.role = "system"
  BY <1>5
<1> QED BY <1>1, <1>2, <1>3, <1>4, <1>5

TurnOK(t) ==
  /\ DOMAIN t = {"role", "blocks"} /\ t.role \in {"user", "assistant"} /\ IsSeq(t.blocks)
  /\ t.role = "user" => Uses(t) = {}
  /\ t.role = "assistant" => Results(t) = {}

(* turns alternate, and those with calls are answered but for what is pending *)
Alternates(p, out) ==
  /\ IsSeq(out) /\ \A i \in DOMAIN out : TurnOK(out[i])
  /\ \A i, j \in DOMAIN out : j = i + 1 =>
       /\ out[i].role # out[j].role
       /\ Uses(out[i]) = Results(out[j]) \cup IF j = Len(out) /\ out[j].role = "user" THEN p ELSE {}
  /\ \A n \in DOMAIN out : n = Len(out) =>
       /\ out[n].role = "assistant" => Uses(out[n]) = p
       /\ n = 1 /\ out[n].role = "user" => p = {}
  /\ out = <<>> => p = {}

Longer(o, s, e) ==
  /\ IsSeq(o) /\ Len(o) = Len(s) + 1 /\ DOMAIN o = 1 .. Len(s) + 1
  /\ \A i \in 1 .. Len(s) : o[i] = s[i]
  /\ o[Len(s) + 1] = e

(* a sequence and one element more *)
LEMMA SeqMore ==
  ASSUME NEW s, IsSeq(s), NEW e
  PROVE  Longer(Append(s, e), s, e)
<1>1. IsSeq(Append(s, e))
  BY SeqAppend
<1>2. Len(Append(s, e)) = Len(s) + 1
  BY SeqAppend
<1>3. DOMAIN Append(s, e) = 1 .. Len(s) + 1
  BY SeqAppend
<1>4. \A i \in 1 .. Len(s) : Append(s, e)[i] = s[i]
  BY SeqAppend
<1>5. Append(s, e)[Len(s) + 1] = e
  BY SeqAppend
<1> QED BY <1>1, <1>2, <1>3, <1>4, <1>5 DEF Longer

Renewed(o, s, n, e) ==
  /\ IsSeq(o) /\ Len(o) = Len(s) /\ DOMAIN o = 1 .. Len(s)
  /\ \A i \in 1 .. Len(s) : i # n => o[i] = s[i]
  /\ o[n] = e

(* a sequence with an element renewed *)
LEMMA SeqExcept ==
  ASSUME NEW s, IsSeq(s), NEW n, n \in DOMAIN s, NEW e
  PROVE  Renewed([s EXCEPT ![n] = e], s, n, e)
<1>0. PICK o : o = [s EXCEPT ![n] = e]
  OBVIOUS
<1>1. PICK X : X = ToSet(s) \cup {e}
  OBVIOUS
<1>2. Len(s) \in Nat /\ DOMAIN s = 1 .. Len(s) /\ s \in Seq(ToSet(s))
  BY SeqIs
<1>3. PICK k \in Nat : k = Len(s)
  BY <1>2
<1>4. s \in [1 .. k -> X]
  BY <1>1, <1>2, <1>3
<1>5. /\ o \in [1 .. k -> X] /\ n \in 1 .. k
      /\ \A i \in 1 .. k : i # n => o[i] = s[i]
      /\ o[n] = e
  BY <1>0, <1>1, <1>2, <1>3, <1>4
<1>6. o \in Seq(X) /\ Len(o) = k
  <2>1. o \in [1 .. k -> X] /\ k \in Nat
    BY <1>3, <1>5
  <2> QED BY <2>1
<1>7. DOMAIN o = 1 .. k
  BY <1>5
<1>8. IsSeq(o)
  BY <1>6 DEF IsSeq
<1> QED BY <1>0, <1>3, <1>5, <1>6, <1>7, <1>8 DEF Renewed

(* a turn more *)
LEMMA TurnAdded ==
  ASSUME NEW p, NEW out, Alternates(p, out), NEW t, TurnOK(t), NEW q,
         NEW n, n = Len(out),
         out # <<>> => /\ out[n].role # t.role
                       /\ out[n].role = "user" => p = {}
                       /\ Uses(out[n]) = Results(t) \cup IF t.role = "user" THEN q ELSE {},
         t.role = "assistant" => Uses(t) = q,
         out = <<>> /\ t.role = "user" => q = {}
  PROVE  Alternates(q, Append(out, t))
<1>1. PICK o : o = Append(out, t)
  OBVIOUS
<1>2. IsSeq(out) /\ n \in Nat /\ DOMAIN out = 1 .. n
  BY SeqIs DEF Alternates
<1>3. /\ IsSeq(o) /\ Len(o) = n + 1 /\ DOMAIN o = 1 .. n + 1
      /\ \A i \in 1 .. n : o[i] = out[i]
      /\ o[n + 1] = t
  <2>1. IsSeq(out)
    BY <1>2
  <2>2. Longer(o, out, t)
    BY <1>1, <2>1, SeqMore
  <2> QED BY <2>2 DEF Longer
<1>4. n = 0 => out = <<>>
  BY <1>2, SeqNone
<1>5. n > 0 => n \in DOMAIN out /\ out # <<>>
  BY <1>2, SeqNone
<1>6. ASSUME NEW i \in DOMAIN o PROVE TurnOK(o[i])
  <2>1. i \in 1 .. n \/ i = n + 1
    BY <1>2, <1>3
  <2> QED BY <1>2, <1>3, <2>1 DEF Alternates
<1>7. ASSUME NEW i \in DOMAIN o, NEW j \in DOMAIN o, j = i + 1
      PROVE  /\ o[i].role # o[j].role
             /\ Uses(o[i]) = Results(o[j]) \cup IF j = Len(o) /\ o[j].role = "user" THEN q ELSE {}
  <2>1. CASE j = n + 1
    <3>1. i = n /\ n > 0 /\ i \in 1 .. n
      BY <1>2, <1>3, <1>7, <2>1
    <3>2. o[i] = out[n] /\ o[j] = t /\ j = Len(o)
      BY <1>3, <2>1, <3>1
    <3> QED BY <1>5, <3>1, <3>2
  <2>2. CASE j # n + 1
    <3>1. i \in 1 .. n /\ j \in 1 .. n /\ j # Len(o)
      BY <1>2, <1>3, <1>7, <2>2
    <3>2. o[i] = out[i] /\ o[j] = out[j]
      BY <1>3, <3>1
    <3>3. /\ out[i].role # out[j].role
          /\ Uses(out[i]) = Results(out[j]) \cup IF j = Len(out) /\ out[j].role = "user" THEN p ELSE {}
      BY <1>2, <1>7, <3>1 DEF Alternates
    <3>4. j = n /\ out[j].role = "user" => p = {}
      BY <1>2, <1>5, <3>1
    <3> QED BY <3>1, <3>2, <3>3, <3>4
  <2> QED BY <2>1, <2>2
<1>8. ASSUME NEW k \in DOMAIN o, k = Len(o)
      PROVE  /\ o[k].role = "assistant" => Uses(o[k]) = q
             /\ k = 1 /\ o[k].role = "user" => q = {}
  <2>1. k = n + 1 /\ o[k] = t /\ (k = 1 => n = 0)
    BY <1>2, <1>3, <1>8
  <2> QED BY <1>4, <2>1
<1>9. o # <<>>
  BY <1>2, <1>3, SeqNone
<1>10. Alternates(q, o)
  BY <1>3, <1>6, <1>7, <1>8, <1>9 DEF Alternates
<1> QED BY <1>1, <1>10

(* the last turn has more *)
LEMMA TurnGrown ==
  ASSUME NEW p, NEW out, Alternates(p, out), out # <<>>, NEW n, n = Len(out), NEW t, TurnOK(t), NEW q,
         t.role = out[n].role,
         t.role = "user" => /\ Results(t) \cup q = Results(out[n]) \cup p
                            /\ p = {} => q = {},
         t.role = "assistant" => Uses(t) = q,
         NEW o, o = [out EXCEPT ![n] = t]
  PROVE  Alternates(q, o)
<1>1. IsSeq(out) /\ n \in Nat /\ DOMAIN out = 1 .. n /\ n > 0 /\ n \in DOMAIN out
  BY SeqIs, SeqNone DEF Alternates
<1>2. /\ IsSeq(o) /\ Len(o) = n /\ DOMAIN o = 1 .. n
      /\ \A i \in 1 .. n : i # n => o[i] = out[i]
      /\ o[n] = t
  <2>1. IsSeq(out) /\ n \in DOMAIN out
    BY <1>1
  <2>2. Renewed(o, out, n, t)
    BY <2>1, SeqExcept
  <2> QED BY <2>2 DEF Renewed
<1>3. ASSUME NEW i \in DOMAIN o PROVE TurnOK(o[i])
  BY <1>1, <1>2 DEF Alternates
<1>4. ASSUME NEW i \in DOMAIN o, NEW j \in DOMAIN o, j = i + 1
      PROVE  /\ o[i].role # o[j].role
             /\ Uses(o[i]) = Results(o[j]) \cup IF j = Len(o) /\ o[j].role = "user" THEN q ELSE {}
  <2>1. i \in 1 .. n /\ j \in 1 .. n /\ i # n
    BY <1>1, <1>2, <1>4
  <2>2. o[i] = out[i]
    BY <1>2, <2>1
  <2>3. /\ out[i].role # out[j].role
        /\ Uses(out[i]) = Results(out[j]) \cup IF j = Len(out) /\ out[j].role = "user" THEN p ELSE {}
    BY <1>1, <1>4, <2>1 DEF Alternates
  <2>4. CASE j = n
    <3>1. o[j] = t /\ t.role = out[j].role
      BY <1>2, <2>4
    <3>2. CASE t.role = "user"
      BY <1>2, <2>2, <2>3, <2>4, <3>1, <3>2
    <3>3. CASE t.role # "user"
      <4>1. t.role = "assistant" /\ Results(t) = {} /\ Results(out[j]) = {}
        BY <1>1, <2>4, <3>1, <3>3 DEF TurnOK, Alternates
      <4> QED BY <1>2, <2>2, <2>3, <2>4, <3>1, <3>3, <4>1
    <3> QED BY <3>2, <3>3
  <2>5. CASE j # n
    BY <1>2, <2>1, <2>2, <2>3, <2>5
  <2> QED BY <2>4, <2>5
<1>5. ASSUME NEW k \in DOMAIN o, k = Len(o)
      PROVE  /\ o[k].role = "assistant" => Uses(o[k]) = q
             /\ k = 1 /\ o[k].role = "user" => q = {}
  <2>1. k = n /\ o[k] = t
    BY <1>2, <1>5
  <2>2. n = 1 /\ out[n].role = "user" => p = {}
    BY <1>1 DEF Alternates
  <2> QED BY <2>1, <2>2
<1>6. o # <<>>
  BY <1>1, <1>2, SeqNone
<1> QED BY <1>2, <1>3, <1>4, <1>5, <1>6 DEF Alternates

(* a message joins the turn of its side, or begins one *)
LEMMA TurnMerged ==
  ASSUME NEW p, NEW out, Alternates(p, out), NEW role \in {"user", "assistant"}, NEW blocks, IsSeq(blocks), NEW q,
         NEW use, use = Ids(blocks, "tool_use"), NEW result, result = Ids(blocks, "tool_result"),
         role = "user" => use = {} /\ p = result \cup q,
         role = "assistant" => result = {} /\ p = {} /\ q = use
  PROVE  Alternates(q, MergeMessage(out, role, blocks))
<1>1. IsSeq(out)
  BY DEF Alternates
<1>2. PICK n : n = Len(out)
  OBVIOUS
<1>3. n \in Nat /\ DOMAIN out = 1 .. n /\ (out # <<>> => n \in DOMAIN out)
  BY <1>1, <1>2, SeqIs, SeqNone
<1>4. CASE out # <<>> /\ out[n].role = role
  <2>1. Last(out) = out[n]
    BY <1>2 DEF Last
  <2>2. TurnOK(out[n])
    BY <1>3, <1>4 DEF Alternates
  <2>3. PICK all : all = out[n].blocks \o blocks
    OBVIOUS
  <2> DEFINE t == [out[n] EXCEPT !.blocks = all]
             o == [out EXCEPT ![n] = t]
  <2>4. MergeMessage(out, role, blocks) = o
    BY <1>2, <1>4, <2>1, <2>3 DEF MergeMessage
  <2>5. DOMAIN t = {"role", "blocks"} /\ t.role = role /\ t.blocks = all
    BY <1>4, <2>2 DEF TurnOK
  <2> HIDE DEF t
  <2>6. /\ IsSeq(all)
        /\ Ids(all, "tool_use") = Ids(out[n].blocks, "tool_use") \cup use
        /\ Ids(all, "tool_result") = Ids(out[n].blocks, "tool_result") \cup result
    <3>1. PICK b : b = out[n].blocks
      OBVIOUS
    <3>2. IsSeq(b)
      BY <2>2, <3>1 DEF TurnOK
    <3> QED BY <2>3, <3>1, <3>2, SeqConcat, IdsConcat
  <2>7. Uses(t) = Uses(out[n]) \cup use /\ Results(t) = Results(out[n]) \cup result
    BY <2>5, <2>6 DEF Uses, Results
  <2>8. TurnOK(t)
    BY <1>4, <2>2, <2>5, <2>6, <2>7 DEF TurnOK
  <2>9. out[n].role = "assistant" => Uses(out[n]) = p
    BY <1>2, <1>3, <1>4 DEF Alternates
  <2>10. Alternates(q, o)
    <3>1. t.role = "user" => Results(t) \cup q = Results(out[n]) \cup p /\ (p = {} => q = {})
      BY <2>5, <2>7
    <3>2. t.role = "assistant" => Uses(t) = q
      BY <1>4, <2>5, <2>7, <2>9
    <3>3. t.role = out[n].role
      BY <1>4, <2>5
    <3> QED BY <1>2, <1>4, <2>8, <3>1, <3>2, <3>3, TurnGrown
  <2> QED BY <2>4, <2>10
<1>5. CASE out = <<>> \/ out[n].role # role
  <2>1. Last(out) = out[n]
    BY <1>2 DEF Last
  <2> DEFINE t == [role |-> role, blocks |-> blocks]
  <2>2. MergeMessage(out, role, blocks) = Append(out, t)
    BY <1>5, <2>1 DEF MergeMessage
  <2>3. DOMAIN t = {"role", "blocks"} /\ t.role = role /\ t.blocks = blocks
    OBVIOUS
  <2> HIDE DEF t
  <2>4. Uses(t) = use /\ Results(t) = result
    BY <2>3 DEF Uses, Results
  <2>5. TurnOK(t)
    BY <2>3, <2>4 DEF TurnOK
  <2>6. ASSUME out # <<>>
        PROVE  /\ out[n].role # t.role
               /\ out[n].role = "user" => p = {}
               /\ Uses(out[n]) = Results(t) \cup IF t.role = "user" THEN q ELSE {}
    <3>1. TurnOK(out[n]) /\ (out[n].role = "assistant" => Uses(out[n]) = p)
      BY <1>2, <1>3, <2>6 DEF Alternates
    <3>2. out[n].role # role
      BY <1>5, <2>6
    <3>3. CASE role = "user"
      <4>1. out[n].role = "assistant"
        BY <3>1, <3>2, <3>3 DEF TurnOK
      <4> QED BY <2>3, <2>4, <3>1, <3>3, <4>1
    <3>4. CASE role = "assistant"
      <4>1. out[n].role = "user" /\ Uses(out[n]) = {}
        BY <3>1, <3>2, <3>4 DEF TurnOK
      <4> QED BY <2>3, <2>4, <3>4, <4>1
    <3> QED BY <3>3, <3>4
  <2>7. out = <<>> /\ t.role = "user" => q = {}
    BY <2>3 DEF Alternates
  <2>8. t.role = "assistant" => Uses(t) = q
    BY <2>3, <2>4
  <2>9. Alternates(q, Append(out, t))
    BY <1>2, <2>5, <2>6, <2>7, <2>8, TurnAdded
  <2> QED BY <2>2, <2>9
<1> QED BY <1>4, <1>5

(* a message keeps the turns alternating *)
LEMMA MessagesGoes ==
  ASSUME NEW p, NEW out, Alternates(p, out), NEW m, MessageOK(m), NEW q, Goes(p, m, q)
  PROVE  Alternates(q, MessagesStep(out, m))
<1>1. PICK b : b = Blocks(m)
  OBVIOUS
<1>2. CASE m.role = "assistant" /\ p = {} /\ q = ToSet(m.calls)
  <2>1. IsSeq(b) /\ Ids(b, "tool_use") = q /\ Ids(b, "tool_result") = {}
    BY <1>1, <1>2, BlocksOf
  <2>2. CASE b = <<>>
    <3>1. q = {} /\ MessagesStep(out, m) = out
      BY <1>1, <2>1, <2>2, IdsNone DEF MessagesStep
    <3> QED BY <1>2, <3>1
  <2>3. CASE b # <<>>
    <3>1. MessagesStep(out, m) = MergeMessage(out, "assistant", b)
      BY <1>1, <1>2, <2>3 DEF MessagesStep
    <3> QED BY <1>2, <2>1, <3>1, TurnMerged
  <2> QED BY <2>2, <2>3
<1>3. CASE m.role = "tool" /\ m.call \in p /\ q = p \ {m.call}
  <2>1. IsSeq(b) /\ Ids(b, "tool_use") = {} /\ Ids(b, "tool_result") = {m.call} /\ b # <<>>
    BY <1>1, <1>3, BlocksOf
  <2>2. MessagesStep(out, m) = MergeMessage(out, "user", b)
    BY <1>1, <1>3, <2>1 DEF MessagesStep
  <2>3. p = {m.call} \cup q
    BY <1>3
  <2> QED BY <2>1, <2>2, <2>3, TurnMerged
<1>4. CASE m.role = "user" /\ p = {} /\ q = {}
  <2>1. IsSeq(b) /\ Ids(b, "tool_use") = {} /\ Ids(b, "tool_result") = {}
    BY <1>1, <1>4, BlocksOf
  <2>2. CASE b = <<>>
    <3>1. MessagesStep(out, m) = out
      BY <1>1, <2>2 DEF MessagesStep
    <3> QED BY <1>4, <3>1
  <2>3. CASE b # <<>>
    <3>1. MessagesStep(out, m) = MergeMessage(out, "user", b)
      BY <1>1, <1>4, <2>3 DEF MessagesStep
    <3> QED BY <1>4, <2>1, <3>1, TurnMerged
  <2> QED BY <2>2, <2>3
<1>5. CASE m.role = "system" /\ p = {} /\ q = {}
  <2>1. MessagesStep(out, m) = out
    BY <1>5 DEF MessagesStep
  <2> QED BY <1>5, <2>1
<1> QED BY <1>2, <1>3, <1>4, <1>5 DEF Goes

(* the turns of a messages request alternate, and calls are answered by the *)
(* next turn                                                                *)
LEMMA MessagesSound ==
  ASSUME NEW conv, ConversationOK(conv), NEW config, Normalize(conv, config)
  PROVE  MessagesAlternate(MessagesEncode(conv))
<1>1. IsSeq(conv) /\ Len(conv) \in Nat /\ \A i \in 1 .. Len(conv) : MessageOK(conv[i])
  BY Pairs, SeqIs
<1>2. PICK p : PairedBy(conv, p)
  BY Pairs
<1>3. PICK s : /\ s[0] = <<>>
               /\ \A i \in 1 .. Len(conv) : s[i] = MessagesStep(s[i - 1], conv[i])
               /\ MessagesEncode(conv) = s[Len(conv)]
  BY <1>1, MessagesUnfolds
<1> DEFINE S == {k \in Nat : k <= Len(conv) => Alternates(p[k], s[k])}
<1>4. 0 \in S
  <2>1. Alternates({}, <<>>)
    BY SeqNone DEF Alternates
  <2> QED BY <1>2, <1>3, <2>1 DEF PairedBy
<1>5. ASSUME NEW k \in Nat, k \in S PROVE k + 1 \in S
  <2>1. PICK i : i = k + 1
    OBVIOUS
  <2>2. ASSUME i <= Len(conv) PROVE Alternates(p[i], s[i])
    <3>1. i \in 1 .. Len(conv) /\ i - 1 = k /\ k <= Len(conv)
      BY <1>1, <2>1, <2>2
    <3>2. Alternates(p[k], s[k]) /\ Goes(p[k], conv[i], p[i]) /\ s[i] = MessagesStep(s[k], conv[i])
          /\ MessageOK(conv[i])
      BY <1>1, <1>2, <1>3, <1>5, <3>1 DEF PairedBy
    <3> QED BY <3>2, MessagesGoes
  <2> QED BY <2>1, <2>2
<1>6. Alternates(p[Len(conv)], s[Len(conv)])
  <2>1. Len(conv) \in S
    <3> HIDE DEF S
    <3> QED BY <1>1, <1>4, <1>5, NatSetInduction
  <2> QED BY <1>1, <2>1
<1>7. PICK out : out = MessagesEncode(conv)
  OBVIOUS
<1>8. Alternates({}, out)
  BY <1>2, <1>3, <1>6, <1>7 DEF PairedBy
<1>9. Len(out) \in Nat /\ DOMAIN out = 1 .. Len(out)
  BY <1>8, SeqIs DEF Alternates
<1>10. ASSUME NEW i \in 1 .. Len(out) - 1
       PROVE  /\ out[i].role # out[i + 1].role
              /\ Ids(out[i].blocks, "tool_use") = Ids(out[i + 1].blocks, "tool_result")
  <2>1. PICK j : j = i + 1
    OBVIOUS
  <2>2. i \in DOMAIN out /\ j \in DOMAIN out
    BY <1>9, <2>1
  <2>3. out[i].role # out[j].role /\ Uses(out[i]) = Results(out[j])
    BY <1>8, <2>1, <2>2 DEF Alternates
  <2> QED BY <2>1, <2>3 DEF Uses, Results
<1> QED BY <1>7, <1>10 DEF MessagesAlternate

(***************************************************************************)
(* Chat completions                                                        *)
(***************************************************************************)
ChatBegins == [out |-> <<>>, pending |-> {}, images |-> <<>>]

(* the chat encoder, by the message it has come to *)
LEMMA ChatUnfolds ==
  ASSUME NEW conv, Len(conv) \in Nat, NEW mode
  PROVE  \E s : /\ s[0] = ChatBegins
                /\ \A i \in 1 .. Len(conv) : s[i] = ChatStep(s[i - 1], conv[i], mode)
                /\ ChatEncode(conv, mode) = s[Len(conv)].out
<1> DEFINE Run(g, k) == g = [i \in 0 .. k |-> IF i = 0 THEN ChatBegins ELSE ChatStep(g[i - 1], conv[i], mode)]
           S == {k \in Nat : \E g : Run(g, k)}
<1>1. 0 \in S
  <2>1. Run([i \in 0 .. 0 |-> ChatBegins], 0)
    OBVIOUS
  <2> QED BY <2>1
<1>2. ASSUME NEW k \in Nat, k \in S PROVE k + 1 \in S
  <2>1. PICK g : Run(g, k)
    BY <1>2
  <2>2. \A i \in 0 .. k : g[i] = IF i = 0 THEN ChatBegins ELSE ChatStep(g[i - 1], conv[i], mode)
    BY <2>1
  <2> DEFINE h == [i \in 0 .. k + 1 |-> IF i = 0 THEN ChatBegins ELSE ChatStep(g[i - 1], conv[i], mode)]
  <2>3. \A i \in 0 .. k : h[i] = g[i]
    BY <2>2
  <2>4. h = [i \in 0 .. k + 1 |-> IF i = 0 THEN ChatBegins ELSE ChatStep(g[i - 1], conv[i], mode)]
    OBVIOUS
  <2> HIDE DEF h
  <2>5. h = [i \in 0 .. k + 1 |-> IF i = 0 THEN ChatBegins ELSE ChatStep(h[i - 1], conv[i], mode)]
    <3>1. ASSUME NEW i \in 1 .. k + 1 PROVE h[i - 1] = g[i - 1]
      BY <2>3
    <3>2. ASSUME NEW i \in 0 .. k + 1
          PROVE  (IF i = 0 THEN ChatBegins ELSE ChatStep(g[i - 1], conv[i], mode))
                 = (IF i = 0 THEN ChatBegins ELSE ChatStep(h[i - 1], conv[i], mode))
      BY <3>1
    <3> QED BY <2>4, <3>2, Zenon
  <2> QED BY <2>5
<1> HIDE DEF S
<1>3. Len(conv) \in S
  BY <1>1, <1>2, NatSetInduction
<1> USE DEF S
<1>4. PICK g : Run(g, Len(conv))
  BY <1>3
<1> DEFINE f == CHOOSE g1 : Run(g1, Len(conv))
<1>5. Run(f, Len(conv))
  BY <1>4
<1>6. ChatEncode(conv, mode) = f[Len(conv)].out
  BY DEF ChatEncode, Fold, ChatBegins
<1> HIDE DEF f
<1>7. /\ f[0] = ChatBegins /\ \A i \in 1 .. Len(conv) : f[i] = ChatStep(f[i - 1], conv[i], mode)
  BY <1>5
<1> QED
  BY <1>6, <1>7

(* a list without repetitions is as long as its set is large *)
LEMMA DistinctCount ==
  ASSUME NEW s, IsSeq(s), \A i, j \in DOMAIN s : i # j => s[i] # s[j]
  PROVE  IsFiniteSet(ToSet(s)) /\ Cardinality(ToSet(s)) = Len(s)
<1>1. PICK n : n = Len(s)
  OBVIOUS
<1>2. n \in Nat /\ DOMAIN s = 1 .. n /\ s \in Seq(ToSet(s))
  BY <1>1, SeqIs
<1>3. s \in [1 .. n -> ToSet(s)]
  BY <1>1, <1>2
<1>4. s \in Surjection(1 .. n, ToSet(s))
  BY <1>2, <1>3 DEF Surjection, ToSet
<1>5. s \in Injection(1 .. n, ToSet(s))
  BY <1>2, <1>3 DEF Injection, IsInjective
<1>6. IsFiniteSet(1 .. n) /\ Cardinality(1 .. n) = n
  BY <1>2, FS_Interval
<1>7. PICK D, T : D = 1 .. n /\ T = ToSet(s)
  OBVIOUS
<1>8. IsFiniteSet(D) /\ s \in Surjection(D, T) /\ s \in Injection(D, T)
  BY <1>4, <1>5, <1>6, <1>7
<1>9. IsFiniteSet(T) /\ Cardinality(T) = Cardinality(D)
  BY <1>8, FS_Surjection
<1> QED BY <1>1, <1>6, <1>7, <1>9

Calls(e) == e.role = "assistant" /\ e.calls # <<>>
Answers(out, i, n) == {out[i + k].call : k \in 1 .. n}

(* the results of the calls at i all follow it; some of them do *)
Done(out, i) ==
  /\ i + Len(out[i].calls) <= Len(out)
  /\ \A k \in 1 .. Len(out[i].calls) : out[i + k].role = "tool"
  /\ Answers(out, i, Len(out[i].calls)) = ToSet(out[i].calls)

Doing(p, out, i) ==
  \E n \in Nat :
     /\ i + n = Len(out)
     /\ \A k \in 1 .. n : out[i + k].role = "tool"
     /\ Answers(out, i, n) \cup p = ToSet(out[i].calls)
     /\ n + Cardinality(p) = Len(out[i].calls)

ChatOut(p, out) ==
  /\ IsSeq(out) /\ IsFiniteSet(p)
  /\ \A i \in DOMAIN out : /\ Calls(out[i]) => Done(out, i) \/ (p # {} /\ Doing(p, out, i))
                           /\ Calls(out[i]) => IsSeq(out[i].calls)
                           /\ out[i].role = "user" => IsSeq(out[i].images)

(* the same results give the same ids *)
LEMMA AnswersSame ==
  ASSUME NEW a, NEW b, NEW i, NEW n, \A k \in 1 .. n : a[i + k] = b[i + k]
  PROVE  Answers(a, i, n) = Answers(b, i, n)
  BY DEF Answers

(* results that have come stay where they are *)
LEMMA DoneStays ==
  ASSUME NEW out, IsSeq(out), NEW e, NEW o, Longer(o, out, e),
         NEW i \in DOMAIN out, IsSeq(out[i].calls), Done(out, i)
  PROVE  Done(o, i)
<1>1. PICK n, len : n = Len(out[i].calls) /\ len = Len(out)
  OBVIOUS
<1>2. n \in Nat /\ len \in Nat /\ DOMAIN out = 1 .. len
  BY <1>1, SeqIs
<1>3. i + n <= len /\ i \in 1 .. len
  BY <1>1, <1>2 DEF Done
<1>4. Len(o) = len + 1 /\ \A j \in 1 .. len : o[j] = out[j]
  BY <1>1 DEF Longer
<1>5. o[i] = out[i] /\ \A k \in 1 .. n : i + k \in 1 .. len
  BY <1>2, <1>3, <1>4
<1>6. \A k \in 1 .. n : o[i + k] = out[i + k]
  BY <1>4, <1>5
<1>7. Answers(o, i, n) = Answers(out, i, n)
  BY <1>6, AnswersSame
<1>8. i + n <= Len(o)
  BY <1>2, <1>3, <1>4
<1> QED BY <1>1, <1>5, <1>6, <1>7, <1>8 DEF Done

(* something that calls nothing is added while nothing is pending *)
LEMMA ChatPlain ==
  ASSUME NEW out, ChatOut({}, out), NEW e, ~Calls(e), e.role = "user" => IsSeq(e.images)
  PROVE  ChatOut({}, Append(out, e))
<1>1. PICK o : o = Append(out, e)
  OBVIOUS
<1>2. IsSeq(out)
  BY DEF ChatOut
<1>3. Longer(o, out, e)
  BY <1>1, <1>2, SeqMore
<1>4. PICK len : len = Len(out)
  OBVIOUS
<1>5. len \in Nat /\ DOMAIN out = 1 .. len
  BY <1>2, <1>4, SeqIs
<1>6. IsSeq(o) /\ DOMAIN o = 1 .. len + 1 /\ o[len + 1] = e /\ \A j \in 1 .. len : o[j] = out[j]
  BY <1>3, <1>4 DEF Longer
<1>7. ASSUME NEW i \in DOMAIN o
      PROVE  /\ Calls(o[i]) => Done(o, i) /\ IsSeq(o[i].calls)
             /\ o[i].role = "user" => IsSeq(o[i].images)
  <2>1. CASE i = len + 1
    BY <1>6, <2>1
  <2>2. CASE i # len + 1
    <3>1. i \in DOMAIN out /\ o[i] = out[i]
      BY <1>5, <1>6, <2>2
    <3>2. Calls(o[i]) => Done(out, i) /\ IsSeq(out[i].calls)
      BY <3>1 DEF ChatOut
    <3>3. Calls(o[i]) => Done(o, i) /\ IsSeq(o[i].calls)
      BY <1>2, <1>3, <3>1, <3>2, DoneStays
    <3> QED BY <3>1, <3>3 DEF ChatOut
  <2> QED BY <2>1, <2>2
<1> QED BY <1>1, <1>6, <1>7 DEF ChatOut

(* a message that calls is added while nothing is pending *)
LEMMA ChatCalled ==
  ASSUME NEW out, ChatOut({}, out), NEW e, Calls(e), IsSeq(e.calls),
         \A i, j \in DOMAIN e.calls : i # j => e.calls[i] # e.calls[j]
  PROVE  ChatOut(ToSet(e.calls), Append(out, e))
<1>1. PICK o, q : o = Append(out, e) /\ q = ToSet(e.calls)
  OBVIOUS
<1>2. IsSeq(out)
  BY DEF ChatOut
<1>3. Longer(o, out, e)
  BY <1>1, <1>2, SeqMore
<1>4. PICK len : len = Len(out)
  OBVIOUS
<1>5. len \in Nat /\ DOMAIN out = 1 .. len
  BY <1>2, <1>4, SeqIs
<1>6. /\ IsSeq(o) /\ DOMAIN o = 1 .. len + 1 /\ Len(o) = len + 1
      /\ o[len + 1] = e /\ \A j \in 1 .. len : o[j] = out[j]
  BY <1>3, <1>4 DEF Longer
<1>7. IsFiniteSet(q) /\ Cardinality(q) = Len(e.calls) /\ Len(e.calls) \in Nat /\ Len(e.calls) > 0
      /\ DOMAIN e.calls = 1 .. Len(e.calls)
  BY <1>1, DistinctCount, SeqIs, SeqNone DEF Calls
<1>8. q # {}
  <2>1. 1 \in DOMAIN e.calls
    BY <1>7
  <2> QED BY <1>1, <2>1 DEF ToSet
<1>9. Doing(q, o, len + 1)
  <2>1. PICK i : i = len + 1
    OBVIOUS
  <2>2. i + 0 = Len(o) /\ o[i] = e
    BY <1>5, <1>6, <2>1
  <2>3. Answers(o, i, 0) = {}
    BY DEF Answers
  <2>4. 0 + Cardinality(q) = Len(e.calls)
    BY <1>7
  <2>5. Answers(o, i, 0) \cup q = ToSet(e.calls)
    BY <1>1, <2>3
  <2>6. \A k \in 1 .. 0 : o[i + k].role = "tool"
    OBVIOUS
  <2>7. 0 \in Nat
    OBVIOUS
  <2>8. Doing(q, o, i)
    BY <2>2, <2>4, <2>5, <2>6, <2>7 DEF Doing
  <2> QED BY <2>1, <2>8
<1>10. ASSUME NEW i \in DOMAIN o
       PROVE  /\ Calls(o[i]) => (Done(o, i) \/ Doing(q, o, i)) /\ IsSeq(o[i].calls)
              /\ o[i].role = "user" => IsSeq(o[i].images)
  <2>1. CASE i = len + 1
    BY <1>6, <1>9, <2>1 DEF Calls
  <2>2. CASE i # len + 1
    <3>1. i \in DOMAIN out /\ o[i] = out[i]
      BY <1>5, <1>6, <2>2
    <3>2. Calls(o[i]) => Done(out, i) /\ IsSeq(out[i].calls)
      BY <3>1 DEF ChatOut
    <3>3. Calls(o[i]) => Done(o, i) /\ IsSeq(o[i].calls)
      BY <1>2, <1>3, <3>1, <3>2, DoneStays
    <3> QED BY <3>1, <3>3 DEF ChatOut
  <2> QED BY <2>1, <2>2
<1>11. ChatOut(q, o)
  BY <1>6, <1>7, <1>8, <1>10 DEF ChatOut
<1> QED BY <1>1, <1>11

(* a result is added *)
LEMMA ChatAnswered ==
  ASSUME NEW p, NEW out, ChatOut(p, out), NEW e, e.role = "tool", e.call \in p
  PROVE  ChatOut(p \ {e.call}, Append(out, e))
<1>1. PICK o, q : o = Append(out, e) /\ q = p \ {e.call}
  OBVIOUS
<1>2. IsSeq(out)
  BY DEF ChatOut
<1>3. Longer(o, out, e)
  BY <1>1, <1>2, SeqMore
<1>4. PICK len : len = Len(out)
  OBVIOUS
<1>5. len \in Nat /\ DOMAIN out = 1 .. len
  BY <1>2, <1>4, SeqIs
<1>6. /\ IsSeq(o) /\ DOMAIN o = 1 .. len + 1 /\ Len(o) = len + 1
      /\ o[len + 1] = e /\ \A j \in 1 .. len : o[j] = out[j]
  BY <1>3, <1>4 DEF Longer
<1>7. /\ IsFiniteSet(p) /\ IsFiniteSet(q) /\ Cardinality(q) = Cardinality(p) - 1
      /\ Cardinality(p) \in Nat /\ Cardinality(q) \in Nat
  BY <1>1, FS_RemoveElement, FS_CardinalityType DEF ChatOut
<1>8. ASSUME NEW i \in DOMAIN out, Doing(p, out, i), IsSeq(out[i].calls)
      PROVE  Done(o, i) \/ (q # {} /\ Doing(q, o, i))
  <2>1. PICK n \in Nat : /\ i + n = Len(out)
                         /\ \A k \in 1 .. n : out[i + k].role = "tool"
                         /\ Answers(out, i, n) \cup p = ToSet(out[i].calls)
                         /\ n + Cardinality(p) = Len(out[i].calls)
    BY <1>8 DEF Doing
  <2>2. PICK m : m = n + 1
    OBVIOUS
  <2>3. m \in Nat /\ i \in 1 .. len /\ i + n = len /\ i + m = len + 1
    BY <1>4, <1>5, <2>1, <2>2
  <2>4. i + m = Len(o) /\ o[i] = out[i]
    BY <1>6, <2>3
  <2>5. ASSUME NEW k \in 1 .. m
        PROVE  o[i + k] = IF k = m THEN e ELSE out[i + k]
    <3>1. PICK j : j = i + k
      OBVIOUS
    <3>2. CASE k = m
      BY <1>6, <2>3, <3>2
    <3>3. CASE k # m
      <4>1. j \in 1 .. len
        BY <2>2, <2>3, <3>1, <3>3
      <4> QED BY <1>6, <3>1, <3>3, <4>1
    <3> QED BY <3>2, <3>3
  <2>6. \A k \in 1 .. m : o[i + k].role = "tool"
    <3>1. ASSUME NEW k \in 1 .. m PROVE o[i + k].role = "tool"
      <4>1. k = m \/ k \in 1 .. n
        BY <2>2
      <4>2. CASE k = m
        BY <2>5, <4>2
      <4>3. CASE k # m
        <5>1. k \in 1 .. n /\ o[i + k] = out[i + k]
          BY <2>5, <4>1, <4>3
        <5> QED BY <2>1, <5>1
      <4> QED BY <4>2, <4>3
    <3> QED BY <3>1
  <2>7. Answers(o, i, m) = Answers(out, i, n) \cup {e.call}
    <3>1. \A k : k \in 1 .. m <=> k = m \/ (k \in 1 .. n /\ k # m)
      BY <2>2
    <3>2. o[i + m] = e /\ \A k \in 1 .. n : k # m /\ o[i + k] = out[i + k]
      BY <2>2, <2>5
    <3> QED BY <3>1, <3>2 DEF Answers
  <2>8. Answers(o, i, m) \cup q = ToSet(out[i].calls)
    BY <1>1, <2>1, <2>7
  <2>9. m + Cardinality(q) = Len(out[i].calls)
    <3>1. PICK c, d, l : c = Cardinality(p) /\ d = Cardinality(q) /\ l = Len(out[i].calls)
      OBVIOUS
    <3> QED BY <1>7, <2>1, <2>2
  <2>10. CASE q # {}
    <3>1. Doing(q, o, i)
      BY <2>3, <2>4, <2>6, <2>8, <2>9 DEF Doing
    <3> QED BY <2>10, <3>1
  <2>11. CASE q = {}
    <3>1. m = Len(out[i].calls)
      <4>1. Cardinality(q) = 0
        BY <2>11, FS_EmptySet
      <4> QED BY <2>3, <2>9, <4>1
    <3>2. Answers(o, i, m) = ToSet(out[i].calls)
      BY <2>8, <2>11
    <3>3. i + m <= Len(o)
      BY <1>5, <1>6, <2>3
    <3> QED BY <2>4, <2>6, <3>1, <3>2, <3>3 DEF Done
  <2> QED BY <2>10, <2>11
<1>9. ASSUME NEW i \in DOMAIN o
      PROVE  /\ Calls(o[i]) => (Done(o, i) \/ (q # {} /\ Doing(q, o, i))) /\ IsSeq(o[i].calls)
             /\ o[i].role = "user" => IsSeq(o[i].images)
  <2>1. CASE i = len + 1
    BY <1>6, <2>1 DEF Calls
  <2>2. CASE i # len + 1
    <3>1. i \in DOMAIN out /\ o[i] = out[i]
      BY <1>5, <1>6, <2>2
    <3>2. Calls(o[i]) => (Done(out, i) \/ Doing(p, out, i)) /\ IsSeq(out[i].calls)
      BY <3>1 DEF ChatOut
    <3>3. Calls(o[i]) => (Done(o, i) \/ (q # {} /\ Doing(q, o, i))) /\ IsSeq(o[i].calls)
      BY <1>2, <1>3, <1>8, <3>1, <3>2, DoneStays
    <3> QED BY <3>1, <3>3 DEF ChatOut
  <2> QED BY <2>1, <2>2
<1>10. ChatOut(q, o)
  BY <1>6, <1>7, <1>9 DEF ChatOut
<1> QED BY <1>1, <1>10

ImagesIn(m) == IF m.role \in {"user", "tool"} THEN m.images ELSE 0
ImagesOf(e) == IF e.role = "user" THEN Len(e.images) ELSE 0
ImagesOut(out) == Total([i \in DOMAIN out |-> ImagesOf(out[i])])

ImagesFine(out) == IsSeq(out) /\ \A i \in DOMAIN out : out[i].role = "user" => IsSeq(out[i].images)

(* the images of messages are a number *)
LEMMA ImagesType ==
  ASSUME NEW out, ImagesFine(out)
  PROVE  /\ [i \in DOMAIN out |-> ImagesOf(out[i])] \in Seq(Nat)
         /\ Len([i \in DOMAIN out |-> ImagesOf(out[i])]) = Len(out)
         /\ ImagesOut(out) \in Nat
<1>1. Len(out) \in Nat /\ DOMAIN out = 1 .. Len(out)
  BY SeqIs DEF ImagesFine
<1>2. ASSUME NEW i \in DOMAIN out PROVE ImagesOf(out[i]) \in Nat
  <2>1. CASE out[i].role = "user"
    <3>1. IsSeq(out[i].images)
      BY <2>1 DEF ImagesFine
    <3> QED BY <2>1, <3>1, SeqIs DEF ImagesOf
  <2>2. CASE out[i].role # "user"
    BY <2>2 DEF ImagesOf
  <2> QED BY <2>1, <2>2
<1>3. /\ [i \in DOMAIN out |-> ImagesOf(out[i])] \in Seq(Nat)
      /\ Len([i \in DOMAIN out |-> ImagesOf(out[i])]) = Len(out)
  BY <1>1, <1>2
<1> QED BY <1>3, TotalType DEF ImagesOut

(* a message more has its images more *)
LEMMA ImagesAppend ==
  ASSUME NEW out, ImagesFine(out), NEW e, e.role = "user" => IsSeq(e.images)
  PROVE  ImagesOut(Append(out, e)) = ImagesOut(out) + ImagesOf(e)
<1>1. PICK o : o = Append(out, e)
  OBVIOUS
<1>2. IsSeq(out)
  BY DEF ImagesFine
<1>3. Longer(o, out, e)
  BY <1>1, <1>2, SeqMore
<1>4. PICK len : len = Len(out)
  OBVIOUS
<1>5. len \in Nat /\ DOMAIN out = 1 .. len
  BY <1>2, <1>4, SeqIs
<1>6. /\ IsSeq(o) /\ DOMAIN o = 1 .. len + 1 /\ Len(o) = len + 1
      /\ o[len + 1] = e /\ \A j \in 1 .. len : o[j] = out[j]
  BY <1>3, <1>4 DEF Longer
<1>7. ImagesFine(o)
  <2>1. ASSUME NEW i \in DOMAIN o, o[i].role = "user" PROVE IsSeq(o[i].images)
    <3>1. i = len + 1 \/ (i \in 1 .. len /\ i # len + 1)
      BY <1>5, <1>6
    <3>2. CASE i = len + 1
      BY <1>6, <2>1, <3>2
    <3>3. CASE i # len + 1
      BY <1>5, <1>6, <2>1, <3>1, <3>3 DEF ImagesFine
    <3> QED BY <3>2, <3>3
  <2> QED BY <1>6, <2>1 DEF ImagesFine
<1> DEFINE A == [i \in DOMAIN out |-> ImagesOf(out[i])]
           B == [i \in DOMAIN o |-> ImagesOf(o[i])]
<1>8. A \in Seq(Nat) /\ Len(A) = len
  BY <1>4, ImagesType
<1>9. B \in Seq(Nat) /\ Len(B) = len + 1
  BY <1>6, <1>7, ImagesType
<1>10. PICK x : x = ImagesOf(e)
  OBVIOUS
<1>11. /\ \A i \in 1 .. len : B[i] = A[i]
       /\ B[len + 1] = x
  <2>1. ASSUME NEW i \in 1 .. len PROVE B[i] = A[i]
    <3>1. i \in DOMAIN o /\ i \in DOMAIN out /\ o[i] = out[i]
      BY <1>5, <1>6
    <3> QED BY <3>1
  <2>2. len + 1 \in DOMAIN o
    BY <1>5, <1>6
  <2> QED BY <1>6, <1>10, <2>1, <2>2
<1>12. x \in Nat
  <2>1. len + 1 \in 1 .. len + 1
    BY <1>5
  <2> HIDE DEF B
  <2> QED BY <1>9, <1>11, <2>1
<1> HIDE DEF A, B
<1>13. B = A \o <<x>>
  <2>1. Append(A, x) = A \o <<x>> /\ Longer(Append(A, x), A, x)
    <3>1. IsSeq(A)
      BY <1>8 DEF IsSeq
    <3> QED BY <3>1, SeqMore, SeqAppend
  <2>2. PICK a : a = Append(A, x)
    OBVIOUS
  <2>3. IsSeq(a) /\ Len(a) = len + 1 /\ a[len + 1] = x /\ \A i \in 1 .. len : a[i] = A[i]
    BY <1>8, <2>1, <2>2 DEF Longer
  <2>4. \A i \in 1 .. len + 1 : a[i] = B[i]
    <3>1. ASSUME NEW i \in 1 .. len + 1 PROVE a[i] = B[i]
      <4>1. i = len + 1 \/ i \in 1 .. len
        BY <1>5
      <4> QED BY <1>11, <2>3, <4>1
    <3> QED BY <3>1
  <2>5. IsSeq(B)
    BY <1>9 DEF IsSeq
  <2>6. a = B
    BY <1>9, <2>3, <2>4, <2>5, SeqSame
  <2> QED BY <2>1, <2>2, <2>6
<1>14. Total(B) = Total(A) + x
  <2>1. A \in Seq(Int) /\ <<x>> \in Seq(Int) /\ x \in Int
    BY <1>8, <1>12
  <2> QED BY <1>13, <2>1, TotalConcat, TotalOne
<1> QED BY <1>1, <1>10, <1>14 DEF ImagesOut, A, B

(* what the encoder holds after a message, when it has seen k images *)
ChatOK(p, s, k) ==
  /\ DOMAIN s = {"out", "pending", "images"} /\ s.pending = p
  /\ ChatOut(p, s.out) /\ IsSeq(s.images)
  /\ p = {} => s.images = <<>>
  /\ ImagesOut(s.out) + Len(s.images) = k

(* what the chat encoder has made has images that are sequences *)
LEMMA ChatFine ==
  ASSUME NEW p, NEW out, ChatOut(p, out)
  PROVE  ImagesFine(out) /\ ImagesOut(out) \in Nat
<1>1. ImagesFine(out)
  BY DEF ChatOut, ImagesFine
<1> QED BY <1>1, ImagesType

Own(m) == [i \in 1 .. ImagesIn(m) |-> IF m.role = "tool" THEN m.call ELSE "own"]

(* the images of a message, one by one *)
LEMMA OwnSeq ==
  ASSUME NEW m, MessageOK(m)
  PROVE  ImagesIn(m) \in Nat /\ IsSeq(Own(m)) /\ Len(Own(m)) = ImagesIn(m)
<1>1. PICK n : n = ImagesIn(m)
  OBVIOUS
<1>2. n \in Nat
  BY <1>1 DEF ImagesIn, MessageOK
<1>3. PICK x : x = IF m.role = "tool" THEN m.call ELSE "own"
  OBVIOUS
<1>4. Own(m) = [i \in 1 .. n |-> x]
  BY <1>1, <1>3 DEF Own
<1>5. [i \in 1 .. n |-> x] \in Seq({x}) /\ Len([i \in 1 .. n |-> x]) = n
  BY <1>2
<1> QED BY <1>1, <1>2, <1>4, <1>5 DEF IsSeq

(* a message is added, and whatever waits stays as it is *)
LEMMA ChatAdds ==
  ASSUME NEW m, MessageOK(m), m.role \in {"system", "user"}, NEW s, NEW k, k \in Nat, ChatOK({}, s, k), NEW mode
  PROVE  ChatOK({}, ChatStep(s, m, mode), k + ImagesIn(m))
<1> DEFINE e == IF m.role = "system" THEN m ELSE [role |-> "user", images |-> Own(m)]
<1>1. e.role = m.role /\ (m.role = "user" => e.images = Own(m))
  OBVIOUS
<1>2. ChatStep(s, m, mode) = Flush([s EXCEPT !.out = Append(@, e)])
  <2>1. Own(m) = [i \in 1..(IF m.role \in {"user", "tool"} THEN m.images ELSE 0) |->
                    IF m.role = "tool" THEN m.call ELSE "own"]
    BY DEF Own, ImagesIn
  <2> QED BY <2>1 DEF ChatStep, ChatMessage
<1> HIDE DEF e
<1>3. PICK n : n = [s EXCEPT !.out = Append(@, e)]
  OBVIOUS
<1>4. /\ DOMAIN n = {"out", "pending", "images"} /\ n.pending = {} /\ n.images = <<>> /\ n.out = Append(s.out, e)
      /\ s.images = <<>>
  BY <1>3 DEF ChatOK
<1>5. Flush(n) = n
  BY <1>4 DEF Flush
<1>6. m.role = "user" => IsSeq(e.images)
  BY <1>1, OwnSeq
<1>7. ChatOut({}, n.out)
  <2>1. ~Calls(e)
    BY <1>1 DEF Calls
  <2>2. ChatOut({}, s.out)
    BY DEF ChatOK
  <2>3. ChatOut({}, Append(s.out, e))
    BY <1>1, <1>6, <2>1, <2>2, ChatPlain
  <2> QED BY <1>4, <2>3
<1>8. ImagesOf(e) = ImagesIn(m)
  <2>1. CASE m.role = "user"
    BY <1>1, <2>1, OwnSeq DEF ImagesOf
  <2>2. CASE m.role = "system"
    BY <1>1, <2>2 DEF ImagesOf, ImagesIn
  <2> QED BY <2>1, <2>2
<1>9. ImagesOut(n.out) + Len(n.images) = k + ImagesIn(m)
  <2>1. ImagesOut(n.out) = ImagesOut(s.out) + ImagesOf(e)
    <3>1. ImagesFine(s.out)
      BY ChatFine DEF ChatOK
    <3>2. ImagesOut(Append(s.out, e)) = ImagesOut(s.out) + ImagesOf(e)
      BY <1>1, <1>6, <3>1, ImagesAppend
    <3> QED BY <1>4, <3>2
  <2>2. ImagesOut(s.out) + 0 = k /\ Len(n.images) = 0
    BY <1>4, SeqNone DEF ChatOK
  <2>3. ImagesOut(s.out) \in Nat /\ ImagesIn(m) \in Nat
    BY ChatFine, OwnSeq DEF ChatOK
  <2>4. PICK a, b, c, d : a = ImagesOut(s.out) /\ b = ImagesIn(m) /\ c = ImagesOut(n.out) /\ d = Len(n.images)
    OBVIOUS
  <2>5. a \in Nat /\ b \in Nat /\ a + 0 = k /\ d = 0 /\ c = a + b
    BY <1>8, <2>1, <2>2, <2>3, <2>4
  <2>6. c + d = k + b
    BY <2>5
  <2> QED BY <2>4, <2>6
<1>10. ChatOK({}, n, k + ImagesIn(m))
  BY <1>4, <1>7, <1>9, SeqNone DEF ChatOK
<1> QED BY <1>2, <1>3, <1>5, <1>10

(* an answer is added with its calls, or left out when it says nothing *)
LEMMA ChatSpeaks ==
  ASSUME NEW m, MessageOK(m), m.role = "assistant", \A i, j \in DOMAIN m.calls : i # j => m.calls[i] # m.calls[j],
         NEW s, NEW k, k \in Nat, ChatOK({}, s, k), NEW mode
  PROVE  ChatOK(ToSet(m.calls), ChatStep(s, m, mode), k)
<1>0. IsSeq(m.calls)
  BY DEF MessageOK, IsSeq
<1> DEFINE e == [role |-> "assistant", calls |-> m.calls, reasoning |-> ChatReasoning(m, mode)]
<1>1. e.role = "assistant" /\ e.calls = m.calls
  OBVIOUS
<1>2. CASE mode = "omit" /\ ~m.text /\ m.calls = <<>>
  <2>1. ToSet(m.calls) = {}
    BY <1>2, SeqNone DEF ToSet
  <2>2. ChatStep(s, m, mode) = s
    BY <1>2 DEF ChatStep
  <2> QED BY <2>1, <2>2
<1>3. CASE ~(mode = "omit" /\ ~m.text /\ m.calls = <<>>)
  <2> DEFINE n == [[s EXCEPT !.out = Append(@, e)] EXCEPT !.pending = @ \cup ToSet(m.calls)]
  <2>1. ChatStep(s, m, mode) = Flush(n)
    BY <1>3 DEF ChatStep, ChatMessage
  <2>2. /\ DOMAIN n = {"out", "pending", "images"} /\ n.pending = {} \cup ToSet(m.calls)
        /\ n.images = <<>> /\ n.out = Append(s.out, e)
        /\ s.images = <<>>
    <3> HIDE DEF e
    <3> QED BY DEF ChatOK
  <2> HIDE DEF n, e
  <2>3. Flush(n) = n
    BY <2>2 DEF Flush
  <2>4. ChatOut({}, s.out)
    BY DEF ChatOK
  <2>5. ChatOut(ToSet(m.calls), Append(s.out, e))
    <3>1. CASE m.calls = <<>>
      <4>1. ToSet(m.calls) = {}
        BY <3>1, SeqNone DEF ToSet
      <4>2. ~Calls(e)
        BY <1>1, <3>1 DEF Calls
      <4>3. ChatOut({}, Append(s.out, e))
        BY <1>1, <2>4, <4>2, ChatPlain
      <4> QED BY <4>1, <4>3
    <3>2. CASE m.calls # <<>>
      <4>1. Calls(e) /\ IsSeq(e.calls) /\ \A i, j \in DOMAIN e.calls : i # j => e.calls[i] # e.calls[j]
        BY <1>0, <1>1, <3>2 DEF Calls
      <4>2. ChatOut(ToSet(e.calls), Append(s.out, e))
        BY <2>4, <4>1, ChatCalled
      <4> QED BY <1>1, <4>2
    <3> QED BY <3>1, <3>2
  <2>6. ImagesOut(n.out) + Len(n.images) = k
    <3>1. ImagesFine(s.out) /\ ImagesOut(s.out) \in Nat
      BY <2>4, ChatFine
    <3>2. ImagesOut(Append(s.out, e)) = ImagesOut(s.out) + ImagesOf(e)
      BY <1>1, <3>1, ImagesAppend
    <3>3. ImagesOf(e) = 0
      BY <1>1 DEF ImagesOf
    <3>4. ImagesOut(s.out) + Len(s.images) = k
      BY DEF ChatOK
    <3>5. PICK a, c : a = ImagesOut(s.out) /\ c = ImagesOut(n.out)
      OBVIOUS
    <3>6. a \in Nat /\ a + 0 = k /\ c = a + 0 /\ Len(n.images) = 0
      BY <2>2, <3>1, <3>2, <3>3, <3>4, <3>5, SeqNone
    <3>7. c + 0 = k
      BY <3>6
    <3> QED BY <3>5, <3>6, <3>7
  <2>7. ChatOK(ToSet(m.calls), n, k)
    BY <2>2, <2>5, <2>6, SeqNone DEF ChatOK
  <2> QED BY <2>1, <2>3, <2>7
<1> QED BY <1>2, <1>3

(* images that wait are added once nothing is pending *)
LEMMA ChatFlushes ==
  ASSUME NEW q, NEW n, NEW k, k \in Nat, DOMAIN n = {"out", "pending", "images"}, n.pending = q,
         ChatOut(q, n.out), IsSeq(n.images), ImagesOut(n.out) + Len(n.images) = k
  PROVE  ChatOK(q, Flush(n), k)
<1>1. CASE q = {} /\ n.images # <<>>
  <2> DEFINE e == [role |-> "user", images |-> n.images]
             f == [n EXCEPT !.out = Append(@, e), !.images = <<>>]
  <2>1. Flush(n) = f
    BY <1>1 DEF Flush
  <2>2. e.role = "user" /\ e.images = n.images
    OBVIOUS
  <2> HIDE DEF e
  <2>3. /\ DOMAIN f = {"out", "pending", "images"} /\ f.pending = q
        /\ f.images = <<>> /\ f.out = Append(n.out, e)
    OBVIOUS
  <2> HIDE DEF f
  <2>4. ChatOut({}, Append(n.out, e))
    <3>1. ~Calls(e)
      BY <2>2 DEF Calls
    <3> QED BY <1>1, <2>2, <3>1, ChatPlain
  <2>5. ImagesOut(f.out) + Len(f.images) = k
    <3>1. ImagesFine(n.out) /\ ImagesOut(n.out) \in Nat
      BY ChatFine
    <3>2. ImagesOut(Append(n.out, e)) = ImagesOut(n.out) + ImagesOf(e)
      BY <2>2, <3>1, ImagesAppend
    <3>3. ImagesOf(e) = Len(n.images)
      BY <2>2 DEF ImagesOf
    <3>4. PICK a, b : a = ImagesOut(f.out) /\ b = Len(f.images)
      OBVIOUS
    <3>5. a = k /\ b = 0
      BY <2>3, <3>2, <3>3, <3>4, SeqNone
    <3>6. a + b = k
      BY <3>5
    <3> QED BY <3>4, <3>6
  <2>6. ChatOK(q, f, k)
    BY <1>1, <2>3, <2>4, <2>5, SeqNone DEF ChatOK
  <2> QED BY <2>1, <2>6
<1>2. CASE ~(q = {} /\ n.images # <<>>)
  <2>1. Flush(n) = n
    BY <1>2 DEF Flush
  <2>2. ChatOK(q, n, k)
    BY <1>2 DEF ChatOK
  <2> QED BY <2>1, <2>2
<1> QED BY <1>1, <1>2

(* a result is added and its images wait *)
LEMMA ChatResult ==
  ASSUME NEW m, MessageOK(m), m.role = "tool", NEW p, m.call \in p, NEW q, q = p \ {m.call},
         NEW s, NEW k, k \in Nat, ChatOK(p, s, k), NEW mode
  PROVE  ChatOK(q, ChatStep(s, m, mode), k + ImagesIn(m))
<1> DEFINE e == [role |-> "tool", call |-> m.call]
           n == [[s EXCEPT !.out = Append(@, e)] EXCEPT !.pending = @ \ {m.call}, !.images = @ \o Own(m)]
<1>1. e.role = "tool" /\ e.call = m.call
  OBVIOUS
<1>2. ChatStep(s, m, mode) = Flush(n)
  <2>1. Own(m) = [i \in 1..(IF m.role \in {"user", "tool"} THEN m.images ELSE 0) |->
                    IF m.role = "tool" THEN m.call ELSE "own"]
    BY DEF Own, ImagesIn
  <2> QED BY <2>1 DEF ChatStep, ChatMessage
<1>3. /\ DOMAIN n = {"out", "pending", "images"} /\ n.pending = q
      /\ n.images = s.images \o Own(m) /\ n.out = Append(s.out, e)
  <2> HIDE DEF e
  <2> QED BY DEF ChatOK
<1> HIDE DEF n, e
<1>4. ChatOut(p, s.out) /\ IsSeq(s.images) /\ ImagesOut(s.out) + Len(s.images) = k
  BY DEF ChatOK
<1>5. IsSeq(Own(m)) /\ Len(Own(m)) = ImagesIn(m) /\ ImagesIn(m) \in Nat
  BY OwnSeq
<1>6. ChatOut(q, n.out)
  <2>1. ChatOut(p \ {e.call}, Append(s.out, e))
    BY <1>1, <1>4, ChatAnswered
  <2> QED BY <1>1, <1>3, <2>1
<1>7. IsSeq(n.images) /\ Len(n.images) = Len(s.images) + ImagesIn(m)
  <2>1. PICK a, b : a = s.images /\ b = Own(m)
    OBVIOUS
  <2>2. IsSeq(a) /\ IsSeq(b)
    BY <1>4, <1>5, <2>1
  <2>3. IsSeq(a \o b) /\ Len(a \o b) = Len(a) + Len(b)
    BY <2>2, SeqConcat
  <2> QED BY <1>3, <1>5, <2>1, <2>3
<1>8. ImagesOut(n.out) = ImagesOut(s.out)
  <2>1. ImagesFine(s.out) /\ ImagesOut(s.out) \in Nat
    BY <1>4, ChatFine
  <2>2. ImagesOut(Append(s.out, e)) = ImagesOut(s.out) + ImagesOf(e)
    BY <1>1, <2>1, ImagesAppend
  <2>3. ImagesOf(e) = 0
    BY <1>1 DEF ImagesOf
  <2> QED BY <1>3, <2>1, <2>2, <2>3
<1>9. ImagesOut(n.out) + Len(n.images) = k + ImagesIn(m)
  <2>1. PICK a, b, c, d : a = ImagesOut(s.out) /\ b = Len(s.images) /\ c = ImagesIn(m) /\ d = Len(n.images)
    OBVIOUS
  <2>2. a \in Nat /\ b \in Nat /\ c \in Nat /\ a + b = k /\ d = b + c
    BY <1>4, <1>5, <1>7, <2>1, ChatFine, SeqIs
  <2>3. a + d = k + c
    BY <2>2
  <2> QED BY <1>8, <2>1, <2>3
<1>10. PICK j : j = k + ImagesIn(m)
  OBVIOUS
<1>11. j \in Nat /\ ImagesOut(n.out) + Len(n.images) = j
  BY <1>5, <1>9, <1>10
<1>12. ChatOK(q, Flush(n), j)
  BY <1>3, <1>6, <1>7, <1>11, ChatFlushes
<1> QED BY <1>2, <1>10, <1>12

(* a message keeps what the chat encoder holds *)
LEMMA ChatGoes ==
  ASSUME NEW p, NEW s, NEW k, k \in Nat, ChatOK(p, s, k), NEW m, MessageOK(m), NEW q, Goes(p, m, q), NEW mode
  PROVE  ChatOK(q, ChatStep(s, m, mode), k + ImagesIn(m))
<1>1. CASE /\ m.role = "assistant" /\ p = {} /\ q = ToSet(m.calls)
           /\ \A i, j \in DOMAIN m.calls : i # j => m.calls[i] # m.calls[j]
  <2>1. ImagesIn(m) = 0
    BY <1>1 DEF ImagesIn
  <2>2. ChatOK(q, ChatStep(s, m, mode), k)
    BY <1>1, ChatSpeaks
  <2>3. k + 0 = k
    OBVIOUS
  <2> QED BY <2>1, <2>2, <2>3
<1>2. CASE m.role = "tool" /\ m.call \in p /\ q = p \ {m.call}
  BY <1>2, ChatResult
<1>3. CASE m.role \in {"system", "user"} /\ p = {} /\ q = {}
  BY <1>3, ChatAdds
<1> QED BY <1>1, <1>2, <1>3 DEF Goes

(* in a chat request the results follow their calls, and no image is lost *)
LEMMA ChatSound ==
  ASSUME NEW conv, ConversationOK(conv), NEW config, Normalize(conv, config), NEW mode
  PROVE  ChatBatches(ChatEncode(conv, mode)) /\ ImagesKept(conv, ChatEncode(conv, mode))
<1>1. IsSeq(conv) /\ Len(conv) \in Nat /\ (\A i \in 1 .. Len(conv) : MessageOK(conv[i])) /\ DOMAIN conv = 1 .. Len(conv)
  BY Pairs, SeqIs
<1>2. PICK p : PairedBy(conv, p)
  BY Pairs
<1>3. PICK s : /\ s[0] = ChatBegins
               /\ \A i \in 1 .. Len(conv) : s[i] = ChatStep(s[i - 1], conv[i], mode)
               /\ ChatEncode(conv, mode) = s[Len(conv)].out
  BY <1>1, ChatUnfolds
<1> DEFINE ns == [i \in DOMAIN conv |-> ImagesIn(conv[i])]
<1>4. Len(ns) = Len(conv) /\ \A i \in 1 .. Len(conv) : ns[i] = ImagesIn(conv[i])
  <2>1. \A i \in 1 .. Len(conv) : ImagesIn(conv[i]) \in Nat
    BY <1>1, OwnSeq
  <2> QED BY <1>1, <2>1
<1> HIDE DEF ns
<1>5. PICK t : /\ t[0] = 0
               /\ \A i \in 1 .. Len(conv) : t[i] = t[i - 1] + ns[i]
               /\ Total(ns) = t[Len(conv)]
  <2>1. PICK t : /\ t[0] = 0
                 /\ \A i \in 1 .. Len(ns) : t[i] = t[i - 1] + ns[i]
                 /\ Total(ns) = t[Len(ns)]
    BY <1>1, <1>4, TotalUnfolds
  <2> QED BY <1>4, <2>1
<1> DEFINE S == {k \in Nat : k <= Len(conv) => t[k] \in Nat /\ ChatOK(p[k], s[k], t[k])}
<1>6. 0 \in S
  <2>1. PICK b : b = ChatBegins
    OBVIOUS
  <2>2. DOMAIN b = {"out", "pending", "images"} /\ b.out = <<>> /\ b.pending = {} /\ b.images = <<>>
    BY <2>1 DEF ChatBegins
  <2>3. ChatOut({}, <<>>)
    BY SeqNone, FS_EmptySet DEF ChatOut
  <2>4. ImagesOut(<<>>) = 0
    <3>1. [i \in DOMAIN <<>> |-> ImagesOf(<<>>[i])] = <<>>
      OBVIOUS
    <3> QED BY <3>1, TotalNone, Zenon DEF ImagesOut
  <2>5. ImagesOut(b.out) + Len(b.images) = 0
    BY <2>2, <2>4, SeqNone
  <2>6. ChatOK({}, b, 0)
    BY <2>2, <2>3, <2>5, SeqNone DEF ChatOK
  <2>7. t[0] \in Nat /\ ChatOK(p[0], s[0], t[0])
    <3>1. p[0] = {}
      BY <1>2 DEF PairedBy
    <3>2. s[0] = b /\ t[0] = 0
      BY <1>3, <1>5, <2>1
    <3> QED BY <2>6, <3>1, <3>2
  <2> QED BY <2>7
<1>7. ASSUME NEW k \in Nat, k \in S PROVE k + 1 \in S
  <2>1. PICK i : i = k + 1
    OBVIOUS
  <2>2. ASSUME i <= Len(conv) PROVE t[i] \in Nat /\ ChatOK(p[i], s[i], t[i])
    <3>1. i \in 1 .. Len(conv) /\ i - 1 = k /\ k <= Len(conv)
      BY <1>1, <2>1, <2>2
    <3>2. PICK m, c : m = conv[i] /\ c = t[k]
      OBVIOUS
    <3>3. /\ c \in Nat /\ ChatOK(p[k], s[k], c) /\ Goes(p[k], m, p[i]) /\ s[i] = ChatStep(s[k], m, mode)
          /\ MessageOK(m)
      BY <1>1, <1>2, <1>3, <1>7, <3>1, <3>2 DEF PairedBy
    <3>4. t[i] = c + ImagesIn(m)
      BY <1>4, <1>5, <3>1, <3>2
    <3>5. ChatOK(p[i], ChatStep(s[k], m, mode), c + ImagesIn(m)) /\ ImagesIn(m) \in Nat
      BY <3>3, ChatGoes, OwnSeq
    <3> QED BY <3>3, <3>4, <3>5
  <2> QED BY <2>1, <2>2
<1>8. ChatOK(p[Len(conv)], s[Len(conv)], t[Len(conv)])
  <2>1. Len(conv) \in S
    <3> HIDE DEF S
    <3> QED BY <1>1, <1>6, <1>7, NatSetInduction
  <2> QED BY <1>1, <2>1
<1>9. PICK z, out : z = s[Len(conv)] /\ out = ChatEncode(conv, mode)
  OBVIOUS
<1>10. ChatOut({}, out) /\ out = z.out /\ z.images = <<>> /\ ImagesOut(out) + Len(z.images) = Total(ns)
  BY <1>2, <1>3, <1>5, <1>8, <1>9 DEF PairedBy, ChatOK
<1>11. ChatBatches(out)
  <2>1. ASSUME NEW i \in DOMAIN out, out[i].role = "assistant", out[i].calls # <<>>
        PROVE  Done(out, i)
    BY <1>10, <2>1 DEF ChatOut, Calls
  <2> QED BY <2>1 DEF ChatBatches, Done, Answers
<1>12. ImagesOut(out) = Total(ns)
  <2>1. ImagesOut(out) \in Nat /\ Len(z.images) = 0
    BY <1>10, ChatFine, SeqNone
  <2> QED BY <1>10, <2>1
<1>13. ImagesKept(conv, out)
  BY <1>12 DEF ImagesKept, ImagesOut, ImagesOf, ImagesIn, ns
<1> QED BY <1>9, <1>11, <1>13

(***************************************************************************)
(* What is sent                                                            *)
(***************************************************************************)
(* a request that is built from a history is well formed for its API *)
LEMMA BuiltSound ==
  ASSUME NEW conv, ConversationOK(conv), NEW config, NEW route, BuildRequest(conv, config, route) # None
  PROVE  WellFormed(conv, BuildRequest(conv, config, route))
<1>1. /\ Normalize(conv, config) /\ BuildAdapter(route)
      /\ BuildRequest(conv, config, route)
         = Prepare(route.format,
             CASE route.format = "chat_completions" -> ChatEncode(conv, ChatMode(route))
               [] route.format = "messages" -> MessagesEncode(conv)
               [] route.format = "responses" -> ResponsesEncode(conv))
  BY DEF BuildRequest
<1>2. \A f, c : Prepare(f, c).format = f /\ Prepare(f, c).content = c
  BY DEF Prepare
<1>3. PICK b : b = BuildRequest(conv, config, route)
  OBVIOUS
<1>4. PICK v, f : v = route.vendor /\ f = route.format
  OBVIOUS
<1>5. <<v, f>> \in Supports
  BY <1>1, <1>4 DEF BuildAdapter
<1>6. f \in {"chat_completions", "messages", "responses"}
  BY <1>5 DEF Supports, Formats
<1>7. CASE f = "chat_completions"
  <2>1. b = Prepare(f, ChatEncode(conv, ChatMode(route)))
    BY <1>1, <1>3, <1>4, <1>7
  <2>2. b.format = "chat_completions" /\ b.content = ChatEncode(conv, ChatMode(route))
    BY <1>2, <1>7, <2>1
  <2>3. ChatBatches(b.content) /\ ImagesKept(conv, b.content)
    BY <1>1, <2>2, ChatSound
  <2>4. WellFormed(conv, b)
    BY <2>2, <2>3 DEF WellFormed
  <2> QED BY <1>3, <2>4
<1>8. CASE f = "messages"
  <2>1. b = Prepare(f, MessagesEncode(conv))
    BY <1>1, <1>3, <1>4, <1>8
  <2>2. b.format = "messages" /\ b.content = MessagesEncode(conv)
    BY <1>2, <1>8, <2>1
  <2>3. MessagesAlternate(b.content)
    BY <1>1, <2>2, MessagesSound
  <2>4. WellFormed(conv, b)
    BY <2>2, <2>3 DEF WellFormed
  <2> QED BY <1>3, <2>4
<1>9. CASE f = "responses"
  <2>1. b = Prepare(f, ResponsesEncode(conv))
    BY <1>1, <1>3, <1>4, <1>9
  <2>2. b.format = "responses" /\ b.content = ResponsesEncode(conv)
    BY <1>2, <1>9, <2>1
  <2>3. ResponsesPaired(b.content)
    BY <1>1, <2>2, ResponsesSound
  <2>4. WellFormed(conv, b)
    BY <2>2, <2>3 DEF WellFormed
  <2> QED BY <1>3, <2>4
<1> QED BY <1>6, <1>7, <1>8, <1>9

(* a conversation is a sequence of messages *)
LEMMA ConversationIs ==
  ASSUME NEW c
  PROVE  ConversationOK(c) <=> IsSeq(c) /\ \A i \in DOMAIN c : MessageOK(c[i])
  BY SeqIs DEF ConversationOK, IsSeq

(* a message by itself is a conversation *)
LEMMA ConversationOne ==
  ASSUME NEW m, MessageOK(m)
  PROVE  ConversationOK(<<m>>)
<1>1. IsSeq(<<m>>) /\ \A i \in DOMAIN <<m>> : <<m>>[i] = m
  BY SeqOne
<1> QED BY <1>1, ConversationIs

(* a conversation goes on with another *)
LEMMA ConversationMore ==
  ASSUME NEW a, NEW b, ConversationOK(a), ConversationOK(b)
  PROVE  ConversationOK(a \o b)
<1>1. IsSeq(a) /\ IsSeq(b) /\ (\A i \in DOMAIN a : MessageOK(a[i])) /\ (\A i \in DOMAIN b : MessageOK(b[i]))
  BY ConversationIs
<1>2. PICK c : c = a \o b
  OBVIOUS
<1>3. /\ IsSeq(c)
      /\ \A i \in DOMAIN c : i > Len(a) => i - Len(a) \in 1 .. Len(b) /\ c[i] = b[i - Len(a)]
      /\ \A i \in DOMAIN c : ~(i > Len(a)) => i \in 1 .. Len(a)
      /\ \A i \in 1 .. Len(a) : c[i] = a[i]
  BY <1>1, <1>2, SeqConcat
<1>4. DOMAIN a = 1 .. Len(a) /\ DOMAIN b = 1 .. Len(b)
  BY <1>1, SeqIs
<1>5. ASSUME NEW i \in DOMAIN c PROVE MessageOK(c[i])
  <2>1. CASE i > Len(a)
    <3>1. PICK k \in DOMAIN b : c[i] = b[k]
      BY <1>3, <1>4, <2>1
    <3> QED BY <1>1, <3>1
  <2>2. CASE ~(i > Len(a))
    <3>1. i \in DOMAIN a /\ c[i] = a[i]
      BY <1>3, <1>4, <2>2
    <3> QED BY <1>1, <3>1
  <2> QED BY <2>1, <2>2
<1>6. ConversationOK(c)
  BY <1>3, <1>5, ConversationIs
<1> QED BY <1>2, <1>6

(* the history that goes on from an answer is a conversation *)
LEMMA ContinueOK ==
  ASSUME NEW a, AnswerOK(a)
  PROVE  ConversationOK(Continue(a))
<1> DEFINE said == Assistant(a.content > 0, a.reasoning > 0, a.calls, a.replay)
           mid == IF Speaks(said) THEN <<said>> ELSE <<>>
           results == [i \in DOMAIN a.calls |-> ToolResult(a.calls[i], i % 2)]
           user == <<User(0)>>
           pre == user \o mid
           conv == pre \o results
<1>1. PICK n : n = Len(a.calls)
  OBVIOUS
<1>2. IsSeq(a.calls) /\ n \in Nat /\ DOMAIN a.calls = 1 .. n
  BY <1>1, SeqIs DEF AnswerOK
<1>3. conv = Continue(a)
  BY DEF Continue
<1>4. ConversationOK(<<>>)
  BY SeqNone, ConversationIs
<1>5. ConversationOK(user)
  <2>1. PICK m : m = User(0)
    OBVIOUS
  <2>2. m.role = "user" /\ m.images = 0
    BY <2>1, Roles
  <2>3. MessageOK(m)
    BY <2>2 DEF MessageOK
  <2> QED BY <2>1, <2>3, ConversationOne
<1>6. ConversationOK(mid)
  <2>1. said.role = "assistant" /\ said.calls = a.calls /\ said.text = (a.content > 0)
    BY DEF Assistant
  <2> HIDE DEF said
  <2>2. (a.content > 0) \in BOOLEAN
    OBVIOUS
  <2>3. a.calls \in Seq(ToSet(a.calls))
    BY <1>2, SeqIs
  <2>4. MessageOK(said)
    BY <2>1, <2>2, <2>3 DEF MessageOK
  <2> QED BY <1>4, <2>4, ConversationOne
<1>7. ConversationOK(results)
  <2>1. DOMAIN results = 1 .. n
    BY <1>2
  <2>2. IsSeq(results)
    <3>1. PICK X, s : X = {results[i] : i \in 1 .. n} /\ s = results
      OBVIOUS
    <3>2. s \in [1 .. n -> X]
      BY <1>2, <3>1
    <3>3. s \in Seq(X)
      BY <1>2, <3>2
    <3> QED BY <3>1, <3>3 DEF IsSeq
  <2>3. ASSUME NEW i \in DOMAIN results PROVE MessageOK(results[i])
    <3>1. PICK m : m = results[i]
      OBVIOUS
    <3>2. m = ToolResult(a.calls[i], i % 2) /\ i \in 1 .. n
      BY <1>2, <3>1
    <3>3. m.role = "tool" /\ m.images = i % 2 /\ i % 2 \in Nat
      BY <1>2, <3>2, Roles
    <3>4. MessageOK(m)
      BY <3>3 DEF MessageOK
    <3> QED BY <3>1, <3>4
  <2> HIDE DEF results
  <2> QED BY <2>2, <2>3, ConversationIs
<1> HIDE DEF user, mid, results
<1>8. ConversationOK(pre)
  BY <1>5, <1>6, ConversationMore
<1> HIDE DEF pre
<1>9. ConversationOK(conv)
  BY <1>7, <1>8, ConversationMore
<1> QED BY <1>3, <1>9

(* what waits to be sent is a conversation, and what is sent is its request *)
BodyOK(q) ==
  /\ q.phase = "queued" => ConversationOK(q.ask.conv)
  /\ q.body # None => WellFormed(q.ask.conv, q.body)

BodyInv == \A r \in Request : BodyOK(req[r])

(* a request that keeps what it asks or loses its body *)
Keeps(x, q) ==
  \/ x.body = q.body /\ x.ask = q.ask /\ (x.phase = q.phase \/ x.phase # "queued")
  \/ x.body = None /\ x.phase # "queued"

(* a step that keeps or drops bodies *)
LEMMA BodyKept ==
  ASSUME BodyInv, \A q \in Request : Keeps(req'[q], req[q])
  PROVE  BodyInv'
<1>1. ASSUME NEW q, NEW x, BodyOK(q), Keeps(x, q) PROVE BodyOK(x)
  BY <1>1 DEF BodyOK, Keeps
<1> QED BY <1>1 DEF BodyInv

(* nothing changed is kept *)
LEMMA SameKept == \A q : Keeps(q, q)
  BY DEF Keeps

(* cancelling, ceasing to listen and ending leave a request's body *)
LEMMA SmallBody ==
  ASSUME Shapes, BodyInv,
         \/ \E x : req' = [req EXCEPT ![x].cancel = TRUE] \/ req' = [req EXCEPT ![x].heard = FALSE]
                   \/ req' = [req EXCEPT ![x].turn = None, ![x].cancel = FALSE]
         \/ UNCHANGED req
  PROVE  BodyInv'
<1>1. ASSUME NEW q \in Request PROVE Keeps(req'[q], req[q])
  <2>1. \/ req'[q] = req[q] \/ req'[q] = [req[q] EXCEPT !.cancel = TRUE]
        \/ req'[q] = [req[q] EXCEPT !.heard = FALSE]
        \/ req'[q] = [req[q] EXCEPT !.turn = None, !.cancel = FALSE]
    BY DEF Shapes
  <2>2. req'[q].body = req[q].body /\ req'[q].ask = req[q].ask /\ req'[q].phase = req[q].phase
    BY <2>1 DEF Shapes, ReqFields
  <2> QED BY <2>2 DEF Keeps
<1> QED BY <1>1, BodyKept

(* an answered request has no body *)
LEMMA ReplyBody ==
  ASSUME Shapes, BodyInv, NEW r \in Request, NEW a, Reply(r, a)
  PROVE  BodyInv'
<1>1. /\ req'[r] = [NoRequest EXCEPT !.phase = "over", !.turn = req[r].turn, !.vm = req[r].vm, !.reply = a]
      /\ \A q \in Request \ {r} : req'[q] = req[q]
  BY DEF Reply, Shapes
<1>2. req'[r].phase = "over" /\ req'[r].body = None
  BY <1>1 DEF NoRequest
<1>3. \A q \in Request : Keeps(req'[q], req[q])
  BY <1>1, <1>2, SameKept DEF Keeps
<1> QED BY <1>3, BodyKept

(* nor has one that finishes *)
LEMMA FinishBody ==
  ASSUME Shapes, BodyInv, NEW r \in Request, NEW a, FinishInference(r, a)
  PROVE  BodyInv'
  BY ReplyBody, SmallBody DEF FinishInference

(* a stream that is over sends nothing *)
LEMMA SettleBody ==
  ASSUME Shapes, BodyInv, NEW r \in Request, NEW got, Settle(r, got)
  PROVE  BodyInv'
<1>1. UNCHANGED req \/ \E a : FinishInference(r, a)
  BY DEF Settle
<1> QED BY <1>1, FinishBody, SmallBody

(* a launch keeps the body or drops it *)
LEMMA LaunchBody ==
  ASSUME Shapes, BodyInv, NEW r \in Request, Launch(r) \/ LaunchFails(r)
  PROVE  BodyInv'
<1>1. /\ \A q \in Request \ {r} : req'[q] = req[q]
      /\ \/ req'[r] = [req[r] EXCEPT !.phase = "run"]
         \/ req'[r] = [req[r] EXCEPT !.phase = "failed", !.reply = Failure("TaskPanicked"),
                                     !.ask = None, !.body = None]
  BY DEF Launch, LaunchFails, Shapes
<1>2. Keeps(req'[r], req[r])
  BY <1>1 DEF Keeps, Shapes, ReqFields
<1>3. \A q \in Request : Keeps(req'[q], req[q])
  BY <1>1, <1>2, SameKept
<1> QED BY <1>3, BodyKept

(* the worker takes the body *)
LEMMA BeginBody ==
  ASSUME Shapes, BodyInv, NEW r \in Request, TaskOK(r), Begin(r)
  PROVE  BodyInv'
<1>1. CASE \E a : FinishInference(r, a)
  BY <1>1, FinishBody
<1>2. CASE req' = [req EXCEPT ![r].ask = None, ![r].body = None]
  <2>1. req[r].phase # "queued"
    BY DEF Begin, TaskOK
  <2>2. /\ \A q \in Request \ {r} : req'[q] = req[q]
        /\ req'[r].phase = req[r].phase /\ req'[r].body = None
    BY <1>2 DEF Shapes, ReqFields
  <2>3. \A q \in Request : Keeps(req'[q], req[q])
    BY <2>1, <2>2, SameKept DEF Keeps
  <2> QED BY <2>3, BodyKept
<1> QED BY <1>1, <1>2 DEF Begin

(* the body of a request that is taken is the one built from its history *)
LEMMA HandleBody ==
  ASSUME Shapes, BodyInv, NEW r \in Request, HandleInference(r)
  PROVE  BodyInv'
<1>1. CASE \E a : Reply(r, a)
  BY <1>1, ReplyBody
<1>2. CASE \E body : /\ body = BuildRequest(req[r].ask.conv, req[r].ask.config, req[r].ask.route) /\ body # None
                     /\ req' = [req EXCEPT ![r].phase = "launch", ![r].body = body]
  <2>1. PICK body : /\ body = BuildRequest(req[r].ask.conv, req[r].ask.config, req[r].ask.route) /\ body # None
                    /\ req' = [req EXCEPT ![r].phase = "launch", ![r].body = body]
    BY <1>2
  <2>2. req[r].phase = "queued" /\ BodyOK(req[r])
    BY DEF HandleInference, BodyInv
  <2>3. PICK conv, config, route : conv = req[r].ask.conv /\ config = req[r].ask.config /\ route = req[r].ask.route
    OBVIOUS
  <2>4. ConversationOK(conv)
    BY <2>2, <2>3 DEF BodyOK
  <2>5. body = BuildRequest(conv, config, route)
    BY <2>1, <2>3
  <2>6. WellFormed(conv, body)
    BY <2>1, <2>4, <2>5, BuiltSound
  <2>7. /\ req'[r].body = body /\ req'[r].ask = req[r].ask /\ req'[r].phase = "launch"
        /\ \A q \in Request \ {r} : req'[q] = req[q]
    BY <2>1 DEF Shapes, ReqFields
  <2>8. ASSUME NEW x, x.body = body, x.ask = req[r].ask, x.phase = "launch" PROVE BodyOK(x)
    BY <2>3, <2>6, <2>8 DEF BodyOK
  <2>9. BodyOK(req'[r])
    BY <2>7, <2>8
  <2> QED BY <2>7, <2>9 DEF BodyInv
<1>3. (\E a : Reply(r, a)) \/
      \E body : /\ body = BuildRequest(req[r].ask.conv, req[r].ask.config, req[r].ask.route) /\ body # None
                /\ req' = [req EXCEPT ![r].phase = "launch", ![r].body = body]
  BY DEF HandleInference
<1> QED BY <1>1, <1>2, <1>3

(* a Driver asks what it is given, or goes on from the answer it has *)
LEMMA AskBody ==
  ASSUME Shapes, TextInv, BodyInv, NEW r \in Request, Ask(r)
  PROVE  BodyInv'
<1>1. PICK w \in Wanted[r] : \E conv \in Conversations(r, w) :
       req' = [q \in Request |->
                 IF q = r
                 THEN [NoRequest EXCEPT !.phase = "queued", !.turn = agent.turn, !.vm = agent.vm,
                         !.ask = [conv |-> conv, config |-> w.config, route |-> w.route]]
                 ELSE [req[q] EXCEPT !.reply = IF q < r THEN Used ELSE @]]
  BY DEF Ask
<1>2. PICK conv \in Conversations(r, w) :
       req' = [q \in Request |->
                 IF q = r
                 THEN [NoRequest EXCEPT !.phase = "queued", !.turn = agent.turn, !.vm = agent.vm,
                         !.ask = [conv |-> conv, config |-> w.config, route |-> w.route]]
                 ELSE [req[q] EXCEPT !.reply = IF q < r THEN Used ELSE @]]
  BY <1>1
<1>3. ConversationOK(conv)
  <2>1. CASE w.conv # None
    BY <1>2, <2>1, InputAssumption DEF Conversations
  <2>2. CASE w.conv = None
    <3>1. PICK q \in Request : req[q].reply.kind = "ok" /\ conv = Continue(req[q].reply)
      BY <1>2, <2>2 DEF Conversations, Asked
    <3>2. AnswerOK(req[q].reply)
      BY <3>1 DEF TextInv, TextOK, TextOf
    <3> QED BY <3>1, <3>2, ContinueOK
  <2> QED BY <2>1, <2>2
<1>4. BodyOK(req'[r])
  <2>1. PICK a : a = [conv |-> conv, config |-> w.config, route |-> w.route]
    OBVIOUS
  <2>2. a.conv = conv
    BY <2>1
  <2>3. req'[r] = [NoRequest EXCEPT !.phase = "queued", !.turn = agent.turn, !.vm = agent.vm, !.ask = a]
    BY <1>2, <2>1
  <2>4. req'[r].body = None /\ req'[r].ask = a
    BY <2>3 DEF NoRequest
  <2> QED BY <1>3, <2>2, <2>4 DEF BodyOK
<1>5. ASSUME NEW q \in Request \ {r} PROVE BodyOK(req'[q])
  <2>1. req'[q] = [req[q] EXCEPT !.reply = IF q < r THEN Used ELSE @]
    BY <1>2
  <2>2. req'[q].body = req[q].body /\ req'[q].ask = req[q].ask /\ req'[q].phase = req[q].phase
    BY <2>1 DEF Shapes, ReqFields
  <2>3. BodyOK(req[q])
    BY DEF BodyInv
  <2>4. ASSUME NEW x, x.body = req[q].body, x.ask = req[q].ask, x.phase = req[q].phase PROVE BodyOK(x)
    BY <2>3, <2>4 DEF BodyOK
  <2> QED BY <2>2, <2>4
<1> QED BY <1>4, <1>5 DEF BodyInv

(* every step keeps the bodies *)
LEMMA NextBody ==
  ASSUME InferenceInv, TextInv, BodyInv, [Next]_vars
  PROVE  BodyInv'
<1>1. Shapes /\ \A r \in Request : TaskOK(r)
  BY DEF InferenceInv
<1>2. CASE UNCHANGED vars
  BY <1>1, <1>2, SmallBody DEF vars
<1>3. CASE StartTurn \/ FinishTurn \/ Joined \/ Abort
  BY <1>1, <1>3, SmallBody DEF StartTurn, FinishTurn, Joined, Abort
<1>4. CASE WorldStep
  BY <1>1, <1>4, SmallBody DEF WorldStep
<1>5. ASSUME NEW how, Stop(how) PROVE BodyInv'
  BY <1>1, <1>5, SmallBody DEF Stop
<1>6. ASSUME NEW r \in Request, HandleCleanup(r) \/ DropReply(r) \/ EndTask(r) PROVE BodyInv'
  BY <1>1, <1>6, SmallBody DEF HandleCleanup, DropReply, EndTask
<1>7. ASSUME NEW r \in Request, Interrupt(r) \/ AcceptFragment(r) \/ StreamEnds(r) PROVE BodyInv'
  <2>1. (\E got : Settle(r, got)) \/ UNCHANGED req
    BY <1>7 DEF Interrupt, AcceptFragment, StreamEnds, Take
  <2> QED BY <1>1, <2>1, SettleBody, SmallBody
<1>8. ASSUME NEW r \in Request, Receive(r) \/ JoinAtLast(r) \/ Notify(r) \/ SendFragment(r) \/ WorkerEnds(r)
                                \/ Connect(r)
      PROVE BodyInv'
  BY <1>1, <1>8, SmallBody DEF Receive, JoinAtLast, Notify, SendFragment, WorkerEnds, Connect
<1>9. ASSUME NEW r \in Request, WorkerReturns(r) \/ WorkerPanics(r) \/ ReadChunk(r) \/ ReadEnd(r)
      PROVE BodyInv'
  <2>1. UNCHANGED req
    BY <1>9 DEF WorkerReturns, WorkerPanics, ReadChunk, ReadEnd, Returns, Decoded
  <2> QED BY <1>1, <2>1, SmallBody
<1>10. ASSUME NEW r \in Request, Join(r) \/ JoinLate(r) PROVE BodyInv'
  <2>1. \E a : FinishInference(r, a)
    BY <1>10 DEF Join, JoinLate
  <2> QED BY <1>1, <2>1, FinishBody
<1>11. ASSUME NEW r \in Request, SystemOf(r) PROVE BodyInv'
  BY <1>1, <1>6, <1>7, <1>8, <1>9, <1>10, <1>11, HandleBody, LaunchBody, BeginBody DEF SystemOf
<1>12. ASSUME NEW r \in Request, \/ Ask(r) \/ LaunchFails(r) \/ JoinLate(r) \/ DropReply(r)
                                 \/ Connect(r) \/ ReadChunk(r) \/ ReadEnd(r) \/ WorkerPanics(r)
      PROVE BodyInv'
  BY <1>1, <1>6, <1>8, <1>9, <1>10, <1>12, AskBody, LaunchBody
<1> QED
  BY <1>2, <1>3, <1>4, <1>5, <1>11, <1>12 DEF Next, System, Environment

(* nothing is sent in the beginning *)
LEMMA InitBody ==
  ASSUME Init
  PROVE  BodyInv
<1>1. ASSUME NEW r \in Request PROVE BodyOK(req[r])
  <2>1. req[r].phase = "none" /\ req[r].body = None
    BY DEF Init, NoRequest
  <2> QED BY <2>1 DEF BodyOK
<1> QED BY <1>1 DEF BodyInv

(* A request that is sent is one its API takes, whatever its history: in a  *)
(* chat request the results of a batch follow it at once and no image is    *)
(* lost; in a messages request users and assistants take turns and calls    *)
(* are answered by the next turn; in a responses request calls and outputs  *)
(* pair (normalize, ChatCompletionsRequest, merge_message,                  *)
(* ResponsesRequest).                                                       *)
THEOREM BodySoundCorrect == Spec => []BodySound
<1>1. BodyInv => BodySound
  BY DEF BodyInv, BodyOK, BodySound
<1>2. Spec => []BodyInv
  BY InvCorrect, TextCorrect, InitBody, NextBody, PTL DEF Spec
<1> QED BY <1>1, <1>2, PTL
=============================================================================
