--------------------------- MODULE MclQueueProofs ---------------------------
(***************************************************************************)
(* For any set of commands, any bound on starts, every fault and frames at *)
(* any time: one command executes at a time and none without a record, the *)
(* drain of a queue is exact, and a closed queue changes nothing.          *)
(***************************************************************************)
EXTENDS MclQueue, FiniteSetTheorems, SequenceTheorems, TLAPS

(* A request is in one place: its event unread, the queue, or settled.     *)
Distinct(s) == \A i, j \in 1 .. Len(s) : s[i] = s[j] => i = j

PlacesApart ==
  /\ Distinct(commands)
  /\ Distinct(inbox)
  /\ \A i \in 1 .. Len(inbox), j \in 1 .. Len(commands) : inbox[i] # commands[j]

(* What is not settled has no answer, and but for the head no task.        *)
Queued ==
  \A i \in 1 .. Len(commands) :
    /\ commands[i] \in sent
    /\ answer[commands[i]] = "none"
    /\ stage[commands[i]] # "over"

Unread ==
  \A i \in 1 .. Len(inbox) :
    /\ inbox[i] \in sent
    /\ answer[inbox[i]] = "none"
    /\ stage[inbox[i]] = "none"

Unsent == \A c \in Command \ sent : answer[c] = "none" /\ stage[c] = "none"

PendingRuns == pending # None => stage[pending] \in Executing

(* The result of a task is that of its operation until its audit, and an   *)
(* unknown outcome is in the drain of the queue it came from.              *)
CommandOK(c) ==
  /\ stage[c] \in {"none", "run", "storage", "closure", "asked"} => ran[c] = "none"
  /\ stage[c] = "result" => audited[c] \/ res[c] \in {"unaudited", "unsure"}
  /\ inst[c] <= starts
  /\ answer[c] = "unsure" /\ inst[c] = starts => drainError

(* From its first closure on a stop finds the queue closed.                *)
WaitOK ==
  /\ waiter \in {"enable", "check", "looked", "asleep", "ok", "error"} => ~accepting
  /\ waiter = "ok" => commands = <<>> /\ ~drainError
  /\ waiter \in {"looked", "asleep"} /\ ~woken => outstanding > 0 /\ ~drainError
  /\ state = "restarting" => starts < MaxStarts

MclInv ==
  /\ MclTypeOK
  /\ DrainCounts
  /\ PlacesApart
  /\ Queued
  /\ Unread
  /\ Unsent
  /\ OneRuns
  /\ PendingRuns
  /\ \A c \in Command : CommandOK(c)
  /\ AuditKept
  /\ WaitOK

-----------------------------------------------------------------------------
(* Sequences *)

LEMMA TailFacts ==
  ASSUME NEW s \in Seq(Command), s # <<>>
  PROVE  /\ Tail(s) \in Seq(Command)
         /\ Len(s) >= 1
         /\ Len(Tail(s)) = Len(s) - 1
         /\ Head(s) = s[1] /\ s[1] \in Command
         /\ \A i \in 1 .. Len(Tail(s)) : i + 1 \in 1 .. Len(s) /\ Tail(s)[i] = s[i + 1]
BY HeadTailProperties, LenProperties, EmptySeq

LEMMA TailDistinct ==
  ASSUME NEW s \in Seq(Command), s # <<>>, Distinct(s)
  PROVE  /\ Distinct(Tail(s))
         /\ \A i \in 1 .. Len(Tail(s)) : Tail(s)[i] # Head(s)
<1>1. Len(s) \in Nat
  BY LenProperties
<1>2. QED
  BY <1>1, TailFacts DEF Distinct

LEMMA AppendFacts ==
  ASSUME NEW s \in Seq(Command), NEW c \in Command
  PROVE  /\ Append(s, c) \in Seq(Command)
         /\ Len(Append(s, c)) = Len(s) + 1
         /\ Len(s) \in Nat
         /\ \A i \in 1 .. Len(s) : Append(s, c)[i] = s[i]
         /\ Append(s, c)[Len(s) + 1] = c
BY AppendProperties, LenProperties

LEMMA AppendDistinct ==
  ASSUME NEW s \in Seq(Command), NEW c \in Command, Distinct(s),
         \A i \in 1 .. Len(s) : s[i] # c
  PROVE  Distinct(Append(s, c))
BY AppendFacts DEF Distinct

(* A queue without repetitions is no longer than there are commands.       *)
LEMMA DistinctBound ==
  ASSUME NEW s \in Seq(Command), Distinct(s)
  PROVE  Len(s) \in 0 .. Cardinality(Command)
<1>1. Len(s) \in Nat /\ s \in [1 .. Len(s) -> Command]
  BY LenProperties
<1>2. s \in Injection(1 .. Len(s), Command)
  BY <1>1 DEF Distinct, Injection, IsInjective
<1>3. Cardinality(1 .. Len(s)) <= Cardinality(Command)
  BY <1>2, FS_Injection, CommandAssumption
<1>4. Cardinality(1 .. Len(s)) = Len(s)
  BY <1>1, FS_Interval
<1>5. Cardinality(Command) \in Nat
  BY FS_CardinalityType, CommandAssumption
<1>6. QED
  BY <1>1, <1>3, <1>4, <1>5

LEMMA MclInit == Init => MclInv
<1> SUFFICES ASSUME Init PROVE MclInv
  OBVIOUS
<1>1. Cardinality(Command) \in Nat /\ MaxStarts \in Nat /\ MaxStarts >= 1
  BY FS_CardinalityType, CommandAssumption
<1>2. MclTypeOK
  <2>1. commands \in Seq(Command) /\ inbox \in Seq(Command)
    BY DEF Init
  <2>2. /\ answer \in [Command -> Result] /\ ran \in [Command -> Result]
        /\ res \in [Command -> Result]
        /\ stage \in [Command -> {"none", "over"} \cup Executing]
    BY DEF Init, Result
  <2>3. /\ token \in [Command -> BOOLEAN] /\ dropped \in [Command -> BOOLEAN]
        /\ audited \in [Command -> BOOLEAN] /\ inst \in [Command -> 0 .. MaxStarts]
    BY <1>1 DEF Init
  <2>4. /\ accepting \in BOOLEAN /\ drainError \in BOOLEAN /\ woken \in BOOLEAN
        /\ up \in BOOLEAN /\ due \in BOOLEAN
    BY DEF Init
  <2>5. /\ pending \in Command \cup {None} /\ outstanding \in 0 .. Cardinality(Command)
        /\ starts \in 1 .. MaxStarts /\ sent \subseteq Command
        /\ gone \subseteq Command \ Own /\ relay \subseteq Command \ Own
        /\ publish \subseteq {"dirty", "snapshot"}
    BY <1>1 DEF Init
  <2>6. /\ waiter = "none" /\ state = "idle" /\ phase = "out"
    BY DEF Init
  <2>7. QED
    BY <2>1, <2>2, <2>3, <2>4, <2>5, <2>6 DEF MclTypeOK
<1>3. QED
  BY <1>1, <1>2 DEF Init, MclInv, DrainCounts, PlacesApart, Distinct, Queued, Unread, Unsent,
     OneRuns, PendingRuns, CommandOK, AuditKept, WaitOK, Executing

-----------------------------------------------------------------------------
(* Steps that leave queue, commands and tasks alone *)

LEMMA QuietStep ==
  ASSUME MclInv, MclTypeOK', WaitOK',
         UNCHANGED <<commands, pending, outstanding, drainError>>,
         UNCHANGED <<sent, inbox, inst, answer>>,
         UNCHANGED <<stage, ran, res, audited, starts>>
  PROVE  MclInv'
BY DEF MclInv, DrainCounts, PlacesApart, Distinct, Queued, Unread, Unsent, OneRuns, PendingRuns,
       CommandOK, AuditKept

LEMMA WakeType == Wake => due' \in BOOLEAN
BY DEF Wake

LEMMA LoopStepInv ==
  ASSUME MclInv,
         \/ \E c \in Command : ClientTask(c) \/ Leave(c)
         \/ Snapshotted \/ BeginFrame \/ EndPhase \/ VmOver \/ Started
  PROVE  MclInv'
<1>1. MclTypeOK
  BY DEF MclInv
<1>2. CASE (\E c \in Command : ClientTask(c)) \/ Snapshotted \/ BeginFrame \/ EndPhase
  <2>1. MclTypeOK'
    <3>1. due' \in BOOLEAN
      BY <1>1, <1>2, WakeType
         DEF MclTypeOK, ClientTask, Snapshotted, BeginFrame, EndPhase
    <3>2. publish' \subseteq {"dirty", "snapshot"} /\ relay' \subseteq Command \ Own
      BY <1>1, <1>2 DEF MclTypeOK, ClientTask, Snapshotted, BeginFrame, EndPhase
    <3>3. phase' \in {"out", "closures", "commands", "results", "queue"} /\ UNCHANGED inbox
      BY <1>1, <1>2 DEF MclTypeOK, ClientTask, Snapshotted, BeginFrame, EndPhase
    <3>4. UNCHANGED <<queueVars, waitVars, commandVars, stage, taskVars, agentVars>>
      BY <1>2 DEF ClientTask, Snapshotted, BeginFrame, EndPhase
    <3>5. QED
      BY <1>1, <3>1, <3>2, <3>3, <3>4
         DEF MclTypeOK, queueVars, waitVars, commandVars, taskVars, agentVars
  <2>2. WaitOK'
    BY <1>2 DEF MclInv, WaitOK, ClientTask, Snapshotted, BeginFrame, EndPhase, queueVars,
           waitVars, agentVars
  <2>3. UNCHANGED <<queueVars, commandVars, stage, taskVars, agentVars, inbox>>
    BY <1>2 DEF ClientTask, Snapshotted, BeginFrame, EndPhase
  <2>4. QED
    BY <2>1, <2>2, <2>3, QuietStep DEF queueVars, commandVars, taskVars, agentVars
<1>3. CASE (\E c \in Command : Leave(c)) \/ VmOver \/ Started
  <2>1. MclTypeOK'
    <3>1. due' \in BOOLEAN
      BY <1>3, WakeType DEF Leave, VmOver, Started
    <3>2. /\ gone' \subseteq Command \ Own
          /\ state' \in {"idle", "stopping", "restarting", "starting"}
          /\ up' \in BOOLEAN
      BY <1>1, <1>3 DEF MclTypeOK, Leave, VmOver, Started
    <3>3. UNCHANGED <<queueVars, waitVars, commandVars, stage, taskVars, starts, inbox, phase,
                       relay, publish>>
      BY <1>3 DEF Leave, VmOver, Started
    <3>4. QED
      BY <1>1, <3>1, <3>2, <3>3 DEF MclTypeOK, queueVars, waitVars, commandVars, taskVars
  <2>2. WaitOK'
    BY <1>3 DEF MclInv, WaitOK, Leave, VmOver, Started, queueVars, waitVars
  <2>3. UNCHANGED <<queueVars, commandVars, stage, taskVars, starts, inbox>>
    BY <1>3 DEF Leave, VmOver, Started
  <2>4. QED
    BY <2>1, <2>2, <2>3, QuietStep DEF queueVars, commandVars, taskVars
<1>4. QED
  BY <1>2, <1>3

LEMMA CloseInv ==
  ASSUME MclInv, Close("stopping") \/ Close("restarting") \/ NotReady
  PROVE  MclInv'
<1>1. MclTypeOK
  BY DEF MclInv
<1>2. MclTypeOK'
  BY <1>1, CommandAssumption
     DEF MclTypeOK, Close, NotReady, Wake, queueVars, commandVars, agentVars
<1>3. WaitOK'
  BY DEF MclInv, WaitOK, Close, NotReady, queueVars, agentVars
<1>4. QED
  BY <1>2, <1>3, QuietStep DEF Close, NotReady, queueVars, commandVars, agentVars

LEMMA StopStepInv == ASSUME MclInv, StopStep PROVE MclInv'
<1>1. MclTypeOK
  BY DEF MclInv
<1>2. MclTypeOK'
  <2>1. due' \in BOOLEAN
    BY <1>1, WakeType DEF StopStep, Look, Wait, MclTypeOK
  <2>2. /\ waiter' \in {"none", "startup", "begin", "snapshot", "enable", "check", "looked",
                        "asleep", "ok", "error"}
        /\ accepting' \in BOOLEAN /\ woken' \in BOOLEAN
        /\ token' \in [Command -> BOOLEAN]
    BY <1>1 DEF StopStep, Look, Wait, MclTypeOK
  <2>3. UNCHANGED <<commands, pending, outstanding, drainError, commandVars, stage, ran, res,
                    dropped, audited, agentVars, inbox, phase, relay, publish>>
    BY DEF StopStep, Look, Wait
  <2>4. QED
    BY <1>1, <2>1, <2>2, <2>3 DEF MclTypeOK, commandVars, agentVars
<1>3. WaitOK'
  <2>1. outstanding = 0 => commands = <<>>
    BY <1>1, EmptySeq DEF MclInv, MclTypeOK, DrainCounts
  <2>2. QED
    BY <1>1, <2>1 DEF MclTypeOK, MclInv, WaitOK, StopStep, Look, Wait, agentVars
<1>4. UNCHANGED <<commands, pending, outstanding, drainError, commandVars, stage, ran, res, audited,
                 agentVars, inbox>>
  BY DEF StopStep, Look, Wait
<1>5. QED
  BY <1>2, <1>3, <1>4, QuietStep DEF commandVars, agentVars

-----------------------------------------------------------------------------
(* Steps of a task: the command executes before and after *)

TaskMoves(c) ==
  /\ \E p \in Executing :
       /\ stage' = [stage EXCEPT ![c] = p]
       /\ p \in {"run", "storage", "closure", "asked"} => ran'[c] = "none"
       /\ p = "result" => audited'[c] \/ res'[c] \in {"unaudited", "unsure"}
  /\ ran' \in [Command -> Result] /\ res' \in [Command -> Result]
  /\ token' \in [Command -> BOOLEAN] /\ audited' \in [Command -> BOOLEAN]
  /\ due' \in BOOLEAN
  /\ \A d \in Command \ {c} : ran'[d] = ran[d] /\ res'[d] = res[d] /\ audited'[d] = audited[d]
  /\ UNCHANGED <<queueVars, waitVars, commandVars, dropped, agentVars, inbox, phase, relay, publish>>

LEMMA TaskFacts ==
  ASSUME MclInv, NEW c \in Command, NEW p \in Executing, Task(c, p)
  PROVE  /\ stage' = [stage EXCEPT ![c] = p]
         /\ token' \in [Command -> BOOLEAN]
         /\ due' \in BOOLEAN
         /\ UNCHANGED <<queueVars, waitVars, commandVars, dropped, agentVars, inbox, phase,
                       relay, publish>>
BY WakeType DEF Task, MclInv, MclTypeOK

LEMMA EndsMoves ==
  ASSUME MclInv, NEW c \in Command, NEW r \in Result, Ends(c, r)
  PROVE  TaskMoves(c)
<1>1. Task(c, "audit") /\ "audit" \in Executing
  BY DEF Ends, Executing
<1>2. QED
  BY <1>1, TaskFacts DEF TaskMoves, Ends, MclInv, MclTypeOK

LEMMA AwaitsMoves ==
  ASSUME MclInv, NEW c \in Command, NEW p \in {"storage", "closure", "asked"}, Awaits(c, p),
         stage[c] \in {"run", "storage", "closure", "asked"}
  PROVE  TaskMoves(c)
<1>1. Task(c, p) /\ p \in Executing
  BY DEF Awaits, Executing
<1>2. ran[c] = "none"
  BY DEF MclInv, CommandOK
<1>3. QED
  BY <1>1, <1>2, TaskFacts DEF TaskMoves, Awaits, MclInv, MclTypeOK

LEMMA AuditMoves ==
  ASSUME MclInv, NEW c \in Command, AuditEnds(c) \/ Panics(c)
  PROVE  TaskMoves(c)
<1>1. Task(c, "result") /\ "result" \in Executing
  BY DEF AuditEnds, Panics, Executing
<1>2. CASE Panics(c)
  BY <1>1, <1>2, TaskFacts DEF TaskMoves, Panics, MclInv, MclTypeOK, Result
<1>3. CASE AuditEnds(c)
  <2>1. audited' \in [Command -> BOOLEAN] /\ res' \in [Command -> Result]
    BY <1>3 DEF AuditEnds, MclInv, MclTypeOK, Result
  <2>2. \A d \in Command \ {c} : res'[d] = res[d] /\ audited'[d] = audited[d]
    BY <1>3 DEF AuditEnds, MclInv, MclTypeOK
  <2>3. audited'[c] \/ res'[c] \in {"unaudited", "unsure"}
    BY <1>3 DEF AuditEnds, MclInv, MclTypeOK
  <2>4. ran' = ran
    BY <1>3 DEF AuditEnds
  <2>5. QED
    BY <1>1, <2>1, <2>2, <2>3, <2>4, TaskFacts DEF TaskMoves, MclInv, MclTypeOK
<1>4. QED
  BY <1>2, <1>3

LEMMA ExecutionMoves ==
  ASSUME MclInv, NEW c \in Command,
         \/ Begin(c) \/ StorageEnds(c) \/ RunClosure(c) \/ Reply(c) \/ Cancel(c) \/ AuditEnds(c)
         \/ Panics(c)
  PROVE  stage[c] \in Executing /\ TaskMoves(c)
<1>1. stage[c] \in Executing
  BY DEF Begin, StorageEnds, RunClosure, Reply, Cancel, AuditEnds, Panics, Executing
<1>2. CASE Cancel(c)
  <2>1. stage' = [stage EXCEPT ![c] = stage[c]]
    BY <1>2 DEF Cancel, MclInv, MclTypeOK
  <2>2. stage[c] # "result" /\ ran[c] = "none"
    BY <1>2 DEF Cancel, MclInv, CommandOK
  <2>3. token' \in [Command -> BOOLEAN] /\ due' \in BOOLEAN
    BY <1>2 DEF Cancel, MclInv, MclTypeOK, loopVars
  <2>4. QED
    BY <1>1, <1>2, <2>1, <2>2, <2>3 DEF Cancel, TaskMoves, MclInv, MclTypeOK, loopVars
<1>3. CASE Begin(c)
  <2>1. stage[c] = "run"
    BY <1>3 DEF Begin
  <2>2. (\E r \in Result : Ends(c, r)) \/ (\E p \in {"storage", "closure", "asked"} : Awaits(c, p))
    BY <1>3 DEF Begin, Result
  <2>3. QED
    BY <1>1, <2>1, <2>2, EndsMoves, AwaitsMoves
<1>4. CASE StorageEnds(c)
  <2>1. stage[c] = "storage"
    BY <1>4 DEF StorageEnds
  <2>2. (\E r \in Result : Ends(c, r)) \/ (\E p \in {"storage", "closure", "asked"} : Awaits(c, p))
    BY <1>4 DEF StorageEnds, Result
  <2>3. QED
    BY <1>1, <2>1, <2>2, EndsMoves, AwaitsMoves
<1>5. CASE RunClosure(c)
  <2>1. stage[c] = "closure"
    BY <1>5 DEF RunClosure
  <2>2. (\E r \in Result : Ends(c, r)) \/ (\E p \in {"storage", "closure", "asked"} : Awaits(c, p))
    BY <1>5 DEF RunClosure, Result
  <2>3. QED
    BY <1>1, <2>1, <2>2, EndsMoves, AwaitsMoves
<1>6. CASE Reply(c)
  <2>1. \E r \in Result : Ends(c, r)
    BY <1>6 DEF Reply, Result
  <2>2. QED
    BY <1>1, <2>1, EndsMoves
<1>7. QED
  BY <1>1, <1>2, <1>3, <1>4, <1>5, <1>6, AuditMoves

LEMMA TaskMovesInv ==
  ASSUME MclInv, NEW c \in Command, stage[c] \in Executing, TaskMoves(c)
  PROVE  MclInv'
<1>1. PICK p \in Executing :
        /\ stage' = [stage EXCEPT ![c] = p]
        /\ p \in {"run", "storage", "closure", "asked"} => ran'[c] = "none"
        /\ p = "result" => audited'[c] \/ res'[c] \in {"unaudited", "unsure"}
  BY DEF TaskMoves
<1>2. MclTypeOK
  BY DEF MclInv
<1>3. UNCHANGED <<commands, pending, accepting, outstanding, drainError, waiter, woken>>
  BY DEF TaskMoves, queueVars, waitVars
<1>4. UNCHANGED <<sent, inst, answer, dropped, state, starts, up, gone, inbox, phase, relay, publish>>
  BY DEF TaskMoves, commandVars, agentVars
<1>5. MclTypeOK'
  <2>1. stage' \in [Command -> {"none", "over"} \cup Executing]
    BY <1>1, <1>2 DEF MclTypeOK
  <2>2. QED
    BY <1>2, <1>3, <1>4, <2>1 DEF MclTypeOK, TaskMoves
<1>6. /\ commands # <<>> /\ Head(commands) = c /\ commands[1] = c /\ Len(commands) >= 1
      /\ answer[c] = "none" /\ c \in sent
  BY <1>2, TailFacts DEF MclInv, OneRuns, MclTypeOK, Queued
<1>7. stage'[c] = p /\ \A d \in Command \ {c} : stage'[d] = stage[d]
  BY <1>1, <1>2 DEF MclTypeOK
<1>8. DrainCounts' /\ PlacesApart'
  BY <1>3, <1>4 DEF MclInv, DrainCounts, PlacesApart, Distinct
<1>9. Queued'
  BY <1>2, <1>3, <1>4, <1>7, ElementOfSeq DEF MclInv, MclTypeOK, Queued, Executing
<1>10. Unread' /\ Unsent'
  BY <1>2, <1>4, <1>6, <1>7, ElementOfSeq DEF MclInv, MclTypeOK, Unread, Unsent, Executing
<1>11. OneRuns' /\ PendingRuns'
  BY <1>3, <1>7 DEF MclInv, OneRuns, PendingRuns
<1>12. ASSUME NEW d \in Command PROVE CommandOK(d)'
  <2>1. CommandOK(d)
    BY DEF MclInv
  <2>2. CASE d = c
    BY <1>1, <1>3, <1>4, <1>6, <1>7, <2>1, <2>2 DEF CommandOK, Executing
  <2>3. CASE d # c
    BY <1>3, <1>4, <1>7, <2>1, <2>3 DEF CommandOK, TaskMoves
  <2>4. QED
    BY <2>2, <2>3
<1>13. AuditKept'
  BY <1>4, <1>6 DEF MclInv, AuditKept, TaskMoves
<1>14. WaitOK'
  BY <1>3, <1>4 DEF MclInv, WaitOK
<1>15. QED
  BY <1>5, <1>8, <1>9, <1>10, <1>11, <1>12, <1>13, <1>14 DEF MclInv

-----------------------------------------------------------------------------
(* The head is settled *)

LEMMA HeadFacts ==
  ASSUME MclInv, commands # <<>>
  PROVE  /\ Head(commands) \in Command
         /\ Head(commands) = commands[1] /\ Len(commands) >= 1 /\ Len(commands) \in Nat
         /\ answer[Head(commands)] = "none" /\ Head(commands) \in sent
         /\ stage[Head(commands)] # "over"
BY TailFacts, LenProperties DEF MclInv, MclTypeOK, Queued

LEMMA SettleFacts ==
  ASSUME MclInv, NEW c \in Command, NEW r \in Result, commands # <<>>, Head(commands) = c,
         pending \in {None, c}, Settle(c, r)
  PROVE  /\ commands' = Tail(commands)
         /\ pending' = None
         /\ outstanding' = outstanding - 1
         /\ drainError' \in BOOLEAN /\ (drainError \/ r = "unsure" <=> drainError')
         /\ woken' \in BOOLEAN
         /\ waiter \in {"check", "looked", "asleep"} => woken'
         /\ answer' = [answer EXCEPT ![c] = r]
         /\ relay' \subseteq Command \ Own
         /\ accepting' = accepting
<1>1. /\ Respond(c, r) /\ commands' = Tail(commands) /\ pending' = None
      /\ outstanding' = IF outstanding = 0 THEN 0 ELSE outstanding - 1
      /\ drainError' = ErrorAfter(r) /\ Wakes /\ accepting' = accepting
  BY DEF Settle
<1>2. outstanding >= 1 /\ outstanding \in Nat
  BY HeadFacts DEF MclInv, DrainCounts
<1>3. answer' = [answer EXCEPT ![c] = r]
  BY <1>1, HeadFacts DEF Respond
<1>4. relay' \subseteq Command \ Own
  BY <1>1 DEF Respond, MclInv, MclTypeOK
<1>5. drainError' \in BOOLEAN /\ (drainError \/ r = "unsure" <=> drainError')
  BY <1>1 DEF ErrorAfter, MclInv, MclTypeOK
<1>6. woken' \in BOOLEAN /\ (waiter \in {"check", "looked", "asleep"} => woken')
  BY <1>1 DEF Wakes, MclInv, MclTypeOK
<1>7. QED
  BY <1>1, <1>2, <1>3, <1>4, <1>5, <1>6

(* A head that has no task, or whose task is over, leaves the queue.       *)
LEMMA SettleInv ==
  ASSUME MclInv, NEW c \in Command, NEW r \in Result, commands # <<>>, Head(commands) = c,
         pending \in {None, c}, Settle(c, r),
         stage' \in {stage, [stage EXCEPT ![c] = "over"]}, stage'[c] \in {"none", "over"},
         ran[c] = "none" \/ audited[c] \/ r \in {"unaudited", "unsure"},
         UNCHANGED <<waiter, sent, inst>>, UNCHANGED taskVars, UNCHANGED agentVars,
         UNCHANGED <<inbox, due, publish>>,
         phase' \in {"out", "closures", "commands", "results", "queue"}
  PROVE  MclInv'
<1>1. MclTypeOK
  BY DEF MclInv
<1>0. /\ commands' = Tail(commands) /\ pending' = None /\ outstanding' = outstanding - 1
      /\ answer' = [answer EXCEPT ![c] = r] /\ accepting' = accepting
      /\ woken' \in BOOLEAN /\ (waiter \in {"check", "looked", "asleep"} => woken')
  BY SettleFacts
<1>2. UNCHANGED <<ran, res, token, dropped, audited, state, starts, up, gone>>
  BY DEF taskVars, agentVars
<1>3. /\ Tail(commands) \in Seq(Command) /\ Len(Tail(commands)) = Len(commands) - 1
      /\ Distinct(Tail(commands))
      /\ \A i \in 1 .. Len(Tail(commands)) :
           /\ i + 1 \in 1 .. Len(commands) /\ Tail(commands)[i] = commands[i + 1]
           /\ Tail(commands)[i] # c
  BY <1>1, TailFacts, TailDistinct DEF MclInv, MclTypeOK, PlacesApart
<1>4. answer'[c] = r /\ (\A d \in Command \ {c} : answer'[d] = answer[d] /\ stage'[d] = stage[d])
  BY <1>0, <1>1 DEF MclTypeOK
<1>5. DrainCounts'
  BY <1>0, <1>3 DEF MclInv, DrainCounts
<1>6. MclTypeOK'
  <2>1. /\ commands' \in Seq(Command) /\ pending' \in Command \cup {None} /\ accepting' \in BOOLEAN
        /\ answer' \in [Command -> Result]
        /\ stage' \in [Command -> {"none", "over"} \cup Executing]
    <3>1. commands' \in Seq(Command)
      BY <1>0, <1>3
    <3>2. stage' \in [Command -> {"none", "over"} \cup Executing]
      BY <1>1 DEF MclTypeOK
    <3>3. answer' \in [Command -> Result]
      BY <1>0, <1>1 DEF MclTypeOK
    <3>4. QED
      BY <1>0, <1>1, <3>1, <3>2, <3>3 DEF MclTypeOK
  <2>2. outstanding' \in 0 .. Cardinality(Command)
    BY <1>3, <1>5, <2>1, <1>0, DistinctBound DEF DrainCounts
  <2>3. drainError' \in BOOLEAN /\ woken' \in BOOLEAN /\ relay' \subseteq Command \ Own
    BY SettleFacts
  <2>4. QED
    BY <1>1, <1>2, <2>1, <2>2, <2>3 DEF MclTypeOK
<1>7. PlacesApart'
  <2>1. Distinct(commands)' /\ Distinct(inbox)'
    BY <1>0, <1>3 DEF MclInv, PlacesApart, Distinct
  <2>2. \A i \in 1 .. Len(inbox), j \in 1 .. Len(Tail(commands)) : inbox[i] # Tail(commands)[j]
    BY <1>3 DEF MclInv, PlacesApart
  <2>3. QED
    BY <1>0, <2>1, <2>2 DEF PlacesApart
<1>8. Queued'
  BY <1>3, <1>4, <1>0, ElementOfSeq DEF MclInv, Queued
<1>9. \A i \in 1 .. Len(inbox) : inbox[i] \in Command \ {c}
  BY <1>1, HeadFacts, ElementOfSeq DEF MclInv, MclTypeOK, PlacesApart
<1>10. Unread' /\ Unsent'
  BY <1>4, <1>9, HeadFacts DEF MclInv, Unread, Unsent
<1>11. OneRuns' /\ PendingRuns'
  <2>1. \A d \in Command : stage'[d] \notin Executing
    BY <1>4 DEF MclInv, OneRuns, Executing
  <2>2. QED
    BY <2>1, SettleFacts DEF OneRuns, PendingRuns
<1>12. ASSUME NEW d \in Command PROVE CommandOK(d)'
  <2>1. CommandOK(d)
    BY DEF MclInv
  <2>2. stage'[d] = "over" \/ stage'[d] = stage[d]
    BY <1>1, <1>4 DEF MclTypeOK
  <2>3. answer'[d] = "unsure" /\ inst[d] = starts => drainError'
    BY <1>4, <2>1, SettleFacts DEF CommandOK
  <2>4. CASE stage'[d] = "over"
    BY <1>2, <2>1, <2>3, <2>4 DEF CommandOK
  <2>5. CASE stage'[d] = stage[d]
    BY <1>2, <2>1, <2>3, <2>5 DEF CommandOK
  <2>6. QED
    BY <2>2, <2>4, <2>5
<1>13. AuditKept'
  BY <1>2, <1>4 DEF MclInv, AuditKept
<1>14. WaitOK'
  <2>1. waiter # "ok"
    BY DEF MclInv, WaitOK
  <2>2. waiter \in {"looked", "asleep"} => woken'
    BY SettleFacts
  <2>3. QED
    BY <1>2, <2>1, <2>2, SettleFacts DEF MclInv, WaitOK
<1>15. QED
  BY <1>5, <1>6, <1>7, <1>8, <1>10, <1>11, <1>12, <1>13, <1>14 DEF MclInv

LEMMA HandleResultInv ==
  ASSUME MclInv, NEW c \in Command, HandleResult(c)
  PROVE  MclInv'
<1>1. stage[c] = "result" /\ stage' = [stage EXCEPT ![c] = "over"] /\ Settle(c, res[c])
  BY DEF HandleResult
<1>2. commands # <<>> /\ Head(commands) = c /\ pending = c
  BY <1>1 DEF MclInv, OneRuns, Executing
<1>3. audited[c] \/ res[c] \in {"unaudited", "unsure"}
  BY <1>1 DEF MclInv, CommandOK
<1>4. stage'[c] = "over" /\ res[c] \in Result
  BY <1>1 DEF MclInv, MclTypeOK
<1>5. phase' = phase /\ phase \in {"out", "closures", "commands", "results", "queue"}
  BY DEF HandleResult, MclInv, MclTypeOK
<1>6. /\ UNCHANGED <<waiter, sent, inst>> /\ UNCHANGED taskVars /\ UNCHANGED agentVars
      /\ UNCHANGED <<inbox, due, publish>>
  BY DEF HandleResult
<1>7. QED
  BY <1>1, <1>2, <1>3, <1>4, <1>5, <1>6, SettleInv

LEMMA DispatchInv ==
  ASSUME MclInv, commands # <<>>, pending = None, Dispatch(Head(commands)), phase' = "out",
         UNCHANGED <<waiter, sent, inst>>, UNCHANGED taskVars, UNCHANGED agentVars,
         UNCHANGED <<inbox, due, publish>>
  PROVE  MclInv'
<1> DEFINE c == Head(commands)
<1>1. MclTypeOK /\ c \in Command
  BY HeadFacts DEF MclInv
<1>2. /\ pending' = c /\ stage' = [stage EXCEPT ![c] = "run"]
      /\ UNCHANGED <<commands, accepting, outstanding, drainError, woken, answer, relay>>
  BY DEF Dispatch
<1>3. UNCHANGED <<ran, res, token, dropped, audited, state, starts, up, gone>>
  BY DEF taskVars, agentVars
<1>4. stage'[c] = "run" /\ \A d \in Command \ {c} : stage'[d] = stage[d]
  BY <1>1, <1>2 DEF MclTypeOK
<1>5. \A d \in Command : stage[d] \notin Executing
  BY CommandAssumption DEF MclInv, OneRuns
<1>6. MclTypeOK'
  <2>1. stage' \in [Command -> {"none", "over"} \cup Executing]
    BY <1>1, <1>2 DEF MclTypeOK, Executing
  <2>2. QED
    BY <1>1, <1>2, <1>3, <2>1 DEF MclTypeOK
<1>7. DrainCounts' /\ PlacesApart'
  BY <1>2 DEF MclInv, DrainCounts, PlacesApart, Distinct
<1>8. Queued'
  BY <1>1, <1>2, <1>4, ElementOfSeq DEF MclInv, Queued, MclTypeOK
<1>9. \A i \in 1 .. Len(inbox) : inbox[i] \in Command \ {c}
  BY <1>1, HeadFacts, ElementOfSeq DEF MclInv, MclTypeOK, PlacesApart
<1>10. Unread' /\ Unsent'
  BY <1>2, <1>4, <1>9, HeadFacts DEF MclInv, Unread, Unsent
<1>11. OneRuns' /\ PendingRuns'
  BY <1>2, <1>4, <1>5 DEF OneRuns, PendingRuns, Executing
<1>12. ASSUME NEW d \in Command PROVE CommandOK(d)'
  <2>1. CommandOK(d) /\ (d = c => stage[d] = "none")
    BY <1>1, <1>5, HeadFacts DEF MclInv, MclTypeOK
  <2>2. QED
    BY <1>2, <1>3, <1>4, <2>1 DEF CommandOK
<1>13. AuditKept' /\ WaitOK'
  BY <1>2, <1>3 DEF MclInv, AuditKept, WaitOK
<1>14. QED
  BY <1>6, <1>7, <1>8, <1>10, <1>11, <1>12, <1>13 DEF MclInv

LEMMA HandleQueueInv == ASSUME MclInv, HandleQueue PROVE MclInv'
<1>1. /\ UNCHANGED <<waiter, sent, inst>> /\ UNCHANGED taskVars /\ UNCHANGED agentVars
      /\ UNCHANGED <<inbox, due, publish>> /\ phase' = "out"
  BY DEF HandleQueue
<1>2. CASE pending # None \/ commands = <<>>
  <2>1. UNCHANGED <<queueVars, woken, answer, stage, relay>>
    BY <1>2 DEF HandleQueue
  <2>2. UNCHANGED <<commands, pending, accepting, outstanding, drainError, woken, waiter>>
    BY <1>1, <2>1 DEF queueVars
  <2>3. UNCHANGED <<ran, res, token, dropped, audited, state, starts, up, gone>>
    BY <1>1 DEF taskVars, agentVars
  <2>4. MclTypeOK'
    BY <1>1, <2>1, <2>2, <2>3 DEF MclInv, MclTypeOK
  <2>5. WaitOK'
    BY <2>2, <2>3 DEF MclInv, WaitOK
  <2>6. QED
    BY <1>1, <2>1, <2>2, <2>3, <2>4, <2>5, QuietStep
<1>3. CASE pending = None /\ commands # <<>>
  <2> DEFINE c == Head(commands)
  <2>1. c \in Command /\ stage[c] = "none" /\ ran[c] = "none"
    <3>1. c \in Command /\ stage[c] # "over"
      BY <1>3, HeadFacts
    <3>2. stage[c] \notin Executing
      BY <1>3, <3>1, CommandAssumption DEF MclInv, OneRuns
    <3>3. QED
      BY <3>1, <3>2 DEF MclInv, MclTypeOK, CommandOK
  <2>2. Drop(c, "cancelled") \/ Drop(c, "refused") \/ Dispatch(c)
    BY <1>3 DEF HandleQueue
  <2>3. ASSUME NEW r \in {"cancelled", "refused"}, Drop(c, r) PROVE MclInv'
    <3>1. Settle(c, r) /\ stage' = stage /\ r \in Result
      BY <2>3 DEF Drop, Result
    <3>2. QED
      BY <1>1, <1>3, <2>1, <3>1, SettleInv
  <2>4. QED
    BY <1>1, <1>3, <2>2, <2>3, DispatchInv
<1>4. QED
  BY <1>2, <1>3

-----------------------------------------------------------------------------
(* A command is sent, and read; a queue is replaced *)

LEMMA SendInv == ASSUME MclInv, NEW c \in Command, Send(c) PROVE MclInv'
<1>1. MclTypeOK
  BY DEF MclInv
<1>2. /\ c \notin sent /\ sent' = sent \cup {c} /\ inbox' = Append(inbox, c)
      /\ inst' = [inst EXCEPT ![c] = IF c \in Own THEN starts ELSE 0] /\ Wake
  BY DEF Send
<1>3. UNCHANGED <<commands, pending, accepting, outstanding, drainError, waiter, woken>>
  BY DEF Send, queueVars, waitVars
<1>4. UNCHANGED <<answer, stage, ran, res, token, dropped, audited, state, starts, up, gone, phase,
                 relay, publish>>
  BY DEF Send, taskVars, agentVars
<1>5. answer[c] = "none" /\ stage[c] = "none"
  BY <1>2 DEF MclInv, Unsent
<1>6. /\ \A i \in 1 .. Len(inbox) : inbox[i] \in Command \ {c}
      /\ \A i \in 1 .. Len(commands) : commands[i] \in Command \ {c}
  BY <1>1, <1>2, ElementOfSeq DEF MclInv, MclTypeOK, Queued, Unread
<1>7. /\ inbox' \in Seq(Command) /\ Len(inbox') = Len(inbox) + 1 /\ Len(inbox) \in Nat
      /\ \A i \in 1 .. Len(inbox) : inbox'[i] = inbox[i]
      /\ inbox'[Len(inbox) + 1] = c
  BY <1>1, <1>2, AppendFacts DEF MclTypeOK
<1>8. MclTypeOK'
  <2>1. starts \in 0 .. MaxStarts /\ 0 \in 0 .. MaxStarts
    BY <1>1, CommandAssumption DEF MclTypeOK
  <2>2. inst' \in [Command -> 0 .. MaxStarts]
    BY <1>1, <1>2, <2>1 DEF MclTypeOK
  <2>3. due' \in BOOLEAN
    BY <1>2, WakeType
  <2>4. sent' \subseteq Command
    BY <1>1, <1>2 DEF MclTypeOK
  <2>5. inbox' \in Seq(Command)
    BY <1>7
  <2>6. UNCHANGED <<stage, ran, res, token, dropped, audited, state, starts, up, gone, phase, relay,
                   publish, answer>>
    BY <1>4
  <2>7. /\ commands' \in Seq(Command) /\ pending' \in Command \cup {None} /\ accepting' \in BOOLEAN
        /\ outstanding' \in 0 .. Cardinality(Command) /\ drainError' \in BOOLEAN
        /\ waiter' \in {"none", "startup", "begin", "snapshot", "enable", "check", "looked",
                        "asleep", "ok", "error"}
        /\ woken' \in BOOLEAN
    BY <1>1, <1>3 DEF MclTypeOK
  <2>8. /\ stage' \in [Command -> {"none", "over"} \cup Executing]
        /\ answer' \in [Command -> Result] /\ ran' \in [Command -> Result]
        /\ res' \in [Command -> Result] /\ token' \in [Command -> BOOLEAN]
        /\ dropped' \in [Command -> BOOLEAN] /\ audited' \in [Command -> BOOLEAN]
    BY <1>1, <2>6 DEF MclTypeOK
  <2>9. /\ state' \in {"idle", "stopping", "restarting", "starting"}
        /\ starts' \in 1 .. MaxStarts /\ up' \in BOOLEAN /\ gone' \subseteq Command \ Own
        /\ phase' \in {"out", "closures", "commands", "results", "queue"}
        /\ relay' \subseteq Command \ Own /\ publish' \subseteq {"dirty", "snapshot"}
    BY <1>1, <2>6 DEF MclTypeOK
  <2>10. QED
    BY <2>2, <2>3, <2>4, <2>5, <2>7, <2>8, <2>9 DEF MclTypeOK
<1>9. PlacesApart'
  <2>1. Distinct(inbox')
    BY <1>1, <1>2, <1>6, AppendDistinct DEF MclInv, MclTypeOK, PlacesApart
  <2>2. \A i \in 1 .. Len(inbox'), j \in 1 .. Len(commands) : inbox'[i] # commands[j]
    BY <1>6, <1>7 DEF MclInv, PlacesApart
  <2>3. QED
    BY <1>3, <2>1, <2>2 DEF MclInv, PlacesApart, Distinct
<1>10. DrainCounts' /\ Queued' /\ Unsent' /\ OneRuns' /\ PendingRuns' /\ AuditKept' /\ WaitOK'
  BY <1>2, <1>3, <1>4 DEF MclInv, DrainCounts, Queued, Unsent, OneRuns, PendingRuns, AuditKept, WaitOK
<1>11. Unread'
  BY <1>2, <1>4, <1>5, <1>7 DEF MclInv, Unread
<1>12. ASSUME NEW d \in Command PROVE CommandOK(d)'
  <2>1. CommandOK(d)
    BY DEF MclInv
  <2>2. d # c => inst'[d] = inst[d]
    BY <1>1, <1>2 DEF MclTypeOK
  <2>3. inst'[c] <= starts
    BY <1>1, <1>2 DEF MclTypeOK
  <2>4. QED
    BY <1>3, <1>4, <1>5, <2>1, <2>2, <2>3 DEF CommandOK
<1>13. QED
  BY <1>8, <1>9, <1>10, <1>11, <1>12 DEF MclInv

LEMMA HandleCommandInv == ASSUME MclInv, HandleCommand PROVE MclInv'
<1> DEFINE c == Head(inbox)
<1>1. MclTypeOK /\ inbox # <<>>
  BY DEF MclInv, HandleCommand
<1>2. /\ c \in Command /\ c = inbox[1] /\ Len(inbox) >= 1 /\ Len(inbox) \in Nat
      /\ inbox' = Tail(inbox) /\ inbox' \in Seq(Command) /\ Distinct(inbox')
      /\ \A i \in 1 .. Len(inbox') :
           i + 1 \in 1 .. Len(inbox) /\ inbox'[i] = inbox[i + 1] /\ inbox'[i] # c
  BY <1>1, TailFacts, TailDistinct, LenProperties DEF HandleCommand, MclInv, MclTypeOK, PlacesApart
<1>3. c \in sent /\ answer[c] = "none" /\ stage[c] = "none" /\ ran[c] = "none"
  BY <1>2 DEF MclInv, Unread, CommandOK
<1>4. UNCHANGED <<pending, accepting, drainError, waiter, woken, sent, stage, phase, due, publish>>
  BY DEF HandleCommand, waitVars
<1>5. UNCHANGED <<ran, res, token, dropped, audited, state, starts, up, gone>>
  BY DEF HandleCommand, taskVars, agentVars
<1>6. \A i \in 1 .. Len(commands) : commands[i] \in Command \ {c}
  BY <1>1, <1>2, ElementOfSeq DEF MclInv, MclTypeOK, PlacesApart
<1>7. CASE /\ accepting /\ inst' = [inst EXCEPT ![c] = starts] /\ commands' = Append(commands, c)
          /\ outstanding' = outstanding + 1 /\ UNCHANGED <<answer, relay>>
  <2>1. /\ commands' \in Seq(Command) /\ Len(commands') = Len(commands) + 1 /\ Len(commands) \in Nat
        /\ \A i \in 1 .. Len(commands) : commands'[i] = commands[i]
        /\ commands'[Len(commands) + 1] = c
        /\ Distinct(commands')
    BY <1>1, <1>2, <1>6, <1>7, AppendFacts, AppendDistinct DEF MclInv, MclTypeOK, PlacesApart
  <2>2. DrainCounts'
    BY <1>7, <2>1 DEF MclInv, DrainCounts
  <2>3. MclTypeOK'
    <3>1. outstanding' \in 0 .. Cardinality(Command)
      BY <2>1, <2>2, DistinctBound DEF DrainCounts
    <3>2. inst' \in [Command -> 0 .. MaxStarts]
      BY <1>1, <1>7, CommandAssumption DEF MclTypeOK
    <3>3. QED
      BY <1>1, <1>2, <1>4, <1>5, <1>7, <2>1, <3>1, <3>2 DEF MclTypeOK
  <2>4. PlacesApart'
    <3>1. \A i \in 1 .. Len(inbox'), j \in 1 .. Len(commands) : inbox'[i] # commands'[j]
      BY <1>2, <2>1 DEF MclInv, PlacesApart
    <3>2. QED
      BY <1>2, <2>1, <3>1 DEF PlacesApart
  <2>5. Queued'
    BY <1>3, <1>4, <1>7, <2>1 DEF MclInv, Queued
  <2>6. Unread' /\ Unsent'
    BY <1>2, <1>4, <1>7 DEF MclInv, Unread, Unsent
  <2>7. OneRuns' /\ PendingRuns'
    <3>1. ASSUME NEW d \in Command, stage'[d] \in Executing
          PROVE  commands' # <<>> /\ Head(commands') = d /\ pending' = d
      <4>1. commands # <<>> /\ Head(commands) = d /\ pending = d
        BY <1>4, <3>1 DEF MclInv, OneRuns
      <4>2. Head(commands) = commands[1] /\ Len(commands) >= 1
        BY <4>1, HeadFacts
      <4>3. commands' # <<>> /\ Head(commands') = commands'[1]
        BY <2>1, <4>2, TailFacts, LenProperties, EmptySeq
      <4>4. QED
        BY <1>4, <2>1, <4>1, <4>2, <4>3
    <3>2. PendingRuns'
      BY <1>4 DEF MclInv, PendingRuns
    <3>3. QED
      BY <3>1, <3>2 DEF OneRuns
  <2>8. ASSUME NEW d \in Command PROVE CommandOK(d)'
    <3>1. CommandOK(d)
      BY DEF MclInv
    <3>2. inst'[c] = starts /\ (d # c => inst'[d] = inst[d])
      BY <1>1, <1>2, <1>7 DEF MclTypeOK
    <3>3. starts <= starts
      BY <1>1 DEF MclTypeOK
    <3>4. CASE d = c
      BY <1>3, <1>4, <1>5, <1>7, <3>1, <3>2, <3>3, <3>4 DEF CommandOK
    <3>5. CASE d # c
      BY <1>4, <1>5, <1>7, <3>1, <3>2, <3>5 DEF CommandOK
    <3>6. QED
      BY <3>4, <3>5
  <2>9. AuditKept'
    BY <1>5, <1>7 DEF MclInv, AuditKept
  <2>10. WaitOK'
    BY <1>1, <1>4, <1>5, <1>7 DEF MclInv, WaitOK, MclTypeOK
  <2>11. QED
    BY <2>2, <2>3, <2>4, <2>5, <2>6, <2>7, <2>8, <2>9, <2>10 DEF MclInv
<1>8. CASE Respond(c, "refused") /\ UNCHANGED <<commands, inst, outstanding>>
  <2>1. answer' = [answer EXCEPT ![c] = "refused"]
    BY <1>3, <1>8 DEF Respond
  <2>2. answer'[c] = "refused" /\ \A d \in Command \ {c} : answer'[d] = answer[d]
    BY <1>1, <1>2, <2>1 DEF MclTypeOK
  <2>3. MclTypeOK'
    <3>1. relay' \subseteq Command \ Own
      BY <1>1, <1>2, <1>8 DEF Respond, MclTypeOK
    <3>2. answer' \in [Command -> Result]
      BY <1>1, <2>1 DEF MclTypeOK, Result
    <3>3. QED
      BY <1>1, <1>2, <1>4, <1>5, <1>8, <3>1, <3>2 DEF MclTypeOK
  <2>4. DrainCounts' /\ OneRuns' /\ PendingRuns' /\ WaitOK'
    BY <1>4, <1>5, <1>8 DEF MclInv, DrainCounts, OneRuns, PendingRuns, WaitOK
  <2>5. PlacesApart'
    <3>1. \A i \in 1 .. Len(inbox'), j \in 1 .. Len(commands) : inbox'[i] # commands[j]
      BY <1>2 DEF MclInv, PlacesApart
    <3>2. QED
      BY <1>2, <1>8, <3>1 DEF MclInv, PlacesApart, Distinct
  <2>6. Queued'
    BY <1>4, <1>6, <1>8, <2>2 DEF MclInv, Queued
  <2>7. \A i \in 1 .. Len(inbox') : inbox'[i] \in Command \ {c}
    BY <1>2, ElementOfSeq
  <2>8. Unread' /\ Unsent'
    BY <1>2, <1>3, <1>4, <2>2, <2>7 DEF MclInv, Unread, Unsent
  <2>9. ASSUME NEW d \in Command PROVE CommandOK(d)'
    <3>1. CommandOK(d) /\ (answer'[d] = "unsure" => answer[d] = "unsure")
      BY <2>2 DEF MclInv
    <3>2. QED
      BY <1>4, <1>5, <1>8, <3>1 DEF CommandOK
  <2>10. AuditKept'
    BY <1>3, <1>5, <2>2 DEF MclInv, AuditKept
  <2>11. QED
    BY <2>3, <2>4, <2>5, <2>6, <2>8, <2>9, <2>10 DEF MclInv
<1>9. QED
  BY <1>7, <1>8 DEF HandleCommand, Accepted

LEMMA InstallInv == ASSUME MclInv, Install PROVE MclInv'
<1>1. MclTypeOK
  BY DEF MclInv
<1>2. /\ commands = <<>> /\ outstanding' = 0 /\ drainError' = FALSE /\ accepting' = TRUE
      /\ waiter' = "none" /\ woken' = FALSE /\ state' = "starting" /\ starts' = starts + 1
      /\ up' = TRUE /\ starts < MaxStarts /\ Wake
  BY DEF Install, MclInv, WaitOK
<1>3. UNCHANGED <<commands, pending, sent, inst, answer, stage, inbox, gone, phase, relay, publish>>
  BY DEF Install, commandVars
<1>4. UNCHANGED <<ran, res, token, dropped, audited>>
  BY DEF Install, taskVars
<1>5. MclTypeOK'
  <2>1. outstanding' \in 0 .. Cardinality(Command) /\ starts' \in 1 .. MaxStarts
    BY <1>1, <1>2, FS_CardinalityType, CommandAssumption DEF MclTypeOK
  <2>2. accepting' \in BOOLEAN /\ drainError' \in BOOLEAN /\ woken' \in BOOLEAN /\ up' \in BOOLEAN
        /\ due' \in BOOLEAN
    BY <1>2, WakeType
  <2>3. QED
    BY <1>1, <1>2, <1>3, <1>4, <2>1, <2>2 DEF MclTypeOK
<1>6. DrainCounts' /\ WaitOK'
  BY <1>2, <1>3, EmptySeq DEF DrainCounts, WaitOK
<1>7. PlacesApart' /\ Queued' /\ Unread' /\ Unsent' /\ OneRuns' /\ PendingRuns' /\ AuditKept'
  BY <1>3, <1>4 DEF MclInv, PlacesApart, Distinct, Queued, Unread, Unsent, OneRuns, PendingRuns,
     AuditKept
<1>8. ASSUME NEW d \in Command PROVE CommandOK(d)'
  <2>1. CommandOK(d) /\ inst[d] \in Nat /\ starts \in Nat
    BY <1>1, CommandAssumption DEF MclInv, MclTypeOK
  <2>2. QED
    BY <1>2, <1>3, <1>4, <2>1 DEF CommandOK
<1>9. QED
  BY <1>5, <1>6, <1>7, <1>8 DEF MclInv

LEMMA MclStep == MclInv /\ [Next]_vars => MclInv'
<1> SUFFICES ASSUME MclInv, [Next]_vars PROVE MclInv'
  OBVIOUS
<1>1. CASE FrameStep \/ Snapshotted \/ VmOver \/ Started
  BY <1>1, HandleCommandInv, HandleQueueInv, LoopStepInv DEF FrameStep
<1>2. CASE StopStep \/ Install \/ NotReady \/ \E s \in {"stopping", "restarting"} : Close(s)
  BY <1>2, StopStepInv, InstallInv, CloseInv
<1>3. ASSUME NEW c \in Command,
             \/ Send(c) \/ Leave(c) \/ ClientTask(c)
             \/ CommandStep(c) \/ TaskStep(c) \/ Reply(c) \/ Panics(c)
      PROVE  MclInv'
  <2>1. CASE Send(c) \/ Leave(c) \/ ClientTask(c) \/ HandleResult(c)
    BY <2>1, SendInv, LoopStepInv, HandleResultInv
  <2>2. CASE \/ Begin(c) \/ StorageEnds(c) \/ RunClosure(c) \/ Reply(c) \/ Cancel(c) \/ AuditEnds(c)
             \/ Panics(c)
    BY <2>2, ExecutionMoves, TaskMovesInv
  <2>3. QED
    BY <1>3, <2>1, <2>2 DEF CommandStep, TaskStep
<1>4. CASE UNCHANGED vars
  <2>1. UNCHANGED <<commands, pending, accepting, outstanding, drainError, waiter, woken, sent, inst,
                    answer, stage>>
    BY <1>4 DEF vars, queueVars, waitVars, commandVars
  <2>2. UNCHANGED <<ran, res, token, dropped, audited, state, starts, up, gone, inbox, phase, due,
                    relay, publish>>
    BY <1>4 DEF vars, taskVars, agentVars, loopVars
  <2>3. MclTypeOK' /\ WaitOK'
    BY <2>1, <2>2 DEF MclInv, MclTypeOK, WaitOK
  <2>4. QED
    BY <2>1, <2>2, <2>3, QuietStep
<1>5. QED
  BY <1>1, <1>2, <1>3, <1>4 DEF Next

-----------------------------------------------------------------------------
(* Results *)

LEMMA MclInvariant == Spec => []MclInv
BY MclInit, MclStep, PTL DEF Spec

(* For any number of commands and starts: one command executes at a time,  *)
(* the pending head of the present queue, and none that was executed is    *)
(* answered as done without its record.                                    *)
THEOREM ExecutionKeptCorrect == Spec => []ExecutionKept
<1>1. MclInv => ExecutionKept
  BY DEF MclInv, ExecutionKept
<1>2. QED
  BY <1>1, MclInvariant, PTL

(* The drain of a queue is exact: its count is that of the queue, a stop    *)
(* goes on only when every command ended with a known outcome, and sleeps   *)
(* only when its wake is still to come.                                    *)
THEOREM DrainExactCorrect == Spec => []DrainExact
<1>1. MclInv => DrainExact
  <2> SUFFICES ASSUME MclInv PROVE DrainExact
    OBVIOUS
  <2>1. DrainSound
    BY DEF DrainSound, MclInv, WaitOK, OneRuns, CommandOK
  <2>2. NoLostDrain
    BY DEF NoLostDrain, MclInv, WaitOK
  <2>3. QED
    BY <2>1, <2>2 DEF DrainExact, MclInv
<1>2. QED
  BY <1>1, MclInvariant, PTL

LEMMA QuietAction ==
  ASSUME MclInv, [Next]_vars, NEW c \in Command, stage[c] = "closure",
         stage'[c] = "asked" \/ ran'[c] = "ok"
  PROVE  accepting /\ (c \in Own => up /\ inst[c] = starts)
<1>1. ran[c] = "none" /\ stage[c] \in Executing
  BY DEF MclInv, CommandOK, Executing
<1>2. CASE RunClosure(c)
  <2>1. CASE CheckAction(c)
    BY <2>1 DEF CheckAction, Valid
  <2>2. CASE ~CheckAction(c)
    BY <1>2, <2>2 DEF RunClosure, Ends, Task, MclInv, MclTypeOK
  <2>3. QED
    BY <2>1, <2>2
<1>3. CASE Panics(c)
  BY <1>3 DEF Panics, Task, MclInv, MclTypeOK
<1>4. CASE UNCHANGED <<stage, ran>>
  BY <1>1, <1>4
<1>5. ASSUME NEW d \in Command \ {c}, stage[d] \in Executing PROVE FALSE
  BY <1>1, <1>5 DEF MclInv, OneRuns
<1>6. ~HandleResult(c) /\ ~Begin(c) /\ ~StorageEnds(c) /\ ~Reply(c) /\ ~AuditEnds(c)
  BY DEF HandleResult, Begin, StorageEnds, Reply, AuditEnds
<1>7. ASSUME NEW d \in Command \ {c}
      PROVE  ~HandleResult(d) /\ ~TaskStep(d) /\ ~RunClosure(d) /\ ~Reply(d) /\ ~Panics(d)
  BY <1>5, <1>7 DEF HandleResult, TaskStep, Begin, StorageEnds, Cancel, AuditEnds, RunClosure, Reply,
     Panics, Executing
<1>8. CASE HandleQueue
  <2>1. pending = c
    BY <1>1 DEF MclInv, OneRuns
  <2>2. UNCHANGED <<stage, ran>>
    BY <1>8, <2>1, CommandAssumption DEF HandleQueue, taskVars
  <2>3. QED
    BY <1>1, <2>2
<1>9. CASE \/ BeginFrame \/ EndPhase \/ HandleCommand \/ StopStep \/ Snapshotted \/ VmOver \/ Install
          \/ Started \/ NotReady \/ \E s \in {"stopping", "restarting"} : Close(s)
          \/ \E d \in Command : Send(d) \/ Leave(d) \/ ClientTask(d) \/ Cancel(d)
          \/ UNCHANGED vars
  <2>1. UNCHANGED <<stage, ran>>
    BY <1>9 DEF BeginFrame, EndPhase, HandleCommand, StopStep, Look, Wait, Snapshotted, VmOver,
       Install, Started, NotReady, Close, Send, Leave, ClientTask, Cancel, vars, taskVars
  <2>2. QED
    BY <1>1, <2>1
<1>10. QED
  BY <1>2, <1>3, <1>6, <1>7, <1>8, <1>9 DEF Next, FrameStep, CommandStep, TaskStep

(* Once an Agent is stopped nothing a command does changes it, and never a  *)
(* command of a program that was replaced.                                 *)
THEOREM ClosedQuietCorrect == Spec => ClosedQuiet
<1>1. MclInv /\ [Next]_vars =>
        [\A c \in Command :
           stage[c] = "closure" /\ (stage'[c] = "asked" \/ ran'[c] = "ok") =>
             accepting /\ (c \in Own => up /\ inst[c] = starts)]_vars
  BY QuietAction
<1>2. QED
  BY <1>1, MclInvariant, PTL DEF Spec, ClosedQuiet

-----------------------------------------------------------------------------
(* The queue implements CommandService *)

(* Whatever is about to be audited or answered has a result.               *)
ResultKnown == \A c \in Command : stage[c] \in {"audit", "result"} => res[c] # "none"

LEMMA ResultInit == Init => ResultKnown
BY DEF Init, ResultKnown

(* A task is answered with what it ended with, or with why it has no       *)
(* record.                                                                 *)
LEMMA TaskResult ==
  ASSUME MclInv, ResultKnown, NEW c \in Command,
         \/ Begin(c) \/ StorageEnds(c) \/ RunClosure(c) \/ Reply(c) \/ Cancel(c) \/ AuditEnds(c)
         \/ Panics(c)
  PROVE  stage'[c] \in {"audit", "result"} => res'[c] # "none"
<1>1. c \in DOMAIN stage /\ c \in DOMAIN res
  BY DEF MclInv, MclTypeOK
<1>2. ASSUME NEW r \in Result \ {"none"}, Ends(c, r) PROVE res'[c] # "none"
  BY <1>1, <1>2 DEF Ends
<1>3. ASSUME NEW p \in {"storage", "closure", "asked"}, Awaits(c, p)
      PROVE  stage'[c] \notin {"audit", "result"}
  BY <1>1, <1>3 DEF Awaits, Task
<1>4. CASE Begin(c) \/ StorageEnds(c) \/ RunClosure(c) \/ Reply(c)
  <2>1. \/ \E r \in Result \ {"none"} : Ends(c, r)
        \/ \E p \in {"storage", "closure", "asked"} : Awaits(c, p)
    BY <1>4 DEF Begin, StorageEnds, RunClosure, Reply, Result
  <2>2. QED
    BY <1>2, <1>3, <2>1
<1>5. CASE Cancel(c)
  BY <1>5 DEF Cancel, ResultKnown
<1>6. CASE AuditEnds(c)
  <2>1. stage[c] = "audit" /\ (res' = res \/ \E r \in {"unaudited", "unsure"} : res' = [res EXCEPT ![c] = r])
    BY <1>6 DEF AuditEnds
  <2>2. QED
    BY <1>1, <2>1 DEF ResultKnown
<1>7. CASE Panics(c)
  BY <1>1, <1>7 DEF Panics
<1>8. QED
  BY <1>4, <1>5, <1>6, <1>7

(* Steps that neither start nor end a task.                                *)
LEMMA OtherSteps ==
  ASSUME \/ BeginFrame \/ EndPhase \/ HandleCommand \/ StopStep \/ Snapshotted \/ VmOver \/ Install
         \/ Started \/ NotReady \/ \E s \in {"stopping", "restarting"} : Close(s)
         \/ \E d \in Command : Send(d) \/ Leave(d) \/ ClientTask(d)
         \/ UNCHANGED vars
  PROVE  UNCHANGED <<stage, res>>
BY DEF BeginFrame, EndPhase, HandleCommand, StopStep, Look, Wait, Snapshotted, VmOver,
   Install, Started, NotReady, Close, Send, Leave, ClientTask, vars, taskVars

LEMMA ResultStep == ASSUME MclInv, ResultKnown, [Next]_vars PROVE ResultKnown'
<1>1. CASE UNCHANGED <<stage, res>>
  BY <1>1 DEF ResultKnown
<1>2. ASSUME NEW c \in Command,
             \/ Begin(c) \/ StorageEnds(c) \/ RunClosure(c) \/ Reply(c) \/ Cancel(c) \/ AuditEnds(c)
             \/ Panics(c)
      PROVE  ResultKnown'
  <2>1. \A d \in Command \ {c} : stage'[d] = stage[d] /\ res'[d] = res[d]
    BY <1>2, ExecutionMoves DEF TaskMoves, MclInv, MclTypeOK
  <2>2. QED
    BY <1>2, <2>1, TaskResult DEF ResultKnown
<1>3. ASSUME NEW c \in Command, HandleResult(c) PROVE ResultKnown'
  <2>1. stage' = [stage EXCEPT ![c] = "over"] /\ res' = res /\ stage \in [Command -> {"none", "over"} \cup Executing]
    BY <1>3 DEF HandleResult, taskVars, MclInv, MclTypeOK
  <2>2. QED
    BY <2>1 DEF ResultKnown
<1>4. CASE HandleQueue
  <2>1. res' = res /\ (stage' = stage \/ \E c \in Command : stage' = [stage EXCEPT ![c] = "run"])
    BY <1>4, HeadFacts DEF HandleQueue, Drop, Dispatch, taskVars
  <2>2. QED
    BY <2>1 DEF ResultKnown, MclInv, MclTypeOK
<1>5. QED
  BY <1>1, <1>2, <1>3, <1>4, OtherSteps DEF Next, FrameStep, CommandStep, TaskStep

LEMMA ServiceInit == Init => Service!Init
BY DEF Init, Service!Init

LEMMA SendAsks == ASSUME MclInv, NEW c \in Command, Send(c) PROVE Service!Ask(c)
BY DEF Send, queueVars, Service!Ask

(* What is read is new: it stands in no queue and no task has it.          *)
LEMMA ReadAccepts ==
  ASSUME MclInv, HandleCommand
  PROVE  \E c \in Command : Service!Accept(c) \/ Service!Refuse(c)
<1> DEFINE c == Head(inbox)
<1>1. c \in Command /\ c = inbox[1] /\ 1 \in 1 .. Len(inbox)
  BY TailFacts, LenProperties DEF HandleCommand, MclInv, MclTypeOK
<1>2. c \in sent /\ answer[c] = "none" /\ stage[c] = "none"
  BY <1>1 DEF MclInv, Unread
<1>3. c \notin Service!Waiting
  <2>1. commands \in Seq(Command)
    BY DEF MclInv, MclTypeOK
  <2>2. DOMAIN commands = 1 .. Len(commands)
    BY <2>1, LenProperties
  <2>3. QED
    BY <1>1, <2>2 DEF Service!Waiting, MclInv, PlacesApart
<1>4. Service!New(c)
  BY <1>1, <1>2, <1>3 DEF Service!New
<1>5. UNCHANGED <<pending, accepting, sent, stage>>
  BY DEF HandleCommand
<1>6. CASE accepting /\ commands' = Append(commands, c) /\ answer' = answer
  BY <1>1, <1>4, <1>5, <1>6 DEF Service!Accept
<1>7. CASE Respond(c, "refused") /\ commands' = commands
  <2>1. answer' = [answer EXCEPT ![c] = "refused"]
    BY <1>2, <1>7 DEF Respond
  <2>2. QED
    BY <1>1, <1>4, <1>5, <1>7, <2>1 DEF Service!Refuse
<1>8. QED
  BY <1>6, <1>7 DEF HandleCommand, Accepted

LEMMA QueueTakes ==
  ASSUME MclInv, HandleQueue
  PROVE  Service!Take \/ Service!Drop \/ UNCHANGED Service!vars
<1>1. sent' = sent
  BY DEF HandleQueue
<1>2. CASE pending # None \/ commands = <<>>
  BY <1>1, <1>2 DEF HandleQueue, queueVars, Service!vars
<1>3. CASE pending = None /\ commands # <<>>
  <2> DEFINE c == Head(commands)
  <2>1. c \in Command /\ stage[c] = "none" /\ answer[c] = "none"
    <3>1. c \in Command /\ stage[c] # "over" /\ answer[c] = "none"
      BY <1>3, HeadFacts
    <3>2. stage[c] \notin Executing
      BY <1>3, <3>1, CommandAssumption DEF MclInv, OneRuns
    <3>3. QED
      BY <3>1, <3>2 DEF MclInv, MclTypeOK
  <2>2. Drop(c, "cancelled") \/ Drop(c, "refused") \/ (accepting /\ Dispatch(c))
    BY <1>3 DEF HandleQueue
  <2>3. ASSUME NEW r \in {"cancelled", "refused"}, Drop(c, r) PROVE Service!Drop
    <3>1. Settle(c, r) /\ stage' = stage /\ r \in Result
      BY <2>3 DEF Drop, Result
    <3>2. /\ commands' = Tail(commands) /\ pending' = None /\ accepting' = accepting
          /\ answer' = [answer EXCEPT ![c] = r]
      BY <1>3, <2>1, <3>1, SettleFacts
    <3>3. QED
      BY <1>1, <1>3, <2>1, <3>1, <3>2 DEF Service!Drop, Service!Settle
  <2>4. CASE accepting /\ Dispatch(c)
    <3>1. /\ pending' = c /\ stage' = [stage EXCEPT ![c] = "run"]
          /\ UNCHANGED <<commands, accepting, answer>>
      BY <2>4 DEF Dispatch
    <3>2. \A d \in Command : stage'[d] # "none" <=> stage[d] # "none" \/ d = c
      BY <2>1, <3>1 DEF MclInv, MclTypeOK
    <3>3. {d \in Command : stage'[d] # "none"} = {d \in Command : stage[d] # "none"} \cup {c}
      BY <2>1, <3>2
    <3>4. QED
      BY <1>1, <1>3, <2>1, <2>4, <3>1, <3>3 DEF Service!Take
  <2>5. QED
    BY <2>2, <2>3, <2>4
<1>4. QED
  BY <1>2, <1>3

LEMMA ResultFinishes ==
  ASSUME MclInv, ResultKnown, NEW c \in Command, HandleResult(c)
  PROVE  Service!Finish
<1>1. stage[c] = "result" /\ stage' = [stage EXCEPT ![c] = "over"] /\ Settle(c, res[c])
  BY DEF HandleResult
<1>2. commands # <<>> /\ Head(commands) = c /\ pending = c /\ c # None
  BY <1>1, CommandAssumption DEF MclInv, OneRuns, Executing
<1>3. res[c] \in Result \ {"none"} /\ answer[c] = "none"
  BY <1>1, <1>2, HeadFacts DEF ResultKnown, MclInv, MclTypeOK
<1>4. /\ commands' = Tail(commands) /\ pending' = None /\ accepting' = accepting
      /\ answer' = [answer EXCEPT ![c] = res[c]]
  BY <1>1, <1>2, <1>3, SettleFacts
<1>5. \A d \in Command : stage'[d] # "none" <=> stage[d] # "none"
  BY <1>1 DEF MclInv, MclTypeOK
<1>6. {d \in Command : stage'[d] # "none"} = {d \in Command : stage[d] # "none"}
  BY <1>5
<1>7. sent' = sent
  BY DEF HandleResult
<1>8. QED
  BY <1>2, <1>3, <1>4, <1>6, <1>7 DEF Service!Finish, Service!Settle

LEMMA StopCloses ==
  ASSUME StopStep \/ NotReady \/ \E s \in {"stopping", "restarting"} : Close(s)
  PROVE  Service!Close \/ UNCHANGED Service!vars
<1>1. UNCHANGED <<sent, commands, pending, answer, stage>> /\ accepting' \in {FALSE, accepting}
  BY DEF StopStep, Look, Wait, NotReady, Close, queueVars, commandVars
<1>2. QED
  BY <1>1 DEF Service!Close, Service!vars

LEMMA InstallReopens == ASSUME Install PROVE Service!Reopen
BY DEF Install, commandVars, Service!Reopen

(* A task that goes on is no step of the service.                          *)
LEMMA TaskIsQuiet ==
  ASSUME MclInv, NEW c \in Command, stage[c] \in Executing, TaskMoves(c)
  PROVE  UNCHANGED Service!vars
<1>1. UNCHANGED <<sent, commands, pending, accepting, answer>>
  BY DEF TaskMoves, queueVars, commandVars
<1>2. \A d \in Command : stage'[d] # "none" <=> stage[d] # "none"
  BY DEF TaskMoves, MclInv, MclTypeOK, Executing
<1>3. {d \in Command : stage'[d] # "none"} = {d \in Command : stage[d] # "none"}
  BY <1>2
<1>4. QED
  BY <1>1, <1>3 DEF Service!vars

LEMMA LoopIsQuiet ==
  ASSUME \/ BeginFrame \/ EndPhase \/ Snapshotted \/ VmOver \/ Started
         \/ \E d \in Command : Leave(d) \/ ClientTask(d)
         \/ UNCHANGED vars
  PROVE  UNCHANGED Service!vars
<1>1. UNCHANGED <<sent, commands, pending, accepting, answer, stage>>
  BY DEF BeginFrame, EndPhase, Snapshotted, VmOver, Started, Leave, ClientTask, vars, queueVars,
     commandVars
<1>2. QED
  BY <1>1 DEF Service!vars

LEMMA ServiceStep ==
  ASSUME MclInv, ResultKnown, [Next]_vars
  PROVE  [Service!Next]_(Service!vars)
<1>1. ASSUME NEW c \in Command,
             \/ Begin(c) \/ StorageEnds(c) \/ RunClosure(c) \/ Reply(c) \/ Cancel(c) \/ AuditEnds(c)
             \/ Panics(c)
      PROVE  UNCHANGED Service!vars
  BY <1>1, ExecutionMoves, TaskIsQuiet
<1>2. CASE HandleCommand \/ HandleQueue
  BY <1>2, ReadAccepts, QueueTakes DEF Service!Next
<1>3. CASE StopStep \/ NotReady \/ Install \/ \E s \in {"stopping", "restarting"} : Close(s)
  BY <1>3, StopCloses, InstallReopens DEF Service!Next
<1>4. ASSUME NEW c \in Command, Send(c) \/ HandleResult(c)
      PROVE  Service!Next
  BY <1>4, SendAsks, ResultFinishes DEF Service!Next
<1>5. QED
  BY <1>1, <1>2, <1>3, <1>4, LoopIsQuiet DEF Next, FrameStep, CommandStep, TaskStep

(* The queue implements CommandService: for any commands, starts, faults    *)
(* and frames, commands are accepted, taken and settled in one order, each *)
(* is taken and answered once at most, and nothing is taken after a close  *)
(* until a queue that is empty was installed.                              *)
THEOREM QueueImplements == Spec => ServiceSpec
<1>1. Init => ResultKnown /\ Service!Init
  BY ResultInit, ServiceInit
<1>2. MclInv /\ ResultKnown /\ [Next]_vars => ResultKnown' /\ [Service!Next]_(Service!vars)
  BY ResultStep, ServiceStep
<1>3. QED
  BY <1>1, <1>2, MclInvariant, PTL DEF Spec, ServiceSpec, Service!Spec
=============================================================================
