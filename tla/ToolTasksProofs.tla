--------------------------- MODULE ToolTasksProofs ---------------------------
(***************************************************************************)
(* The safety properties of ToolTasks, for every set of calls and whatever *)
(* fails: the inductive invariant ToolInv, and the properties from it.     *)
(*                                                                         *)
(* What a supervisor may still do depends on how far it is: a call has no  *)
(* injected entry and owns no other call before its worker runs; the       *)
(* closure of its owner cleanup is on its way once, and only while the     *)
(* supervisor waits for it; when the supervisor is about to release the    *)
(* task, its entries are gone, its callers answered and its processes dead.*)
(***************************************************************************)
EXTENDS ToolTasks, SequenceTheorems, TLAPS

(* the request of a call is not accepted; its worker has not been started  *)
Early == {"none", "request", "stale"}
Before == Early \cup {"launch", "read"}

(* a closure of kind k of the call c waits to run                          *)
Sent(k, c) == \E i \in 1 .. Len(closures) : closures[i] = Do(k, c)

CallOK(c) ==
  /\ phase[c] \in Early => reply[c] = None /\ ~cleaned[c] /\ c \notin tasks
  /\ phase[c] \in Before => ~process[c] /\ c \notin tools /\ ~Sent("inject", c)
  /\ phase[c] \in {"owner", "release", "end"} => reply[c] # None
  /\ phase[c] \in {"owner", "release"} => cancel[c]
  /\ cleaned[c] => phase[c] = "end" /\ c \notin tasks /\ ~process[c]
  /\ c \in tasks /\ phase[c] = "end" => CleanupFailed(c)
  /\ phase[c] \in {"temp", "owner"} /\ process[c] => outcome[c] = "panic" \/ ~world
  /\ phase[c] = "release" => c \notin tools /\ (process[c] => outcome[c] = "panic")
  /\ Sent("owner", c) => phase[c] \in {"closing", "owner"}
  /\ c \in tools => c \in tasks

(* a call's owner: its worker has run, and it is not let go before the call *)
(* is answered                                                              *)
OwnerOK(c) ==
  owner[c] # None =>
    /\ phase[owner[c]] \notin Before
    /\ c \in Unreturned => owner[c] \in tasks /\ phase[owner[c]] # "release"

OwnerOnce ==
  \A i, j \in 1 .. Len(closures) :
    closures[i].kind = "owner" /\ closures[i] = closures[j] => i = j

ClosuresKept == ~world => closures = <<>>

Joined == turn = "joining" => tasks \subseteq joining \cup failed

ToolInv ==
  /\ ToolTypeOK
  /\ \A c \in Call : CallOK(c)
  /\ \A c \in Call : OwnerOK(c)
  /\ OwnerOnce
  /\ ClosuresKept
  /\ TurnSettled
  /\ Joined

-----------------------------------------------------------------------------
(* The closures on their way *)

LEMMA AppendSent ==
  ASSUME closures \in Seq(Closure), OwnerOnce,
         NEW k \in {"inject", "owner"}, NEW c \in Call,
         closures' = Append(closures, Do(k, c)),
         k = "owner" => ~Sent("owner", c)
  PROVE  /\ closures' \in Seq(Closure)
         /\ OwnerOnce'
         /\ \A j, d : Sent(j, d)' => Sent(j, d) \/ (j = k /\ d = c)
<1> DEFINE n == Len(closures)
<1>1. /\ n \in Nat /\ Do(k, c) \in Closure
      /\ closures' \in Seq(Closure) /\ Len(closures') = n + 1
      /\ \A i \in 1 .. n : closures'[i] = closures[i]
      /\ closures'[n + 1] = Do(k, c)
  BY AppendProperties, LenProperties DEF Closure, Do
<1>2. ASSUME NEW j, NEW d, Sent(j, d)' PROVE Sent(j, d) \/ (j = k /\ d = c)
  <2>1. PICK i \in 1 .. n + 1 : closures'[i] = Do(j, d)
    BY <1>1, <1>2 DEF Sent
  <2>2. CASE i = n + 1
    BY <1>1, <2>1, <2>2 DEF Do
  <2>3. CASE i # n + 1
    <3>1. i \in 1 .. n
      BY <1>1, <2>1, <2>3
    <3>2. QED
      BY <1>1, <2>1, <3>1 DEF Sent
  <2>4. QED
    BY <2>2, <2>3
<1>3. ASSUME NEW i \in 1 .. n + 1, NEW j \in 1 .. n + 1,
             closures'[i].kind = "owner", closures'[i] = closures'[j]
      PROVE  i = j
  <2>1. CASE i \in 1 .. n /\ j \in 1 .. n
    BY <1>1, <1>3, <2>1 DEF OwnerOnce
  <2>2. ASSUME NEW x \in 1 .. n, closures[x] = Do(k, c), k = "owner" PROVE FALSE
    BY <2>2 DEF Sent
  <2>3. CASE i = n + 1 /\ j \in 1 .. n
    BY <1>1, <1>3, <2>2, <2>3 DEF Do
  <2>4. CASE j = n + 1 /\ i \in 1 .. n
    BY <1>1, <1>3, <2>2, <2>4 DEF Do
  <2>5. QED
    BY <1>1, <1>3, <2>1, <2>3, <2>4
<1>4. OwnerOnce'
  BY <1>1, <1>3 DEF OwnerOnce
<1>5. QED
  BY <1>1, <1>2, <1>4

LEMMA TailSent ==
  ASSUME closures \in Seq(Closure), OwnerOnce,
         NEW k \in {"inject", "owner"}, NEW c \in Call,
         closures # <<>>, Head(closures) = Do(k, c), closures' = Tail(closures)
  PROVE  /\ closures' \in Seq(Closure)
         /\ OwnerOnce'
         /\ \A j, d : Sent(j, d)' => Sent(j, d)
         /\ Sent(k, c)
         /\ k = "owner" => ~Sent("owner", c)'
<1> DEFINE n == Len(closures)
<1>1. /\ n \in Nat /\ n >= 1
      /\ closures' \in Seq(Closure) /\ Len(closures') = n - 1
      /\ \A i \in 1 .. n - 1 : i + 1 \in 1 .. n /\ closures'[i] = closures[i + 1]
      /\ closures[1] = Do(k, c)
  BY HeadTailProperties, LenProperties, EmptySeq
<1>2. \A j, d : Sent(j, d)' => Sent(j, d)
  BY <1>1 DEF Sent
<1>3. Sent(k, c)
  BY <1>1 DEF Sent
<1>4. OwnerOnce'
  BY <1>1 DEF OwnerOnce
<1>5. ASSUME k = "owner", Sent("owner", c)' PROVE FALSE
  <2>1. PICK i \in 1 .. n - 1 : closures'[i] = Do("owner", c)
    BY <1>1, <1>5 DEF Sent
  <2>2. i + 1 \in 1 .. n /\ 1 \in 1 .. n /\ closures[i + 1] = closures[1]
        /\ closures[1].kind = "owner"
    BY <1>1, <1>5, <2>1 DEF Do
  <2>3. i + 1 = 1
    BY <2>2 DEF OwnerOnce
  <2>4. QED
    BY <2>1, <2>3
<1>6. QED
  BY <1>1, <1>2, <1>3, <1>4, <1>5

-----------------------------------------------------------------------------
(* A step of one call: what it may change of the others, and of the rest    *)

Only(c) ==
  /\ \A d \in Call \ {c} :
       /\ phase'[d] = phase[d] /\ reply'[d] = reply[d] /\ cleaned'[d] = cleaned[d]
       /\ error'[d] = error[d] /\ outcome'[d] = outcome[d] /\ process'[d] = process[d]
       /\ d \in tasks' <=> d \in tasks
       /\ d \in tools' <=> d \in tools
       /\ \A k \in {"inject", "owner"} : Sent(k, d)' => Sent(k, d)
  /\ reply[c] # None => reply'[c] = reply[c]
  /\ \A d \in Call : cancel[d] => cancel'[d]
  /\ c \in Unreturned' => c \in Unreturned
  /\ c \in tasks' => c \in tasks
  /\ c \in tasks => c \in tasks' \/ phase[c] \in Before \cup {"release"}
  /\ phase[c] \notin Before => phase'[c] \notin Before
  /\ phase'[c] = "release" => phase[c] = "release"
  /\ UNCHANGED <<owner, turn, joining, failed, world>>

LEMMA OwnStep ==
  ASSUME ToolInv, NEW c \in Call, Only(c),
         ToolTypeOK', CallOK(c)', OwnerOnce', ClosuresKept'
  PROVE  ToolInv'
<1>1. ToolTypeOK
  BY DEF ToolInv
<1>2. ASSUME NEW d \in Call PROVE CallOK(d)'
  <2>1. CASE d = c
    BY <2>1
  <2>2. CASE d # c
    <3>1. CallOK(d)
      BY DEF ToolInv
    <3>2. /\ phase'[d] = phase[d] /\ reply'[d] = reply[d] /\ cleaned'[d] = cleaned[d]
          /\ error'[d] = error[d] /\ outcome'[d] = outcome[d] /\ process'[d] = process[d]
          /\ d \in tasks' <=> d \in tasks
          /\ d \in tools' <=> d \in tools
          /\ Sent("inject", d)' => Sent("inject", d)
          /\ Sent("owner", d)' => Sent("owner", d)
          /\ cancel[d] => cancel'[d]
          /\ world' = world
      BY <2>2 DEF Only
    <3>3. QED
      BY <3>1, <3>2 DEF CallOK, CleanupFailed
  <2>3. QED
    BY <2>1, <2>2
<1>3. \A d \in Call : d \in Unreturned' => d \in Unreturned
  BY DEF Only, Unreturned
<1>4. ASSUME NEW d \in Call PROVE OwnerOK(d)'
  <2>1. OwnerOK(d) /\ owner' = owner
    BY DEF ToolInv, Only
  <2>2. CASE owner[d] = None
    BY <2>1, <2>2 DEF OwnerOK
  <2>3. CASE owner[d] # None
    <3>1. owner[d] \in Call
      BY <1>1, <2>3 DEF ToolTypeOK
    <3>2. phase[owner[d]] \notin Before
      BY <2>1, <2>3 DEF OwnerOK
    <3>3. phase'[owner[d]] \notin Before
      BY <3>1, <3>2 DEF Only
    <3>4. ASSUME d \in Unreturned'
          PROVE  owner[d] \in tasks' /\ phase'[owner[d]] # "release"
      <4>1. owner[d] \in tasks /\ phase[owner[d]] # "release"
        BY <1>3, <2>1, <2>3, <3>4 DEF OwnerOK
      <4>2. QED
        BY <3>1, <3>2, <4>1 DEF Only
    <3>5. QED
      BY <2>1, <3>3, <3>4 DEF OwnerOK
  <2>4. QED
    BY <2>2, <2>3
<1>5. TurnSettled'
  <2>1. tasks \subseteq Call /\ tasks' \subseteq Call
    BY <1>1 DEF ToolTypeOK
  <2>2. Unreturned' \subseteq Unreturned
    BY <1>3, <2>1 DEF Unreturned
  <2>3. QED
    BY <2>2 DEF ToolInv, TurnSettled, Only
<1>6. Joined'
  <2>1. tasks' \subseteq tasks
    BY <1>1 DEF ToolTypeOK, Only
  <2>2. QED
    BY <2>1 DEF ToolInv, Joined, Only
<1>7. QED
  BY <1>2, <1>4, <1>5, <1>6 DEF ToolInv

(* A step that leaves the closures and the World *)
LEMMA NothingSent ==
  ASSUME ToolInv, UNCHANGED closures
  PROVE  /\ OwnerOnce'
         /\ \A k, d : Sent(k, d)' <=> Sent(k, d)
         /\ UNCHANGED world => ClosuresKept'
BY DEF ToolInv, OwnerOnce, Sent, ClosuresKept

-----------------------------------------------------------------------------
(* The types *)

LEMMA OwnTypes ==
  ASSUME ToolTypeOK, closures' \in Seq(Closure), NEW c \in Call,
         \/ Request(c) \/ Refuse(c) \/ Launch(c) \/ LaunchFails(c) \/ StartRunner(c)
         \/ ReadFails(c) \/ Configure(c) \/ Return(c) \/ Inject(c)
         \/ StoppedUnproven(c) \/ HostReplies(c) \/ CleanupOwnerFails(c)
         \/ SignalRunner(c) \/ Reap(c) \/ ProofFails(c) \/ Prove(c) \/ TempFails(c)
         \/ Panic(c) \/ Settle(c) \/ EndUnconfirmed(c) \/ Complete(c)
         \/ InjectTools(c) \/ StopJoin(c)
  PROVE  ToolTypeOK'
<1>1. CASE Request(c)
  BY <1>1 DEF ToolTypeOK, Request, To, handleVars, superVars, agentVars, Phase, Reply, Error, Outcome
<1>2. CASE Refuse(c)
  BY <1>2 DEF ToolTypeOK, Refuse, To, handleVars, superVars, agentVars, Phase, Reply, Error, Outcome
<1>3. CASE Launch(c)
  BY <1>3 DEF ToolTypeOK, Launch, To, handleVars, superVars, agentVars, Phase, Reply, Error, Outcome
<1>4. CASE LaunchFails(c)
  BY <1>4 DEF ToolTypeOK, LaunchFails, Fail, Answer, SetError, Release, To, handleVars, superVars, agentVars, Phase, Reply, Error, Outcome
<1>5. CASE StartRunner(c)
  BY <1>5 DEF ToolTypeOK, StartRunner, To, handleVars, superVars, agentVars, Phase, Reply, Error, Outcome
<1>6. CASE ReadFails(c)
  BY <1>6 DEF ToolTypeOK, ReadFails, Fail, Answer, SetError, To, handleVars, superVars, agentVars, Phase, Reply, Error, Outcome
<1>7. CASE Configure(c)
  BY <1>7 DEF ToolTypeOK, Configure, Exchange, To, handleVars, superVars, agentVars, Phase, Reply, Error, Outcome
<1>8. CASE Return(c)
  BY <1>8 DEF ToolTypeOK, Return, Configured, Exchange, Answer, To, handleVars, superVars, agentVars, Phase, Reply, Error, Outcome
<1>9. CASE Inject(c)
  BY <1>9 DEF ToolTypeOK, Inject, Configured, Exchange, To, handleVars, superVars, agentVars, Phase, Reply, Error, Outcome
<1>10. CASE StoppedUnproven(c)
  BY <1>10 DEF ToolTypeOK, StoppedUnproven, Exchange, Fail, Answer, SetError, To, handleVars, superVars, agentVars, Phase, Reply, Error, Outcome
<1>11. CASE HostReplies(c)
  BY <1>11 DEF ToolTypeOK, HostReplies, To, handleVars, superVars, agentVars, Phase, Reply, Error, Outcome
<1>12. CASE CleanupOwnerFails(c)
  BY <1>12 DEF ToolTypeOK, CleanupOwnerFails, Fail, Answer, SetError, To, handleVars, superVars, agentVars, Phase, Reply, Error, Outcome
<1>13. CASE SignalRunner(c)
  BY <1>13 DEF ToolTypeOK, SignalRunner, Fail, Answer, SetError, To, handleVars, superVars, agentVars, Phase, Reply, Error, Outcome
<1>14. CASE Reap(c)
  BY <1>14 DEF ToolTypeOK, Reap, Fail, Answer, SetError, To, handleVars, superVars, agentVars, Phase, Reply, Error, Outcome
<1>15. CASE ProofFails(c)
  BY <1>15 DEF ToolTypeOK, ProofFails, Fail, Answer, SetError, To, handleVars, superVars, agentVars, Phase, Reply, Error, Outcome
<1>16. CASE Prove(c)
  BY <1>16 DEF ToolTypeOK, Prove, Fail, Answer, SetError, To, handleVars, superVars, agentVars, Phase, Reply, Error, Outcome
<1>17. CASE TempFails(c)
  BY <1>17 DEF ToolTypeOK, TempFails, Fail, Answer, SetError, To, handleVars, superVars, agentVars, Phase, Reply, Error, Outcome
<1>18. CASE Panic(c)
  BY <1>18 DEF ToolTypeOK, Panic, To, handleVars, superVars, agentVars, Phase, Reply, Error, Outcome
<1>19. CASE Settle(c)
  BY <1>19 DEF ToolTypeOK, Settle, Answer, CleanupOwner, To, handleVars, superVars, agentVars, Phase, Reply, Error, Outcome
<1>20. CASE EndUnconfirmed(c)
  BY <1>20 DEF ToolTypeOK, EndUnconfirmed, Over, SetError, To, handleVars, superVars, agentVars, Phase, Reply, Error, Outcome
<1>21. CASE Complete(c)
  BY <1>21 DEF ToolTypeOK, Complete, Over, SetError, Release, To, handleVars, superVars, agentVars, Phase, Reply, Error, Outcome
<1>22. CASE InjectTools(c)
  BY <1>22 DEF ToolTypeOK, InjectTools, To, handleVars, superVars, agentVars, Phase, Reply, Error, Outcome
<1>23. CASE StopJoin(c)
  BY <1>23 DEF ToolTypeOK, StopJoin, To, handleVars, superVars, agentVars, Phase, Reply, Error, Outcome
<1>24. QED
  BY <1>1, <1>2, <1>3, <1>4, <1>5, <1>6, <1>7, <1>8, <1>9, <1>10, <1>11, <1>12, <1>13, <1>14, <1>15, <1>16, <1>17, <1>18, <1>19, <1>20, <1>21, <1>22, <1>23

-----------------------------------------------------------------------------
(* The steps of one call that send nothing *)

LEMMA QuietStep ==
  ASSUME ToolInv, NEW c \in Call,
         \/ Request(c) \/ Refuse(c) \/ Launch(c) \/ LaunchFails(c) \/ StartRunner(c)
         \/ ReadFails(c) \/ Configure(c) \/ Return(c) \/ StoppedUnproven(c)
         \/ HostReplies(c) \/ CleanupOwnerFails(c) \/ SignalRunner(c) \/ Reap(c)
         \/ ProofFails(c) \/ Prove(c) \/ TempFails(c) \/ Panic(c) \/ EndUnconfirmed(c)
         \/ Complete(c)
  PROVE  CallOK(c)' /\ Only(c)
<1>1. ToolTypeOK /\ CallOK(c)
  BY DEF ToolInv
<1>2. UNCHANGED <<closures, owner, tools, turn, joining, failed, world>>
  BY DEF Request, Refuse, Launch, LaunchFails, StartRunner, ReadFails, Configure, Return, StoppedUnproven, HostReplies, CleanupOwnerFails, SignalRunner, Reap, ProofFails, Prove, TempFails, Panic, EndUnconfirmed, Complete, handleVars, superVars, agentVars
<1>3. \A k, d : Sent(k, d)' <=> Sent(k, d)
  BY <1>2, NothingSent
<1>4. CASE Request(c)
  BY <1>1, <1>2, <1>3, <1>4 DEF ToolTypeOK, CallOK, CleanupFailed, Only, Unreturned, Early, Before, Request, To, handleVars, superVars, agentVars
<1>5. CASE Refuse(c)
  <2>1. /\ phase[c] \in {"request", "stale"} /\ phase' = [phase EXCEPT ![c] = "end"]
        /\ \A d \in Call \ {c} : reply'[d] = reply[d]
        /\ reply'[c] # None
        /\ UNCHANGED <<cancel, error, cleaned, outcome, process, tasks>>
    BY <1>1, <1>5, CallAssumption DEF ToolTypeOK, Refuse, To, agentVars
  <2>2. reply[c] = None /\ ~cleaned[c] /\ c \notin tasks
    BY <1>1, <2>1 DEF CallOK, Early
  <2>3. QED
    BY <1>1, <1>2, <1>3, <2>1, <2>2
       DEF ToolTypeOK, CallOK, CleanupFailed, Only, Unreturned, Early, Before
<1>6. CASE Launch(c)
  BY <1>1, <1>2, <1>3, <1>6 DEF ToolTypeOK, CallOK, CleanupFailed, Only, Unreturned, Early, Before, Launch, To, handleVars, superVars, agentVars
<1>7. CASE LaunchFails(c)
  <2>1. /\ phase[c] = "launch" /\ phase' = [phase EXCEPT ![c] = "end"]
        /\ reply' = [reply EXCEPT ![c] = IF @ = None THEN "failed" ELSE @]
        /\ error' = [error EXCEPT ![c] = "failure"]
        /\ tasks' = tasks \ {c} /\ cleaned' = [cleaned EXCEPT ![c] = TRUE]
        /\ UNCHANGED <<cancel, outcome, process>>
    BY <1>7 DEF LaunchFails, Fail, Answer, SetError, Release, To
  <2>2. reply'[c] # None
    BY <1>1, <2>1, CallAssumption DEF ToolTypeOK
  <2>3. QED
    BY <1>1, <1>2, <1>3, <2>1, <2>2
       DEF ToolTypeOK, CallOK, CleanupFailed, Only, Unreturned, Early, Before
<1>8. CASE StartRunner(c)
  BY <1>1, <1>2, <1>3, <1>8 DEF ToolTypeOK, CallOK, CleanupFailed, Only, Unreturned, Early, Before, StartRunner, To, handleVars, superVars, agentVars
<1>9. CASE ReadFails(c)
  BY <1>1, <1>2, <1>3, <1>9 DEF ToolTypeOK, CallOK, CleanupFailed, Only, Unreturned, Early, Before, ReadFails, Fail, Answer, SetError, To, handleVars, superVars, agentVars
<1>10. CASE Configure(c)
  BY <1>1, <1>2, <1>3, <1>10 DEF ToolTypeOK, CallOK, CleanupFailed, Only, Unreturned, Early, Before, Configure, Exchange, To, handleVars, superVars, agentVars
<1>11. CASE Return(c)
  BY <1>1, <1>2, <1>3, <1>11 DEF ToolTypeOK, CallOK, CleanupFailed, Only, Unreturned, Early, Before, Return, Configured, Exchange, Answer, To, handleVars, superVars, agentVars
<1>12. CASE StoppedUnproven(c)
  BY <1>1, <1>2, <1>3, <1>12 DEF ToolTypeOK, CallOK, CleanupFailed, Only, Unreturned, Early, Before, StoppedUnproven, Exchange, Fail, Answer, SetError, To, handleVars, superVars, agentVars
<1>13. CASE HostReplies(c)
  BY <1>1, <1>2, <1>3, <1>13 DEF ToolTypeOK, CallOK, CleanupFailed, Only, Unreturned, Early, Before, HostReplies, To, handleVars, superVars, agentVars
<1>14. CASE CleanupOwnerFails(c)
  <2>1. /\ phase[c] = "closing" /\ ~world /\ phase' = [phase EXCEPT ![c] = "temp"]
        /\ outcome' = [outcome EXCEPT ![c] = "failed"]
        /\ reply' = [reply EXCEPT ![c] = IF @ = None THEN "failed" ELSE @]
        /\ error' = [error EXCEPT ![c] = "cleanup"]
        /\ UNCHANGED <<cancel, cleaned, process, tasks>>
    BY <1>14 DEF CleanupOwnerFails, Fail, Answer, SetError, To, agentVars
  <2>2. ~Sent("owner", c)
    <3>1. closures = <<>>
      BY <2>1 DEF ToolInv, ClosuresKept
    <3>2. QED
      BY <3>1, EmptySeq DEF Sent
  <2>3. QED
    BY <1>1, <1>2, <1>3, <2>1, <2>2
       DEF ToolTypeOK, CallOK, CleanupFailed, Only, Unreturned, Early, Before
<1>15. CASE SignalRunner(c)
  BY <1>1, <1>2, <1>3, <1>15 DEF ToolTypeOK, CallOK, CleanupFailed, Only, Unreturned, Early, Before, SignalRunner, Fail, Answer, SetError, To, handleVars, superVars, agentVars
<1>16. CASE Reap(c)
  BY <1>1, <1>2, <1>3, <1>16 DEF ToolTypeOK, CallOK, CleanupFailed, Only, Unreturned, Early, Before, Reap, Fail, Answer, SetError, To, handleVars, superVars, agentVars
<1>17. CASE ProofFails(c)
  BY <1>1, <1>2, <1>3, <1>17 DEF ToolTypeOK, CallOK, CleanupFailed, Only, Unreturned, Early, Before, ProofFails, Fail, Answer, SetError, To, handleVars, superVars, agentVars
<1>18. CASE Prove(c)
  BY <1>1, <1>2, <1>3, <1>18 DEF ToolTypeOK, CallOK, CleanupFailed, Only, Unreturned, Early, Before, Prove, Fail, Answer, SetError, To, handleVars, superVars, agentVars
<1>19. CASE TempFails(c)
  BY <1>1, <1>2, <1>3, <1>19 DEF ToolTypeOK, CallOK, CleanupFailed, Only, Unreturned, Early, Before, TempFails, Fail, Answer, SetError, To, handleVars, superVars, agentVars
<1>20. CASE Panic(c)
  BY <1>1, <1>2, <1>3, <1>20 DEF ToolTypeOK, CallOK, CleanupFailed, Only, Unreturned, Early, Before, Panic, To, handleVars, superVars, agentVars
<1>21. CASE EndUnconfirmed(c)
  <2>1. /\ phase[c] = "owner" /\ ~world /\ phase' = [phase EXCEPT ![c] = "end"]
        /\ outcome' = [outcome EXCEPT ![c] = "ok"]
        /\ error' = [error EXCEPT ![c] = "cleanup"]
        /\ UNCHANGED <<reply, cancel, cleaned, process, tasks>>
    BY <1>21 DEF EndUnconfirmed, Over, SetError, To, agentVars
  <2>2. ~Sent("owner", c)
    <3>1. closures = <<>>
      BY <2>1 DEF ToolInv, ClosuresKept
    <3>2. QED
      BY <3>1, EmptySeq DEF Sent
  <2>3. QED
    BY <1>1, <1>2, <1>3, <2>1, <2>2
       DEF ToolTypeOK, CallOK, CleanupFailed, Only, Unreturned, Early, Before
<1>22. CASE Complete(c)
  BY <1>1, <1>2, <1>3, <1>22 DEF ToolTypeOK, CallOK, CleanupFailed, Only, Unreturned, Early, Before, Complete, Over, SetError, Release, To, handleVars, superVars, agentVars
<1>23. QED
  BY <1>4, <1>5, <1>6, <1>7, <1>8, <1>9, <1>10, <1>11, <1>12, <1>13, <1>14, <1>15, <1>16, <1>17, <1>18, <1>19, <1>20, <1>21, <1>22

LEMMA FinishOtherStep ==
  ASSUME ToolInv, NEW c \in Call, NEW d \in Call, FinishOther(c, d)
  PROVE  ToolTypeOK' /\ CallOK(c)' /\ Only(c) /\ UNCHANGED <<closures, world>>
<1>1. ToolTypeOK /\ CallOK(c)
  BY DEF ToolInv
<1>2. UNCHANGED <<closures, world>>
  BY DEF FinishOther
<1>3. \A k, e : Sent(k, e)' <=> Sent(k, e)
  BY <1>2, NothingSent
<1>4. ToolTypeOK'
  BY <1>1, <1>2 DEF ToolTypeOK, FinishOther, Configured, Exchange, agentVars
<1>5. CallOK(c)'
  BY <1>1, <1>2, <1>3 DEF ToolTypeOK, CallOK, CleanupFailed, FinishOther, agentVars
<1>6. Only(c)
  BY <1>1, <1>2, <1>3 DEF ToolTypeOK, Only, Unreturned, FinishOther, agentVars
<1>7. QED
  BY <1>2, <1>4, <1>5, <1>6

-----------------------------------------------------------------------------
(* The steps of one call that send a closure, or run one of it *)

LEMMA InjectStep ==
  ASSUME ToolInv, NEW c \in Call, Inject(c)
  PROVE  /\ closures' \in Seq(Closure) /\ CallOK(c)' /\ Only(c)
         /\ OwnerOnce' /\ ClosuresKept'
<1>1. ToolTypeOK /\ CallOK(c) /\ OwnerOnce
  BY DEF ToolInv
<1>2. /\ phase[c] = "run" /\ world /\ closures' = Append(closures, Do("inject", c))
      /\ UNCHANGED <<handleVars, phase, outcome, process, agentVars, world>>
  BY DEF Inject, Configured, Exchange
<1>3. /\ closures' \in Seq(Closure) /\ OwnerOnce'
      /\ \A j, d : Sent(j, d)' => Sent(j, d) \/ (j = "inject" /\ d = c)
  BY <1>1, <1>2, AppendSent DEF ToolTypeOK
<1>4. CallOK(c)'
  BY <1>1, <1>2, <1>3 DEF CallOK, CleanupFailed, Early, Before, handleVars, agentVars
<1>5. Only(c)
  BY <1>1, <1>2, <1>3 DEF Only, Unreturned, Early, Before, handleVars, agentVars
<1>6. QED
  BY <1>2, <1>3, <1>4, <1>5 DEF ClosuresKept

(* cleanup_owner is sent when none is on its way *)
LEMMA CleanupSent ==
  ASSUME ToolInv, NEW c \in Call, CleanupOwner(c), UNCHANGED world, ~Sent("owner", c)
  PROVE  /\ closures' \in Seq(Closure) /\ OwnerOnce' /\ ClosuresKept'
         /\ \A j, d : Sent(j, d)' => Sent(j, d) \/ (j = "owner" /\ d = c)
<1>1. ToolTypeOK /\ OwnerOnce /\ ClosuresKept
  BY DEF ToolInv
<1>2. CASE world
  <2>1. closures' = Append(closures, Do("owner", c))
    BY <1>2 DEF CleanupOwner
  <2>2. QED
    BY <1>1, <1>2, <2>1, AppendSent DEF ToolTypeOK, ClosuresKept
<1>3. CASE ~world
  <2>1. UNCHANGED closures
    BY <1>3 DEF CleanupOwner
  <2>2. QED
    BY <1>1, <2>1, NothingSent DEF ToolTypeOK
<1>4. QED
  BY <1>2, <1>3

LEMMA EndExchangeStep ==
  ASSUME ToolInv, NEW c \in Call, NEW o \in {"ok", "cancelled", "failed"}, phase[c] = "run",
         EndExchange(c, o, "failure"),
         process' \in {process, [process EXCEPT ![c] = FALSE]}
  PROVE  /\ ToolTypeOK' /\ CallOK(c)' /\ Only(c)
         /\ OwnerOnce' /\ ClosuresKept'
<1>1. ToolTypeOK /\ CallOK(c)
  BY DEF ToolInv
<1>2. /\ phase' = [phase EXCEPT ![c] = "closing"]
      /\ outcome' = [outcome EXCEPT ![c] = o]
      /\ busy' = [busy EXCEPT ![c] = None]
      /\ life' = [life EXCEPT ![c] = "unset"]
      /\ reply' \in {reply, [reply EXCEPT ![c] = IF @ = None THEN "failed" ELSE @]}
      /\ error' \in {error, [error EXCEPT ![c] = "failure"]}
      /\ cancel' = [cancel EXCEPT ![c] = TRUE]
      /\ CleanupOwner(c)
      /\ UNCHANGED <<owner, cleaned, tasks, tools, turn, joining, failed, world>>
  BY DEF EndExchange, To, Fail, Answer, SetError, CleanupOwner, agentVars
<1>3. ~Sent("owner", c)
  BY <1>1 DEF CallOK
<1>4. /\ closures' \in Seq(Closure) /\ OwnerOnce' /\ ClosuresKept'
      /\ \A j, d : Sent(j, d)' => Sent(j, d) \/ (j = "owner" /\ d = c)
  BY <1>2, <1>3, CleanupSent
<1>5. ToolTypeOK'
  <2>1. process' \in [Call -> BOOLEAN]
    BY <1>1 DEF ToolTypeOK
  <2>2. /\ reply' \in [Call -> Reply \cup {None}]
        /\ error' \in [Call -> Error \cup {None}]
        /\ outcome' \in [Call -> Outcome]
    BY <1>1, <1>2 DEF ToolTypeOK, Reply, Error, Outcome
  <2>3. QED
    BY <1>1, <1>2, <1>4, <2>1, <2>2 DEF ToolTypeOK, Phase
<1>6. /\ \A d \in Call : d # c => process'[d] = process[d]
      /\ process'[c] => process[c]
      /\ phase'[c] = "closing" /\ cancel'[c]
      /\ cleaned'[c] = cleaned[c]
  BY <1>1, <1>2 DEF ToolTypeOK
<1>7. CallOK(c)'
  BY <1>1, <1>2, <1>4, <1>6 DEF CallOK, Early, Before
<1>8. Only(c)
  BY <1>1, <1>2, <1>4, <1>6 DEF ToolTypeOK, CallOK, Only, Unreturned, Early, Before
<1>9. QED
  BY <1>4, <1>5, <1>7, <1>8

LEMMA SettleStep ==
  ASSUME ToolInv, NEW c \in Call, Settle(c)
  PROVE  /\ closures' \in Seq(Closure) /\ CallOK(c)' /\ Only(c)
         /\ OwnerOnce' /\ ClosuresKept'
<1>1. ToolTypeOK /\ CallOK(c)
  BY DEF ToolInv
<1>2. /\ phase[c] = "temp" /\ phase' = [phase EXCEPT ![c] = "owner"]
      /\ outcome' = [outcome EXCEPT ![c] = IF @ = "ok" /\ reply[c] = None THEN "failed" ELSE @]
      /\ reply' = [reply EXCEPT ![c] = IF @ = None THEN "failed" ELSE @]
      /\ cancel' = [cancel EXCEPT ![c] = TRUE]
      /\ CleanupOwner(c)
      /\ UNCHANGED <<owner, error, cleaned, process, tasks, tools, turn, joining, failed, world>>
  BY DEF Settle, To, Answer, CleanupOwner, agentVars
<1>3. ~Sent("owner", c)
  BY <1>1, <1>2 DEF CallOK
<1>4. /\ closures' \in Seq(Closure) /\ OwnerOnce' /\ ClosuresKept'
      /\ \A j, d : Sent(j, d)' => Sent(j, d) \/ (j = "owner" /\ d = c)
  BY <1>2, <1>3, CleanupSent
<1>5. reply'[c] # None
  BY <1>1, <1>2, CallAssumption DEF ToolTypeOK
<1>6. CallOK(c)'
  BY <1>1, <1>2, <1>4, <1>5 DEF ToolTypeOK, CallOK, CleanupFailed, Early, Before
<1>7. Only(c)
  BY <1>1, <1>2, <1>4, <1>5 DEF ToolTypeOK, CallOK, Only, Unreturned, Early, Before
<1>8. QED
  BY <1>4, <1>6, <1>7

LEMMA InjectToolsStep ==
  ASSUME ToolInv, NEW c \in Call, InjectTools(c)
  PROVE  /\ closures' \in Seq(Closure) /\ CallOK(c)' /\ Only(c)
         /\ OwnerOnce' /\ ClosuresKept'
<1>1. ToolTypeOK /\ CallOK(c) /\ OwnerOnce /\ ClosuresKept
  BY DEF ToolInv
<1>2. /\ closures # <<>> /\ Head(closures) = Do("inject", c) /\ closures' = Tail(closures)
      /\ tools' = IF c \in tasks /\ ~cancel[c] /\ ~cleaned[c] THEN tools \cup {c} ELSE tools
      /\ UNCHANGED <<handleVars, phase, outcome, process, tasks, turn, joining, failed, world>>
  BY DEF InjectTools
<1>3. /\ closures' \in Seq(Closure) /\ OwnerOnce' /\ Sent("inject", c)
      /\ \A j, d : Sent(j, d)' => Sent(j, d)
  BY <1>1, <1>2, TailSent DEF ToolTypeOK
<1>4. phase[c] \notin Before /\ (phase[c] = "release" => c \notin tools')
  BY <1>1, <1>2, <1>3 DEF CallOK
<1>5. CallOK(c)'
  BY <1>1, <1>2, <1>3, <1>4 DEF CallOK, CleanupFailed, Early, Before, handleVars
<1>6. Only(c)
  BY <1>1, <1>2, <1>3, <1>4 DEF ToolTypeOK, Only, Unreturned, handleVars
<1>7. world /\ ClosuresKept'
  BY <1>1, <1>2 DEF ClosuresKept
<1>8. QED
  BY <1>3, <1>5, <1>6, <1>7

-----------------------------------------------------------------------------
(* The turn, the stop flow and the end of the World *)

LEMMA TurnStep ==
  ASSUME ToolInv, ToolTypeOK', TurnSettled', Joined',
         \A d \in Call : \/ phase'[d] = phase[d]
                         \/ phase[d] = "request" /\ phase'[d] = "stale",
         \A d \in Call : \/ reply'[d] = reply[d]
                         \/ d \in Unreturned /\ reply'[d] # None,
         \A d \in Call : cancel[d] => cancel'[d],
         UNCHANGED <<owner, error, cleaned, outcome, process, tasks, tools>>,
         UNCHANGED <<closures, world>> \/ (closures' = <<>> /\ ~world')
  PROVE  ToolInv'
<1>1. ToolTypeOK
  BY DEF ToolInv
<1>2. OwnerOnce' /\ ClosuresKept' /\ \A k, d : Sent(k, d)' => Sent(k, d)
  <2>1. CASE UNCHANGED <<closures, world>>
    BY <2>1, NothingSent
  <2>2. CASE closures' = <<>> /\ ~world'
    BY <2>2, EmptySeq DEF OwnerOnce, ClosuresKept, Sent
  <2>3. QED
    BY <2>1, <2>2
<1>3. ~world => ~world'
  BY DEF ToolInv, ClosuresKept
<1>4. ASSUME NEW d \in Call PROVE CallOK(d)'
  <2>1. CallOK(d)
    BY DEF ToolInv
  <2>2. phase'[d] = phase[d] \/ (phase[d] = "request" /\ phase'[d] = "stale")
    OBVIOUS
  <2>3. reply'[d] = reply[d] \/ (d \in tasks /\ reply'[d] # None)
    BY DEF Unreturned
  <2>4. phase[d] \in Early => reply'[d] = None
    BY <2>1, <2>3 DEF CallOK
  <2>5. reply[d] # None => reply'[d] # None
    BY <2>3
  <2>6. QED
    BY <1>2, <1>3, <2>1, <2>2, <2>4, <2>5 DEF CallOK, CleanupFailed, Early, Before
<1>5. ASSUME NEW d \in Call PROVE OwnerOK(d)'
  <2>1. OwnerOK(d)
    BY DEF ToolInv
  <2>2. d \in Unreturned' => d \in Unreturned
    BY DEF Unreturned
  <2>3. CASE owner[d] # None
    <3>1. owner[d] \in Call
      BY <1>1, <2>3 DEF ToolTypeOK
    <3>2. phase'[owner[d]] = phase[owner[d]]
      BY <2>1, <2>3, <3>1 DEF OwnerOK, Early, Before
    <3>3. QED
      BY <2>1, <2>2, <2>3, <3>2 DEF OwnerOK
  <2>4. QED
    BY <2>3 DEF OwnerOK
<1>6. QED
  BY <1>2, <1>4, <1>5 DEF ToolInv

LEMMA LoopStep ==
  ASSUME ToolInv,
         \/ StartTurn \/ FinishTurn \/ AbortTurn \/ StopAgent \/ StopList \/ StopEnd \/ DropWorld
         \/ \E c \in Call : StopJoin(c)
  PROVE  /\ ToolInv'
         /\ \A d \in Call : reply[d] # None => reply'[d] = reply[d]
<1>1. /\ ToolTypeOK /\ TurnSettled /\ Joined
      /\ \A d \in Call : CallOK(d)
  BY DEF ToolInv
<1>2. CASE StartTurn
  <2>1. ToolTypeOK' /\ TurnSettled' /\ Joined'
    BY <1>1, <1>2
       DEF StartTurn, ToolTypeOK, TurnSettled, Joined, Turn, handleVars, superVars
  <2>2. QED
    BY <1>2, <2>1, TurnStep DEF StartTurn, handleVars, superVars
<1>3. CASE FinishTurn
  <2>1. ToolTypeOK' /\ TurnSettled' /\ Joined'
    BY <1>1, <1>3
       DEF FinishTurn, ToolTypeOK, TurnSettled, Joined, Turn, Expired, Phase, handleVars
  <2>2. \A d \in Call : phase'[d] = phase[d] \/ (phase[d] = "request" /\ phase'[d] = "stale")
    BY <1>3 DEF FinishTurn, Expired
  <2>3. QED
    BY <1>3, <2>1, <2>2, TurnStep DEF FinishTurn, handleVars
<1>4. CASE StopAgent
  <2>1. ToolTypeOK' /\ TurnSettled' /\ Joined'
    BY <1>1, <1>4
       DEF StopAgent, ToolTypeOK, TurnSettled, Joined, Turn, Expired, Phase, handleVars
  <2>2. \A d \in Call : phase'[d] = phase[d] \/ (phase[d] = "request" /\ phase'[d] = "stale")
    BY <1>4 DEF StopAgent, Expired
  <2>3. QED
    BY <1>4, <2>1, <2>2, TurnStep DEF StopAgent, handleVars
<1>5. CASE AbortTurn
  <2>1. /\ turn' = "aborted" /\ phase' = Expired
        /\ reply' = [d \in Call |-> IF d \in Unreturned THEN "aborted" ELSE reply[d]]
        /\ \A d \in Call : cancel[d] => cancel'[d]
        /\ cancel' \in [Call -> BOOLEAN]
        /\ UNCHANGED <<owner, error, cleaned, life, outcome, process, busy, tasks, tools,
                       joining, failed, closures, world>>
    <3>1. cancel' = [d \in Call |-> d \in Unreturned \/ cancel[d]]
      BY <1>5 DEF AbortTurn, Abort
    <3>2. cancel' \in [Call -> BOOLEAN] /\ \A d \in Call : cancel[d] => cancel'[d]
      BY <3>1, ZenonT(20)
    <3>3. QED
      BY <1>5, <3>2 DEF AbortTurn, Abort
  <2>2. \A d \in Call : phase'[d] = phase[d] \/ (phase[d] = "request" /\ phase'[d] = "stale")
    BY <2>1 DEF Expired
  <2>3. \A d \in Call : \/ reply'[d] = reply[d]
                        \/ d \in Unreturned /\ reply'[d] # None
    BY <2>1, CallAssumption
  <2>4. TurnSettled'
    BY <1>1, <2>1, CallAssumption DEF TurnSettled, Unreturned, ToolTypeOK
  <2>5. ToolTypeOK'
    <3>1. phase' \in [Call -> Phase] /\ reply' \in [Call -> Reply \cup {None}]
      BY <1>1, <2>1 DEF ToolTypeOK, Expired, Phase, Reply
    <3>2. \A d \in Call : busy'[d] # None => phase'[d] = "run"
      BY <1>1, <2>1, <2>2 DEF ToolTypeOK
    <3>3. QED
      BY <1>1, <2>1, <3>1, <3>2 DEF ToolTypeOK, Turn
  <2>6. Joined'
    BY <2>1 DEF Joined
  <2>7. \A d \in Call : reply[d] # None => reply'[d] = reply[d]
    BY <2>3 DEF Unreturned
  <2>8. ToolInv'
    BY <2>1, <2>2, <2>3, <2>4, <2>5, <2>6, TurnStep
  <2>9. QED
    BY <2>7, <2>8
<1>6. CASE StopList
  <2>1. /\ turn' = "joining" /\ joining' = tasks
        /\ cancel' \in [Call -> BOOLEAN]
        /\ \A d \in Call : cancel[d] => cancel'[d]
        /\ UNCHANGED <<owner, reply, error, cleaned, life, phase, outcome, process, busy, tasks,
                       tools, failed, closures, world>>
    <3>1. cancel' = [d \in Call |-> d \in tasks \/ cancel[d]]
      BY <1>6 DEF StopList
    <3>2. cancel' \in [Call -> BOOLEAN] /\ \A d \in Call : cancel[d] => cancel'[d]
      BY <3>1, ZenonT(20)
    <3>3. QED
      BY <1>6, <3>2 DEF StopList, superVars
  <2>2. ToolTypeOK' /\ TurnSettled' /\ Joined'
    BY <1>1, <2>1 DEF ToolTypeOK, TurnSettled, Joined, Turn
  <2>3. QED
    BY <2>1, <2>2, TurnStep
<1>7. CASE StopEnd
  <2>1. ToolTypeOK' /\ TurnSettled' /\ Joined'
    BY <1>1, <1>7
       DEF StopEnd, ToolTypeOK, TurnSettled, Joined, Turn, handleVars, superVars
  <2>2. QED
    BY <1>7, <2>1, TurnStep DEF StopEnd, handleVars, superVars
<1>8. CASE DropWorld
  <2>1. closures' \in Seq(Closure)
    BY <1>8, EmptySeq DEF DropWorld
  <2>2. ToolTypeOK' /\ TurnSettled' /\ Joined'
    BY <1>1, <1>8, <2>1
       DEF DropWorld, ToolTypeOK, TurnSettled, Joined, Unreturned, handleVars, superVars, agentVars
  <2>3. QED
    BY <1>8, <2>2, TurnStep DEF DropWorld, handleVars, superVars, agentVars
<1>9. ASSUME NEW c \in Call, StopJoin(c)
      PROVE  ToolInv' /\ \A d \in Call : reply[d] # None => reply'[d] = reply[d]
  <2>1. /\ joining' = joining \ {c}
        /\ failed' = IF cleaned[c] THEN failed ELSE failed \cup {c}
        /\ UNCHANGED <<handleVars, superVars, tasks, tools, turn, closures, world>>
    BY <1>9 DEF StopJoin
  <2>2. cleaned[c] => c \notin tasks
    BY <1>1 DEF CallOK
  <2>3. ToolTypeOK'
    BY <1>1, <2>1 DEF ToolTypeOK, handleVars, superVars
  <2>4. TurnSettled' /\ Joined'
    BY <1>1, <2>1, <2>2 DEF TurnSettled, Joined, Unreturned, handleVars
  <2>5. QED
    BY <2>1, <2>3, <2>4, TurnStep DEF handleVars, superVars
<1>10. QED
  BY <1>2, <1>3, <1>4, <1>5, <1>6, <1>7, <1>8, <1>9

-----------------------------------------------------------------------------
(* A request is accepted; the entries and the callers of an owner go *)

LEMMA ExecuteInv ==
  ASSUME ToolInv, NEW c \in Call, Execute(c)
  PROVE  ToolInv' /\ UNCHANGED reply
<1>1. /\ ToolTypeOK
      /\ \A d \in Call : CallOK(d) /\ OwnerOK(d)
  BY DEF ToolInv
<1>2. PICK o \in tools \cup {None} : Accept(c, o)
  BY DEF Execute
<1>3. /\ turn = "working" /\ phase[c] = "request"
      /\ phase' = [phase EXCEPT ![c] = "launch"]
      /\ owner' = [owner EXCEPT ![c] = o] /\ tasks' = tasks \cup {c}
      /\ o # None => o \in tools /\ o \in tasks /\ ~cancel[o]
      /\ UNCHANGED <<reply, cancel, error, cleaned, life, outcome, process, busy, tools, turn,
                     joining, failed, closures, world>>
  BY <1>2 DEF Execute, Accept, To
<1>4. reply[c] = None /\ ~cleaned[c] /\ c \notin tasks /\ ~process[c] /\ c \notin tools
      /\ ~Sent("inject", c)
  BY <1>1, <1>3 DEF CallOK, Early, Before
<1>5. OwnerOnce' /\ ClosuresKept' /\ \A k, d : Sent(k, d)' <=> Sent(k, d)
  BY <1>3, NothingSent
<1>6. ToolTypeOK'
  BY <1>1, <1>3 DEF ToolTypeOK, Phase
<1>7. ASSUME NEW d \in Call PROVE CallOK(d)'
  <2>1. CallOK(d)
    BY <1>1
  <2>2. CASE d = c
    BY <1>1, <1>3, <1>4, <1>5, <2>1, <2>2 DEF ToolTypeOK, CallOK, CleanupFailed, Early, Before
  <2>3. CASE d # c
    BY <1>1, <1>3, <1>5, <2>1, <2>3 DEF ToolTypeOK, CallOK, CleanupFailed
  <2>4. QED
    BY <2>2, <2>3
<1>8. ASSUME NEW d \in Call PROVE OwnerOK(d)'
  <2>1. CASE d = c
    <3>1. CASE o = None
      BY <1>1, <1>3, <2>1, <3>1 DEF ToolTypeOK, OwnerOK
    <3>2. CASE o # None
      <4>1. o \in Call /\ o \in tools /\ o \in tasks /\ ~cancel[o] /\ o # c
        BY <1>1, <1>3, <1>4, <3>2 DEF ToolTypeOK
      <4>2. phase[o] \notin Before /\ phase[o] # "release"
        BY <1>1, <4>1 DEF CallOK
      <4>3. owner'[d] = o /\ phase'[o] = phase[o]
        BY <1>1, <1>3, <2>1, <4>1 DEF ToolTypeOK
      <4>4. QED
        BY <1>3, <4>1, <4>2, <4>3 DEF OwnerOK
    <3>3. QED
      BY <3>1, <3>2
  <2>2. CASE d # c
    <3>1. owner'[d] = owner[d] /\ (d \in Unreturned' => d \in Unreturned)
      BY <1>1, <1>3, <2>2 DEF ToolTypeOK, Unreturned
    <3>2. CASE owner[d] = None
      BY <3>1, <3>2 DEF OwnerOK
    <3>3. CASE owner[d] # None
      <4>1. owner[d] \in Call /\ owner[d] # c
        BY <1>1, <1>3, <3>3 DEF ToolTypeOK, OwnerOK, Before, Early
      <4>2. phase'[owner[d]] = phase[owner[d]]
        BY <1>1, <1>3, <4>1 DEF ToolTypeOK
      <4>3. QED
        BY <1>1, <1>3, <3>1, <3>3, <4>2 DEF OwnerOK
    <3>4. QED
      BY <3>2, <3>3
  <2>3. QED
    BY <2>1, <2>2
<1>9. TurnSettled' /\ Joined'
  BY <1>3 DEF TurnSettled, Joined
<1>10. QED
  BY <1>3, <1>5, <1>6, <1>7, <1>8, <1>9 DEF ToolInv

LEMMA RemoveOwnerInv ==
  ASSUME ToolInv, NEW c \in Call, RemoveOwner(c)
  PROVE  /\ ToolInv'
         /\ \A d \in Call : reply[d] # None => reply'[d] = reply[d]
<1>1. /\ ToolTypeOK /\ OwnerOnce /\ ClosuresKept /\ TurnSettled /\ Joined
      /\ \A d \in Call : CallOK(d) /\ OwnerOK(d)
  BY DEF ToolInv
<1>2. /\ closures # <<>> /\ Head(closures) = Do("owner", c) /\ closures' = Tail(closures)
      /\ tools' = tools \ {c}
      /\ reply' = [d \in Call |-> IF d \in Dependents(c) THEN "failed" ELSE reply[d]]
      /\ error' = [d \in Call |-> IF d \in Dependents(c) THEN "failure" ELSE error[d]]
      /\ phase' = [phase EXCEPT ![c] = IF phase[c] = "closing" THEN "closed" ELSE "release"]
      /\ UNCHANGED <<owner, cleaned, life, outcome, process, busy, tasks, turn, joining, failed,
                     world>>
  BY DEF RemoveOwner, Abort, To
<1>3. cancel' \in [Call -> BOOLEAN] /\ \A d \in Call : cancel[d] => cancel'[d]
  <2>1. cancel' = [d \in Call |-> d \in Dependents(c) \/ cancel[d]]
    BY DEF RemoveOwner, Abort
  <2>2. QED
    BY <2>1, ZenonT(20)
<1>4. /\ closures' \in Seq(Closure) /\ OwnerOnce' /\ Sent("owner", c) /\ ~Sent("owner", c)'
      /\ \A j, d : Sent(j, d)' => Sent(j, d)
  BY <1>1, <1>2, TailSent DEF ToolTypeOK
<1>5. world /\ ClosuresKept'
  BY <1>1, <1>2 DEF ClosuresKept
<1>6. phase[c] \in {"closing", "owner"} /\ phase'[c] \in {"closed", "release"}
      /\ (phase'[c] = "release" => phase[c] = "owner")
  BY <1>1, <1>2, <1>4 DEF ToolTypeOK, CallOK
<1>7. \A d \in Call : /\ d \in Dependents(c) => d \in Unreturned /\ owner[d] = c
                      /\ d \in Dependents(c) => reply'[d] = "failed" /\ reply'[d] # None
                      /\ d \notin Dependents(c) => reply'[d] = reply[d] /\ error'[d] = error[d]
  BY <1>2, CallAssumption DEF Dependents
<1>8. /\ \A d \in Call : reply[d] # None => reply'[d] = reply[d]
      /\ \A d \in Call : d \in Unreturned' => d \in Unreturned /\ owner[d] # c
  BY <1>2, <1>7 DEF Dependents, Unreturned
<1>9. ToolTypeOK'
  <2>1. /\ reply' \in [Call -> Reply \cup {None}] /\ error' \in [Call -> Error \cup {None}]
        /\ phase' \in [Call -> Phase]
    BY <1>1, <1>2 DEF ToolTypeOK, Reply, Error, Phase
  <2>2. \A d \in Call : busy'[d] # None => phase'[d] = "run"
    BY <1>1, <1>2, <1>6 DEF ToolTypeOK
  <2>3. QED
    BY <1>1, <1>2, <1>3, <1>4, <2>1, <2>2 DEF ToolTypeOK
<1>10. ASSUME NEW d \in Call PROVE CallOK(d)'
  <2>1. CallOK(d)
    BY <1>1
  <2>2. d \in Dependents(c) => d \in tasks /\ reply[d] = None
    BY <1>7 DEF Unreturned
  <2>3. CASE d = c
    <3>1. phase[c] = "owner" => cancel'[c] /\ reply'[c] # None /\ (process[c] => outcome[c] = "panic")
      BY <1>3, <1>5, <1>7, <1>8, <2>1, <2>3 DEF CallOK
    <3>2. QED
      BY <1>1, <1>2, <1>4, <1>6, <2>1, <2>3, <3>1 DEF ToolTypeOK, CallOK, Early, Before
  <2>4. CASE d # c
    <3>1. phase'[d] = phase[d] /\ (d \in tools' <=> d \in tools)
      BY <1>1, <1>2, <2>4 DEF ToolTypeOK
    <3>2. phase[d] \in Early => reply'[d] = None
      BY <1>7, <2>1, <2>2 DEF CallOK
    <3>3. reply[d] # None => reply'[d] # None /\ error'[d] = error[d]
      BY <1>7, <2>2
    <3>4. d \in tasks /\ phase[d] = "end" => error'[d] \in {"pending", "cleanup"}
      BY <2>1, <3>3 DEF CallOK, CleanupFailed
    <3>5. QED
      BY <1>2, <1>3, <1>4, <2>1, <3>1, <3>2, <3>3, <3>4 DEF CallOK, CleanupFailed
  <2>5. QED
    BY <2>3, <2>4
<1>11. ASSUME NEW d \in Call PROVE OwnerOK(d)'
  <2>1. OwnerOK(d)
    BY <1>1
  <2>2. CASE owner[d] # None
    <3>1. owner[d] \in Call
      BY <1>1, <2>2 DEF ToolTypeOK
    <3>2. owner[d] # c => phase'[owner[d]] = phase[owner[d]]
      BY <1>1, <1>2, <3>1 DEF ToolTypeOK
    <3>3. phase'[owner[d]] \notin Before
      BY <1>6, <2>1, <2>2, <3>2 DEF OwnerOK, Before, Early
    <3>4. d \in Unreturned' => owner[d] \in tasks' /\ phase'[owner[d]] # "release"
      BY <1>2, <1>8, <2>1, <2>2, <3>2 DEF OwnerOK
    <3>5. QED
      BY <1>2, <3>3, <3>4 DEF OwnerOK
  <2>3. QED
    BY <1>2, <2>2 DEF OwnerOK
<1>12. TurnSettled' /\ Joined'
  <2>1. Unreturned' \subseteq Unreturned
    BY <1>1, <1>2, <1>8 DEF ToolTypeOK, Unreturned
  <2>2. QED
    BY <1>1, <1>2, <2>1 DEF TurnSettled, Joined
<1>13. QED
  BY <1>4, <1>5, <1>8, <1>9, <1>10, <1>11, <1>12 DEF ToolInv

-----------------------------------------------------------------------------
(* The invariant, and the properties *)

(* What every step keeps: the invariant, and the answers that were given.  *)
LEMMA ToolStep ==
  ASSUME ToolInv, [Next]_vars
  PROVE  /\ ToolInv'
         /\ \A d \in Call : reply[d] # None => reply'[d] = reply[d]
<1> DEFINE Kept == \A d \in Call : reply[d] # None => reply'[d] = reply[d]
<1>1. ToolTypeOK
  BY DEF ToolInv
<1>2. ASSUME NEW c \in Call, ToolTypeOK', CallOK(c)', OwnerOnce', ClosuresKept', Only(c)
      PROVE  ToolInv' /\ Kept
  <2>1. Kept
    BY <1>2 DEF Only
  <2>2. QED
    BY <1>2, <2>1, OwnStep
<1>3. ASSUME NEW c \in Call,
             \/ Request(c) \/ Refuse(c) \/ Launch(c) \/ LaunchFails(c) \/ StartRunner(c)
             \/ ReadFails(c) \/ Configure(c) \/ Return(c) \/ StoppedUnproven(c)
             \/ HostReplies(c) \/ CleanupOwnerFails(c) \/ SignalRunner(c) \/ Reap(c)
             \/ ProofFails(c) \/ Prove(c) \/ TempFails(c) \/ Panic(c) \/ EndUnconfirmed(c)
             \/ Complete(c)
      PROVE  ToolInv' /\ Kept
  <2>1. CallOK(c)' /\ Only(c)
    BY <1>3, QuietStep
  <2>2. UNCHANGED <<closures, world>>
    BY <1>3 DEF Request, Refuse, Launch, LaunchFails, StartRunner, ReadFails, Configure, Return,
                StoppedUnproven, HostReplies, CleanupOwnerFails, SignalRunner, Reap, ProofFails,
                Prove, TempFails, Panic, EndUnconfirmed, Complete
  <2>3. OwnerOnce' /\ ClosuresKept' /\ closures' \in Seq(Closure)
    BY <1>1, <2>2, NothingSent DEF ToolTypeOK
  <2>4. ToolTypeOK'
    BY <1>1, <1>3, <2>3, OwnTypes
  <2>5. QED
    BY <1>2, <2>1, <2>3, <2>4
<1>4. ASSUME NEW c \in Call, NEW d \in Call, FinishOther(c, d) PROVE ToolInv' /\ Kept
  BY <1>2, <1>4, FinishOtherStep, NothingSent
<1>5. ASSUME NEW c \in Call, Inject(c) \/ Settle(c) \/ InjectTools(c) PROVE ToolInv' /\ Kept
  <2>1. closures' \in Seq(Closure) /\ CallOK(c)' /\ Only(c) /\ OwnerOnce' /\ ClosuresKept'
    BY <1>5, InjectStep, SettleStep, InjectToolsStep
  <2>2. ToolTypeOK'
    BY <1>1, <1>5, <2>1, OwnTypes
  <2>3. QED
    BY <1>2, <2>1, <2>2
<1>6. ASSUME NEW c \in Call,
             Stopped(c) \/ Timeout(c) \/ Cancelled(c) \/ ExchangeFails(c)
      PROVE  ToolInv' /\ Kept
  <2>1. PICK o \in {"ok", "cancelled", "failed"} : EndExchange(c, o, "failure")
    BY <1>6 DEF Stopped, Timeout, Cancelled, ExchangeFails
  <2>2. phase[c] = "run" /\ process' \in {process, [process EXCEPT ![c] = FALSE]}
    BY <1>6 DEF Stopped, Timeout, Cancelled, ExchangeFails, Exchange
  <2>3. QED
    BY <1>2, <2>1, <2>2, EndExchangeStep
<1>7. ASSUME UNCHANGED vars PROVE ToolInv' /\ Kept
  <2>1. /\ UNCHANGED <<owner, reply, cancel, error, cleaned, life, phase, outcome, process, busy>>
        /\ UNCHANGED <<tasks, tools, turn, joining, failed, closures, world>>
    BY <1>7 DEF vars, handleVars, superVars, agentVars
  <2>2. ToolTypeOK' /\ TurnSettled' /\ Joined'
    BY <2>1 DEF ToolInv, ToolTypeOK, TurnSettled, Joined, Unreturned
  <2>3. QED
    BY <2>1, <2>2, TurnStep
<1>8. QED
  BY <1>3, <1>4, <1>5, <1>6, <1>7, LoopStep, ExecuteInv, RemoveOwnerInv
     DEF Next, RunClosure, Supervise, WorkerFrame, Failure

LEMMA ToolInit == Init => ToolInv
<1> SUFFICES ASSUME Init PROVE ToolInv
  OBVIOUS
<1>1. ToolTypeOK
  BY EmptySeq DEF Init, ToolTypeOK, Phase, Outcome, Turn
<1>2. \A k, d : ~Sent(k, d)
  BY EmptySeq DEF Init, Sent
<1>3. ASSUME NEW c \in Call PROVE CallOK(c) /\ OwnerOK(c)
  BY <1>2, <1>3 DEF Init, CallOK, OwnerOK, Early, Before
<1>4. OwnerOnce /\ ClosuresKept
  BY EmptySeq DEF Init, OwnerOnce, ClosuresKept
<1>5. TurnSettled /\ Joined
  BY DEF Init, TurnSettled, Joined
<1>6. QED
  BY <1>1, <1>3, <1>4, <1>5 DEF ToolInv

LEMMA ToolInvariant == Spec => []ToolInv
BY ToolInit, ToolStep, PTL DEF Spec

(* A task stays in the collection, with a supervisor or a cleanup failure  *)
(* to tell, until its processes are gone and its caller is answered; and   *)
(* no injected entry and no waiting call outlives its owner: whatever      *)
(* fails, whoever injects, cancels or ends, for any set of calls.          *)
THEOREM TasksKeptCorrect == Spec => []TasksKept
<1>1. ToolInv => TasksKept
  <2> SUFFICES ASSUME ToolInv PROVE TasksKept
    OBVIOUS
  <2>1. /\ ToolTypeOK
        /\ \A c \in Call : CallOK(c) /\ OwnerOK(c)
    BY DEF ToolInv
  <2>2. CleanedGone /\ NoLeak
    BY <2>1 DEF CleanedGone, NoLeak, CallOK
  <2>3. EndTold
    BY <2>1 DEF EndTold, CallOK, ToolTypeOK
  <2>4. OwnerKept
    BY <2>1 DEF OwnerKept, CallOK, OwnerOK, ToolTypeOK, Unreturned
  <2>5. QED
    BY <2>1, <2>2, <2>3, <2>4 DEF TasksKept
<1>2. QED
  BY <1>1, ToolInvariant, PTL

(* An aborted turn has no unanswered call, and none that was still on its  *)
(* way when the abort came is accepted afterwards.                         *)
THEOREM TurnSettledCorrect == Spec => []TurnSettled
<1>1. ToolInv => TurnSettled
  BY DEF ToolInv
<1>2. QED
  BY <1>1, ToolInvariant, PTL

(* When every finish of the stop flow succeeded, the collection is empty:  *)
(* the list the flow made was complete, for nothing is accepted after it.  *)
THEOREM StopCompleteCorrect == Spec => []StopComplete
<1>1. ToolInv => StopComplete
  BY DEF ToolInv, Joined, StopComplete
<1>2. QED
  BY <1>1, ToolInvariant, PTL

(* A call has one answer: result, abort, the end of its owner, failure and *)
(* MissingReturn race, the first wins and no step replaces it.             *)
THEOREM AnsweredOnceCorrect == Spec => AnsweredOnce
<1>1. ToolInv /\ [Next]_vars
        => [\A c \in Call : reply[c] # None => reply'[c] = reply[c]]_vars
  BY ToolStep
<1>2. QED
  BY <1>1, ToolInvariant, PTL DEF Spec, AnsweredOnce
=============================================================================
