--------------------------- MODULE CommandService ---------------------------
(***************************************************************************)
(* What the MCL queue of an Agent promises to the clients and the Driver:  *)
(* accepted commands stand in one line and are taken from its head, one at *)
(* a time and each at most once; the head alone is settled; a command is   *)
(* answered once, and refused or cancelled if it was never taken.  A line  *)
(* that was closed takes nothing more, and one is opened again only when   *)
(* the last was settled.  MclQueue.tla implements it.                      *)
(***************************************************************************)
EXTENDS Sequences

CONSTANTS
  Command,   (* requests, each made once                                   *)
  None,
  Outcome    (* what may be answered; "none" stands for no answer          *)

VARIABLES
  asked,     (* requests made                                              *)
  line,      (* accepted and not settled                                   *)
  now,       (* the one that was taken, or None                            *)
  took,      (* all that ever were taken                                   *)
  answer,
  open

vars == <<asked, line, now, took, answer, open>>

Waiting == {line[i] : i \in DOMAIN line}

Init ==
  /\ asked = {}
  /\ line = <<>>
  /\ now = None
  /\ took = {}
  /\ answer = [c \in Command |-> "none"]
  /\ open = TRUE

Ask(c) ==
  /\ c \notin asked
  /\ asked' = asked \cup {c}
  /\ UNCHANGED <<line, now, took, answer, open>>

(* asked, and nothing was made of it yet *)
New(c) == c \in asked \ (Waiting \cup took) /\ answer[c] = "none"

Accept(c) ==
  /\ open /\ New(c)
  /\ line' = Append(line, c)
  /\ UNCHANGED <<asked, now, took, answer, open>>

Refuse(c) ==
  /\ New(c)
  /\ answer' = [answer EXCEPT ![c] = "refused"]
  /\ UNCHANGED <<asked, line, now, took, open>>

Take ==
  /\ open /\ now = None /\ line # <<>>
  /\ Head(line) \notin took
  /\ now' = Head(line)
  /\ took' = took \cup {Head(line)}
  /\ UNCHANGED <<asked, line, answer, open>>

(* the head is answered with one of the outcomes R and leaves the line *)
Settle(R) ==
  /\ line # <<>>
  /\ answer[Head(line)] = "none"
  /\ \E r \in R : answer' = [answer EXCEPT ![Head(line)] = r]
  /\ line' = Tail(line)
  /\ now' = None
  /\ UNCHANGED <<asked, took, open>>

Drop == now = None /\ Settle({"refused", "cancelled"})

Finish == now # None /\ now = Head(line) /\ Settle(Outcome)

Close == open' = FALSE /\ UNCHANGED <<asked, line, now, took, answer>>

Reopen ==
  /\ line = <<>> /\ now = None
  /\ open' = TRUE
  /\ UNCHANGED <<asked, line, now, took, answer>>

Next ==
  \/ Take \/ Drop \/ Finish \/ Close \/ Reopen
  \/ \E c \in Command : Ask(c) \/ Accept(c) \/ Refuse(c)

Spec == Init /\ [][Next]_vars
=============================================================================
