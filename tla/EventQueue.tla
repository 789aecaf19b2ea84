----------------------------- MODULE EventQueue -----------------------------
(***************************************************************************)
(* The ECS event queue (mecs/core_plugin/src/events.rs) and the read       *)
(* storage a frame fills from it.                                          *)
(*                                                                         *)
(* Every operation of the queue holds the snapshot mutex for its whole     *)
(* duration, so each is one action; pull_events visits the nodes one at a  *)
(* time and is modelled node by node, with `pulling' standing for the held *)
(* locks.  An element of Event names one node.  A node read in a frame is  *)
(* dropped when the next frame clears the read storage, and its name may   *)
(* then stand for a new node: runs are not bounded in length.              *)
(***************************************************************************)
EXTENDS Integers, Sequences, FiniteSets

CONSTANTS
  Event,      (* names of event nodes                                      *)
  MaxDelay,   (* largest frame delay a sender asks for                     *)
  None        (* the empty Option                                          *)

ASSUME EventAssumption ==
  /\ IsFiniteSet(Event)
  /\ MaxDelay \in Nat
  /\ None \notin Nat

VARIABLES
  queue,      (* EventQueue.pending: nodes in the order they are visited   *)
  node,       (* state and remaining delay of every node                   *)
  snapshot,   (* EventSnapshot                                             *)
  pulling,    (* pull_events is running and holds the locks                *)
  scan,       (* nodes pull_events has still to visit in this frame        *)
  frame       (* EventReadStorage: the events of the current frame         *)

queueVars == <<queue, node, snapshot, pulling, scan, frame>>

Delay == 0 .. MaxDelay
State == {"absent", "pending", "normal", "read"}

Node(s, d) == [state |-> s, delay |-> d]
InState(s) == {e \in Event : node[e].state = s}

QueueTypeOK ==
  /\ queue \in Seq(Event)
  /\ node \in [Event -> [state : State, delay : Delay]]
  /\ snapshot \in [normal : Nat, pending : Nat, nearest : Delay \cup {None}]
  /\ pulling \in BOOLEAN
  /\ scan \in Nat
  /\ frame \in Seq(Event)

QueueInit ==
  /\ queue = <<>>
  /\ node = [e \in Event |-> Node("absent", 0)]
  /\ snapshot = [normal |-> 0, pending |-> 0, nearest |-> None]
  /\ pulling = FALSE
  /\ scan = 0
  /\ frame = <<>>

(* nearest_normal_event_delay after an event with delay d joined it *)
Nearer(nearest, d) == IF nearest = None \/ d < nearest THEN d ELSE nearest

-----------------------------------------------------------------------------
(* Senders *)

Free(e) == ~pulling /\ node[e].state = "absent"

SendEvent(e) ==
  /\ Free(e)
  /\ queue' = Append(queue, e)
  /\ node' = [node EXCEPT ![e] = Node("normal", 0)]
  /\ snapshot' = [snapshot EXCEPT !.normal = @ + 1, !.nearest = 0]
  /\ UNCHANGED <<pulling, scan, frame>>

SendEventAfter(e, d) ==
  /\ Free(e)
  /\ queue' = Append(queue, e)
  /\ node' = [node EXCEPT ![e] = Node("normal", d)]
  /\ snapshot' = [snapshot EXCEPT !.normal = @ + 1, !.nearest = Nearer(@, d)]
  /\ UNCHANGED <<pulling, scan, frame>>

SendPending(e) ==
  /\ Free(e)
  /\ queue' = Append(queue, e)
  /\ node' = [node EXCEPT ![e] = Node("pending", 0)]
  /\ snapshot' = [snapshot EXCEPT !.pending = @ + 1]
  /\ UNCHANGED <<pulling, scan, frame>>

(* Mutant: the completed event is not offered to the nearest delay. *)
CompleteKeepsNearest(e, d) ==
  /\ ~pulling
  /\ node[e].state = "pending"
  /\ node' = [node EXCEPT ![e] = Node("normal", d)]
  /\ snapshot' = [snapshot EXCEPT !.pending = @ - 1, !.normal = @ + 1]
  /\ UNCHANGED <<queue, pulling, scan, frame>>

CompleteAfter(e, d) ==
  /\ ~pulling
  /\ node[e].state = "pending"
  /\ node' = [node EXCEPT ![e] = Node("normal", d)]
  /\ snapshot' = [snapshot EXCEPT !.pending = @ - 1, !.normal = @ + 1,
                                  !.nearest = Nearer(@, d)]
  /\ UNCHANGED <<queue, pulling, scan, frame>>

-----------------------------------------------------------------------------
(* One frame: World::tick clears the read storage and pulls the queue *)

BeginPull ==
  /\ ~pulling
  /\ pulling' = TRUE
  /\ scan' = Len(queue)
  /\ frame' = <<>>
  /\ node' = [e \in Event |-> IF node[e].state = "read"
                                THEN Node("absent", 0) ELSE node[e]]
  /\ snapshot' = [snapshot EXCEPT !.nearest = None]
  /\ UNCHANGED queue

(* The node pull_events pops in this iteration *)
Visit(e) == pulling /\ scan > 0 /\ e = Head(queue) /\ scan' = scan - 1

PullPending(e) ==
  /\ Visit(e)
  /\ node[e].state = "pending"
  /\ queue' = Append(Tail(queue), e)
  /\ UNCHANGED <<node, snapshot, pulling, frame>>

PullDue(e) ==
  /\ Visit(e)
  /\ node[e] = Node("normal", 0)
  /\ queue' = Tail(queue)
  /\ node' = [node EXCEPT ![e] = Node("read", 0)]
  /\ snapshot' = [snapshot EXCEPT !.normal = @ - 1]
  /\ frame' = Append(frame, e)
  /\ UNCHANGED pulling

(* Mutant: a delayed node goes back to the front of the queue. *)
PullDelayedToFront(e) ==
  /\ Visit(e)
  /\ node[e].state = "normal"
  /\ node[e].delay > 0
  /\ queue' = <<e>> \o Tail(queue)
  /\ node' = [node EXCEPT ![e].delay = @ - 1]
  /\ snapshot' = [snapshot EXCEPT !.nearest = Nearer(@, node[e].delay - 1)]
  /\ UNCHANGED <<pulling, frame>>

PullDelayed(e) ==
  /\ Visit(e)
  /\ node[e].state = "normal"
  /\ node[e].delay > 0
  /\ queue' = Append(Tail(queue), e)
  /\ node' = [node EXCEPT ![e].delay = @ - 1]
  /\ snapshot' = [snapshot EXCEPT !.nearest = Nearer(@, node[e].delay - 1)]
  /\ UNCHANGED <<pulling, frame>>

EndPull ==
  /\ pulling
  /\ scan = 0
  /\ pulling' = FALSE
  /\ UNCHANGED <<queue, node, snapshot, scan, frame>>

FastForward ==
  /\ ~pulling
  /\ IF snapshot.nearest \in {None, 0}
       THEN UNCHANGED <<node, snapshot>>
       ELSE /\ node' = [e \in Event |-> IF node[e].state = "normal"
                          THEN Node("normal", node[e].delay - snapshot.nearest)
                          ELSE node[e]]
            /\ snapshot' = [snapshot EXCEPT !.nearest = 0]
  /\ UNCHANGED <<queue, pulling, scan, frame>>

Pull(e) == PullPending(e) \/ PullDue(e) \/ PullDelayed(e)

QueueNext ==
  \/ \E e \in Event :
       \/ SendEvent(e)
       \/ SendPending(e)
       \/ Pull(e)
       \/ \E d \in Delay : SendEventAfter(e, d) \/ CompleteAfter(e, d)
  \/ BeginPull
  \/ EndPull
  \/ FastForward

QueueSpec == QueueInit /\ [][QueueNext]_queueVars

-----------------------------------------------------------------------------
(* Properties *)

(* The nodes of the queue in the order they were sent: during a pull the   *)
(* ones already visited are at the back.                                   *)
Arrival == SubSeq(queue, scan + 1, Len(queue)) \o SubSeq(queue, 1, scan)

Position(s, e) == CHOOSE i \in DOMAIN s : s[i] = e
Members(s) == {s[i] : i \in DOMAIN s}
Between(s, a, b) == {s[i] : i \in a .. b}

(* The counts the runtime decides on are those of the queue: every normal  *)
(* or pending node is queued exactly once, and a read one never again.     *)
(* events.rs keeps the counts by hand at seven places.                     *)
SnapshotCounts ==
  /\ snapshot.normal = Cardinality(InState("normal"))
  /\ snapshot.pending = Cardinality(InState("pending"))
  /\ Members(queue) = InState("normal") \cup InState("pending")
  /\ \A i, j \in DOMAIN queue : queue[i] = queue[j] => i = j

(* Nodes whose delay the nearest delay accounts for: during a pull only    *)
(* the ones already visited.                                               *)
Counted == {e \in InState("normal") :
              ~pulling \/ e \in Between(queue, scan + 1, Len(queue))}

(* The nearest delay is the smallest delay of a normal node, so that       *)
(* fast_forward neither underflows a u64 nor skips over an event that is   *)
(* due (events.rs:298-317).                                                *)
NearestExact ==
  /\ snapshot.nearest = None <=> Counted = {}
  /\ snapshot.nearest # None =>
       /\ \A e \in Counted : snapshot.nearest <= node[e].delay
       /\ \E e \in Counted : snapshot.nearest = node[e].delay

(* A frame never reorders events: two nodes that stay queued keep the      *)
(* order they were sent in, whatever the frame visits, drops or ages, and  *)
(* none is read before those sent earlier were visited, so that a frame    *)
(* reads its events in the order they were sent (events.rs, pull_events).  *)
OrderKept ==
  [][\A e, f \in Members(Arrival) :
       Position(Arrival, e) < Position(Arrival, f) =>
         /\ {e, f} \subseteq Members(Arrival') =>
              Position(Arrival', e) < Position(Arrival', f)
         /\ f \in Members(frame') => e \in Between(queue, scan + 1, Len(queue))]_queueVars
=============================================================================
