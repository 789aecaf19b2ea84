---------------------------- MODULE RuntimeProofs ----------------------------
(***************************************************************************)
(* Proofs about the event queue and the loop that runs it.                 *)
(*                                                                         *)
(* The queue, for every finite set of nodes and every delay bound: its     *)
(* three invariants are proved together, as the type of the counters needs *)
(* the counts to be exact, and the type of a fast-forwarded delay needs    *)
(* the nearest delay to be a lower bound.                                  *)
(*                                                                         *)
(* The loop uses the queue only through its operations, counts its gate    *)
(* right, and loses no wake: for every finite set of events, every delay   *)
(* bound and both runtime modes.                                           *)
(***************************************************************************)
EXTENDS AppRuntime, FiniteSetTheorems, SequenceTheorems, TLAPS

(***************************************************************************)
(* The event queue                                                         *)
(***************************************************************************)
ScanOK ==
  /\ scan <= Len(queue)
  /\ ~pulling => scan = 0

QueueInv == QueueTypeOK /\ SnapshotCounts /\ NearestExact /\ ScanOK

LEMMA InStateFinite ==
  ASSUME NEW s
  PROVE  /\ IsFiniteSet(InState(s))
         /\ Cardinality(InState(s)) \in Nat
  BY EventAssumption, FS_Subset, FS_CardinalityType DEF InState

(* Counting when one node enters or leaves a state *)
LEMMA EnterState ==
  ASSUME NEW s, NEW S, NEW e, e \notin InState(s), S = InState(s) \cup {e}
  PROVE  Cardinality(S) = Cardinality(InState(s)) + 1
  BY InStateFinite, FS_AddElement

LEMMA LeaveState ==
  ASSUME NEW s, NEW S, NEW e, e \in InState(s), S = InState(s) \ {e}
  PROVE  Cardinality(S) = Cardinality(InState(s)) - 1
  BY InStateFinite, FS_RemoveElement

LEMMA QueueInitInv == QueueInit => QueueInv
<1> SUFFICES ASSUME QueueInit PROVE QueueInv
  OBVIOUS
<1>1. InState("normal") = {} /\ InState("pending") = {}
  BY DEF QueueInit, Node, InState
<1>2. QueueTypeOK
  <2>1. node \in [Event -> [state : State, delay : Delay]]
    BY EventAssumption DEF QueueInit, Node, State, Delay
  <2>2. snapshot \in [normal : Nat, pending : Nat, nearest : Delay \cup {None}]
    BY DEF QueueInit
  <2>3. queue \in Seq(Event) /\ frame \in Seq(Event) /\ scan \in Nat /\ pulling \in BOOLEAN
    BY EmptySeq DEF QueueInit
  <2>4. QED
    BY <2>1, <2>2, <2>3 DEF QueueTypeOK
<1>3. SnapshotCounts
  <2>1. DOMAIN queue = {}
    BY EmptySeq DEF QueueInit
  <2>2. QED
    BY <1>1, <2>1, FS_EmptySet DEF QueueInit, SnapshotCounts, Members
<1>4. NearestExact
  BY <1>1 DEF QueueInit, NearestExact, Counted
<1>5. ScanOK
  BY DEF QueueInit, ScanOK
<1>6. QED
  BY <1>2, <1>3, <1>4, <1>5 DEF QueueInv

(* Facts about an append and about the rotation that a visit performs *)
LEMMA AppendMember ==
  ASSUME NEW s \in Seq(Event), NEW e \in Event
  PROVE  /\ Append(s, e) \in Seq(Event)
         /\ Members(Append(s, e)) = Members(s) \cup {e}
         /\ Len(Append(s, e)) = Len(s) + 1
         /\ \A i \in 1 .. Len(s) : Append(s, e)[i] = s[i]
         /\ Append(s, e)[Len(s) + 1] = e
<1>1. /\ Append(s, e) \in Seq(Event)
      /\ Len(Append(s, e)) = Len(s) + 1
      /\ \A i \in 1 .. Len(s) : Append(s, e)[i] = s[i]
      /\ Append(s, e)[Len(s) + 1] = e
  OBVIOUS
<1>2. DOMAIN Append(s, e) = DOMAIN s \cup {Len(s) + 1}
  BY <1>1
<1>3. Members(Append(s, e)) = Members(s) \cup {e}
  BY <1>1, <1>2 DEF Members
<1>4. QED
  BY <1>1, <1>3

LEMMA SendInv ==
  ASSUME QueueInv, NEW e \in Event, Free(e),
         NEW s \in {"normal", "pending"}, NEW d \in Delay,
         queue' = Append(queue, e),
         node' = [node EXCEPT ![e] = Node(s, d)],
         UNCHANGED <<pulling, scan, frame>>
  PROVE  /\ queue' \in Seq(Event)
         /\ node' \in [Event -> [state : State, delay : Delay]]
         /\ InState(s)' = InState(s) \cup {e}
         /\ Cardinality(InState(s)') = Cardinality(InState(s)) + 1
         /\ \A t \in {"normal", "pending"} \ {s} : InState(t)' = InState(t)
         /\ Members(queue)' = InState("normal")' \cup InState("pending")'
         /\ \A i, j \in DOMAIN queue' : queue'[i] = queue'[j] => i = j
         /\ ScanOK'
<1> USE DEF QueueInv, QueueTypeOK, Node, Free
<1>1. queue' \in Seq(Event) /\ node' \in [Event -> [state : State, delay : Delay]]
  <2>1. [state |-> s, delay |-> d] \in [state : State, delay : Delay]
    BY DEF State
  <2>2. QED
    BY <2>1
<1>2. e \notin Members(queue) /\ e \notin InState(s)
  BY DEF SnapshotCounts, InState
<1>3. InState(s)' = InState(s) \cup {e}
  BY DEF InState
<1>4. \A t \in {"normal", "pending"} \ {s} : InState(t)' = InState(t)
  BY DEF InState
<1>5. Cardinality(InState(s)') = Cardinality(InState(s)) + 1
  BY <1>2, <1>3, EnterState
<1>6. Members(queue)' = Members(queue) \cup {e}
  <2>1. Members(Append(queue, e)) = Members(queue) \cup {e}
    BY AppendMember
  <2>2. QED
    BY <2>1
<1>7. Members(queue)' = InState("normal")' \cup InState("pending")'
  BY <1>3, <1>4, <1>6 DEF SnapshotCounts
<1>8. \A i, j \in DOMAIN queue' : queue'[i] = queue'[j] => i = j
  BY <1>2, AppendMember DEF SnapshotCounts, Members
<1>9. ScanOK'
  BY DEF ScanOK
<1>10. QED
  BY <1>1, <1>3, <1>4, <1>5, <1>7, <1>8, <1>9
(* An event that joins the counted nodes makes the new nearest delay exact *)
LEMMA JoinNearest ==
  ASSUME QueueInv, NEW e \in Event, e \notin Counted,
         Counted' = Counted \cup {e},
         node' \in [Event -> [state : State, delay : Delay]],
         \A f \in Counted : node'[f].delay = node[f].delay,
         snapshot'.nearest = Nearer(snapshot.nearest, node'[e].delay)
  PROVE  NearestExact' /\ snapshot'.nearest \in Delay
<1>1. node'[e].delay \in Delay /\ \A f \in Counted : node[f].delay \in Delay
  BY DEF QueueInv, QueueTypeOK, Counted, InState
<1>2. snapshot.nearest \in Delay \cup {None} /\ None \notin Delay
  BY EventAssumption DEF QueueInv, QueueTypeOK, Delay
<1>3. CASE snapshot.nearest = None
  BY <1>1, <1>2, <1>3 DEF QueueInv, NearestExact, Nearer, Delay
<1>4. CASE snapshot.nearest # None
  <2>1. /\ \A f \in Counted : snapshot.nearest <= node[f].delay
        /\ \E f \in Counted : snapshot.nearest = node[f].delay
    BY <1>4 DEF QueueInv, NearestExact
  <2>2. snapshot'.nearest \in Delay
    BY <1>1, <1>2, <1>4 DEF Nearer
  <2>3. \A f \in Counted' : snapshot'.nearest <= node'[f].delay
    BY <1>1, <1>2, <1>4, <2>1 DEF Nearer, Delay
  <2>4. \E f \in Counted' : snapshot'.nearest = node'[f].delay
    BY <1>1, <1>2, <1>4, <2>1 DEF Nearer, Delay
  <2>5. QED
    BY <1>2, <2>2, <2>3, <2>4 DEF NearestExact
<1>5. QED
  BY <1>3, <1>4

(* Rotating a nonempty sequence: what pull_events does with a node it keeps *)
LEMMA RotateSeq ==
  ASSUME NEW s \in Seq(Event), Len(s) > 0, NEW k \in 1 .. Len(s),
         NEW r \in Seq(Event), Len(r) = Len(s),
         \A i \in 1 .. Len(s) - 1 : r[i] = s[i + 1],
         r[Len(s)] = s[1]
  PROVE  /\ Members(r) = Members(s)
         /\ (\A i, j \in DOMAIN s : s[i] = s[j] => i = j)
              => \A i, j \in DOMAIN r : r[i] = r[j] => i = j
         /\ Between(r, k, Len(r)) = Between(s, k + 1, Len(s)) \cup {s[1]}
<1>1. Len(s) \in Nat /\ DOMAIN r = 1 .. Len(s) /\ DOMAIN s = 1 .. Len(s)
  OBVIOUS
<1>2. PICK n \in Nat : n = Len(s)
  BY <1>1
<1>3. /\ n \in Nat /\ n > 0 /\ k \in 1 .. n
      /\ \A i \in 1 .. n - 1 : r[i] = s[i + 1]
      /\ r[n] = s[1]
  BY <1>2
<1>4. DOMAIN r = 1 .. n /\ DOMAIN s = 1 .. n
  BY <1>1, <1>2
<1>5. ASSUME NEW i \in 2 .. n
      PROVE  i - 1 \in 1 .. n - 1 /\ r[i - 1] = s[i]
  <2>1. i - 1 \in 1 .. n - 1 /\ (i - 1) + 1 = i
    BY <1>3
  <2>2. QED
    BY <1>3, <2>1
<1>6. ASSUME NEW i \in 1 .. n
      PROVE  r[i] = s[IF i = n THEN 1 ELSE i + 1]
  BY <1>3
<1>7. Members(r) = Members(s)
  <2>1. ASSUME NEW i \in 1 .. n PROVE s[i] \in Members(r)
    <3>1. CASE i = 1
      BY <1>3, <1>4, <3>1 DEF Members
    <3>2. CASE i # 1
      <4>1. i \in 2 .. n
        BY <3>2
      <4>2. i - 1 \in 1 .. n /\ r[i - 1] = s[i]
        BY <1>5, <4>1
      <4>3. QED
        BY <1>4, <4>2 DEF Members
    <3>3. QED
      BY <3>1, <3>2
  <2>2. ASSUME NEW i \in 1 .. n PROVE r[i] \in Members(s)
    <3>1. (IF i = n THEN 1 ELSE i + 1) \in 1 .. n
      BY <1>3
    <3>2. QED
      BY <1>4, <1>6, <3>1 DEF Members
  <2>3. QED
    BY <1>4, <2>1, <2>2 DEF Members
<1>8. (\A i, j \in DOMAIN s : s[i] = s[j] => i = j)
        => \A i, j \in DOMAIN r : r[i] = r[j] => i = j
  <2> SUFFICES ASSUME \A i, j \in 1 .. n : s[i] = s[j] => i = j,
                      NEW i \in 1 .. n, NEW j \in 1 .. n, r[i] = r[j]
               PROVE  i = j
    BY <1>4
  <2> DEFINE src(m) == IF m = n THEN 1 ELSE m + 1
  <2>1. src(i) \in 1 .. n /\ src(j) \in 1 .. n /\ (src(i) = src(j) => i = j)
    BY <1>3
  <2>2. s[src(i)] = s[src(j)]
    BY <1>6
  <2>3. src(i) = src(j)
    BY <2>1, <2>2
  <2>4. QED
    BY <2>1, <2>3
<1>9. Between(r, k, n) = Between(s, k + 1, n) \cup {s[1]}
  <2>1. ASSUME NEW i \in k .. n
        PROVE  r[i] \in Between(s, k + 1, n) \cup {s[1]}
    BY <1>3, <1>6 DEF Between
  <2>2. ASSUME NEW i \in k + 1 .. n
        PROVE  s[i] \in Between(r, k, n)
    <3>1. i \in 2 .. n /\ i - 1 \in k .. n
      BY <1>3
    <3>2. QED
      BY <1>5, <3>1 DEF Between
  <2>3. s[1] \in Between(r, k, n)
    <3>1. n \in k .. n
      BY <1>3
    <3>2. QED
      BY <1>3, <3>1 DEF Between
  <2>4. QED
    BY <2>1, <2>2, <2>3 DEF Between
<1>10. QED
  BY <1>2, <1>7, <1>8, <1>9

(* Append after Tail, as functions *)
LEMMA RotateElements ==
  ASSUME NEW s \in Seq(Event), Len(s) > 0
  PROVE  LET r == Append(Tail(s), s[1])
         IN  /\ r \in Seq(Event) /\ Len(r) = Len(s)
             /\ \A i \in 1 .. Len(s) - 1 : r[i] = s[i + 1]
             /\ r[Len(s)] = s[1]
<1>1. Len(s) \in Nat /\ s[1] \in Event
  OBVIOUS
<1>2. Tail(s) \in Seq(Event) /\ Len(Tail(s)) = Len(s) - 1
  OBVIOUS
<1>3. \A i \in 1 .. Len(s) - 1 : Tail(s)[i] = s[i + 1]
  OBVIOUS
<1>4. QED
  BY <1>1, <1>2, <1>3, AppendMember

(* What every visit relies on: the visited node is the head of the queue,  *)
(* it is not counted yet, and the rest of the queue is not affected.       *)
LEMMA VisitFacts ==
  ASSUME QueueInv, NEW e \in Event, Visit(e)
  PROVE  /\ pulling /\ scan \in 1 .. Len(queue) /\ Len(queue) > 0
         /\ scan' = scan - 1 /\ e = queue[1] /\ e = Head(queue)
         /\ e \in Members(queue)
         /\ \A i \in scan + 1 .. Len(queue) : queue[i] # e
         /\ e \notin Counted
         /\ queue \in Seq(Event)
<1>1. queue \in Seq(Event) /\ scan \in Nat /\ scan <= Len(queue)
  BY DEF QueueInv, QueueTypeOK, ScanOK
<1>2. pulling /\ scan > 0 /\ e = Head(queue) /\ scan' = scan - 1
  BY DEF Visit
<1>3. scan \in 1 .. Len(queue) /\ Len(queue) > 0 /\ e = queue[1] /\ 1 \in DOMAIN queue
  BY <1>1, <1>2
<1>4. \A i \in scan + 1 .. Len(queue) : i \in DOMAIN queue /\ i # 1
  BY <1>1, <1>3
<1>5. \A i \in scan + 1 .. Len(queue) : queue[i] # e
  BY <1>3, <1>4 DEF QueueInv, SnapshotCounts
<1>6. QED
  BY <1>1, <1>2, <1>3, <1>5 DEF Members, Counted, Between

LEMMA RotateInv ==
  ASSUME QueueInv, NEW e \in Event, Visit(e),
         queue' = Append(Tail(queue), e), UNCHANGED pulling
  PROVE  /\ queue' \in Seq(Event)
         /\ Members(queue') = Members(queue)
         /\ \A i, j \in DOMAIN queue' : queue'[i] = queue'[j] => i = j
         /\ Between(queue', scan' + 1, Len(queue'))
              = Between(queue, scan + 1, Len(queue)) \cup {e}
         /\ scan' \in Nat
         /\ ScanOK'
<1>1. /\ pulling /\ scan \in 1 .. Len(queue) /\ Len(queue) > 0
      /\ scan' = scan - 1 /\ e = queue[1] /\ queue \in Seq(Event)
  BY VisitFacts
<1>2. \A i, j \in DOMAIN queue : queue[i] = queue[j] => i = j
  BY DEF QueueInv, SnapshotCounts
<1>3. queue' \in Seq(Event) /\ Len(queue') = Len(queue)
  BY <1>1, RotateElements
<1>4. /\ \A i \in 1 .. Len(queue) - 1 : queue'[i] = queue[i + 1]
      /\ queue'[Len(queue)] = queue[1]
  BY <1>1, RotateElements
<1>5. Members(queue') = Members(queue)
  BY <1>1, <1>3, <1>4, RotateSeq
<1>6. \A i, j \in DOMAIN queue' : queue'[i] = queue'[j] => i = j
  BY <1>1, <1>2, <1>3, <1>4, RotateSeq
<1>7. Between(queue', scan, Len(queue'))
        = Between(queue, scan + 1, Len(queue)) \cup {queue[1]}
  BY <1>1, <1>3, <1>4, RotateSeq
<1>8. Len(queue) \in Nat /\ scan' + 1 = scan /\ scan' \in Nat /\ scan' <= Len(queue')
  BY <1>1, <1>3
<1>9. QED
  BY <1>1, <1>3, <1>5, <1>6, <1>7, <1>8 DEF ScanOK

LEMMA PullPendingInv ==
  ASSUME QueueInv, NEW e \in Event, PullPending(e)
  PROVE  QueueInv'
<1>1. Visit(e) /\ node[e].state = "pending" /\ queue' = Append(Tail(queue), e)
      /\ UNCHANGED <<node, snapshot, pulling, frame>>
  BY DEF PullPending
<1>2. InState("normal")' = InState("normal") /\ InState("pending")' = InState("pending")
  BY <1>1 DEF InState
<1>3. QueueTypeOK'
  BY <1>1, RotateInv DEF QueueInv, QueueTypeOK
<1>4. SnapshotCounts'
  BY <1>1, <1>2, RotateInv DEF QueueInv, SnapshotCounts
<1>5. Counted' = Counted
  <2>1. pulling /\ pulling' /\ e \notin InState("normal")
    BY <1>1, VisitFacts DEF InState
  <2>2. Between(queue', scan' + 1, Len(queue'))
          = Between(queue, scan + 1, Len(queue)) \cup {e}
    BY <1>1, RotateInv
  <2>3. QED
    BY <1>2, <2>1, <2>2 DEF Counted
<1>6. NearestExact'
  BY <1>1, <1>5 DEF QueueInv, NearestExact
<1>7. QED
  BY <1>1, <1>3, <1>4, <1>6, RotateInv DEF QueueInv

LEMMA PullDelayedInv ==
  ASSUME QueueInv, NEW e \in Event, PullDelayed(e)
  PROVE  QueueInv'
<1>1. /\ Visit(e) /\ node[e].state = "normal" /\ node[e].delay > 0
      /\ queue' = Append(Tail(queue), e)
      /\ node' = [node EXCEPT ![e].delay = @ - 1]
      /\ snapshot' = [snapshot EXCEPT !.nearest = Nearer(@, node[e].delay - 1)]
      /\ UNCHANGED <<pulling, frame>>
  BY DEF PullDelayed
<1>2. node \in [Event -> [state : State, delay : Delay]]
  BY DEF QueueInv, QueueTypeOK
<1>3. node[e].delay - 1 \in Delay
  BY <1>1, <1>2, EventAssumption DEF Delay
<1>4. /\ node' \in [Event -> [state : State, delay : Delay]]
      /\ \A f \in Event : node'[f].state = node[f].state
      /\ \A f \in Event \ {e} : node'[f] = node[f]
      /\ node'[e].delay = node[e].delay - 1
  BY <1>1, <1>2, <1>3
<1>5. InState("normal")' = InState("normal") /\ InState("pending")' = InState("pending")
  BY <1>4 DEF InState
<1>6. Counted' = Counted \cup {e} /\ e \notin Counted
  <2>1. pulling /\ pulling' /\ e \in InState("normal") /\ e \notin Counted
    BY <1>1, VisitFacts DEF InState
  <2>2. Between(queue', scan' + 1, Len(queue'))
          = Between(queue, scan + 1, Len(queue)) \cup {e}
    BY <1>1, RotateInv
  <2>3. QED
    BY <1>5, <2>1, <2>2 DEF Counted
<1>7. /\ snapshot'.nearest = Nearer(snapshot.nearest, node'[e].delay)
      /\ snapshot'.normal = snapshot.normal
      /\ snapshot'.pending = snapshot.pending
      /\ snapshot' \in [normal : Nat, pending : Nat, nearest : {snapshot'.nearest}]
  BY <1>1, <1>4 DEF QueueInv, QueueTypeOK
<1>8. NearestExact' /\ snapshot'.nearest \in Delay
  BY <1>4, <1>6, <1>7, JoinNearest DEF Counted, InState
<1>9. QueueTypeOK'
  BY <1>1, <1>4, <1>7, <1>8, RotateInv DEF QueueInv, QueueTypeOK
<1>10. SnapshotCounts'
  BY <1>1, <1>5, <1>7, RotateInv DEF QueueInv, SnapshotCounts
<1>11. QED
  BY <1>1, <1>8, <1>9, <1>10, RotateInv DEF QueueInv
LEMMA PullDueInv ==
  ASSUME QueueInv, NEW e \in Event, PullDue(e)
  PROVE  QueueInv'
<1>1. /\ Visit(e) /\ node[e] = Node("normal", 0)
      /\ queue' = Tail(queue)
      /\ node' = [node EXCEPT ![e] = Node("read", 0)]
      /\ snapshot' = [snapshot EXCEPT !.normal = @ - 1]
      /\ frame' = Append(frame, e)
      /\ UNCHANGED pulling
  BY DEF PullDue
<1>2. node \in [Event -> [state : State, delay : Delay]]
  BY DEF QueueInv, QueueTypeOK
<1>3. /\ pulling /\ scan \in 1 .. Len(queue) /\ Len(queue) > 0
      /\ scan' = scan - 1 /\ e = queue[1] /\ queue \in Seq(Event)
      /\ e \notin Counted
  BY <1>1, VisitFacts
<1>4. /\ queue' \in Seq(Event) /\ Len(queue') = Len(queue) - 1
      /\ \A i \in 1 .. Len(queue) - 1 : queue'[i] = queue[i + 1]
  BY <1>1, <1>3
<1>5. DOMAIN queue = 1 .. Len(queue) /\ DOMAIN queue' = 1 .. Len(queue) - 1
      /\ Len(queue) \in Nat
  BY <1>3, <1>4
<1>6. /\ \A i, j \in DOMAIN queue : queue[i] = queue[j] => i = j
      /\ Members(queue) = InState("normal") \cup InState("pending")
  BY DEF QueueInv, SnapshotCounts
<1>7. node' \in [Event -> [state : State, delay : Delay]]
  <2>1. Node("read", 0) \in [state : State, delay : Delay]
    BY EventAssumption DEF Node, State, Delay
  <2>2. QED
    BY <1>1, <1>2, <2>1
<1>8. /\ InState("normal")' = InState("normal") \ {e} /\ e \in InState("normal")
      /\ InState("pending")' = InState("pending") /\ e \notin InState("pending")
  BY <1>1, <1>2 DEF InState, Node
<1>9. Cardinality(InState("normal")') = Cardinality(InState("normal")) - 1
      /\ Cardinality(InState("normal")') \in Nat
  <2>1. Cardinality(InState("normal")') = Cardinality(InState("normal")) - 1
    BY <1>8, LeaveState
  <2>2. IsFiniteSet(InState("normal"))
    BY InStateFinite
  <2>3. Cardinality(InState("normal")') \in Nat
    BY <1>8, <2>2, FS_RemoveElement, FS_CardinalityType
  <2>4. QED
    BY <2>1, <2>3
<1>10. Members(queue') = Members(queue) \ {e}
  <2>1. ASSUME NEW i \in 1 .. Len(queue) - 1
        PROVE  queue'[i] \in Members(queue) \ {e}
    <3>1. i + 1 \in 1 .. Len(queue) /\ i + 1 # 1 /\ 1 \in 1 .. Len(queue)
      BY <1>5
    <3>2. queue'[i] = queue[i + 1]
      BY <1>4
    <3>3. queue[i + 1] # queue[1]
      BY <1>5, <1>6, <3>1
    <3>4. QED
      BY <1>3, <1>5, <3>1, <3>2, <3>3 DEF Members
  <2>2. ASSUME NEW i \in 1 .. Len(queue), queue[i] # e
        PROVE  queue[i] \in Members(queue')
    <3>1. i - 1 \in 1 .. Len(queue) - 1 /\ (i - 1) + 1 = i
      BY <1>3, <1>5, <2>2
    <3>2. queue'[i - 1] = queue[i]
      BY <1>4, <3>1
    <3>3. QED
      BY <1>5, <3>1, <3>2 DEF Members
  <2>3. QED
    BY <1>5, <2>1, <2>2 DEF Members
<1>11. \A i, j \in DOMAIN queue' : queue'[i] = queue'[j] => i = j
  <2> SUFFICES ASSUME NEW i \in 1 .. Len(queue) - 1, NEW j \in 1 .. Len(queue) - 1,
                      queue'[i] = queue'[j]
               PROVE  i = j
    BY <1>5
  <2>1. i + 1 \in 1 .. Len(queue) /\ j + 1 \in 1 .. Len(queue)
    BY <1>5
  <2>2. queue[i + 1] = queue[j + 1]
    BY <1>4
  <2>3. i + 1 = j + 1
    BY <1>5, <1>6, <2>1, <2>2
  <2>4. QED
    BY <1>5, <2>3
<1>12. Between(queue', scan' + 1, Len(queue')) = Between(queue, scan + 1, Len(queue))
  <2>1. ASSUME NEW i \in scan' + 1 .. Len(queue')
        PROVE  queue'[i] \in Between(queue, scan + 1, Len(queue))
    <3>1. i \in 1 .. Len(queue) - 1 /\ i + 1 \in scan + 1 .. Len(queue)
      BY <1>3, <1>4, <1>5
    <3>2. QED
      BY <1>4, <3>1 DEF Between
  <2>2. ASSUME NEW i \in scan + 1 .. Len(queue)
        PROVE  queue[i] \in Between(queue', scan' + 1, Len(queue'))
    <3>1. i - 1 \in scan' + 1 .. Len(queue') /\ i - 1 \in 1 .. Len(queue) - 1
          /\ (i - 1) + 1 = i
      BY <1>3, <1>4, <1>5
    <3>2. queue'[i - 1] = queue[i]
      BY <1>4, <3>1
    <3>3. QED
      BY <3>1, <3>2 DEF Between
  <2>3. QED
    BY <2>1, <2>2 DEF Between
<1>13. Counted' = Counted
  BY <1>1, <1>3, <1>8, <1>12 DEF Counted
<1>14. /\ snapshot'.normal = snapshot.normal - 1
       /\ snapshot'.pending = snapshot.pending
       /\ snapshot'.nearest = snapshot.nearest
  BY <1>1 DEF QueueInv, QueueTypeOK
<1>15. SnapshotCounts'
  BY <1>6, <1>8, <1>9, <1>10, <1>11, <1>14 DEF QueueInv, SnapshotCounts
<1>16. NearestExact'
  <2>1. \A f \in Counted : node'[f] = node[f]
    BY <1>1, <1>2, <1>3 DEF Counted, InState
  <2>2. QED
    BY <1>13, <1>14, <2>1 DEF QueueInv, NearestExact
<1>17. QueueTypeOK'
  <2>1. snapshot' \in [normal : Nat, pending : Nat, nearest : Delay \cup {None}]
    <3>1. snapshot.normal - 1 \in Nat
      BY <1>9 DEF QueueInv, SnapshotCounts
    <3>2. QED
      BY <1>1, <3>1 DEF QueueInv, QueueTypeOK
  <2>2. frame' \in Seq(Event)
    BY <1>1, AppendMember DEF QueueInv, QueueTypeOK
  <2>3. scan' \in Nat
    BY <1>3
  <2>4. QED
    BY <1>1, <1>4, <1>7, <2>1, <2>2, <2>3 DEF QueueInv, QueueTypeOK
<1>18. ScanOK'
  BY <1>1, <1>3, <1>4, <1>5 DEF ScanOK
<1>19. QED
  BY <1>15, <1>16, <1>17, <1>18 DEF QueueInv
LEMMA SendNormalInv ==
  ASSUME QueueInv, NEW e \in Event, NEW d \in Delay, Free(e),
         queue' = Append(queue, e),
         node' = [node EXCEPT ![e] = Node("normal", d)],
         snapshot' = [snapshot EXCEPT !.normal = @ + 1, !.nearest = Nearer(@, d)],
         UNCHANGED <<pulling, scan, frame>>
  PROVE  QueueInv'
<1>1. /\ queue' \in Seq(Event)
      /\ node' \in [Event -> [state : State, delay : Delay]]
      /\ InState("normal")' = InState("normal") \cup {e}
      /\ Cardinality(InState("normal")') = Cardinality(InState("normal")) + 1
      /\ InState("pending")' = InState("pending")
      /\ Members(queue)' = InState("normal")' \cup InState("pending")'
      /\ \A i, j \in DOMAIN queue' : queue'[i] = queue'[j] => i = j
      /\ ScanOK'
  BY SendInv
<1>2. /\ node'[e].delay = d /\ \A f \in Event \ {e} : node'[f] = node[f]
  BY DEF QueueInv, QueueTypeOK, Node
<1>3. e \notin Counted /\ Counted' = Counted \cup {e}
  BY <1>1 DEF Counted, Free, InState
<1>4. /\ snapshot'.nearest = Nearer(snapshot.nearest, node'[e].delay)
      /\ snapshot'.normal = snapshot.normal + 1
      /\ snapshot'.pending = snapshot.pending
  BY <1>2 DEF QueueInv, QueueTypeOK
<1>5. NearestExact' /\ snapshot'.nearest \in Delay
  BY <1>1, <1>2, <1>3, <1>4, JoinNearest DEF Counted, InState
<1>6. QueueTypeOK'
  <2>1. snapshot' \in [normal : Nat, pending : Nat, nearest : Delay \cup {None}]
    <3>1. snapshot \in [normal : Nat, pending : Nat, nearest : Delay \cup {None}]
      BY DEF QueueInv, QueueTypeOK
    <3>2. snapshot.normal + 1 \in Nat /\ Nearer(snapshot.nearest, d) \in Delay
      BY <1>2, <1>4, <1>5, <3>1
    <3>3. QED
      BY <3>1, <3>2
  <2>2. QED
    BY <1>1, <2>1 DEF QueueInv, QueueTypeOK
<1>7. SnapshotCounts'
  BY <1>1, <1>4 DEF QueueInv, SnapshotCounts
<1>8. QED
  BY <1>1, <1>5, <1>6, <1>7 DEF QueueInv

LEMMA SendPendingInv ==
  ASSUME QueueInv, NEW e \in Event, SendPending(e)
  PROVE  QueueInv'
<1>1. /\ Free(e) /\ queue' = Append(queue, e)
      /\ node' = [node EXCEPT ![e] = Node("pending", 0)]
      /\ snapshot' = [snapshot EXCEPT !.pending = @ + 1]
      /\ UNCHANGED <<pulling, scan, frame>>
  BY DEF SendPending
<1>2. 0 \in Delay
  BY EventAssumption DEF Delay
<1>3. /\ queue' \in Seq(Event)
      /\ node' \in [Event -> [state : State, delay : Delay]]
      /\ InState("pending")' = InState("pending") \cup {e}
      /\ Cardinality(InState("pending")') = Cardinality(InState("pending")) + 1
      /\ InState("normal")' = InState("normal")
      /\ Members(queue)' = InState("normal")' \cup InState("pending")'
      /\ \A i, j \in DOMAIN queue' : queue'[i] = queue'[j] => i = j
      /\ ScanOK'
  BY <1>1, <1>2, SendInv
<1>4. /\ snapshot' \in [normal : Nat, pending : Nat, nearest : Delay \cup {None}]
      /\ snapshot'.nearest = snapshot.nearest
      /\ snapshot'.normal = snapshot.normal
      /\ snapshot'.pending = snapshot.pending + 1
  <2>1. snapshot \in [normal : Nat, pending : Nat, nearest : Delay \cup {None}]
    BY DEF QueueInv, QueueTypeOK
  <2>2. snapshot.pending + 1 \in Nat
    BY <2>1
  <2>3. QED
    BY <1>1, <2>1, <2>2
<1>5. Counted' = Counted /\ \A f \in Counted : node'[f] = node[f]
  <2>1. e \notin InState("normal")
    BY <1>1 DEF Free, InState
  <2>2. QED
    BY <1>1, <1>3, <2>1 DEF Counted, Free, InState, QueueInv, QueueTypeOK
<1>6. QueueTypeOK'
  BY <1>1, <1>3, <1>4 DEF QueueInv, QueueTypeOK
<1>7. SnapshotCounts'
  BY <1>3, <1>4 DEF QueueInv, SnapshotCounts
<1>8. NearestExact'
  BY <1>4, <1>5 DEF QueueInv, NearestExact
<1>9. QED
  BY <1>3, <1>6, <1>7, <1>8 DEF QueueInv

LEMMA CompleteInv ==
  ASSUME QueueInv, NEW e \in Event, NEW d \in Delay, CompleteAfter(e, d)
  PROVE  QueueInv'
<1>1. /\ ~pulling /\ node[e].state = "pending"
      /\ node' = [node EXCEPT ![e] = Node("normal", d)]
      /\ snapshot' = [snapshot EXCEPT !.pending = @ - 1, !.normal = @ + 1,
                                      !.nearest = Nearer(@, d)]
      /\ UNCHANGED <<queue, pulling, scan, frame>>
  BY DEF CompleteAfter
<1>2. node \in [Event -> [state : State, delay : Delay]]
  BY DEF QueueInv, QueueTypeOK
<1>3. node' \in [Event -> [state : State, delay : Delay]]
  <2>1. Node("normal", d) \in [state : State, delay : Delay]
    BY DEF Node, State
  <2>2. QED
    BY <1>1, <1>2, <2>1
<1>4. node'[e].delay = d /\ \A f \in Event \ {e} : node'[f] = node[f]
  BY <1>1, <1>2 DEF Node
<1>5. /\ InState("normal")' = InState("normal") \cup {e} /\ e \notin InState("normal")
      /\ InState("pending")' = InState("pending") \ {e} /\ e \in InState("pending")
  BY <1>1, <1>2 DEF InState, Node
<1>6. /\ Cardinality(InState("normal")') = Cardinality(InState("normal")) + 1
      /\ Cardinality(InState("pending")') = Cardinality(InState("pending")) - 1
      /\ Cardinality(InState("pending")') \in Nat
  <2>1. /\ Cardinality(InState("normal")') = Cardinality(InState("normal")) + 1
        /\ Cardinality(InState("pending")') = Cardinality(InState("pending")) - 1
    BY <1>5, EnterState, LeaveState
  <2>2. IsFiniteSet(InState("pending"))
    BY InStateFinite
  <2>3. Cardinality(InState("pending")') \in Nat
    BY <1>5, <2>2, FS_RemoveElement, FS_CardinalityType
  <2>4. QED
    BY <2>1, <2>3
<1>7. e \notin Counted /\ Counted' = Counted \cup {e}
  BY <1>1, <1>5 DEF Counted
<1>8. /\ snapshot'.nearest = Nearer(snapshot.nearest, node'[e].delay)
      /\ snapshot'.normal = snapshot.normal + 1
      /\ snapshot'.pending = snapshot.pending - 1
  BY <1>1, <1>4 DEF QueueInv, QueueTypeOK
<1>9. NearestExact' /\ snapshot'.nearest \in Delay
  BY <1>3, <1>4, <1>7, <1>8, JoinNearest DEF Counted, InState
<1>10. QueueTypeOK'
  <2>1. snapshot.pending - 1 \in Nat
    BY <1>6 DEF QueueInv, SnapshotCounts
  <2>2. snapshot' \in [normal : Nat, pending : Nat, nearest : Delay \cup {None}]
    <3>1. snapshot \in [normal : Nat, pending : Nat, nearest : Delay \cup {None}]
      BY DEF QueueInv, QueueTypeOK
    <3>2. snapshot.normal + 1 \in Nat /\ Nearer(snapshot.nearest, d) \in Delay
      BY <1>4, <1>8, <1>9, <3>1
    <3>3. QED
      BY <1>1, <2>1, <3>1, <3>2
  <2>3. QED
    BY <1>1, <1>3, <2>2 DEF QueueInv, QueueTypeOK
<1>11. SnapshotCounts'
  <2>1. Members(queue') = Members(queue)
    BY <1>1
  <2>2. QED
    BY <1>1, <1>5, <1>6, <1>8, <2>1 DEF QueueInv, SnapshotCounts
<1>12. QED
  BY <1>1, <1>9, <1>10, <1>11 DEF QueueInv, ScanOK

LEMMA BeginPullInv ==
  ASSUME QueueInv, BeginPull
  PROVE  QueueInv'
<1>1. /\ ~pulling /\ pulling' = TRUE /\ scan' = Len(queue) /\ frame' = <<>>
      /\ node' = [e \in Event |-> IF node[e].state = "read"
                                    THEN Node("absent", 0) ELSE node[e]]
      /\ snapshot' = [snapshot EXCEPT !.nearest = None]
      /\ UNCHANGED queue
  BY DEF BeginPull
<1>2. queue \in Seq(Event) /\ Len(queue) \in Nat
      /\ node \in [Event -> [state : State, delay : Delay]]
  BY DEF QueueInv, QueueTypeOK
<1>3. InState("normal")' = InState("normal") /\ InState("pending")' = InState("pending")
  BY <1>1, <1>2 DEF InState, Node
<1>4. Counted' = {}
  BY <1>1, <1>2 DEF Counted, Between
<1>5. QueueTypeOK'
  <2>1. Node("absent", 0) \in [state : State, delay : Delay]
    BY EventAssumption DEF Node, State, Delay
  <2>2. node' \in [Event -> [state : State, delay : Delay]]
    BY <1>1, <1>2, <2>1
  <2>3. frame' \in Seq(Event)
    BY <1>1, EmptySeq
  <2>4. QED
    BY <1>1, <1>2, <2>2, <2>3 DEF QueueInv, QueueTypeOK
<1>6. snapshot'.nearest = None /\ snapshot'.normal = snapshot.normal
      /\ snapshot'.pending = snapshot.pending
  BY <1>1 DEF QueueInv, QueueTypeOK
<1>7. SnapshotCounts'
  BY <1>1, <1>3, <1>6 DEF QueueInv, SnapshotCounts
<1>8. QED
  BY <1>1, <1>2, <1>4, <1>5, <1>6, <1>7 DEF QueueInv, NearestExact, ScanOK

LEMMA EndPullInv ==
  ASSUME QueueInv, EndPull
  PROVE  QueueInv'
<1>1. /\ pulling /\ scan = 0 /\ pulling' = FALSE
      /\ UNCHANGED <<queue, node, snapshot, scan, frame>>
  BY DEF EndPull
<1>2. Counted' = Counted
  <2>1. Between(queue, 1, Len(queue)) = Members(queue)
    <3>1. DOMAIN queue = 1 .. Len(queue)
      BY DEF QueueInv, QueueTypeOK
    <3>2. QED
      BY <3>1 DEF Between, Members
  <2>2. InState("normal") \subseteq Members(queue)
    BY DEF QueueInv, SnapshotCounts
  <2>3. InState("normal")' = InState("normal") /\ scan + 1 = 1
    BY <1>1 DEF InState
  <2>4. QED
    BY <1>1, <2>1, <2>2, <2>3 DEF Counted
<1>3. QueueTypeOK' /\ SnapshotCounts' /\ ScanOK'
  BY <1>1 DEF QueueInv, QueueTypeOK, SnapshotCounts, ScanOK, InState
<1>4. NearestExact'
  BY <1>1, <1>2 DEF QueueInv, NearestExact
<1>5. QED
  BY <1>3, <1>4 DEF QueueInv

LEMMA FastForwardInv ==
  ASSUME QueueInv, FastForward
  PROVE  QueueInv'
<1>1. CASE snapshot.nearest \in {None, 0}
  <2>1. UNCHANGED queueVars
    BY <1>1 DEF FastForward, queueVars
  <2>2. QED
    BY <2>1 DEF queueVars, QueueInv, QueueTypeOK, SnapshotCounts, NearestExact,
                ScanOK, Counted, InState
<1>2. CASE snapshot.nearest \notin {None, 0}
  <2>1. /\ ~pulling /\ UNCHANGED <<queue, pulling, scan, frame>>
        /\ snapshot' = [snapshot EXCEPT !.nearest = 0]
        /\ node' = [e \in Event |-> IF node[e].state = "normal"
                          THEN Node("normal", node[e].delay - snapshot.nearest)
                          ELSE node[e]]
    BY <1>2 DEF FastForward
  <2>2. /\ node \in [Event -> [state : State, delay : Delay]]
        /\ snapshot.nearest \in Delay
    BY <1>2 DEF QueueInv, QueueTypeOK
  <2>3. Counted = InState("normal")
    BY <2>1 DEF Counted
  <2>4. /\ \A e \in InState("normal") : snapshot.nearest <= node[e].delay
        /\ \E e \in InState("normal") : snapshot.nearest = node[e].delay
    BY <1>2, <2>3 DEF QueueInv, NearestExact
  <2>5. \A e \in InState("normal") : node[e].delay - snapshot.nearest \in Delay
    BY <2>2, <2>4, EventAssumption DEF Delay, InState
  <2>6. node' \in [Event -> [state : State, delay : Delay]]
    <3>1. ASSUME NEW e \in Event
          PROVE  node'[e] \in [state : State, delay : Delay]
      BY <2>1, <2>2, <2>5 DEF InState, Node, State
    <3>2. QED
      BY <2>1, <3>1
  <2>7. InState("normal")' = InState("normal") /\ InState("pending")' = InState("pending")
    BY <2>1, <2>2 DEF InState, Node
  <2>8. \A e \in InState("normal") : node'[e].delay = node[e].delay - snapshot.nearest
    BY <2>1 DEF InState, Node
  <2>9. Counted' = InState("normal")
    BY <2>1, <2>7 DEF Counted
  <2>10. /\ snapshot' \in [normal : Nat, pending : Nat, nearest : Delay \cup {None}]
         /\ snapshot'.nearest = 0 /\ snapshot'.normal = snapshot.normal
         /\ snapshot'.pending = snapshot.pending
    BY <2>1, EventAssumption DEF QueueInv, QueueTypeOK, Delay
  <2>11. QueueTypeOK'
    BY <2>1, <2>6, <2>10 DEF QueueInv, QueueTypeOK
  <2>12. SnapshotCounts'
    BY <2>1, <2>7, <2>10 DEF QueueInv, SnapshotCounts
  <2>13. NearestExact'
    <3>1. 0 # None
      BY EventAssumption
    <3>2. \A e \in InState("normal") : 0 <= node'[e].delay
      BY <2>5, <2>8 DEF Delay
    <3>3. \E e \in InState("normal") : 0 = node'[e].delay
      BY <2>2, <2>4, <2>8 DEF Delay
    <3>4. QED
      BY <2>9, <2>10, <3>1, <3>2, <3>3 DEF NearestExact
  <2>14. QED
    BY <2>1, <2>11, <2>12, <2>13 DEF QueueInv, ScanOK
<1>3. QED
  BY <1>1, <1>2

LEMMA QueueNextInv == QueueInv /\ [QueueNext]_queueVars => QueueInv'
<1> SUFFICES ASSUME QueueInv, [QueueNext]_queueVars PROVE QueueInv'
  OBVIOUS
<1>1. ASSUME NEW e \in Event, SendEvent(e) PROVE QueueInv'
  <2>1. Nearer(snapshot.nearest, 0) = 0 /\ 0 \in Delay
    BY EventAssumption DEF Nearer, QueueInv, QueueTypeOK, Delay
  <2>2. snapshot' = [snapshot EXCEPT !.normal = @ + 1, !.nearest = Nearer(@, 0)]
    BY <1>1, <2>1 DEF SendEvent
  <2>3. QED
    BY <1>1, <2>1, <2>2, SendNormalInv DEF SendEvent
<1>2. ASSUME NEW e \in Event, SendPending(e) PROVE QueueInv'
  BY <1>2, SendPendingInv
<1>3. ASSUME NEW e \in Event, Pull(e) PROVE QueueInv'
  BY <1>3, PullPendingInv, PullDueInv, PullDelayedInv DEF Pull
<1>4. ASSUME NEW e \in Event, NEW d \in Delay, SendEventAfter(e, d) PROVE QueueInv'
  BY <1>4, SendNormalInv DEF SendEventAfter
<1>5. ASSUME NEW e \in Event, NEW d \in Delay, CompleteAfter(e, d) PROVE QueueInv'
  BY <1>5, CompleteInv
<1>6. CASE BeginPull
  BY <1>6, BeginPullInv
<1>7. CASE EndPull
  BY <1>7, EndPullInv
<1>8. CASE FastForward
  BY <1>8, FastForwardInv
<1>9. CASE UNCHANGED queueVars
  BY <1>9 DEF queueVars, QueueInv, QueueTypeOK, SnapshotCounts, NearestExact,
              ScanOK, Counted, InState
<1>10. QED
  BY <1>1, <1>2, <1>3, <1>4, <1>5, <1>6, <1>7, <1>8, <1>9 DEF QueueNext

LEMMA QueueInvariant == QueueSpec => []QueueInv
  BY QueueInitInv, QueueNextInv, PTL DEF QueueSpec

(* Counters, delays and the two sequences keep their types: no counter of  *)
(* the EventSnapshot and no remaining delay ever goes below zero.          *)
THEOREM QueueTypeCorrect == QueueSpec => []QueueTypeOK
<1>1. QueueInv => QueueTypeOK
  BY DEF QueueInv
<1>2. QED
  BY <1>1, QueueInvariant, PTL

(* The snapshot the runtime loop decides on counts the queue exactly.      *)
THEOREM SnapshotCorrect == QueueSpec => []SnapshotCounts
<1>1. QueueInv => SnapshotCounts
  BY DEF QueueInv
<1>2. QED
  BY <1>1, QueueInvariant, PTL

(* fast_forward subtracts the smallest delay there is, never more.         *)
THEOREM NearestCorrect == QueueSpec => []NearestExact
<1>1. QueueInv => NearestExact
  BY DEF QueueInv
<1>2. QED
  BY <1>1, QueueInvariant, PTL

(***************************************************************************)
(* The order of events                                                     *)
(***************************************************************************)
Unique(s) == \A i, j \in DOMAIN s : s[i] = s[j] => i = j

(* An event that was read in a frame is not queued.                        *)
FrameRead == \A i \in DOMAIN frame : node[frame[i]].state = "read"

LEMMA PositionOf ==
  ASSUME NEW s, Unique(s), NEW i \in DOMAIN s
  PROVE  Position(s, s[i]) = i
  BY DEF Unique, Position

(* The nodes visited in a pull, at the back, came before the others.       *)
LEMMA ArrivalElements ==
  ASSUME NEW q \in Seq(Event), NEW k \in Nat, k <= Len(q)
  PROVE  LET a == SubSeq(q, k + 1, Len(q)) \o SubSeq(q, 1, k)
         IN  /\ a \in Seq(Event) /\ Len(a) = Len(q)
             /\ \A i \in 1 .. Len(q) - k : a[i] = q[k + i]
             /\ \A i \in Len(q) - k + 1 .. Len(q) : a[i] = q[i - (Len(q) - k)]
<1> DEFINE l == SubSeq(q, k + 1, Len(q))
           r == SubSeq(q, 1, k)
<1>1. Len(q) \in Nat /\ \A i \in 1 .. Len(q) : q[i] \in Event
  OBVIOUS
<1>2. /\ l \in Seq(Event) /\ Len(l) = Len(q) - k
      /\ \A i \in 1 .. Len(q) - k : l[i] = q[k + i]
  <2>1. \A i \in k + 1 .. Len(q) : q[i] \in Event
    BY <1>1
  <2>2. /\ l \in Seq(Event) /\ Len(l) = (IF k + 1 <= Len(q) THEN Len(q) - (k + 1) + 1 ELSE 0)
        /\ \A i \in 1 .. Len(q) - (k + 1) + 1 : l[i] = q[k + 1 + i - 1]
    BY <1>1, <2>1, SubSeqProperties
  <2> QED
    BY <1>1, <2>2
<1>3. /\ r \in Seq(Event) /\ Len(r) = k
      /\ \A i \in 1 .. k : r[i] = q[i]
  <2>1. \A i \in 1 .. k : q[i] \in Event
    BY <1>1
  <2>2. /\ r \in Seq(Event) /\ Len(r) = (IF 1 <= k THEN k - 1 + 1 ELSE 0)
        /\ \A i \in 1 .. k - 1 + 1 : r[i] = q[1 + i - 1]
    BY <1>1, <2>1, SubSeqProperties
  <2> QED
    BY <2>2
<1> HIDE DEF l, r
<1>4. /\ l \o r \in Seq(Event) /\ Len(l \o r) = Len(l) + Len(r)
      /\ \A i \in 1 .. Len(l) + Len(r) : (l \o r)[i] = IF i <= Len(l) THEN l[i] ELSE r[i - Len(l)]
  BY <1>2, <1>3, ConcatProperties
<1>5. ASSUME NEW i \in 1 .. Len(q) - k PROVE (l \o r)[i] = q[k + i]
  BY <1>1, <1>2, <1>3, <1>4
<1>6. ASSUME NEW i \in Len(q) - k + 1 .. Len(q) PROVE (l \o r)[i] = q[i - (Len(q) - k)]
  <2>1. i - (Len(q) - k) \in 1 .. k /\ ~(i <= Len(l)) /\ i \in 1 .. Len(l) + Len(r)
    BY <1>1, <1>2, <1>3
  <2> QED
    BY <1>2, <1>3, <1>4, <2>1
<1>7. l \o r \in Seq(Event) /\ Len(l \o r) = Len(q)
  BY <1>1, <1>2, <1>3, <1>4
<1> QED
  BY <1>5, <1>6, <1>7 DEF l, r

LEMMA ArrivalUnique ==
  ASSUME NEW q \in Seq(Event), NEW k \in Nat, k <= Len(q), Unique(q)
  PROVE  LET a == SubSeq(q, k + 1, Len(q)) \o SubSeq(q, 1, k)
         IN  Unique(a) /\ Members(a) \subseteq Members(q)
<1> DEFINE a == SubSeq(q, k + 1, Len(q)) \o SubSeq(q, 1, k)
           src(i) == IF i <= Len(q) - k THEN k + i ELSE i - (Len(q) - k)
<1>0. /\ a \in Seq(Event) /\ Len(a) = Len(q)
      /\ \A i \in 1 .. Len(q) - k : a[i] = q[k + i]
      /\ \A i \in Len(q) - k + 1 .. Len(q) : a[i] = q[i - (Len(q) - k)]
  BY ArrivalElements
<1> HIDE DEF a
<1>1. /\ DOMAIN a = 1 .. Len(q) /\ DOMAIN q = 1 .. Len(q) /\ Len(q) \in Nat
      /\ \A i \in 1 .. Len(q) - k : a[i] = q[k + i]
      /\ \A i \in Len(q) - k + 1 .. Len(q) : a[i] = q[i - (Len(q) - k)]
  BY <1>0
<1>2. ASSUME NEW i \in 1 .. Len(q) PROVE src(i) \in DOMAIN q /\ a[i] = q[src(i)]
  BY <1>1
<1>3. ASSUME NEW i \in 1 .. Len(q), NEW j \in 1 .. Len(q), src(i) = src(j) PROVE i = j
  BY <1>1, <1>3
<1> HIDE DEF src
<1>4. Unique(a)
  BY <1>1, <1>2, <1>3 DEF Unique
<1>5. Members(a) \subseteq Members(q)
  BY <1>1, <1>2 DEF Members
<1> QED
  BY <1>4, <1>5 DEF a

LEMMA ArrivalFacts ==
  ASSUME QueueInv
  PROVE  /\ Arrival \in Seq(Event) /\ Len(Arrival) = Len(queue)
         /\ \A i \in 1 .. Len(queue) - scan : Arrival[i] = queue[scan + i]
         /\ \A i \in Len(queue) - scan + 1 .. Len(queue) : Arrival[i] = queue[i - (Len(queue) - scan)]
         /\ Unique(Arrival)
         /\ Members(Arrival) \subseteq Members(queue)
<1>1. queue \in Seq(Event) /\ scan \in Nat /\ scan <= Len(queue) /\ Unique(queue)
  BY DEF QueueInv, QueueTypeOK, ScanOK, SnapshotCounts, Unique
<1> QED
  BY <1>1, ArrivalElements, ArrivalUnique DEF Arrival

LEMMA ArrivalNext ==
  ASSUME QueueInv'
  PROVE  /\ Arrival' \in Seq(Event) /\ Len(Arrival') = Len(queue')
         /\ \A i \in 1 .. Len(queue') - scan' : Arrival'[i] = queue'[scan' + i]
         /\ \A i \in Len(queue') - scan' + 1 .. Len(queue') :
              Arrival'[i] = queue'[i - (Len(queue') - scan')]
         /\ Unique(Arrival')
<1>1. queue' \in Seq(Event) /\ scan' \in Nat /\ scan' <= Len(queue') /\ Unique(queue')
  BY DEF QueueInv, QueueTypeOK, ScanOK, SnapshotCounts, Unique
<1> QED
  BY <1>1, ArrivalElements, ArrivalUnique DEF Arrival

(* A sequence without some of its elements, or with more at its end, has   *)
(* the others in their order.                                              *)
LEMMA OrderOfPart ==
  ASSUME NEW a, NEW b, Unique(a), Unique(b),
         DOMAIN a \subseteq Int, DOMAIN b \subseteq Int,
         \A i, j \in DOMAIN b, k, l \in DOMAIN a :
           b[i] = a[k] /\ b[j] = a[l] /\ k < l => i < j,
         NEW e \in Members(a), NEW f \in Members(a), Position(a, e) < Position(a, f),
         {e, f} \subseteq Members(b)
  PROVE  Position(b, e) < Position(b, f)
<1>1. PICK k \in DOMAIN a, l \in DOMAIN a : a[k] = e /\ a[l] = f
  BY DEF Members
<1>2. PICK i \in DOMAIN b, j \in DOMAIN b : b[i] = e /\ b[j] = f
  BY DEF Members
<1>3. Position(a, e) = k /\ Position(a, f) = l /\ Position(b, e) = i /\ Position(b, f) = j
  BY <1>1, <1>2, PositionOf
<1> QED
  BY <1>1, <1>2, <1>3

Ordered(a, b) ==
  \A i, j \in DOMAIN b, k, l \in DOMAIN a : b[i] = a[k] /\ b[j] = a[l] /\ k < l => i < j

LEMMA SameOrder ==
  ASSUME NEW a \in Seq(Event), Unique(a)
  PROVE  Ordered(a, a)
  BY DEF Ordered, Unique

LEMMA AppendOrder ==
  ASSUME NEW a \in Seq(Event), NEW b \in Seq(Event), Unique(a), Unique(b),
         Len(b) = Len(a) + 1, \A i \in 1 .. Len(a) : b[i] = a[i]
  PROVE  Ordered(a, b)
<1>1. DOMAIN a = 1 .. Len(a) /\ DOMAIN b = 1 .. Len(a) + 1 /\ Len(a) \in Nat
  OBVIOUS
<1>2. ASSUME NEW i \in DOMAIN b, NEW k \in DOMAIN a, b[i] = a[k] PROVE i = k
  BY <1>1, <1>2 DEF Unique
<1> QED
  BY <1>1, <1>2 DEF Ordered

LEMMA DropOrder ==
  ASSUME NEW a \in Seq(Event), NEW b \in Seq(Event), Unique(a), NEW m \in 1 .. Len(a),
         Len(b) = Len(a) - 1,
         \A i \in 1 .. m - 1 : b[i] = a[i],
         \A i \in m .. Len(a) - 1 : b[i] = a[i + 1]
  PROVE  Ordered(a, b)
<1>1. DOMAIN a = 1 .. Len(a) /\ DOMAIN b = 1 .. Len(a) - 1 /\ Len(a) \in Nat
  OBVIOUS
<1>2. ASSUME NEW i \in DOMAIN b, NEW k \in DOMAIN a, b[i] = a[k]
      PROVE  k = IF i < m THEN i ELSE i + 1
  <2>1. CASE i < m
    BY <1>1, <1>2, <2>1 DEF Unique
  <2>2. CASE ~(i < m)
    <3>1. i \in m .. Len(a) - 1 /\ i + 1 \in DOMAIN a
      BY <1>1, <1>2, <2>2
    <3>2. a[i + 1] = a[k]
      BY <1>2, <3>1
    <3> QED
      BY <1>2, <2>2, <3>1, <3>2 DEF Unique
  <2> QED
    BY <2>1, <2>2
<1>3. SUFFICES ASSUME NEW i \in DOMAIN b, NEW j \in DOMAIN b, NEW k \in DOMAIN a, NEW l \in DOMAIN a,
                      b[i] = a[k], b[j] = a[l], k < l
               PROVE  i < j
  BY DEF Ordered
<1>4. k = (IF i < m THEN i ELSE i + 1) /\ l = (IF j < m THEN j ELSE j + 1)
  BY <1>2, <1>3
<1> QED
  BY <1>1, <1>3, <1>4

LEMMA FrameReadStep ==
  ASSUME QueueInv, FrameRead, [QueueNext]_queueVars
  PROVE  FrameRead'
<1>1. /\ DOMAIN node = Event /\ frame \in Seq(Event) /\ queue \in Seq(Event)
      /\ \A i \in DOMAIN frame : frame[i] \in Event /\ node[frame[i]].state = "read"
      /\ DOMAIN frame = 1 .. Len(frame)
  BY DEF QueueInv, QueueTypeOK, FrameRead
<1>2. ASSUME NEW e \in Event, node[e].state # "read", frame' = frame,
             \A f \in Event \ {e} : node'[f] = node[f]
      PROVE  FrameRead'
  <2>1. ASSUME NEW i \in DOMAIN frame PROVE frame[i] \in Event \ {e}
    BY <1>1, <1>2
  <2> QED
    BY <1>1, <1>2, <2>1 DEF FrameRead
<1>3. ASSUME NEW e \in Event, SendEvent(e) \/ SendPending(e) PROVE FrameRead'
  BY <1>1, <1>2, <1>3 DEF SendEvent, SendPending, Free
<1>4. ASSUME NEW e \in Event, NEW d \in Delay, SendEventAfter(e, d) \/ CompleteAfter(e, d)
      PROVE  FrameRead'
  BY <1>1, <1>2, <1>4 DEF SendEventAfter, CompleteAfter, Free
<1>5. ASSUME NEW e \in Event, PullPending(e) \/ PullDelayed(e) PROVE FrameRead'
  BY <1>1, <1>2, <1>5 DEF PullPending, PullDelayed
<1>6. ASSUME NEW e \in Event, PullDue(e) PROVE FrameRead'
  <2>1. /\ node'[e].state = "read" /\ \A f \in Event \ {e} : node'[f] = node[f]
        /\ frame' = Append(frame, e)
    BY <1>1, <1>6 DEF PullDue, Node
  <2>2. /\ DOMAIN frame' = 1 .. Len(frame) + 1
        /\ \A i \in 1 .. Len(frame) : frame'[i] = frame[i]
        /\ frame'[Len(frame) + 1] = e
    BY <1>1, <2>1
  <2> QED
    BY <1>1, <2>1, <2>2 DEF FrameRead
<1>7. CASE BeginPull
  <2>1. frame' = <<>>
    BY <1>7 DEF BeginPull
  <2>2. DOMAIN frame' = {}
    BY <2>1
  <2> QED
    BY <2>2 DEF FrameRead
<1>8. CASE EndPull \/ UNCHANGED queueVars
  BY <1>1, <1>8 DEF EndPull, queueVars, FrameRead
<1>9. CASE FastForward
  <2>1. frame' = frame /\ \A f \in Event : node[f].state = "read" => node'[f] = node[f]
    BY <1>1, <1>9 DEF FastForward
  <2> QED
    BY <1>1, <2>1 DEF FrameRead
<1> QED
  BY <1>3, <1>4, <1>5, <1>6, <1>7, <1>8, <1>9 DEF QueueNext, Pull

(* What a step does to the order: a node that is kept moves from the front *)
(* to the back and the order stays; a sent one comes last; a read one goes.*)
LEMMA KeptOrder ==
  ASSUME QueueInv, QueueInv', Len(queue') = Len(queue),
         \A i \in 1 .. Len(queue) : Arrival'[i] = Arrival[i]
  PROVE  Ordered(Arrival, Arrival')
<1>1. /\ Arrival \in Seq(Event) /\ Len(Arrival) = Len(queue) /\ Unique(Arrival)
      /\ Arrival' \in Seq(Event) /\ Len(Arrival') = Len(queue')
  BY ArrivalFacts, ArrivalNext
<1>2. Arrival' = Arrival
  BY <1>1
<1> QED
  BY <1>1, <1>2, SameOrder

LEMMA SentOrder ==
  ASSUME QueueInv, QueueInv', NEW e \in Event, ~pulling, queue' = Append(queue, e), scan' = scan
  PROVE  Ordered(Arrival, Arrival')
<1>1. scan = 0 /\ queue \in Seq(Event) /\ Len(queue) \in Nat
  BY DEF QueueInv, QueueTypeOK, ScanOK
<1>2. /\ Arrival \in Seq(Event) /\ Len(Arrival) = Len(queue) /\ Unique(Arrival)
      /\ \A i \in 1 .. Len(queue) - scan : Arrival[i] = queue[scan + i]
  BY ArrivalFacts
<1>3. /\ Arrival' \in Seq(Event) /\ Len(Arrival') = Len(queue') /\ Unique(Arrival')
      /\ \A i \in 1 .. Len(queue') - scan' : Arrival'[i] = queue'[scan' + i]
  BY ArrivalNext
<1>4. Len(queue') = Len(queue) + 1 /\ \A i \in 1 .. Len(queue) : queue'[i] = queue[i]
  BY <1>1
<1>5. \A i \in 1 .. Len(queue) : Arrival'[i] = Arrival[i]
  BY <1>1, <1>2, <1>3, <1>4
<1> QED
  BY <1>2, <1>3, <1>4, <1>5, AppendOrder

LEMMA RotatedOrder ==
  ASSUME QueueInv, QueueInv', NEW e \in Event, Visit(e), queue' = Append(Tail(queue), e)
  PROVE  Ordered(Arrival, Arrival')
<1>1. /\ scan \in 1 .. Len(queue) /\ Len(queue) > 0 /\ scan' = scan - 1
      /\ e = queue[1] /\ queue \in Seq(Event) /\ Len(queue) \in Nat
  BY VisitFacts
<1>2. /\ Len(queue') = Len(queue)
      /\ \A i \in 1 .. Len(queue) - 1 : queue'[i] = queue[i + 1]
      /\ queue'[Len(queue)] = queue[1]
  BY <1>1, RotateElements
<1>3. /\ \A i \in 1 .. Len(queue) - scan : Arrival[i] = queue[scan + i]
      /\ \A i \in Len(queue) - scan + 1 .. Len(queue) : Arrival[i] = queue[i - (Len(queue) - scan)]
      /\ \A i \in 1 .. Len(queue) - scan' : Arrival'[i] = queue'[scan' + i]
      /\ \A i \in Len(queue) - scan' + 1 .. Len(queue) : Arrival'[i] = queue'[i - (Len(queue) - scan')]
  BY <1>2, ArrivalFacts, ArrivalNext
<1>4. ASSUME NEW i \in 1 .. Len(queue) PROVE Arrival'[i] = Arrival[i]
  <2>1. CASE i <= Len(queue) - scan
    BY <1>1, <1>2, <1>3, <2>1
  <2>2. CASE i = Len(queue) - scan + 1
    BY <1>1, <1>2, <1>3, <2>2
  <2>3. CASE i > Len(queue) - scan + 1
    BY <1>1, <1>2, <1>3, <2>3
  <2> QED
    BY <1>1, <2>1, <2>2, <2>3
<1> QED
  BY <1>2, <1>4, KeptOrder

LEMMA ReadOrder ==
  ASSUME QueueInv, QueueInv', NEW e \in Event, Visit(e), queue' = Tail(queue)
  PROVE  Ordered(Arrival, Arrival')
<1>1. /\ scan \in 1 .. Len(queue) /\ Len(queue) > 0 /\ scan' = scan - 1
      /\ e = queue[1] /\ queue \in Seq(Event) /\ Len(queue) \in Nat
  BY VisitFacts
<1>2. /\ Len(queue') = Len(queue) - 1
      /\ \A i \in 1 .. Len(queue) - 1 : queue'[i] = queue[i + 1]
  BY <1>1
<1>3. /\ Arrival \in Seq(Event) /\ Len(Arrival) = Len(queue) /\ Unique(Arrival)
      /\ \A i \in 1 .. Len(queue) - scan : Arrival[i] = queue[scan + i]
      /\ \A i \in Len(queue) - scan + 1 .. Len(queue) : Arrival[i] = queue[i - (Len(queue) - scan)]
  BY ArrivalFacts
<1>4. /\ Arrival' \in Seq(Event) /\ Len(Arrival') = Len(queue')
      /\ \A i \in 1 .. Len(queue') - scan' : Arrival'[i] = queue'[scan' + i]
      /\ \A i \in Len(queue') - scan' + 1 .. Len(queue') : Arrival'[i] = queue'[i - (Len(queue') - scan')]
  BY ArrivalNext
<1> DEFINE m == Len(queue) - scan + 1
<1>5. m \in 1 .. Len(queue) /\ Len(queue') - scan' = m - 1
  BY <1>1, <1>2
<1>6. ASSUME NEW i \in 1 .. m - 1 PROVE Arrival'[i] = Arrival[i]
  <2>1. i \in 1 .. Len(queue') - scan' /\ i \in 1 .. Len(queue) - scan
    BY <1>1, <1>5
  <2>2. Arrival'[i] = queue'[scan - 1 + i] /\ Arrival[i] = queue[scan + i]
    BY <1>1, <1>3, <1>4, <2>1
  <2>3. scan - 1 + i \in 1 .. Len(queue) - 1
    BY <1>1, <2>1
  <2> QED
    BY <1>1, <1>2, <2>2, <2>3
<1>7. ASSUME NEW i \in m .. Len(queue) - 1 PROVE Arrival'[i] = Arrival[i + 1]
  <2>0. /\ i \in Len(queue') - scan' + 1 .. Len(queue')
        /\ i + 1 \in Len(queue) - scan + 1 .. Len(queue)
        /\ i + 1 - (Len(queue) - scan) = i - (m - 1) + 1
    BY <1>1, <1>2, <1>5
  <2>1. Arrival'[i] = queue'[i - (m - 1)]
    BY <1>4, <1>5, <2>0
  <2>2. Arrival[i + 1] = queue[i - (m - 1) + 1]
    <3>0. PICK n \in Len(queue) - scan + 1 .. Len(queue) : n = i + 1
      BY <2>0
    <3>1. Arrival[n] = queue[n - (Len(queue) - scan)]
      BY <1>3
    <3>2. n - (Len(queue) - scan) = i - (m - 1) + 1
      BY <1>1, <3>0
    <3> QED
      BY <3>0, <3>1, <3>2
  <2>3. i - (m - 1) \in 1 .. Len(queue) - 1
    BY <1>1
  <2> QED
    BY <1>2, <2>1, <2>2, <2>3
<1> HIDE DEF m
<1> QED
  BY <1>2, <1>3, <1>4, <1>5, <1>6, <1>7, DropOrder

LEMMA StepOrder ==
  ASSUME QueueInv, QueueInv', [QueueNext]_queueVars
  PROVE  Ordered(Arrival, Arrival')
<1>1. /\ Arrival \in Seq(Event) /\ Unique(Arrival) /\ Len(Arrival) = Len(queue)
      /\ Len(queue) \in Nat /\ scan \in Nat
  BY ArrivalFacts DEF QueueInv, QueueTypeOK
<1>2. CASE queue' = queue /\ scan' = scan
  BY <1>1, <1>2, SameOrder DEF Arrival
<1>3. CASE BeginPull
  <2>1. scan = 0 /\ scan' = Len(queue) /\ queue' = queue
    BY <1>3 DEF BeginPull, QueueInv, ScanOK
  <2>2. /\ \A i \in 1 .. Len(queue) - scan : Arrival[i] = queue[scan + i]
        /\ \A i \in Len(queue') - scan' + 1 .. Len(queue') :
             Arrival'[i] = queue'[i - (Len(queue') - scan')]
    BY ArrivalFacts, ArrivalNext
  <2>3. \A i \in 1 .. Len(queue) : Arrival'[i] = Arrival[i]
    BY <1>1, <2>1, <2>2
  <2> QED
    BY <2>1, <2>3, KeptOrder
<1>4. ASSUME NEW e \in Event, SendEvent(e) \/ SendPending(e) PROVE Ordered(Arrival, Arrival')
  BY <1>4, SentOrder DEF SendEvent, SendPending, Free
<1>5. ASSUME NEW e \in Event, NEW d \in Delay, SendEventAfter(e, d) PROVE Ordered(Arrival, Arrival')
  BY <1>5, SentOrder DEF SendEventAfter, Free
<1>6. ASSUME NEW e \in Event, PullPending(e) \/ PullDelayed(e) PROVE Ordered(Arrival, Arrival')
  BY <1>6, RotatedOrder DEF PullPending, PullDelayed
<1>7. ASSUME NEW e \in Event, PullDue(e) PROVE Ordered(Arrival, Arrival')
  BY <1>7, ReadOrder DEF PullDue
<1> QED
  BY <1>2, <1>3, <1>4, <1>5, <1>6, <1>7
     DEF QueueNext, Pull, CompleteAfter, EndPull, FastForward, queueVars

(* Only the head of the queue is read, and all before it was visited.      *)
LEMMA ReadLast ==
  ASSUME QueueInv, FrameRead, [QueueNext]_queueVars,
         NEW e \in Members(Arrival), NEW f \in Members(Arrival), f \in Members(frame'),
         Position(Arrival, e) < Position(Arrival, f)
  PROVE  e \in Between(queue, scan + 1, Len(queue))
<1>1. /\ Arrival \in Seq(Event) /\ Len(Arrival) = Len(queue) /\ Unique(Arrival)
      /\ \A i \in 1 .. Len(queue) - scan : Arrival[i] = queue[scan + i]
      /\ \A i \in Len(queue) - scan + 1 .. Len(queue) : Arrival[i] = queue[i - (Len(queue) - scan)]
      /\ Members(Arrival) \subseteq Members(queue)
  BY ArrivalFacts
<1>2. f \notin Members(frame)
  BY <1>1 DEF FrameRead, QueueInv, SnapshotCounts, InState, Members
<1>3. PICK g \in Event : PullDue(g)
  <2>1. frame' # frame /\ frame' # <<>>
    BY <1>2 DEF Members
  <2> QED
    BY <2>1 DEF QueueNext, Pull, SendEvent, SendPending, SendEventAfter, CompleteAfter,
                BeginPull, PullPending, PullDelayed, EndPull, FastForward, queueVars
<1>4. /\ scan \in 1 .. Len(queue) /\ Len(queue) > 0 /\ g = queue[1] /\ Len(queue) \in Nat
  BY <1>3, VisitFacts DEF PullDue
<1>5. f = g
  <2>1. frame \in Seq(Event) /\ frame' = Append(frame, g)
    BY <1>3 DEF PullDue, QueueInv, QueueTypeOK
  <2>2. /\ DOMAIN frame' = 1 .. Len(frame) + 1 /\ DOMAIN frame = 1 .. Len(frame)
        /\ \A i \in 1 .. Len(frame) : frame'[i] = frame[i]
        /\ frame'[Len(frame) + 1] = g
    BY <2>1
  <2> QED
    BY <1>2, <2>2 DEF Members
<1> DEFINE m == Len(queue) - scan + 1
<1>6. m \in DOMAIN Arrival /\ Arrival[m] = f
  BY <1>1, <1>4, <1>5
<1>7. PICK i \in DOMAIN Arrival : Arrival[i] = e
  BY DEF Members
<1>8. i < m
  BY <1>1, <1>6, <1>7, PositionOf
<1>9. scan + i \in scan + 1 .. Len(queue) /\ queue[scan + i] = e
  BY <1>1, <1>4, <1>7, <1>8
<1> QED
  BY <1>9 DEF Between

(***************************************************************************)
(* The runtime loop                                                        *)
(***************************************************************************)
(* The stop flag set while the loop is past its check has its wake still   *)
(* to come or in the channel.                                              *)
StopInv ==
  /\ stopping <=> listener # "idle"
  /\ stopping /\ pc \notin {"boot", "top", "stopped"} => token \/ listener = "flagged"

(* What the loop has not yet looked at, at each place between its checks   *)
(* and recv, is announced by a wake.                                       *)
WakeInv ==
  /\ initial => ~FixedFrame
  /\ pc \in {"sync", "status", "wait"} /\ initial /\ GateOpen => WakeComing
  /\ pc = "status" /\ seen = 0 /\ snapshot.normal > 0 /\ GateOpen => WakeComing
  /\ pc = "wait" /\ GateOpen /\ (FixedFrame \/ snapshot.normal > 0) => WakeComing

(* Between the check of the gate and the frame nobody closes it: only code *)
(* that owns the World submits awaited tasks.                              *)
FrameInv == pc \in {"forward", "tick"} => GateOpen

(* The queue is pulled exactly while the loop is in a tick.                *)
PullInv == pulling <=> pc = "pull"

RuntimeInv ==
  /\ RuntimeTypeOK
  /\ FrameInv
  /\ PullInv
  /\ QueueInv
  /\ GateBalanced
  /\ HandlePending
  /\ StopInv
  /\ WakeInv

(* Every step of the runtime is a step of the queue, or leaves it alone.   *)
LEMMA StepOfQueue == [Next]_vars => [QueueNext]_queueVars
<1> SUFFICES ASSUME [Next]_vars PROVE [QueueNext]_queueVars
  OBVIOUS
<1>1. 0 \in Delay
  BY EventAssumption DEF Delay
<1>2. CASE LoopStep
  BY <1>2 DEF LoopStep, RunUntil, CheckStop, InitialGate, SyncSnapshot, Status,
       ForwardEvents, Tick, RunSystems, EndSystems, Receive, PullNode, QueueNext
<1>3. CASE Resume \/ RequestStop \/ WakeForStop
  BY <1>3 DEF Resume, RequestStop, WakeForStop
<1>4. ASSUME NEW e \in Event,
             EmitEvent(e) \/ SubmitAsync(e) \/ SubmitAwait(e) \/ SendOutside(e)
      PROVE  QueueNext
  BY <1>4 DEF EmitEvent, SubmitAsync, SubmitAwait, SendOutside, QueueNext
<1>5. ASSUME NEW e \in Event, TaskEnds(e) PROVE QueueNext
  BY <1>1, <1>5 DEF TaskEnds, QueueNext
<1>6. ASSUME NEW e \in Event, OpenGate(e) \/ Wake(e) PROVE UNCHANGED queueVars
  BY <1>6 DEF OpenGate, Wake
<1>7. CASE UNCHANGED vars
  BY <1>7 DEF vars
<1>8. QED
  BY <1>2, <1>3, <1>4, <1>5, <1>6, <1>7 DEF Next

LEMMA InitRuntimeInv == Init => RuntimeInv
<1> SUFFICES ASSUME Init PROVE RuntimeInv
  OBVIOUS
<1>1. QueueInv
  BY QueueInitInv DEF Init
<1>2. RuntimeTypeOK
  BY <1>1 DEF Init, RuntimeTypeOK, QueueInv, Place, Duty
<1>3. Blocking = {}
  BY DEF Init, Blocking, Owing
<1>4. GateBalanced
  BY <1>3, FS_EmptySet DEF Init, GateBalanced
<1>5. HandlePending
  BY DEF Init, QueueInit, Node, HandlePending
<1>6. StopInv /\ WakeInv
  BY DEF Init, StopInv, WakeInv
<1>7. FrameInv /\ PullInv
  BY DEF Init, QueueInit, FrameInv, PullInv
<1>8. QED
  BY <1>1, <1>2, <1>4, <1>5, <1>6, <1>7 DEF RuntimeInv

(* How the queue operations the other threads use change what the loop     *)
(* looks at.                                                               *)
LEMMA SendEffect ==
  ASSUME QueueInv, NEW e \in Event,
         SendEvent(e) \/ \E d \in Delay : SendEventAfter(e, d)
  PROVE  node'[e].state = "normal" /\ node[e].state = "absent"
         /\ \A f \in Event \ {e} : node'[f] = node[f]
<1>1. node \in [Event -> [state : State, delay : Delay]]
  BY DEF QueueInv, QueueTypeOK
<1>2. CASE SendEvent(e)
  BY <1>1, <1>2 DEF SendEvent, Free, Node
<1>3. ASSUME NEW d \in Delay, SendEventAfter(e, d)
      PROVE  node'[e].state = "normal" /\ node[e].state = "absent"
             /\ \A f \in Event \ {e} : node'[f] = node[f]
  BY <1>1, <1>3 DEF SendEventAfter, Free, Node
<1>4. QED
  BY <1>2, <1>3

LEMMA PendingEffect ==
  ASSUME QueueInv, NEW e \in Event, SendPending(e)
  PROVE  node'[e].state = "pending" /\ snapshot'.normal = snapshot.normal
         /\ \A f \in Event \ {e} : node'[f] = node[f]
  BY DEF SendPending, Node, QueueInv, QueueTypeOK

LEMMA CompleteEffect ==
  ASSUME QueueInv, NEW e \in Event, CompleteAfter(e, 0)
  PROVE  node'[e].state = "normal"
         /\ \A f \in Event \ {e} : node'[f] = node[f]
  BY DEF CompleteAfter, Node, QueueInv, QueueTypeOK

(* Counting the blocking threads *)
LEMMA BlockingFinite ==
  /\ IsFiniteSet(Blocking)
  /\ Cardinality(Blocking) \in Nat
  /\ \A e \in Blocking : Cardinality(Blocking) > 0
<1>1. IsFiniteSet(Blocking) /\ Cardinality(Blocking) \in Nat
  BY EventAssumption, FS_Subset, FS_CardinalityType DEF Blocking, Owing
<1>2. QED
  BY <1>1, FS_EmptySet
(* Steps of the loop that change neither the queue's nodes nor a thread    *)
LEMMA SameThreads ==
  ASSUME RuntimeInv, UNCHANGED <<blockers, thread>>
  PROVE  GateBalanced'
  BY DEF RuntimeInv, GateBalanced, Blocking, Owing

(* A node enters or leaves "pending" only by SendPending and CompleteAfter *)
LEMMA PullKeepsPending ==
  ASSUME QueueInv,
         FastForward \/ BeginPull \/ EndPull \/ \E e \in Event : Pull(e)
  PROVE  \A f \in Event : node'[f].state = "pending" <=> node[f].state = "pending"
<1>1. node \in [Event -> [state : State, delay : Delay]]
  BY DEF QueueInv, QueueTypeOK
<1>2. CASE FastForward
  BY <1>1, <1>2 DEF FastForward, Node
<1>3. CASE BeginPull
  BY <1>1, <1>3 DEF BeginPull, Node
<1>4. CASE EndPull
  BY <1>4 DEF EndPull
<1>5. ASSUME NEW e \in Event, PullPending(e)
      PROVE  \A f \in Event : node'[f].state = "pending" <=> node[f].state = "pending"
  BY <1>5 DEF PullPending
<1>6. ASSUME NEW e \in Event, PullDue(e)
      PROVE  \A f \in Event : node'[f].state = "pending" <=> node[f].state = "pending"
  BY <1>1, <1>6 DEF PullDue, Node
<1>7. ASSUME NEW e \in Event, PullDelayed(e)
      PROVE  \A f \in Event : node'[f].state = "pending" <=> node[f].state = "pending"
  <2>1. node[e].state = "normal" /\ node' = [node EXCEPT ![e].delay = @ - 1]
    BY <1>7 DEF PullDelayed
  <2>2. QED
    BY <1>1, <2>1
<1>8. QED
  BY <1>2, <1>3, <1>4, <1>5, <1>6, <1>7 DEF Pull

LEMMA NextTypeOK ==
  ASSUME RuntimeInv, [Next]_vars, QueueInv'
  PROVE  RuntimeTypeOK'
<1> USE DEF RuntimeInv, RuntimeTypeOK, QueueInv, Place, Duty
<1>1. snapshot.normal \in Nat
  BY DEF QueueTypeOK
<1>2. ASSUME NEW e \in Event, thread[e] = "gate" PROVE blockers - 1 \in Nat
  <2>1. blockers > 0
    BY <1>2, BlockingFinite DEF GateBalanced, Blocking, Owing
  <2>2. QED
    BY <2>1
<1>3. CASE LoopStep
  BY <1>1, <1>3 DEF LoopStep, RunUntil, CheckStop, InitialGate, SyncSnapshot, Status,
       ForwardEvents, Tick, RunSystems, EndSystems, Receive, PullNode, runVars
<1>4. CASE Resume \/ RequestStop \/ WakeForStop
  BY <1>4 DEF Resume, RequestStop, WakeForStop, loopVars
<1>5. ASSUME NEW e \in Event, EmitEvent(e) \/ SendOutside(e) PROVE RuntimeTypeOK'
  BY <1>5 DEF EmitEvent, SendOutside, loopVars, runVars
<1>6. ASSUME NEW e \in Event, SubmitAsync(e) \/ SubmitAwait(e) PROVE RuntimeTypeOK'
  BY <1>6 DEF SubmitAsync, SubmitAwait, loopVars
<1>7. ASSUME NEW e \in Event, TaskEnds(e) \/ Wake(e) PROVE RuntimeTypeOK'
  BY <1>7 DEF TaskEnds, Wake, loopVars
<1>8. ASSUME NEW e \in Event, OpenGate(e) PROVE RuntimeTypeOK'
  <2>1. blockers - 1 \in Nat
    BY <1>2, <1>8 DEF OpenGate
  <2>2. QED
    BY <1>8, <2>1 DEF OpenGate, loopVars
<1>9. CASE UNCHANGED vars
  BY <1>9 DEF vars, runVars
<1>10. QED
  BY <1>3, <1>4, <1>5, <1>6, <1>7, <1>8, <1>9 DEF Next

LEMMA NextHandlePending ==
  ASSUME RuntimeInv, [Next]_vars
  PROVE  HandlePending'
<1>1. QueueInv /\ HandlePending /\ thread \in [Event -> Duty]
  BY DEF RuntimeInv, RuntimeTypeOK
<1>2. ASSUME \A f \in Event : node'[f].state = "pending" <=> node[f].state = "pending",
             UNCHANGED thread
      PROVE  HandlePending'
  BY <1>1, <1>2 DEF HandlePending
<1>3. CASE LoopStep
  <2>1. UNCHANGED thread
    BY <1>3 DEF LoopStep, RunUntil, CheckStop, InitialGate, SyncSnapshot, Status,
         ForwardEvents, Tick, RunSystems, EndSystems, Receive, PullNode, runVars
  <2>2. \/ UNCHANGED node
        \/ FastForward \/ BeginPull \/ EndPull \/ \E e \in Event : Pull(e)
    BY <1>3 DEF LoopStep, RunUntil, CheckStop, InitialGate, SyncSnapshot, Status,
         ForwardEvents, Tick, RunSystems, EndSystems, Receive, PullNode, queueVars
  <2>3. QED
    BY <1>1, <1>2, <2>1, <2>2, PullKeepsPending
<1>4. CASE Resume \/ RequestStop \/ WakeForStop
  BY <1>2, <1>4 DEF Resume, RequestStop, WakeForStop, queueVars
<1>5. ASSUME NEW e \in Event, EmitEvent(e) PROVE HandlePending'
  <2>1. /\ node'[e].state = "normal" /\ node[e].state = "absent"
        /\ \A f \in Event \ {e} : node'[f] = node[f]
    BY <1>1, <1>5, SendEffect DEF EmitEvent
  <2>2. UNCHANGED thread
    BY <1>5 DEF EmitEvent, runVars
  <2>3. QED
    BY <1>2, <2>1, <2>2
<1>6. ASSUME NEW e \in Event, SendOutside(e) PROVE HandlePending'
  <2>1. /\ node'[e].state = "normal"
        /\ \A f \in Event \ {e} : node'[f] = node[f]
    BY <1>1, <1>6, SendEffect DEF SendOutside
  <2>2. thread' = [thread EXCEPT ![e] = "wake"]
    BY <1>6 DEF SendOutside
  <2>3. QED
    BY <1>1, <2>1, <2>2 DEF HandlePending
<1>7. ASSUME NEW e \in Event, SubmitAsync(e) \/ SubmitAwait(e) PROVE HandlePending'
  <2>1. /\ node'[e].state = "pending"
        /\ \A f \in Event \ {e} : node'[f] = node[f]
    BY <1>1, <1>7, PendingEffect DEF SubmitAsync, SubmitAwait
  <2>2. thread' = [thread EXCEPT ![e] = "async"] \/ thread' = [thread EXCEPT ![e] = "await"]
    BY <1>7 DEF SubmitAsync, SubmitAwait
  <2>3. QED
    BY <1>1, <2>1, <2>2 DEF HandlePending
<1>8. ASSUME NEW e \in Event, TaskEnds(e) PROVE HandlePending'
  <2>1. /\ node'[e].state = "normal"
        /\ \A f \in Event \ {e} : node'[f] = node[f]
    BY <1>1, <1>8, CompleteEffect DEF TaskEnds
  <2>2. thread' = [thread EXCEPT ![e] = IF @ = "async" THEN "wake" ELSE "gate"]
    BY <1>8 DEF TaskEnds
  <2>3. QED
    BY <1>1, <2>1, <2>2 DEF HandlePending
<1>9. ASSUME NEW e \in Event, OpenGate(e) \/ Wake(e) PROVE HandlePending'
  <2>1. /\ UNCHANGED node /\ thread[e] \in {"gate", "wake"}
        /\ \E d \in {"wake", "none"} : thread' = [thread EXCEPT ![e] = d]
    BY <1>9 DEF OpenGate, Wake, queueVars
  <2>2. QED
    BY <1>1, <2>1 DEF HandlePending
<1>10. CASE UNCHANGED vars
  BY <1>2, <1>10 DEF vars, queueVars, runVars
<1>11. QED
  BY <1>3, <1>4, <1>5, <1>6, <1>7, <1>8, <1>9, <1>10 DEF Next

LEMMA NextGateBalanced ==
  ASSUME RuntimeInv, [Next]_vars
  PROVE  GateBalanced'
<1>1. /\ thread \in [Event -> Duty] /\ blockers \in Nat
      /\ blockers = Cardinality(Blocking)
  BY DEF RuntimeInv, RuntimeTypeOK, GateBalanced
<1>2. IsFiniteSet(Blocking)
  BY BlockingFinite
<1>3. ASSUME UNCHANGED blockers, Blocking' = Blocking PROVE GateBalanced'
  BY <1>1, <1>3 DEF GateBalanced
<1>4. CASE LoopStep \/ Resume \/ RequestStop \/ WakeForStop \/ UNCHANGED vars
  <2>1. UNCHANGED <<blockers, thread>>
    BY <1>4 DEF LoopStep, RunUntil, CheckStop, InitialGate, SyncSnapshot, Status,
         ForwardEvents, Tick, RunSystems, EndSystems, Receive, PullNode, runVars,
         Resume, RequestStop, WakeForStop, vars
  <2>2. QED
    BY <2>1, SameThreads
<1>5. ASSUME NEW e \in Event, EmitEvent(e) PROVE GateBalanced'
  BY <1>5, SameThreads DEF EmitEvent, runVars
<1>6. ASSUME NEW e \in Event, SendOutside(e) \/ SubmitAsync(e) \/ Wake(e) PROVE GateBalanced'
  <2>1. /\ UNCHANGED blockers /\ thread[e] \in {"none", "wake"}
        /\ \E d \in {"wake", "async", "none"} : thread' = [thread EXCEPT ![e] = d]
    BY <1>6 DEF SendOutside, SubmitAsync, Wake
  <2>2. QED
    BY <1>1, <1>3, <2>1 DEF Blocking, Owing
<1>7. ASSUME NEW e \in Event, SubmitAwait(e) PROVE GateBalanced'
  <2>1. Blocking' = Blocking \cup {e} /\ e \notin Blocking /\ blockers' = blockers + 1
    BY <1>1, <1>7 DEF SubmitAwait, Blocking, Owing
  <2>2. Cardinality(Blocking \cup {e}) = Cardinality(Blocking) + 1
    BY <1>2, <2>1, FS_AddElement
  <2>3. QED
    BY <1>1, <2>1, <2>2 DEF GateBalanced
<1>8. ASSUME NEW e \in Event, TaskEnds(e) PROVE GateBalanced'
  <2>1. /\ UNCHANGED blockers /\ thread[e] \in {"async", "await"}
        /\ thread' = [thread EXCEPT ![e] = IF @ = "async" THEN "wake" ELSE "gate"]
    BY <1>8 DEF TaskEnds
  <2>2. Blocking' = Blocking
    BY <1>1, <2>1 DEF Blocking, Owing
  <2>3. QED
    BY <1>3, <2>1, <2>2
<1>9. ASSUME NEW e \in Event, OpenGate(e) PROVE GateBalanced'
  <2>1. Blocking' = Blocking \ {e} /\ e \in Blocking /\ blockers' = blockers - 1
    BY <1>1, <1>9 DEF OpenGate, Blocking, Owing
  <2>2. Cardinality(Blocking \ {e}) = Cardinality(Blocking) - 1
    BY <1>2, <2>1, FS_RemoveElement
  <2>3. QED
    BY <1>1, <2>1, <2>2 DEF GateBalanced
<1>10. QED
  BY <1>4, <1>5, <1>6, <1>7, <1>8, <1>9 DEF Next
LEMMA NextFrameInv ==
  ASSUME RuntimeInv, [Next]_vars
  PROVE  FrameInv'
<1>1. /\ FrameInv /\ blockers \in Nat
      /\ \A e \in Event : thread[e] = "gate" => blockers > 0
  BY BlockingFinite DEF RuntimeInv, RuntimeTypeOK, GateBalanced, Blocking, Owing
<1>2. CASE LoopStep
  BY <1>1, <1>2 DEF LoopStep, RunUntil, CheckStop, InitialGate, SyncSnapshot, Status,
       ForwardEvents, Tick, RunSystems, EndSystems, Receive, PullNode, FrameInv,
       GateOpen, runVars
<1>3. CASE Resume \/ RequestStop \/ WakeForStop \/ UNCHANGED vars
  BY <1>1, <1>3 DEF Resume, RequestStop, WakeForStop, vars, runVars, loopVars,
       FrameInv, GateOpen
<1>4. ASSUME NEW e \in Event,
             EmitEvent(e) \/ SubmitAsync(e) \/ SubmitAwait(e)
      PROVE  FrameInv'
  BY <1>4 DEF EmitEvent, SubmitAsync, SubmitAwait, OwnsWorld, loopVars, runVars, FrameInv
<1>5. ASSUME NEW e \in Event,
             SendOutside(e) \/ TaskEnds(e) \/ Wake(e)
      PROVE  FrameInv'
  BY <1>1, <1>5 DEF SendOutside, TaskEnds, Wake, loopVars, FrameInv, GateOpen
<1>6. ASSUME NEW e \in Event, OpenGate(e) PROVE FrameInv'
  BY <1>1, <1>6 DEF OpenGate, loopVars, FrameInv, GateOpen
<1>7. QED
  BY <1>2, <1>3, <1>4, <1>5, <1>6 DEF Next

LEMMA NextPullInv ==
  ASSUME RuntimeInv, [Next]_vars
  PROVE  PullInv'
<1>1. PullInv
  BY DEF RuntimeInv
<1>2. CASE RunUntil \/ CheckStop \/ InitialGate \/ SyncSnapshot \/ Status \/ Receive \/ EndSystems
  BY <1>1, <1>2 DEF RunUntil, CheckStop, InitialGate, SyncSnapshot, Status, Receive,
       EndSystems, queueVars, PullInv
<1>3. CASE ForwardEvents \/ Tick \/ RunSystems
  BY <1>1, <1>3 DEF ForwardEvents, FastForward, Tick, BeginPull, RunSystems, EndPull, PullInv
<1>4. CASE Resume \/ RequestStop \/ WakeForStop \/ UNCHANGED vars
  BY <1>1, <1>4 DEF Resume, RequestStop, WakeForStop, vars, runVars, loopVars,
       queueVars, PullInv
<1>5. ASSUME NEW e \in Event, PullNode(e) PROVE PullInv'
  BY <1>1, <1>5 DEF PullNode, Pull, PullPending, PullDue, PullDelayed, runVars, PullInv
<1>6. ASSUME NEW e \in Event,
             EmitEvent(e) \/ SubmitAsync(e) \/ SubmitAwait(e) \/ SendOutside(e)
      PROVE  PullInv'
  BY <1>1, <1>6 DEF EmitEvent, SubmitAsync, SubmitAwait, SendOutside, SendEvent,
       SendEventAfter, SendPending, runVars, loopVars, PullInv
<1>7. ASSUME NEW e \in Event, TaskEnds(e) \/ OpenGate(e) \/ Wake(e) PROVE PullInv'
  BY <1>1, <1>7 DEF TaskEnds, CompleteAfter, OpenGate, Wake, loopVars, queueVars, PullInv
<1>8. QED
  BY <1>2, <1>3, <1>4, <1>5, <1>6, <1>7 DEF Next, LoopStep

LEMMA NextStopInv ==
  ASSUME RuntimeInv, [Next]_vars
  PROVE  StopInv'
<1>1. StopInv
  BY DEF RuntimeInv
<1>2. CASE LoopStep
  <2>1. CASE RunUntil \/ CheckStop \/ InitialGate \/ SyncSnapshot \/ Status \/ Receive
    BY <1>1, <2>1 DEF RunUntil, CheckStop, InitialGate, SyncSnapshot, Status, Receive,
         StopInv
  <2>2. CASE ForwardEvents \/ Tick \/ EndSystems
    BY <1>1, <2>2 DEF ForwardEvents, Tick, EndSystems, StopInv
  <2>3. CASE RunSystems
    BY <1>1, <2>3, <1>2 DEF RunSystems, EndPull, StopInv, RuntimeInv, PullInv
  <2>4. ASSUME NEW e \in Event, PullNode(e) PROVE StopInv'
    BY <1>1, <2>4 DEF PullNode, runVars, StopInv
  <2>5. QED
    BY <1>2, <2>1, <2>2, <2>3, <2>4 DEF LoopStep
<1>3. CASE Resume \/ RequestStop \/ WakeForStop \/ UNCHANGED vars
  BY <1>1, <1>3 DEF Resume, RequestStop, WakeForStop, vars, runVars, loopVars, StopInv
<1>4. ASSUME NEW e \in Event,
             \/ EmitEvent(e) \/ SubmitAsync(e) \/ SubmitAwait(e)
             \/ SendOutside(e) \/ TaskEnds(e) \/ OpenGate(e) \/ Wake(e)
      PROVE  StopInv'
  BY <1>1, <1>4 DEF EmitEvent, SubmitAsync, SubmitAwait, SendOutside, TaskEnds,
       OpenGate, Wake, loopVars, runVars, StopInv
<1>5. QED
  BY <1>2, <1>3, <1>4 DEF Next

LEMMA NextWakeInv ==
  ASSUME RuntimeInv, [Next]_vars
  PROVE  WakeInv'
<1>1. /\ WakeInv /\ thread \in [Event -> Duty] /\ blockers \in Nat
      /\ snapshot.normal \in Nat /\ seen \in Nat
  BY DEF RuntimeInv, RuntimeTypeOK, QueueTypeOK
<1>2. \A e \in Event : thread[e] \in {"await", "gate"} => blockers > 0
  BY BlockingFinite DEF RuntimeInv, GateBalanced, Blocking, Owing
<1>3. CASE LoopStep
  <2>1. UNCHANGED thread
    BY <1>3 DEF LoopStep, RunUntil, CheckStop, InitialGate, SyncSnapshot, Status,
         ForwardEvents, Tick, RunSystems, EndSystems, Receive, PullNode, runVars
  <2>2. CASE RunUntil
    BY <1>1, <2>2 DEF RunUntil, WakeInv
  <2>3. CASE CheckStop
    <3>1. pc' \in {"stopped", "initial"} \/ (pc' = "sync" /\ ~initial)
      BY <2>3 DEF CheckStop
    <3>2. initial' = initial
      BY <2>3 DEF CheckStop
    <3>3. QED
      BY <1>1, <3>1, <3>2 DEF WakeInv
  <2>4. CASE InitialGate
    BY <1>1, <2>4 DEF InitialGate, WakeInv, GateOpen
  <2>5. CASE SyncSnapshot
    <3>1. snapshot'.normal = snapshot.normal
      BY <2>5 DEF SyncSnapshot, queueVars
    <3>2. WakeComing => WakeComing'
      BY <2>5 DEF SyncSnapshot, WakeComing
    <3>3. QED
      BY <1>1, <2>5, <3>1, <3>2 DEF SyncSnapshot, WakeInv, GateOpen
  <2>6. CASE Status
    BY <1>1, <2>6 DEF Status, WakeInv, WakeComing, GateOpen, queueVars
  <2>7. CASE ForwardEvents \/ Tick \/ RunSystems \/ EndSystems \/ Receive
    BY <1>1, <2>7 DEF ForwardEvents, Tick, RunSystems, EndSystems, Receive, WakeInv
  <2>8. ASSUME NEW e \in Event, PullNode(e) PROVE WakeInv'
    <3>1. snapshot \in [normal : Nat, pending : Nat, nearest : Delay \cup {None}]
      BY DEF RuntimeInv, RuntimeTypeOK, QueueTypeOK
    <3>2. snapshot'.normal \in {snapshot.normal, snapshot.normal - 1}
      <4>1. CASE PullPending(e)
        BY <4>1 DEF PullPending
      <4>2. CASE PullDue(e)
        BY <3>1, <4>2 DEF PullDue
      <4>3. CASE PullDelayed(e)
        BY <3>1, <4>3 DEF PullDelayed
      <4>4. QED
        BY <2>8, <4>1, <4>2, <4>3 DEF PullNode, Pull
    <3>3. snapshot'.normal > 0 => snapshot.normal > 0
      BY <1>1, <3>2
    <3>4. UNCHANGED runVars /\ (WakeComing' <=> WakeComing) /\ (GateOpen' <=> GateOpen)
      BY <2>8 DEF PullNode, runVars, WakeComing, GateOpen
    <3>5. UNCHANGED <<pc, initial, seen>>
      BY <3>4 DEF runVars
    <3>6. QED
      BY <1>1, <3>3, <3>4, <3>5 DEF WakeInv
  <2>9. QED
    BY <1>3, <2>5, <2>6, <2>7, <2>8, <2>2, <2>4, <2>3 DEF LoopStep
<1>4. CASE Resume \/ RequestStop \/ UNCHANGED vars
  BY <1>1, <1>4 DEF Resume, RequestStop, vars, runVars, loopVars, queueVars, WakeInv,
       WakeComing, GateOpen
<1>5. CASE WakeForStop
  BY <1>1, <1>5 DEF WakeForStop, loopVars, WakeInv, WakeComing
<1>6. ASSUME NEW e \in Event, EmitEvent(e) \/ SubmitAsync(e) \/ SubmitAwait(e)
      PROVE  WakeInv'
  BY <1>1, <1>6 DEF EmitEvent, SubmitAsync, SubmitAwait, OwnsWorld, loopVars, runVars,
       WakeInv
<1>7. ASSUME NEW e \in Event, SendOutside(e) PROVE WakeInv'
  <2>1. WakeComing'
    BY <1>1, <1>7 DEF SendOutside, WakeComing
  <2>2. QED
    BY <1>1, <1>7, <2>1 DEF SendOutside, loopVars, WakeInv
<1>8. ASSUME NEW e \in Event, TaskEnds(e) PROVE WakeInv'
  <2>1. CASE thread[e] = "async"
    <3>1. WakeComing'
      BY <1>1, <1>8, <2>1 DEF TaskEnds, WakeComing
    <3>2. QED
      BY <1>1, <1>8, <3>1 DEF TaskEnds, loopVars, WakeInv
  <2>2. CASE thread[e] = "await"
    BY <1>1, <1>2, <1>8, <2>2 DEF TaskEnds, loopVars, WakeInv, GateOpen
  <2>3. QED
    BY <1>8, <2>1, <2>2 DEF TaskEnds
<1>9. ASSUME NEW e \in Event, OpenGate(e) PROVE WakeInv'
  <2>1. blockers > 0 /\ blockers' = blockers - 1 /\ UNCHANGED <<queueVars, loopVars>>
        /\ thread' = [thread EXCEPT ![e] = IF blockers = 1 THEN "wake" ELSE "none"]
    BY <1>2, <1>9 DEF OpenGate
  <2>2. CASE blockers = 1
    <3>1. WakeComing'
      BY <1>1, <2>1, <2>2 DEF WakeComing
    <3>2. QED
      BY <1>1, <2>1, <3>1 DEF loopVars, queueVars, WakeInv
  <2>3. CASE blockers # 1
    BY <1>1, <2>1, <2>3 DEF loopVars, WakeInv, GateOpen
  <2>4. QED
    BY <2>2, <2>3
<1>10. ASSUME NEW e \in Event, Wake(e) PROVE WakeInv'
  BY <1>1, <1>10 DEF Wake, loopVars, queueVars, WakeInv, WakeComing
<1>11. QED
  BY <1>3, <1>4, <1>5, <1>6, <1>7, <1>8, <1>9, <1>10 DEF Next

LEMMA NextRuntimeInv == RuntimeInv /\ [Next]_vars => RuntimeInv'
<1> SUFFICES ASSUME RuntimeInv, [Next]_vars PROVE RuntimeInv'
  OBVIOUS
<1>1. QueueInv'
  BY StepOfQueue, QueueNextInv DEF RuntimeInv
<1>2. QED
  BY <1>1, NextTypeOK, NextFrameInv, NextPullInv, NextGateBalanced, NextHandlePending,
     NextStopInv, NextWakeInv DEF RuntimeInv

LEMMA RuntimeInvariant == Spec => []RuntimeInv
  BY InitRuntimeInv, NextRuntimeInv, PTL DEF Spec

(* The blocker count and the copied event count never leave the naturals.  *)
THEOREM RuntimeTypeCorrect == Spec => []RuntimeTypeOK
<1>1. RuntimeInv => RuntimeTypeOK
  BY DEF RuntimeInv
<1>2. QED
  BY <1>1, RuntimeInvariant, PTL

(* The runtime is an implementation of the queue's specification, so every *)
(* theorem about the queue holds of it.                                    *)
THEOREM RuntimeImplementsQueue == Spec => QueueSpec
<1>1. Init => QueueInit
  BY DEF Init
<1>2. QED
  BY <1>1, StepOfQueue, PTL DEF Spec, QueueSpec

(* open_gate is always balanced by an earlier close_gate.                  *)
THEOREM GateCorrect == Spec => []GateBalanced
<1>1. RuntimeInv => GateBalanced
  BY DEF RuntimeInv
<1>2. QED
  BY <1>1, RuntimeInvariant, PTL

(* The loop never sleeps through an event, an opened gate or a stop.       *)
THEOREM NoLostWakeCorrect == Spec => []NoLostWake
<1>1. RuntimeInv => NoLostWake
  BY DEF RuntimeInv, StopInv, WakeInv, NoLostWake, Runnable, WakeComing
<1>2. QED
  BY <1>1, RuntimeInvariant, PTL

(* complete_after never meets a node that is already completed.            *)
THEOREM HandleCorrect == Spec => []HandlePending
<1>1. RuntimeInv => HandlePending
  BY DEF RuntimeInv
<1>2. QED
  BY <1>1, RuntimeInvariant, PTL

(* The numbers the loop decides on are exact at every moment.              *)
THEOREM CountersCorrect == Spec => []CountersExact
<1>1. []SnapshotCounts /\ []NearestExact /\ []GateBalanced /\ []HandlePending
        => []CountersExact
  BY PTL DEF CountersExact
<1>2. QED
  BY <1>1, RuntimeImplementsQueue, SnapshotCorrect, NearestCorrect, GateCorrect,
     HandleCorrect, PTL

(* No frame of the loop begins while an awaited task holds the gate.       *)
THEOREM FrameWaits == Spec => FrameWaitsForGate
<1>1. RuntimeInv /\ [Next]_vars => [Tick => Blocking = {}]_vars
  <2> SUFFICES ASSUME RuntimeInv, Tick PROVE Blocking = {}
    OBVIOUS
  <2>1. Cardinality(Blocking) = 0
    BY DEF RuntimeInv, Tick, FrameInv, GateOpen, GateBalanced
  <2>2. QED
    BY <2>1, BlockingFinite
<1>2. QED
  BY <1>1, RuntimeInvariant, PTL DEF Spec, FrameWaitsForGate

(* Events keep their order through frames, delays and completions, and a   *)
(* frame reads them in that order, for any number of events.               *)
THEOREM OrderCorrect == Spec => OrderKept
<1>1. QueueInit => FrameRead
  BY DEF QueueInit, FrameRead
<1>2. QueueInv /\ FrameRead /\ [QueueNext]_queueVars => FrameRead'
  BY FrameReadStep
<1>3. QueueInv /\ QueueInv' /\ FrameRead /\ [QueueNext]_queueVars =>
        \A e, f \in Members(Arrival) :
          Position(Arrival, e) < Position(Arrival, f) =>
            /\ {e, f} \subseteq Members(Arrival') =>
                 Position(Arrival', e) < Position(Arrival', f)
            /\ f \in Members(frame') => e \in Between(queue, scan + 1, Len(queue))
  <2> SUFFICES ASSUME QueueInv, QueueInv', FrameRead, [QueueNext]_queueVars,
                      NEW e \in Members(Arrival), NEW f \in Members(Arrival),
                      Position(Arrival, e) < Position(Arrival, f)
               PROVE  /\ {e, f} \subseteq Members(Arrival') =>
                           Position(Arrival', e) < Position(Arrival', f)
                      /\ f \in Members(frame') => e \in Between(queue, scan + 1, Len(queue))
    OBVIOUS
  <2>1. /\ Unique(Arrival) /\ DOMAIN Arrival \subseteq Int
        /\ Unique(Arrival') /\ DOMAIN Arrival' \subseteq Int
    BY ArrivalFacts, ArrivalNext
  <2>2. Ordered(Arrival, Arrival')
    BY StepOrder
  <2>3. {e, f} \subseteq Members(Arrival') => Position(Arrival', e) < Position(Arrival', f)
    BY <2>1, <2>2, OrderOfPart DEF Ordered
  <2>4. f \in Members(frame') => e \in Between(queue, scan + 1, Len(queue))
    BY ReadLast
  <2> QED
    BY <2>3, <2>4
<1>4. QueueSpec => OrderKept
  BY <1>1, <1>2, <1>3, QueueInvariant, PTL DEF QueueSpec, OrderKept
<1> QED
  BY <1>4, RuntimeImplementsQueue, PTL
=============================================================================
