----------------------------- MODULE AtomicStore -----------------------------
(***************************************************************************)
(* What the storage of an Agent promises to those who ask it: a request    *)
(* takes effect at one instant or not at all, and its answer says which,   *)
(* unless it says that this is unknown.  Storage.tla implements it.        *)
(***************************************************************************)
CONSTANTS
  Request,          (* requests, each made once                            *)
  Operation,        (* what a request may ask                              *)
  None,
  Stores,           (* the contents a store may have at first              *)
  Effect(_, _),     (* the contents after an operation                     *)
  View(_, _),       (* what an operation returns                           *)
  Survives(_)       (* what a restart leaves of the contents               *)

VARIABLES store, asked, applied, seen, answer

vars == <<store, asked, applied, seen, answer>>

Init ==
  /\ store \in Stores
  /\ asked = [r \in Request |-> None]
  /\ applied = {}
  /\ seen = [r \in Request |-> None]
  /\ answer = [r \in Request |-> None]

Ask(r) ==
  /\ asked[r] = None
  /\ \E o \in Operation : asked' = [asked EXCEPT ![r] = o]
  /\ UNCHANGED <<store, applied, seen, answer>>

Apply(r) ==
  /\ asked[r] # None
  /\ r \notin applied
  /\ answer[r] = None
  /\ store' = Effect(store, asked[r])
  /\ seen' = [seen EXCEPT ![r] = View(store, asked[r])]
  /\ applied' = applied \cup {r}
  /\ UNCHANGED <<asked, answer>>

(* "closed": the one who asked is told nothing *)
Answer(r) ==
  /\ asked[r] # None
  /\ answer[r] = None
  /\ \E a \in {"ok", "error", "unknown", "closed"} :
       /\ a = "ok" => r \in applied
       /\ a = "error" => r \notin applied
       /\ answer' = [answer EXCEPT ![r] = a]
  /\ UNCHANGED <<store, asked, applied, seen>>

(* the connection ends, or the process with all that was asked of it *)
Restart ==
  /\ store' = Survives(store)
  /\ answer' \in {[r \in Request |-> IF r \in S /\ answer[r] = None /\ asked[r] # None
                                      THEN "closed" ELSE answer[r]] :
                    S \in SUBSET Request}
  /\ UNCHANGED <<asked, applied, seen>>

Next == Restart \/ \E r \in Request : Ask(r) \/ Apply(r) \/ Answer(r)

Spec == Init /\ [][Next]_vars
=============================================================================
