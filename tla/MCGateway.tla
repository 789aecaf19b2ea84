------------------------------ MODULE MCGateway ------------------------------
(* Instances of Gateway: what each request of a client may be. *)
EXTENDS Gateway

CONSTANTS c1, c2, n1, n2, i1, i2

(* a state with a turn under way *)
Large(state) == state.place.working

Register(id, names) == {[kind |-> "register", id |-> id, name |-> name] : name \in names}

Asks(id, kinds) == {[kind |-> kind, id |-> id, name |-> None] : kind \in kinds}

Clients ==
  <<[conn |-> c1, asks |-> Register(i1, {n1})],
    [conn |-> c1, asks |-> Asks(i1, {"state"})
       \cup Asks(i2, {"mcl", "history", "restart", "abort", "definitions",
                      "workspace"})],
    [conn |-> c2, asks |-> Register(i1, {n1, n2})]>>
=============================================================================
