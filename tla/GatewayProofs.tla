---------------------------- MODULE GatewayProofs ----------------------------
(***************************************************************************)
(* The limits of what is in flight, what is left of a connection that is   *)
(* gone, and the order of acknowledgement and reports, for any number of   *)
(* connections and requests and any limits.  The three are proved of one   *)
(* invariant: each connection is sound by itself, a request in flight is   *)
(* of a connection that is not gone, and the counts are within the limits. *)
(***************************************************************************)
EXTENDS Gateway, FiniteSetTheorems, TLAPS

ConnFields == DOMAIN NewConn

(* a connection that is gone has no Client and no receipt; one that counts *)
(* as registered was told so; and none got a frame before                  *)
GoodConn(k) ==
  /\ DOMAIN k = ConnFields
  /\ k.st \in {"open", "closed", "left", "leaving", "gone"}
  /\ k.registered \in BOOLEAN /\ k.current \in BOOLEAN /\ k.acked \in BOOLEAN /\ k.early \in BOOLEAN
  /\ k.st = "gone" => k.client = None /\ ~k.registered /\ ~k.current
  /\ k.registered => k.acked
  /\ ~k.early

GoodReq(q) ==
  /\ DOMAIN q = DOMAIN NoRequest
  /\ q.stage \in {"none", "sent", "asked", "waiting", "result", "answered", "lost"}
  /\ q.held \in BOOLEAN

HeldOf(c) == {r \in Held : ConnOf(r) = c}

Limits ==
  /\ Cardinality(Held) <= Total
  /\ \A c \in Connection : Cardinality(HeldOf(c)) <= PerConnection

WorldOK ==
  /\ place \in Place /\ changes \in 0 .. MaxChanges /\ place.history <= changes
  /\ DOMAIN snap = DOMAIN NoSnap /\ snap.st \in {"none", "reading", "read", "lost"}

GatewayInv ==
  /\ DOMAIN conn = Connection /\ \A c \in Connection : GoodConn(conn[c])
  /\ DOMAIN req = Request /\ \A r \in Request : GoodReq(req[r])
  /\ \A r \in Held : conn[ConnOf(r)].st # "gone"
  /\ Limits
  /\ WorldOK

(***************************************************************************)
(* Counting what is in flight                                              *)
(***************************************************************************)
LEMMA HeldFinite ==
  /\ IsFiniteSet(Held) /\ Cardinality(Held) \in Nat
  /\ \A c : IsFiniteSet(HeldOf(c)) /\ Cardinality(HeldOf(c)) \in Nat
<1>1. IsFiniteSet(Held)
  BY GatewayAssumption, FS_Subset DEF Held
<1>2. ASSUME NEW c PROVE IsFiniteSet(HeldOf(c))
  BY <1>1, FS_Subset DEF HeldOf
<1> QED
  BY <1>1, <1>2, FS_CardinalityType

LEMMA HeldShrinks ==
  ASSUME Limits, Held' \subseteq Held
  PROVE  Limits'
<1>1. IsFiniteSet(Held) /\ IsFiniteSet(Held') /\ Cardinality(Held') <= Cardinality(Held)
  BY HeldFinite, FS_Subset
<1>2. ASSUME NEW c \in Connection
      PROVE  Cardinality(HeldOf(c)') <= PerConnection
  <2>1. HeldOf(c)' \subseteq HeldOf(c)
    BY DEF HeldOf
  <2>2. IsFiniteSet(HeldOf(c)') /\ Cardinality(HeldOf(c)') <= Cardinality(HeldOf(c))
    BY <2>1, HeldFinite, FS_Subset
  <2>3. Cardinality(HeldOf(c)') \in Nat
    BY <2>2, FS_CardinalityType
  <2> QED BY <2>2, <2>3, HeldFinite, GatewayAssumption DEF Limits
<1>3. Cardinality(Held') \in Nat
  BY <1>1, FS_CardinalityType
<1> QED
  BY <1>1, <1>2, <1>3, HeldFinite, GatewayAssumption DEF Limits

(* one request more, when the limits leave room for it *)
LEMMA HeldGrows ==
  ASSUME Limits, NEW r \in Request, WithinLimits(r), Held' \subseteq Held \cup {r}
  PROVE  Limits'
<1>1. ASSUME NEW A, NEW B, IsFiniteSet(A), B \subseteq A \cup {r}, NEW n \in Nat, Cardinality(A) < n
      PROVE  Cardinality(B) <= n
  <2>1. /\ IsFiniteSet(A \cup {r}) /\ Cardinality(A) \in Nat
        /\ Cardinality(A \cup {r}) = IF r \in A THEN Cardinality(A) ELSE Cardinality(A) + 1
    BY <1>1, FS_AddElement, FS_CardinalityType
  <2>2. IsFiniteSet(B) /\ Cardinality(B) <= Cardinality(A \cup {r})
    BY <1>1, <2>1, FS_Subset
  <2>3. Cardinality(B) \in Nat
    BY <2>2, FS_CardinalityType
  <2> QED BY <1>1, <2>1, <2>2, <2>3
<1>2. Cardinality(Held') <= Total
  BY <1>1, HeldFinite, GatewayAssumption DEF WithinLimits
<1>3. ASSUME NEW c \in Connection
      PROVE  Cardinality(HeldOf(c)') <= PerConnection
  <2>1. CASE c = ConnOf(r)
    <3>1. HeldOf(c)' \subseteq HeldOf(c) \cup {r}
      BY DEF HeldOf
    <3>2. Cardinality(HeldOf(c)) < PerConnection
      BY <2>1 DEF WithinLimits, HeldOf
    <3> QED BY <1>1, <3>1, <3>2, HeldFinite, GatewayAssumption
  <2>2. CASE c # ConnOf(r)
    <3>1. HeldOf(c)' \subseteq HeldOf(c)
      BY <2>2 DEF HeldOf, ConnOf
    <3>2. IsFiniteSet(HeldOf(c)') /\ Cardinality(HeldOf(c)') <= Cardinality(HeldOf(c))
      BY <3>1, HeldFinite, FS_Subset
    <3>3. Cardinality(HeldOf(c)') \in Nat
      BY <3>2, FS_CardinalityType
    <3> QED BY <3>2, <3>3, HeldFinite, GatewayAssumption DEF Limits
  <2> QED BY <2>1, <2>2
<1> QED
  BY <1>2, <1>3 DEF Limits

(***************************************************************************)
(* Connections                                                             *)
(***************************************************************************)
(* what a frame, a receipt lost or a state shown leaves of a connection *)
Same(k, j) ==
  /\ DOMAIN j = DOMAIN k
  /\ j.st = k.st /\ j.client = k.client /\ j.registered = k.registered
  /\ j.acked = k.acked /\ j.early = k.early /\ j.current \in {k.current, FALSE}

LEMMA SameGood ==
  ASSUME NEW k, NEW j, GoodConn(k), Same(k, j)
  PROVE  GoodConn(j)
  BY DEF GoodConn, Same

LEMMA SendSame ==
  ASSUME NEW c, NEW fits, GoodConn(conn[c])
  PROVE  Same(conn[c], Send(c, fits))
  BY DEF Same, Send, GoodConn, ConnFields, NewConn

LEMMA SendsSame ==
  ASSUME GatewayInv, NEW x, Sends(x) \/ UNCHANGED conn
  PROVE  DOMAIN conn' = Connection /\ \A c \in Connection : Same(conn[c], conn'[c])
<1>1. CASE UNCHANGED conn
  BY <1>1 DEF GatewayInv, GoodConn, Same
<1>2. CASE Sends(x)
  <2>1. PICK fits : conn' = [conn EXCEPT ![x] = Send(x, fits)]
    BY <1>2 DEF Sends
  <2>2. ASSUME NEW c \in Connection PROVE Same(conn[c], conn'[c])
    <3>1. CASE c = x
      BY <2>1, <3>1, SendSame DEF GatewayInv
    <3>2. CASE c # x
      BY <2>1, <3>2 DEF GatewayInv, Same
    <3> QED BY <3>1, <3>2
  <2> QED BY <2>1, <2>2 DEF GatewayInv
<1> QED
  BY <1>1, <1>2

(***************************************************************************)
(* Requests                                                                *)
(***************************************************************************)
LEMMA OverGood ==
  ASSUME NEW r
  PROVE  GoodReq(Over(r)) /\ ~Over(r).held /\ GoodReq(Lost) /\ ~Lost.held
<1>1. PICK s \in {"answered", "lost"} : Over(r) = [NoRequest EXCEPT !.stage = s]
  BY DEF Over
<1> QED
  BY <1>1 DEF Lost, NoRequest, GoodReq

(* a step that leaves the connections as they are, but for frames, and     *)
(* takes no request into flight                                            *)
LEMMA QuietStep ==
  ASSUME GatewayInv, DOMAIN conn' = Connection, \A c \in Connection : Same(conn[c], conn'[c]),
         DOMAIN req' = Request, \A r \in Request : GoodReq(req'[r]), Held' \subseteq Held, WorldOK'
  PROVE  GatewayInv'
<1>1. \A c \in Connection : GoodConn(conn'[c])
  BY SameGood DEF GatewayInv
<1>2. Limits'
  BY HeldShrinks DEF GatewayInv
<1>3. \A r \in Held' : conn'[ConnOf(r)].st # "gone"
  BY GatewayAssumption DEF GatewayInv, Same, Held, ConnOf
<1> QED
  BY <1>1, <1>2, <1>3 DEF GatewayInv

LEMMA OneRequest ==
  ASSUME GatewayInv, NEW r \in Request, NEW q, req' = [req EXCEPT ![r] = q],
         GoodReq(q), q.held => req[r].held
  PROVE  DOMAIN req' = Request /\ (\A p \in Request : GoodReq(req'[p])) /\ Held' \subseteq Held
  BY DEF GatewayInv, Held

LEMMA Settles ==
  ASSUME GatewayInv, NEW r \in Request, NEW x,
         \E p : req' = [req EXCEPT ![r] = IF p THEN Over(r) ELSE Lost],
         Sends(x) \/ UNCHANGED conn, WorldOK'
  PROVE  GatewayInv'
<1>1. PICK q : req' = [req EXCEPT ![r] = q] /\ GoodReq(q) /\ ~q.held
  BY OverGood
<1>2. DOMAIN req' = Request /\ (\A p \in Request : GoodReq(req'[p])) /\ Held' \subseteq Held
  BY <1>1, OneRequest
<1> QED
  BY <1>2, SendsSame, QuietStep

LEMMA WorldSame ==
  ASSUME WorldOK, UNCHANGED <<place, snap, changes>>
  PROVE  WorldOK'
  BY DEF WorldOK

LEMMA AskInv ==
  ASSUME GatewayInv, NEW r \in Request, Ask(r)
  PROVE  GatewayInv'
<1>1. PICK ask : req' = [req EXCEPT ![r] = [NoRequest EXCEPT !.stage = "sent", !.kind = ask.kind,
                                                            !.id = ask.id, !.name = ask.name]]
  BY DEF Ask
<1>2. PICK q : req' = [req EXCEPT ![r] = q] /\ GoodReq(q) /\ ~q.held
  <2> DEFINE q == [NoRequest EXCEPT !.stage = "sent", !.kind = ask.kind, !.id = ask.id, !.name = ask.name]
  <2>1. GoodReq(q) /\ ~q.held
    BY DEF NoRequest, GoodReq
  <2> QED BY <1>1, <2>1
<1>3. DOMAIN req' = Request /\ (\A p \in Request : GoodReq(req'[p])) /\ Held' \subseteq Held
  BY <1>2, OneRequest
<1>4. WorldOK' /\ UNCHANGED conn
  BY WorldSame DEF Ask, GatewayInv
<1> QED
  BY <1>3, <1>4, SendsSame, QuietStep

LEMMA SettlesInv ==
  ASSUME GatewayInv, NEW r \in Request,
         \/ Ignore(r) \/ Refuse(r) \/ Define(r) \/ AbortControl(r) \/ WorkspaceResult(r)
  PROVE  GatewayInv'
<1>1. CASE Ignore(r)
  <2>1. req' = [req EXCEPT ![r] = IF FALSE THEN Over(r) ELSE Lost]
    BY <1>1 DEF Ignore
  <2> QED BY <1>1, <2>1, Settles, WorldSame DEF Ignore, GatewayInv
<1>2. CASE Refuse(r) \/ Define(r)
  <2>1. req' = [req EXCEPT ![r] = IF TRUE THEN Over(r) ELSE Lost]
    BY <1>2 DEF Refuse, Define
  <2> QED BY <1>2, <2>1, Settles, WorldSame DEF Refuse, Define, GatewayInv
<1>3. CASE WorkspaceResult(r)
  <2>1. req' = [req EXCEPT ![r] = IF Live(r) THEN Over(r) ELSE Lost]
    BY <1>3 DEF WorkspaceResult
  <2> QED BY <1>3, <2>1, Settles, WorldSame DEF WorkspaceResult, GatewayInv
<1>4. CASE AbortControl(r)
  <2>1. req' = [req EXCEPT ![r] = IF Live(r) THEN Over(r) ELSE Lost]
    BY <1>4 DEF AbortControl
  <2>2. WorldOK'
    <3>1. place' = place \/ place' = [place EXCEPT !.working = FALSE]
      BY <1>4 DEF AbortControl
    <3> QED BY <1>4, <3>1 DEF AbortControl, GatewayInv, WorldOK, Place
  <2> QED BY <1>4, <2>1, <2>2, Settles DEF AbortControl
<1> QED
  BY <1>1, <1>2, <1>3, <1>4

LEMMA FinishInv ==
  ASSUME GatewayInv, NEW r \in Request, Finish(r)
  PROVE  GatewayInv'
<1>1. PICK result : req' = [req EXCEPT ![r].stage = "result", ![r].result = result]
  BY DEF Finish
<1>2. DOMAIN req' = Request /\ (\A p \in Request : GoodReq(req'[p])) /\ Held' \subseteq Held
  BY <1>1 DEF GatewayInv, GoodReq, NoRequest, Held
<1>3. WorldOK' /\ UNCHANGED conn
  BY WorldSame DEF Finish, GatewayInv
<1> QED
  BY <1>2, <1>3, SendsSame, QuietStep

(* the only step that takes a request into flight: its connection is there *)
LEMMA AcceptInv ==
  ASSUME GatewayInv, NEW r \in Request, Accept(r)
  PROVE  GatewayInv'
<1>1. WithinLimits(r) /\ conn[ConnOf(r)].st = "open"
  BY DEF Accept, First, Requests, Due, Kinds, Awaited, Routable, Trackable, Connected
<1>2. PICK s \in {"waiting", "asked"} :
        \E t : req' = [req EXCEPT ![r].stage = s, ![r].due = FALSE, ![r].held = TRUE, ![r].target = t]
  BY DEF Accept
<1>3. DOMAIN req' = Request /\ (\A p \in Request : GoodReq(req'[p])) /\ Held' \subseteq Held \cup {r}
  <2>1. PICK t : req' = [req EXCEPT ![r].stage = s, ![r].due = FALSE, ![r].held = TRUE, ![r].target = t]
    BY <1>2
  <2> QED BY <2>1 DEF GatewayInv, GoodReq, NoRequest, Held
<1>4. Limits'
  BY <1>1, <1>3, HeldGrows DEF GatewayInv
<1>5. UNCHANGED conn /\ WorldOK'
  BY WorldSame DEF Accept, GatewayInv
<1>6. \A p \in Held' : conn'[ConnOf(p)].st # "gone"
  BY <1>1, <1>3, <1>5 DEF GatewayInv, ConnOf
<1> QED
  BY <1>3, <1>4, <1>5, <1>6 DEF GatewayInv

(***************************************************************************)
(* Connections that come, register and go                                  *)
(***************************************************************************)
(* one connection changes, and it is sound; no request of it is in flight  *)
(* if it is gone                                                           *)
LEMMA OneConnection ==
  ASSUME GatewayInv, NEW c \in Connection, NEW k, conn' = [conn EXCEPT ![c] = k],
         GoodConn(k), k.st # "gone" \/ conn[c].st = "gone",
         DOMAIN req' = Request, \A r \in Request : GoodReq(req'[r]), Held' \subseteq Held,
         UNCHANGED <<place, snap, changes>>
  PROVE  GatewayInv'
<1>1. DOMAIN conn' = Connection /\ \A d \in Connection : GoodConn(conn'[d])
  BY DEF GatewayInv
<1>2. Limits' /\ WorldOK'
  BY HeldShrinks, WorldSame DEF GatewayInv
<1>3. \A r \in Held' : conn'[ConnOf(r)].st # "gone"
  BY GatewayAssumption DEF GatewayInv, Held, ConnOf
<1> QED
  BY <1>1, <1>2, <1>3 DEF GatewayInv

LEMMA CloseInv ==
  ASSUME GatewayInv, NEW c \in Connection, Close(c) \/ Drop(c)
  PROVE  GatewayInv'
<1>1. GoodConn(conn[c])
  BY DEF GatewayInv
<1>2. CASE Close(c)
  <2> DEFINE k == [conn[c] EXCEPT !.st = "closed", !.cancelled = FALSE, !.shown = None]
  <2>1. conn' = [conn EXCEPT ![c] = k]
    BY <1>2 DEF Close, GatewayInv
  <2>2. GoodConn(k) /\ k.st # "gone"
    BY <1>1 DEF GoodConn, ConnFields, NewConn
  <2> HIDE DEF k
  <2> QED BY <1>2, <2>1, <2>2, OneConnection DEF Close, GatewayInv, Held
<1>3. CASE Drop(c)
  <2> DEFINE k == [conn[c] EXCEPT !.st = "left"]
  <2>1. conn' = [conn EXCEPT ![c] = k]
    BY <1>3 DEF Drop, GatewayInv
  <2>2. GoodConn(k) /\ k.st # "gone"
    BY <1>1 DEF GoodConn, ConnFields, NewConn
  <2> HIDE DEF k
  <2> QED BY <1>3, <2>1, <2>2, OneConnection DEF Drop, GatewayInv, Held
<1> QED
  BY <1>2, <1>3

LEMMA RegisterInv ==
  ASSUME GatewayInv, NEW r \in Request, RegisterClient(r)
  PROVE  GatewayInv'
<1> DEFINE c == ConnOf(r)
<1>1. c \in Connection /\ GoodConn(conn[c])
  BY GatewayAssumption DEF GatewayInv, ConnOf
<1>2. DOMAIN req' = Request /\ (\A p \in Request : GoodReq(req'[p])) /\ Held' \subseteq Held
  <2>1. PICK result : req' = [req EXCEPT ![r].stage = "result", ![r].due = FALSE, ![r].result = result]
    BY DEF RegisterClient
  <2> QED BY <2>1 DEF GatewayInv, GoodReq, NoRequest, Held
<1>3. UNCHANGED <<place, snap, changes>>
  BY DEF RegisterClient
<1>4. CASE Registrable(r)
  <2> DEFINE k == [conn[c] EXCEPT !.client = req[r].name]
  <2>1. conn' = [conn EXCEPT ![c] = k]
    BY <1>4 DEF RegisterClient, GatewayInv
  <2>2. GoodConn(k) /\ k.st # "gone"
    BY <1>1, <1>4 DEF GoodConn, ConnFields, NewConn, Registrable, Connected
  <2> HIDE DEF k, c
  <2> QED BY <1>1, <1>2, <1>3, <2>1, <2>2, OneConnection
<1>5. CASE ~Registrable(r)
  <2>1. UNCHANGED conn /\ WorldOK'
    BY <1>3, <1>5, WorldSame DEF RegisterClient, GatewayInv
  <2> QED BY <1>2, <2>1, SendsSame, QuietStep
<1> QED
  BY <1>4, <1>5

LEMMA RegistrationInv ==
  ASSUME GatewayInv, NEW r \in Request, RegistrationDone(r)
  PROVE  GatewayInv'
<1> DEFINE c == ConnOf(r)
           ok == req[r].result = "ok"
<1>1. c \in Connection /\ GoodConn(conn[c])
  BY GatewayAssumption DEF GatewayInv, ConnOf
<1>2. DOMAIN req' = Request /\ (\A p \in Request : GoodReq(req'[p])) /\ Held' \subseteq Held
  <2>1. PICK q : req' = [req EXCEPT ![r] = q] /\ GoodReq(q) /\ ~q.held
    BY OverGood DEF RegistrationDone
  <2> QED BY <2>1, OneRequest
<1>3. UNCHANGED <<place, snap, changes>>
  BY DEF RegistrationDone
<1>4. PICK fits : conn' = IF ~Connected(c)
               THEN IF ok THEN [conn EXCEPT ![c].client = None] ELSE conn
               ELSE IF ~req[r].held THEN conn
               ELSE [conn EXCEPT ![c] =
                       [Send(c, fits) EXCEPT !.registered = @ \/ (ok /\ fits),
                                             !.acked = @ \/ (ok /\ fits)]]
  BY DEF RegistrationDone
<1>5. CASE UNCHANGED conn
  BY <1>2, <1>3, <1>5, SendsSame, QuietStep, WorldSame DEF GatewayInv
<1>6. CASE ~Connected(c) /\ conn' = [conn EXCEPT ![c].client = None]
  <2> DEFINE k == [conn[c] EXCEPT !.client = None]
  <2>1. conn' = [conn EXCEPT ![c] = k]
    BY <1>6 DEF GatewayInv
  <2>2. GoodConn(k) /\ k.st = conn[c].st
    BY <1>1 DEF GoodConn, ConnFields, NewConn
  <2> HIDE DEF k, c
  <2> QED BY <1>1, <1>2, <1>3, <2>1, <2>2, OneConnection
<1>7. CASE /\ Connected(c)
           /\ conn' = [conn EXCEPT ![c] = [Send(c, fits) EXCEPT !.registered = @ \/ (ok /\ fits),
                                                                !.acked = @ \/ (ok /\ fits)]]
  <2> DEFINE told == ok /\ fits
             k == [Send(c, fits) EXCEPT !.registered = @ \/ told, !.acked = @ \/ told]
  <2>1. Same(conn[c], Send(c, fits))
    BY <1>1, SendSame
  <2>2. GoodConn(Send(c, fits)) /\ Send(c, fits).st = "open"
    BY <1>1, <1>7, <2>1, SameGood DEF Same, Connected
  <2>3. GoodConn(k) /\ k.st # "gone"
    <3>1. told \in BOOLEAN
      OBVIOUS
    <3> HIDE DEF told
    <3> QED BY <2>2, <3>1 DEF GoodConn, ConnFields, NewConn
  <2>4. conn' = [conn EXCEPT ![c] = k]
    BY <1>7
  <2> HIDE DEF k, c
  <2> QED BY <1>1, <1>2, <1>3, <2>3, <2>4, OneConnection
<1> QED
  BY <1>4, <1>5, <1>6, <1>7

LEMMA ForgetGood ==
  ASSUME NEW c, GoodConn(conn[c])
  PROVE  GoodConn(Forget(c))
<1>1. conn[c].early = FALSE
  BY DEF GoodConn
<1>2. Forget(c) = [NewConn EXCEPT !.st = "gone", !.early = FALSE]
  BY <1>1 DEF Forget
<1> QED
  BY <1>2 DEF GoodConn, ConnFields, NewConn

(* a connection leaves, and with it what it had in flight *)
LEMMA DisconnectInv ==
  ASSUME GatewayInv, NEW c \in Connection, Disconnect(c)
  PROVE  GatewayInv'
<1>1. conn' = [conn EXCEPT ![c] = Forget(c)] /\ UNCHANGED <<place, snap, changes>>
  BY DEF Disconnect
<1>2. DOMAIN conn' = Connection /\ \A d \in Connection : GoodConn(conn'[d])
  BY <1>1, ForgetGood DEF GatewayInv
<1>3. DOMAIN req' = Request
  BY DEF Disconnect
<1>4. ASSUME NEW r \in Request
      PROVE  /\ GoodReq(req'[r])
             /\ req'[r].held => req[r].held /\ ConnOf(r) # c
  <2>1. GoodReq(req[r])
    BY DEF GatewayInv
  <2>2. CASE ConnOf(r) # c \/ ~req[r].held
    <3>1. req'[r] = req[r]
      BY <2>2 DEF Disconnect
    <3> QED BY <2>1, <2>2, <3>1
  <2>3. CASE ConnOf(r) = c /\ req[r].held
    <3>1. req'[r] = [req[r] EXCEPT !.held = FALSE] \/ req'[r] = Lost
      BY <2>3 DEF Disconnect
    <3> QED BY <2>1, <3>1, OverGood DEF GoodReq, NoRequest
  <2> QED BY <2>2, <2>3
<1>5. Held' \subseteq Held /\ \A r \in Held' : ConnOf(r) # c
  BY <1>4 DEF Held
<1>6. Limits' /\ WorldOK'
  BY <1>1, <1>5, HeldShrinks, WorldSame DEF GatewayInv
<1>7. \A r \in Held' : conn'[ConnOf(r)].st # "gone"
  BY <1>1, <1>5, GatewayAssumption DEF GatewayInv, Held, ConnOf
<1> QED
  BY <1>2, <1>3, <1>4, <1>6, <1>7 DEF GatewayInv

(***************************************************************************)
(* The frame                                                               *)
(***************************************************************************)
LEMMA BeginInv ==
  ASSUME GatewayInv, Begin
  PROVE  GatewayInv'
<1>1. DOMAIN conn' = Connection /\ DOMAIN req' = Request
  BY DEF Begin
<1>2. ASSUME NEW c \in Connection
      PROVE  GoodConn(conn'[c]) /\ (conn'[c].st = "gone" => conn[c].st = "gone")
  <2>1. conn'[c] = conn[c] \/ conn'[c] = [conn[c] EXCEPT !.st = "leaving"]
    BY DEF Begin
  <2> QED BY <2>1 DEF GatewayInv, GoodConn, ConnFields, NewConn
<1>3. ASSUME NEW r \in Request
      PROVE  GoodReq(req'[r]) /\ req'[r].held = req[r].held
  <2>1. PICK due : req'[r] = [req[r] EXCEPT !.due = due]
    BY DEF Begin
  <2> QED BY <2>1 DEF GatewayInv, GoodReq, NoRequest
<1>4. Held' = Held
  BY <1>3 DEF Held
<1>5. Limits'
  BY <1>4, HeldShrinks DEF GatewayInv
<1>6. WorldOK'
  <2>1. PICK due : snap' = [snap EXCEPT !.due = due]
    BY DEF Begin
  <2> QED BY <2>1 DEF Begin, GatewayInv, WorldOK, NoSnap
<1>7. \A r \in Held' : conn'[ConnOf(r)].st # "gone"
  BY <1>2, <1>4, GatewayAssumption DEF GatewayInv, Held, ConnOf
<1> QED
  BY <1>1, <1>2, <1>3, <1>5, <1>6, <1>7 DEF GatewayInv

LEMMA ResponseInv ==
  ASSUME GatewayInv, NEW r \in Request, Response(r)
  PROVE  GatewayInv'
<1> DEFINE x == ConnOf(r)
           sent(fits) == IF Live(r) THEN [conn EXCEPT ![x] = Send(x, fits)] ELSE conn
<1>1. PICK fits : conn' = sent(fits) \/ conn' = Bumped(sent(fits))
  BY DEF Response
<1>2. DOMAIN sent(fits) = Connection /\ \A c \in Connection : Same(conn[c], sent(fits)[c])
  <2>1. ASSUME NEW c \in Connection PROVE Same(conn[c], sent(fits)[c])
    <3>1. sent(fits)[c] = conn[c] \/ (c = x /\ sent(fits)[c] = Send(x, fits))
      BY DEF GatewayInv
    <3>2. GoodConn(conn[c]) /\ Same(conn[c], conn[c])
      BY DEF GatewayInv, Same
    <3> HIDE DEF sent, x
    <3> QED BY <3>1, <3>2, SendSame
  <2> QED BY <2>1 DEF GatewayInv
<1> HIDE DEF sent
<1>3. DOMAIN conn' = Connection /\ \A c \in Connection : Same(conn[c], conn'[c])
  <2>1. CASE conn' = sent(fits)
    BY <1>2, <2>1
  <2>2. CASE conn' = Bumped(sent(fits))
    <3>1. ASSUME NEW c \in Connection PROVE Same(conn[c], conn'[c])
      <4>1. conn'[c] = [sent(fits)[c] EXCEPT !.current = FALSE]
        BY <2>2 DEF Bumped
      <4>2. Same(conn[c], sent(fits)[c]) /\ DOMAIN conn[c] = ConnFields
        BY <1>2 DEF GatewayInv, GoodConn
      <4> QED BY <4>1, <4>2 DEF Same, ConnFields, NewConn
    <3> QED BY <2>2, <3>1 DEF Bumped
  <2> QED BY <1>1, <2>1, <2>2
<1>4. DOMAIN req' = Request /\ (\A p \in Request : GoodReq(req'[p])) /\ Held' \subseteq Held
  <2>1. PICK q : req' = [req EXCEPT ![r] = q] /\ GoodReq(q) /\ ~q.held
    BY OverGood DEF Response
  <2> QED BY <2>1, OneRequest
<1>5. WorldOK'
  BY WorldSame DEF Response, GatewayInv
<1> QED
  BY <1>3, <1>4, <1>5, QuietStep

(***************************************************************************)
(* Snapshots, the log and the state                                        *)
(***************************************************************************)
(* what a step does to a connection that gets a frame, has a state shown   *)
(* and a receipt kept or lost                                              *)
LEMMA ShownSame ==
  ASSUME NEW k, GoodConn(k), NEW j, Same(k, j), NEW s
  PROVE  Same(k, [j EXCEPT !.shown = s])
  BY DEF Same, GoodConn, ConnFields, NewConn

LEMMA ReceiptSame ==
  ASSUME NEW k, GoodConn(k), NEW j, Same(k, j), NEW u \in {j.current, FALSE}
  PROVE  Same(k, [j EXCEPT !.current = u])
  BY DEF Same, GoodConn, ConnFields, NewConn

(* a frame nobody asked for goes to those that were told *)
LEMMA PushSame ==
  ASSUME NEW c, GoodConn(conn[c]), Recipient(c), NEW fits
  PROVE  Same(conn[c], Push(c, fits))
<1>1. conn[c].acked /\ ~conn[c].early /\ conn[c].acked \in BOOLEAN /\ conn[c].early \in BOOLEAN
  BY DEF GoodConn, Recipient
<1>2. Same(conn[c], Send(c, fits)) /\ DOMAIN Send(c, fits) = ConnFields
  BY SendSame DEF Same, GoodConn
<1>3. Push(c, fits) = [Send(c, fits) EXCEPT !.early = Send(c, fits).early \/ ~conn[c].acked]
  BY DEF Push
<1>4. (Send(c, fits).early \/ ~conn[c].acked) = conn[c].early
  BY <1>1, <1>2 DEF Same
<1> QED
  BY <1>2, <1>3, <1>4 DEF Same, ConnFields, NewConn

(* the requests that waited for a snapshot are over *)
LEMMA WaitersGood ==
  ASSUME GatewayInv, req' = [r \in Request |-> IF r \in Waiters THEN Reply(r) ELSE req[r]]
  PROVE  DOMAIN req' = Request /\ (\A r \in Request : GoodReq(req'[r])) /\ Held' \subseteq Held
<1>1. ASSUME NEW r \in Request
      PROVE  GoodReq(req'[r]) /\ (req'[r].held => req[r].held)
  <2>1. GoodReq(Reply(r)) /\ ~Reply(r).held
    BY OverGood DEF Reply
  <2> QED BY <2>1 DEF GatewayInv
<1> QED
  BY <1>1 DEF Held

LEMMA SnapshotInv ==
  ASSUME GatewayInv, SnapshotFailed \/ SnapshotRefused \/ SnapshotTaken
  PROVE  GatewayInv'
<1>1. WorldOK'
  BY DEF SnapshotFailed, SnapshotRefused, SnapshotTaken, GatewayInv, WorldOK, NoSnap
<1>2. CASE SnapshotFailed
  <2>1. UNCHANGED <<conn, req>>
    BY <1>2 DEF SnapshotFailed
  <2> QED BY <1>1, <2>1, SendsSame, QuietStep DEF GatewayInv, Held
<1>3. CASE SnapshotRefused
  <2>1. DOMAIN req' = Request /\ (\A r \in Request : GoodReq(req'[r])) /\ Held' \subseteq Held
    BY <1>3, WaitersGood DEF SnapshotRefused
  <2>2. PICK fits \in Room :
          conn' = [c \in Connection |-> IF ServedOn(c) THEN Send(c, fits[c]) ELSE conn[c]]
    BY <1>3 DEF SnapshotRefused
  <2>3. ASSUME NEW c \in Connection PROVE Same(conn[c], conn'[c])
    <3>1. GoodConn(conn[c]) /\ Same(conn[c], conn[c])
      BY DEF GatewayInv, Same
    <3> QED BY <2>2, <3>1, SendSame
  <2> QED BY <1>1, <2>1, <2>2, <2>3, QuietStep
<1>4. CASE SnapshotTaken
  <2> DEFINE state == [place |-> Metadata, history |-> snap.history]
             changed == state # cache.state
             answered(c, fits) ==
               IF ServedOn(c)
               THEN [Send(c, fits) EXCEPT !.shown = IF fits /\ Carried(state) THEN state ELSE @]
               ELSE conn[c]
  <2>1. DOMAIN req' = Request /\ (\A r \in Request : GoodReq(req'[r])) /\ Held' \subseteq Held
    BY <1>4, WaitersGood DEF SnapshotTaken
  <2>2. PICK fits \in Room :
          conn' = [c \in Connection |-> [answered(c, fits[c]) EXCEPT !.current = @ /\ ~changed]]
    BY <1>4 DEF SnapshotTaken
  <2>3. ASSUME NEW c \in Connection PROVE Same(conn[c], conn'[c])
    <3>1. GoodConn(conn[c]) /\ Same(conn[c], conn[c]) /\ Same(conn[c], Send(c, fits[c]))
      BY SendSame DEF GatewayInv, Same
    <3>2. answered(c, fits[c]) = conn[c]
          \/ \E s : answered(c, fits[c]) = [Send(c, fits[c]) EXCEPT !.shown = s]
      OBVIOUS
    <3>3. Same(conn[c], answered(c, fits[c]))
      BY <3>1, <3>2, ShownSame
    <3>4. conn'[c] = [answered(c, fits[c]) EXCEPT !.current = @ /\ ~changed]
      BY <2>2
    <3> HIDE DEF answered, changed
    <3>5. answered(c, fits[c]).current \in BOOLEAN
      BY <3>1, <3>3 DEF GoodConn, Same
    <3>6. \E u \in {answered(c, fits[c]).current, FALSE} :
            conn'[c] = [answered(c, fits[c]) EXCEPT !.current = u]
      BY <3>4, <3>5
    <3>7. \A j : Same(conn[c], j) => \A u \in {j.current, FALSE} : Same(conn[c], [j EXCEPT !.current = u])
      BY <3>1, ReceiptSame
    <3> QED BY <3>3, <3>6, <3>7
  <2> QED BY <1>1, <2>1, <2>2, <2>3, QuietStep
<1> QED
  BY <1>2, <1>3, <1>4

LEMMA LogInv ==
  ASSUME GatewayInv, Log
  PROVE  GatewayInv'
<1>1. PICK fits \in Room :
        conn' = [c \in Connection |-> IF Recipient(c) THEN Push(c, fits[c]) ELSE conn[c]]
  BY DEF Log
<1>2. ASSUME NEW c \in Connection PROVE Same(conn[c], conn'[c])
  <2>1. GoodConn(conn[c]) /\ Same(conn[c], conn[c])
    BY DEF GatewayInv, Same
  <2> QED BY <1>1, <2>1, PushSame
<1>3. WorldOK' /\ UNCHANGED req
  BY WorldSame DEF Log, GatewayInv
<1> QED
  BY <1>1, <1>2, <1>3, QuietStep DEF GatewayInv, Held

(* the state goes to recipients only, who become current *)
LEMMA PublishInv ==
  ASSUME GatewayInv, NEW passed \in BOOLEAN, Publish(passed)
  PROVE  GatewayInv'
<1>1. PICK fits \in Room :
        conn' = [c \in Connection |->
          IF c \in Owed /\ Publishable /\ Carried(cache.state)
          THEN [Push(c, fits[c]) EXCEPT !.current = fits[c],
                                        !.shown = IF fits[c] THEN cache.state ELSE @]
          ELSE [conn[c] EXCEPT !.current = @ /\ Recipient(c)]]
  BY DEF Publish
<1>2. ASSUME NEW c \in Connection
      PROVE  GoodConn(conn'[c]) /\ conn'[c].st = conn[c].st
  <2>1. GoodConn(conn[c]) /\ Same(conn[c], conn[c]) /\ fits[c] \in BOOLEAN
    BY DEF GatewayInv, Same, Room
  <2>2. CASE c \in Owed /\ Publishable /\ Carried(cache.state)
    <3>1. Recipient(c) /\ Same(conn[c], Push(c, fits[c]))
      BY <2>1, <2>2, PushSame DEF Owed
    <3>2. PICK s : conn'[c] = [Push(c, fits[c]) EXCEPT !.current = fits[c], !.shown = s]
      BY <1>1, <2>2
    <3> QED BY <2>1, <3>1, <3>2 DEF GoodConn, Same, ConnFields, NewConn, Recipient, Connected
  <2>3. CASE ~(c \in Owed /\ Publishable /\ Carried(cache.state))
    <3>1. conn'[c] = [conn[c] EXCEPT !.current = @ /\ Recipient(c)]
      BY <1>1, <2>3
    <3>2. \E u \in {conn[c].current, FALSE} : conn'[c] = [conn[c] EXCEPT !.current = u]
      BY <2>1, <3>1 DEF GoodConn
    <3>3. \A u \in {conn[c].current, FALSE} : Same(conn[c], [conn[c] EXCEPT !.current = u])
      BY <2>1, ReceiptSame
    <3>4. Same(conn[c], conn'[c])
      BY <3>2, <3>3
    <3> QED BY <2>1, <3>4, SameGood DEF Same
  <2> QED BY <2>2, <2>3
<1>3. WorldOK'
  <2>1. snap' = snap \/ \E t : snap' = [NoSnap EXCEPT !.st = "reading", !.target = t]
    BY DEF Publish
  <2> QED BY <2>1 DEF Publish, GatewayInv, WorldOK, NoSnap
<1>4. UNCHANGED req /\ Held' = Held /\ DOMAIN conn' = Connection
  BY <1>1 DEF Publish, Held
<1>5. Limits'
  BY <1>4, HeldShrinks DEF GatewayInv
<1>6. \A r \in Held' : conn'[ConnOf(r)].st # "gone"
  BY <1>2, <1>4, GatewayAssumption DEF GatewayInv, Held, ConnOf
<1> QED
  BY <1>2, <1>3, <1>4, <1>5, <1>6 DEF GatewayInv

LEMMA PlaceStep ==
  ASSUME NEW p \in Place
  PROVE  /\ \A w \in BOOLEAN : [p EXCEPT !.working = w] \in Place /\ [p EXCEPT !.working = w].history = p.history
         /\ \A h \in 0 .. MaxChanges : [p EXCEPT !.history = h] \in Place /\ [p EXCEPT !.history = h].history = h
         /\ \A n \in 0 .. MaxChanges :
              /\ [p EXCEPT !.instance = n, !.working = FALSE] \in Place
              /\ [p EXCEPT !.instance = n, !.working = FALSE].history = p.history
              /\ [p EXCEPT !.agent = n, !.instance = n] \in Place
              /\ [p EXCEPT !.agent = n, !.instance = n].history = p.history
         /\ [p EXCEPT !.agent = None, !.working = FALSE] \in Place
         /\ [p EXCEPT !.agent = None, !.working = FALSE].history = p.history
  BY DEF Place

LEMMA WorldInv ==
  ASSUME GatewayInv, ReadHistory \/ FailSnapshot \/ World
  PROVE  GatewayInv'
<1>1. UNCHANGED <<conn, req>>
  BY DEF ReadHistory, FailSnapshot, World, Grow, Turn, Restart, Move, Change
<1>2. WorldOK'
  <2>1. WorldOK
    BY DEF GatewayInv
  <2>2. CASE ReadHistory
    <3>1. PICK h : snap' = [snap EXCEPT !.st = "read", !.history = h]
      BY <2>2 DEF ReadHistory
    <3> QED BY <2>1, <2>2, <3>1 DEF ReadHistory, WorldOK, NoSnap
  <2>3. CASE FailSnapshot
    <3>1. PICK s \in {"lost", "read"} : snap' = [snap EXCEPT !.st = s, !.history = Error]
      BY <2>3 DEF FailSnapshot
    <3>2. changes < MaxChanges /\ changes' = changes + 1 /\ UNCHANGED place
      BY <2>3 DEF FailSnapshot
    <3>3. changes' \in 0 .. MaxChanges /\ place.history <= changes'
      BY <2>1, <3>2, GatewayAssumption DEF WorldOK, Place
    <3> QED BY <2>1, <3>1, <3>2, <3>3 DEF WorldOK, NoSnap
  <2>4. CASE World
    <3>1. changes < MaxChanges /\ changes' = changes + 1 /\ UNCHANGED snap
      BY <2>4 DEF World, Grow, Turn, Restart, Move, Change
    <3>2. changes' \in 1 .. MaxChanges /\ place.history \in 0 .. MaxChanges
      BY <2>1, <3>1, GatewayAssumption DEF WorldOK, Place
    <3>3. place' \in Place /\ place'.history <= changes'
      <4>1. /\ place \in Place /\ place.history <= changes /\ changes' \in 0 .. MaxChanges
            /\ place.history <= changes'
        BY <2>1, <3>1, <3>2 DEF WorldOK, Place
      <4>2. CASE Grow
        <5>1. PICK h : h = place.history + 1 /\ place' = [place EXCEPT !.history = h]
          BY <4>2 DEF Grow, Change
        <5>2. h \in 0 .. MaxChanges /\ h <= changes'
          BY <2>1, <3>1, <3>2, <5>1, GatewayAssumption DEF WorldOK
        <5> QED BY <4>1, <5>1, <5>2, PlaceStep
      <4>3. CASE Turn
        <5>1. PICK w \in BOOLEAN : place' = [place EXCEPT !.working = w]
          BY <4>3 DEF Turn, Change
        <5> QED BY <3>2, <4>1, <5>1, PlaceStep
      <4>4. CASE Restart
        <5>1. place' = [place EXCEPT !.instance = changes', !.working = FALSE]
          BY <3>1, <4>4 DEF Restart, Change
        <5> QED BY <3>2, <4>1, <5>1, PlaceStep
      <4>5. CASE Move
        <5>1. \/ place' = [place EXCEPT !.agent = changes', !.instance = changes']
              \/ place' = [place EXCEPT !.agent = None, !.working = FALSE]
          BY <3>1, <4>5 DEF Move, Change
        <5>2. CASE place' = [place EXCEPT !.agent = changes', !.instance = changes']
          BY <3>2, <4>1, <5>2, PlaceStep
        <5>3. CASE place' = [place EXCEPT !.agent = None, !.working = FALSE]
          BY <4>1, <5>3, PlaceStep
        <5> QED BY <5>1, <5>2, <5>3
      <4> QED BY <2>4, <4>2, <4>3, <4>4, <4>5 DEF World
    <3> QED BY <2>1, <3>1, <3>2, <3>3 DEF WorldOK
  <2> QED BY <2>2, <2>3, <2>4
<1> QED
  BY <1>1, <1>2, SendsSame, QuietStep DEF GatewayInv, Held

(***************************************************************************)
(* The theorems                                                            *)
(***************************************************************************)
LEMMA InitInv ==
  ASSUME Init
  PROVE  GatewayInv
<1>1. \A c \in Connection : GoodConn(conn[c])
  BY DEF Init, GoodConn, ConnFields, NewConn
<1>2. Held = {} /\ \A r \in Request : GoodReq(req[r])
  BY DEF Init, Held, GoodReq, NoRequest
<1>3. Limits
  BY <1>2, FS_EmptySet, GatewayAssumption DEF Limits, HeldOf
<1>4. WorldOK
  BY GatewayAssumption DEF Init, WorldOK, Place, NoSnap
<1> QED
  BY <1>1, <1>2, <1>3, <1>4 DEF Init, GatewayInv

LEMMA NextInv ==
  ASSUME GatewayInv, [Next]_vars
  PROVE  GatewayInv'
<1>1. CASE Frame
  BY <1>1, BeginInv, SettlesInv, RegisterInv, AcceptInv, RegistrationInv, ResponseInv, DisconnectInv,
     SnapshotInv, LogInv, PublishInv DEF Frame, Handle
<1>2. CASE Next /\ ~Frame
  BY <1>2, CloseInv, FinishInv, AskInv, WorldInv DEF Next, Operate
<1>3. CASE UNCHANGED vars
  BY <1>3, SendsSame, QuietStep, WorldSame DEF vars, GatewayInv, Held
<1> QED
  BY <1>1, <1>2, <1>3

LEMMA InvCorrect == Spec => []GatewayInv
  BY InitInv, NextInv, PTL DEF Spec

(* The types; and no connection, nor all of them, ever has more in flight   *)
(* than the limits say: only track takes a request into flight, and asks    *)
(* first.                                                                   *)
THEOREM GatewayTypeCorrect == Spec => []GatewayTypeOK
<1>1. GatewayInv => GatewayTypeOK
  <2> SUFFICES ASSUME GatewayInv PROVE GatewayTypeOK
    OBVIOUS
  <2>1. \A c \in Connection : conn[c].st \in {"open", "closed", "left", "leaving", "gone"}
    BY DEF GatewayInv, GoodConn
  <2>2. \A c \in Connection : Cardinality({r \in Held : ConnOf(r) = c}) <= PerConnection
    BY DEF GatewayInv, Limits, HeldOf
  <2>3. \A r \in Request :
          req[r].stage \in {"none", "sent", "asked", "waiting", "result", "answered", "lost"}
    BY DEF GatewayInv, GoodReq
  <2> QED
    BY <2>1, <2>2, <2>3 DEF GatewayInv, Limits, WorldOK, GatewayTypeOK
<1> QED
  BY <1>1, InvCorrect, PTL

(* Nothing of a connection is left once its disconnection was read: no      *)
(* Client, no receipt, nothing in flight, in whichever of its frames a      *)
(* registration was when the connection ended.                              *)
THEOREM GoneCleanCorrect == Spec => []GoneClean
<1>1. GatewayInv => GoneClean
  BY DEF GatewayInv, GoodConn, GoneClean
<1> QED
  BY <1>1, InvCorrect, PTL

(* No connection gets a state or a log nobody asked for before the answer   *)
(* to its registration: only those that were told count as recipients.      *)
THEOREM AckFirstCorrect == Spec => []AckFirst
<1>1. GatewayInv => AckFirst
  BY DEF GatewayInv, GoodConn, AckFirst
<1> QED
  BY <1>1, InvCorrect, PTL
=============================================================================
