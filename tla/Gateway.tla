------------------------------- MODULE Gateway -------------------------------
(***************************************************************************)
(* The daemon's protocol gateway: dto/plugin, with client/plugin.  Threads *)
(* of connections read requests and write frames beside the frames of the  *)
(* world.  A frame reads the events sent before it began, system by system *)
(* and event by event, and ends by publishing the state.  A thread may     *)
(* close its connection between any two of these steps.                    *)
(*                                                                         *)
(* An Agent at one address stands for the world, with its instance, turn   *)
(* and persisted history; other systems change it between frames.  What a  *)
(* domain operation does is its answer (Finish).  Versions of the state    *)
(* are compared for equality only, so a recipient's is whether it is the   *)
(* current one; the token of a snapshot is always the pending one.         *)
(***************************************************************************)
EXTENDS Integers, FiniteSets, FiniteSetsExt

CONSTANTS
  Connection,  (* connections                                              *)
  Request,     (* requests, numbered in the order they are sent            *)
  Plan,        (* each request's connection, and what it may ask: a kind,  *)
               (* under an id, for registrations a name                    *)
  None, Error,
  Unsteady,    (* connections that may end, or be slow to take frames      *)
  PerConnection, Total,  (* limits on the requests in flight               *)
  MaxChanges,  (* bound on the changes of the world and the faults         *)
  TooBig(_),   (* states no frame can carry                                *)
  Faults       (* "read", "task": what may fail in a snapshot              *)

(* requests are finitely many and of connections; the limits are numbers  *)
ASSUME GatewayAssumption ==
  /\ IsFiniteSet(Request) /\ \A r \in Request : Plan[r].conn \in Connection
  /\ PerConnection \in Nat /\ Total \in Nat /\ MaxChanges \in Nat

VARIABLES
  conn,   (* connections: the thread, the entry, the Client, the receipts  *)
  req,    (* requests: the event or the operation, and its context         *)
  place,  (* the Agent, its instance, its turn, its history                *)
  cache,  (* BackendStateReportCache                                       *)
  snap,   (* the snapshot under way                                        *)
  frame,  (* whether a frame is under way                                  *)
  changes (* changes of the world, and faults                              *)

vars == <<conn, req, place, cache, snap, frame, changes>>

ConnOf(r) == Plan[r].conn

(***************************************************************************)
(* Connections                                                             *)
(***************************************************************************)
NewConn == [st |-> "open", cancelled |-> FALSE, client |-> None,
            registered |-> FALSE, current |-> FALSE, shown |-> None,
            acked |-> FALSE, early |-> FALSE]

(* the entry is there and its sender is not closed *)
Connected(c) == conn[c].st = "open"

(* enqueue: the frame fits in the channel, or it is full and cancels its   *)
(* own connection                                                          *)
Send(c, fits) == [conn[c] EXCEPT !.cancelled = @ \/ (Connected(c) /\ ~fits)]

MayFit(c) == IF c \in Unsteady THEN BOOLEAN ELSE {TRUE}

Sends(c) == \E fits \in MayFit(c) : conn' = [conn EXCEPT ![c] = Send(c, fits)]

(* serve_connection ends, by the peer, by an error, by the end of the      *)
(* server or cancelled: the receiver is dropped                            *)
Close(c) ==
  /\ c \in Unsteady
  /\ Connected(c)
  /\ conn' = [conn EXCEPT ![c].st = "closed", ![c].cancelled = FALSE,
                        ![c].shown = None]
  /\ UNCHANGED <<req, place, cache, snap, frame, changes>>

(* ConnectionReservation: remove the entry and send ClientDisconnected *)
Drop(c) ==
  /\ ~frame
  /\ conn[c].st = "closed"
  /\ conn' = [conn EXCEPT ![c].st = "left"]
  /\ UNCHANGED <<req, place, cache, snap, frame, changes>>

(***************************************************************************)
(* Requests                                                                *)
(***************************************************************************)
NoRequest == [stage |-> "none", kind |-> None, id |-> None, name |-> None,
              due |-> FALSE, held |-> FALSE, target |-> None, result |-> None]

(* a request that is over: what it leaves *)
Over(r) == [NoRequest EXCEPT !.stage = IF Connected(ConnOf(r)) THEN "answered" ELSE "lost"]

(* one that ends without an answer *)
Lost == [NoRequest EXCEPT !.stage = "lost"]

Held == {r \in Request : req[r].held}

Waiters == {r \in Request : req[r].stage = "waiting"}

(* live_client: the connection and its Client are those of the context *)
Live(r) == req[r].held /\ Connected(ConnOf(r)) /\ conn[ConnOf(r)].client # None

(* LiveTarget *)
Target == [agent |-> place.agent, instance |-> place.instance]

Awaited == {"mcl", "history", "start", "restart"}

(* the reader of the connection sends a DtoRequest *)
Ask(r) ==
  /\ ~frame
  /\ Connected(ConnOf(r))
  /\ req[r].stage = "none"
  /\ \A q \in Request : q < r => req[q].stage # "none"
  /\ \E ask \in Plan[r].asks :
       req' = [req EXCEPT ![r] = [NoRequest EXCEPT !.stage = "sent", !.kind = ask.kind,
                                    !.id = ask.id, !.name = ask.name]]
  /\ UNCHANGED <<conn, place, cache, snap, frame, changes>>

(***************************************************************************)
(* The order of a frame: events that were sent before it began, those of   *)
(* a system before those of the next                                       *)
(***************************************************************************)
Due(stage, kinds) ==
  {r \in Request : req[r].stage = stage /\ req[r].kind \in kinds /\ req[r].due}

Kinds == {"register", "definitions", "state", "workspace", "abort"} \cup Awaited

Aborts == Due("asked", {"abort"})
Registrations == Due("asked", {"register"})
Leaving == {c \in Connection : conn[c].st = "leaving"}
Requests == Due("sent", Kinds)
Registered == Due("result", {"register"})
Workspaces == Due("result", {"workspace"})
Responses == Due("result", Awaited)

BeforeRegistrations == frame /\ Aborts = {}
BeforeLeaving == BeforeRegistrations /\ Registrations = {}
BeforeRequests == BeforeLeaving /\ Leaving = {}
BeforeRegistered == BeforeRequests /\ Requests = {}
BeforeWorkspaces == BeforeRegistered /\ Registered = {}
BeforeResponses == BeforeWorkspaces /\ Workspaces = {}
BeforeSnapshot == BeforeResponses /\ Responses = {}
BeforePublish == BeforeSnapshot /\ ~snap.due

First(set, r) == r \in set /\ r = Min(set)

(* the frame begins: the events sent before are the ones it reads *)
Begin ==
  /\ ~frame
  /\ frame' = TRUE
  /\ conn' = [c \in Connection |->
       IF conn[c].st = "left" THEN [conn[c] EXCEPT !.st = "leaving"] ELSE conn[c]]
  /\ req' = [r \in Request |->
       [req[r] EXCEPT !.due = \/ req[r].stage \in {"sent", "result"}
                              \/ req[r].stage = "asked" /\ req[r].kind \in {"register", "abort"}]]
  /\ snap' = [snap EXCEPT !.due = snap.st \in {"read", "lost"}]
  /\ UNCHANGED <<place, cache, changes>>

(***************************************************************************)
(* Clients                                                                 *)
(***************************************************************************)
(* register_client: the sender is open, the connection has no Client and   *)
(* no Client has the name                                                  *)
Registrable(r) ==
  /\ Connected(ConnOf(r))
  /\ conn[ConnOf(r)].client = None
  /\ \A d \in Connection : conn[d].client # req[r].name

RegisterClient(r) ==
  /\ BeforeRegistrations /\ First(Registrations, r)
  /\ req' = [req EXCEPT ![r].stage = "result", ![r].due = FALSE,
                        ![r].result = IF Registrable(r) THEN "ok" ELSE Error]
  /\ conn' = IF Registrable(r) THEN [conn EXCEPT ![ConnOf(r)].client = req[r].name] ELSE conn
  /\ UNCHANGED <<place, cache, snap, frame, changes>>

(* Mutant: the Client stays. *)
ForgetReceipts(c) == [conn[c] EXCEPT !.st = "gone", !.registered = FALSE, !.current = FALSE]

(* what a connection leaves in the world is taken away *)
Forget(c) == [NewConn EXCEPT !.st = "gone", !.early = conn[c].early]

(* ClientDisconnected: handle_client_disconnect, then handle_disconnect.   *)
(* An operation goes on in the world; its answer will find no context, so  *)
(* it is not followed further                                              *)
Disconnect(c) ==
  /\ BeforeLeaving /\ c \in Leaving
  /\ conn' = [conn EXCEPT ![c] = Forget(c)]
  /\ req' = [r \in Request |->
       CASE ConnOf(r) # c \/ ~req[r].held -> req[r]
         [] ConnOf(r) = c /\ req[r].held ->
              IF req[r].kind \in {"register", "state"}
              THEN [req[r] EXCEPT !.held = FALSE] ELSE Lost]
  /\ UNCHANGED <<place, cache, snap, frame, changes>>

(* handle_registration *)
RegistrationDone(r) ==
  LET c == ConnOf(r)
      ok == req[r].result = "ok"
  IN
  /\ BeforeRegistered /\ First(Registered, r)
  /\ req' = [req EXCEPT ![r] = IF req[r].held THEN Over(r) ELSE Lost]
  /\ \E fits \in MayFit(c) :
       conn' = IF ~Connected(c)
               THEN IF ok THEN [conn EXCEPT ![c].client = None] ELSE conn
               ELSE IF ~req[r].held THEN conn
               ELSE [conn EXCEPT ![c] =
                       [Send(c, fits) EXCEPT !.registered = @ \/ (ok /\ fits),
                                             !.acked = @ \/ (ok /\ fits)]]
  /\ UNCHANGED <<place, cache, snap, frame, changes>>

(***************************************************************************)
(* Requests become operations                                              *)
(***************************************************************************)
(* track: the connection has no other request of this id in flight, and    *)
(* neither it nor the gateway has too many                                 *)
Unused(r) == \A q \in Held : ConnOf(q) = ConnOf(r) => req[q].id # req[r].id

(* Mutant: one more than the limit. *)
OneOver(r) ==
  /\ Cardinality(Held) <= Total
  /\ Cardinality({q \in Held : ConnOf(q) = ConnOf(r)}) < PerConnection

WithinLimits(r) ==
  /\ Cardinality(Held) < Total
  /\ Cardinality({q \in Held : ConnOf(q) = ConnOf(r)}) < PerConnection

Trackable(r) == Unused(r) /\ WithinLimits(r)

(* route: the Agent named is there; definitions are not tracked, and only  *)
(* registrations have no Client in their context                           *)
Routable(r) ==
  CASE req[r].kind = "register" -> Trackable(r)
    [] req[r].kind = "definitions" ->
         /\ conn[ConnOf(r)].client # None
         /\ \A q \in Held : /\ ConnOf(q) = ConnOf(r)
                            /\ req[q].kind # "register"
                            => req[q].id # req[r].id
    [] req[r].kind \in {"state", "workspace", "start"} ->
         conn[ConnOf(r)].client # None /\ Trackable(r)
    [] req[r].kind \in {"mcl", "history", "restart", "abort"} ->
         conn[ConnOf(r)].client # None /\ place.agent # None /\ Trackable(r)

(* nobody is there to be answered *)
Ignore(r) ==
  /\ BeforeRequests /\ First(Requests, r)
  /\ ~Connected(ConnOf(r))
  /\ req' = [req EXCEPT ![r] = Lost]
  /\ UNCHANGED <<conn, place, cache, snap, frame, changes>>

(* request.failed; a user message is refused while a turn runs *)
Refuse(r) ==
  /\ BeforeRequests /\ First(Requests, r)
  /\ Connected(ConnOf(r))
  /\ Routable(r) => req[r].kind = "mcl" /\ place.working
  /\ req' = [req EXCEPT ![r] = Over(r)]
  /\ Sends(ConnOf(r))
  /\ UNCHANGED <<place, cache, snap, frame, changes>>

(* workspace.definitions.query is answered at once *)
Define(r) ==
  /\ BeforeRequests /\ First(Requests, r)
  /\ Connected(ConnOf(r)) /\ Routable(r)
  /\ req[r].kind = "definitions"
  /\ req' = [req EXCEPT ![r] = Over(r)]
  /\ Sends(ConnOf(r))
  /\ UNCHANGED <<place, cache, snap, frame, changes>>

(* the others are tracked and sent on; a query of the state waits for a    *)
(* snapshot                                                                *)
Accept(r) ==
  /\ BeforeRequests /\ First(Requests, r)
  /\ Connected(ConnOf(r)) /\ Routable(r)
  /\ req[r].kind # "definitions"
  /\ req' = [req EXCEPT
       ![r].stage = IF req[r].kind = "state" THEN "waiting" ELSE "asked",
       ![r].due = FALSE,
       ![r].held = TRUE,
       ![r].target = IF req[r].kind \in {"mcl", "history", "restart", "abort"}
                     THEN Target ELSE None]
  /\ cache' = [cache EXCEPT !.dirty = @ \/ req[r].kind = "state"]
  /\ UNCHANGED <<conn, place, snap, frame, changes>>

(***************************************************************************)
(* Operations end                                                          *)
(***************************************************************************)
(* what an operation can answer: an Agent it started or restarted, the     *)
(* history it read, or an error                                            *)
Answers(r) ==
  CASE req[r].kind = "mcl" -> {"ok"}
    [] req[r].kind = "workspace" -> {"ok", Error}
    [] req[r].kind \in {"start", "restart"} -> {place.agent, Error} \ {None}
    [] req[r].kind = "history" -> {place.history, Error}

Finish(r) ==
  /\ ~frame
  /\ req[r].stage = "asked"
  /\ req[r].kind \in {"workspace"} \cup Awaited
  /\ \E result \in Answers(r) :
       req' = [req EXCEPT ![r].stage = "result", ![r].result = result]
  /\ UNCHANGED <<conn, place, cache, snap, frame, changes>>

(* the world goes on between two frames *)
Change(p) ==
  /\ ~frame /\ changes < MaxChanges
  /\ changes' = changes + 1
  /\ place' = p
  /\ UNCHANGED <<conn, req, cache, snap, frame>>

Grow == place.agent # None /\ Change([place EXCEPT !.history = @ + 1])

Turn == place.agent # None /\ Change([place EXCEPT !.working = ~@])

Restart ==
  /\ place.agent # None
  /\ Change([place EXCEPT !.instance = changes + 1, !.working = FALSE])

(* the Agent stops, or another starts at its address *)
Move ==
  Change(IF place.agent = None
         THEN [place EXCEPT !.agent = changes + 1, !.instance = changes + 1]
         ELSE [place EXCEPT !.agent = None, !.working = FALSE])

World == Grow \/ Turn \/ Restart \/ Move

(***************************************************************************)
(* Answers come back                                                       *)
(***************************************************************************)
(* handle_abort_control, a frame after the request: the turn is still that *)
(* of the instance the client named                                        *)
Abortable(r) ==
  /\ req[r].target = Target
  /\ place.working

AbortControl(r) ==
  /\ frame /\ First(Aborts, r)
  /\ \E named \in BOOLEAN :
       LET valid == Live(r) /\ Abortable(r) /\ named
       IN /\ place' = IF valid THEN [place EXCEPT !.working = FALSE] ELSE place
          /\ cache' = [cache EXCEPT !.dirty = @ \/ valid]
  /\ req' = [req EXCEPT ![r] = IF Live(r) THEN Over(r) ELSE Lost]
  /\ IF Live(r) THEN Sends(ConnOf(r)) ELSE UNCHANGED conn
  /\ UNCHANGED <<snap, frame, changes>>

(* the version of the state goes up: no recipient has it *)
Bumped(connections) == [c \in Connection |-> [connections[c] EXCEPT !.current = FALSE]]

(* handle_workspace_result *)
WorkspaceResult(r) ==
  /\ BeforeWorkspaces /\ First(Workspaces, r)
  /\ req' = [req EXCEPT ![r] = IF Live(r) THEN Over(r) ELSE Lost]
  /\ IF Live(r) THEN Sends(ConnOf(r)) ELSE UNCHANGED conn
  /\ cache' = [cache EXCEPT !.dirty = @ \/ (Live(r) /\ req[r].result = "ok")]
  /\ UNCHANGED <<place, snap, frame, changes>>

(* the target of an operation is still there; a restart changes the        *)
(* instance, so only the Agent is compared                                 *)
Unchanged(r) ==
  CASE req[r].kind = "start" -> TRUE
    [] req[r].kind = "restart" ->
         /\ place.agent = req[r].target.agent
         /\ req[r].result \in {place.agent, Error}
    [] req[r].kind \in {"mcl", "history"} -> req[r].target = Target

(* merge_history: a history read replaces the one of the cached state,     *)
(* though it may be the older                                              *)
Merged(r) ==
  IF /\ req[r].kind = "history"
     /\ req[r].result # Error
     /\ cache.state # None
  THEN [cache.state EXCEPT !.history = req[r].result]
  ELSE cache.state

(* the state is to be read again: after a command, and when an Agent was   *)
(* started or restarted and is there                                       *)
Dirties(r) ==
  \/ req[r].kind = "mcl"
  \/ req[r].kind \in {"start", "restart"} /\ req[r].result = place.agent

(* handle_response, agent_response *)
Response(r) ==
  LET done == Live(r) /\ Unchanged(r)
      merged == done /\ Merged(r) # cache.state
      sent(fits) == IF Live(r) THEN [conn EXCEPT ![ConnOf(r)] = Send(ConnOf(r), fits)] ELSE conn
  IN
  /\ BeforeResponses /\ First(Responses, r)
  /\ req' = [req EXCEPT ![r] = IF Live(r) THEN Over(r) ELSE Lost]
  /\ \E fits \in MayFit(ConnOf(r)) :
       conn' = IF merged THEN Bumped(sent(fits)) ELSE sent(fits)
  /\ cache' = [cache EXCEPT !.state = IF merged THEN Merged(r) ELSE @,
                            !.oversize = @ /\ ~merged,
                            !.dirty = @ \/ (done /\ Dirties(r))]
  /\ UNCHANGED <<place, snap, frame, changes>>

(***************************************************************************)
(* The state report                                                        *)
(***************************************************************************)
(* metadata: what the components of the world say *)
Metadata == [place EXCEPT !.history = 0]

(* for each connection, whether a frame fits *)
Room == {fits \in [Connection -> BOOLEAN] : \A c \in Connection : fits[c] \in MayFit(c)}

NoSnap == [st |-> "none", due |-> FALSE, target |-> None, history |-> None]

Carried(state) == ~TooBig(state)

(* history_sync, in a task                                                 *)
ReadHistory ==
  /\ ~frame
  /\ snap.st = "reading"
  /\ snap' = [snap EXCEPT !.st = "read",
       !.history = IF snap.target.agent = None THEN None ELSE place.history]
  /\ UNCHANGED <<conn, req, place, cache, frame, changes>>

(* it cannot be read, or the task itself fails *)
FailSnapshot ==
  /\ ~frame
  /\ snap.st = "reading" /\ changes < MaxChanges
  /\ \E fault \in Faults :
       snap' = [snap EXCEPT !.st = IF fault = "task" THEN "lost" ELSE "read",
                            !.history = Error]
  /\ changes' = changes + 1
  /\ UNCHANGED <<conn, req, place, cache, frame>>

(* what waiters get: the state, or why there is none *)
Reply(r) == IF Live(r) THEN Over(r) ELSE Lost

Served == {r \in Waiters : Live(r)}

ServedOn(c) == \E r \in Served : ConnOf(r) = c

(* Mutant: the failed snapshot is awaited for ever. *)
PendingKept ==
  /\ BeforeSnapshot /\ snap.due
  /\ snap.st = "lost"
  /\ snap' = [snap EXCEPT !.due = FALSE]
  /\ cache' = [cache EXCEPT !.dirty = TRUE, !.retry = FALSE]
  /\ UNCHANGED <<conn, req, place, frame, changes>>

(* collect_external_events_system: a snapshot task that failed *)
SnapshotFailed ==
  /\ BeforeSnapshot /\ snap.due
  /\ snap.st = "lost"
  /\ snap' = NoSnap
  /\ cache' = [cache EXCEPT !.dirty = TRUE, !.retry = FALSE]
  /\ UNCHANGED <<conn, req, place, frame, changes>>

(* handle_snapshot, when a history could not be read or an Agent changed   *)
SnapshotRefused ==
  /\ BeforeSnapshot /\ snap.due
  /\ snap.st = "read"
  /\ \/ snap.history = Error
     \/ snap.target.agent # None /\ snap.target # Target
  /\ snap' = NoSnap
  /\ cache' = [cache EXCEPT !.dirty = TRUE, !.retry = FALSE]
  /\ req' = [r \in Request |-> IF r \in Waiters THEN Reply(r) ELSE req[r]]
  /\ \E fits \in Room :
       conn' = [c \in Connection |-> IF ServedOn(c) THEN Send(c, fits[c]) ELSE conn[c]]
  /\ UNCHANGED <<place, frame, changes>>

(* handle_snapshot: the state is cached, and answers those who wait for it *)
SnapshotTaken ==
  LET state == [place |-> Metadata, history |-> snap.history]
      changed == state # cache.state
      answered(c, fits) ==
        IF ServedOn(c)
        THEN [Send(c, fits) EXCEPT !.shown = IF fits /\ Carried(state) THEN state ELSE @]
        ELSE conn[c]
  IN
  /\ BeforeSnapshot /\ snap.due
  /\ snap.st = "read" /\ snap.history # Error
  /\ snap.target.agent = None \/ snap.target = Target
  /\ snap' = NoSnap
  /\ cache' = [cache EXCEPT !.state = state,
                            !.oversize = @ /\ ~changed]
  /\ req' = [r \in Request |-> IF r \in Waiters THEN Reply(r) ELSE req[r]]
  /\ \E fits \in Room :
       conn' = [c \in Connection |->
         [answered(c, fits[c]) EXCEPT !.current = @ /\ ~changed]]
  /\ UNCHANGED <<place, frame, changes>>

(* Mutant: every Client. *)
EveryClient(c) == conn[c].client # None /\ Connected(c)

(* recipients: Clients that were told they are registered *)
Recipient(c) ==
  conn[c].client # None /\ conn[c].registered /\ Connected(c)

(* a frame nobody asked for *)
Push(c, fits) == [Send(c, fits) EXCEPT !.early = @ \/ ~conn[c].acked]

(* handle_log: any frame may find records in the log *)
Log ==
  /\ BeforePublish
  /\ \E fits \in Room :
       conn' = [c \in Connection |-> IF Recipient(c) THEN Push(c, fits[c]) ELSE conn[c]]
  /\ UNCHANGED <<req, place, cache, snap, frame, changes>>

Differs == cache.metadata # Metadata

(* Mutant: only what is marked is read again. *)
RefreshMarked(passed) ==
  /\ snap.st = "none"
  /\ Waiters # {} \/ cache.retry \/ Differs \/ passed
  /\ cache.dirty \/ Differs \/ cache.state = None

(* publish_state reads the histories again; passed says whether a second   *)
(* has passed since the last time, and since a failure                     *)
RefreshWhen(passed) ==
  /\ snap.st = "none"
  /\ Waiters # {} \/ cache.retry \/ Differs \/ passed
  /\ cache.dirty \/ Differs \/ cache.state = None \/ passed

(* the recipients who have not had this version get it *)
Owed == {c \in Connection : Recipient(c) /\ ~conn[c].current}

Publishable == cache.state # None /\ ~cache.oversize

(* publish_state, and the frame ends *)
Publish(passed) ==
  LET refresh == RefreshWhen(passed)
  IN
  /\ BeforePublish
  /\ frame' = FALSE
  /\ snap' = IF refresh THEN [NoSnap EXCEPT !.st = "reading", !.target = Target] ELSE snap
  /\ cache' = [cache EXCEPT
       !.metadata = Metadata,
       !.dirty = (@ \/ Differs) /\ ~refresh,
       !.retry = @ \/ Differs \/ passed,
       !.oversize = @ \/ (Owed # {} /\ Publishable /\ ~Carried(cache.state))]
  /\ \E fits \in Room :
       conn' = [c \in Connection |->
         IF c \in Owed /\ Publishable /\ Carried(cache.state)
         THEN [Push(c, fits[c]) EXCEPT !.current = fits[c],
                                       !.shown = IF fits[c] THEN cache.state ELSE @]
         ELSE [conn[c] EXCEPT !.current = @ /\ Recipient(c)]]
  /\ UNCHANGED <<req, place, changes>>

(***************************************************************************)
(* The specification                                                       *)
(***************************************************************************)
Init ==
  /\ conn = [c \in Connection |-> NewConn]
  /\ req = [r \in Request |-> NoRequest]
  /\ place = [agent |-> 0, instance |-> 0, working |-> FALSE, history |-> 0]
  /\ cache = [state |-> None, metadata |-> None, oversize |-> FALSE, dirty |-> FALSE,
              retry |-> TRUE]
  /\ snap = NoSnap
  /\ frame = FALSE
  /\ changes = 0

Handle ==
  \/ \E r \in Request :
       \/ AbortControl(r) \/ RegisterClient(r)
       \/ Ignore(r) \/ Refuse(r) \/ Define(r) \/ Accept(r)
       \/ RegistrationDone(r) \/ WorkspaceResult(r) \/ Response(r)
  \/ \E c \in Connection : Disconnect(c)
  \/ SnapshotFailed \/ SnapshotRefused \/ SnapshotTaken \/ Log

Frame == Begin \/ Handle \/ \E passed \in BOOLEAN : Publish(passed)

Operate == \E r \in Request : Finish(r)

Next ==
  \/ Frame
  \/ \E c \in Connection : Close(c) \/ Drop(c)
  \/ Operate \/ \E r \in Request : Ask(r)
  \/ ReadHistory \/ FailSnapshot \/ World

Spec == Init /\ [][Next]_vars

(* frames go on, and seconds pass; so does what was begun beside them,     *)
(* whose steps are taken between frames, where they are first seen         *)
FairSpec ==
  /\ Spec
  /\ []<><<Publish(TRUE)>>_vars
  /\ SF_vars(Operate)
  /\ SF_vars(ReadHistory)

(***************************************************************************)
(* Properties                                                              *)
(***************************************************************************)
Place == [agent : 0 .. MaxChanges \cup {None}, instance : 0 .. MaxChanges,
          working : BOOLEAN, history : 0 .. MaxChanges]

(* The types, and the limits of what is in flight.                         *)
GatewayTypeOK ==
  /\ place \in Place
  /\ \A c \in Connection :
       /\ conn[c].st \in {"open", "closed", "left", "leaving", "gone"}
       /\ Cardinality({r \in Held : ConnOf(r) = c}) <= PerConnection
  /\ \A r \in Request :
       req[r].stage \in {"none", "sent", "asked", "waiting", "result", "answered", "lost"}
  /\ Cardinality(Held) <= Total
  /\ snap.st \in {"none", "reading", "read", "lost"}
  /\ changes \in 0 .. MaxChanges

(* Nothing of a connection outlives the frame that read its disconnection: *)
(* no Client, which would keep the name taken, no request in flight, which *)
(* would count in the limit for ever, no receipt.  A registration may be   *)
(* under way in any of its three frames when the connection ends.          *)
GoneClean ==
  \A c \in Connection : conn[c].st = "gone" =>
    /\ conn[c].client = None
    /\ ~conn[c].registered /\ ~conn[c].current
    /\ \A r \in Held : ConnOf(r) # c

(* A connection gets no state or log it did not ask for before the answer  *)
(* to its registration, though its Client is there a frame earlier.        *)
AckFirst == \A c \in Connection : ~conn[c].early

Settled(r) ==
  \/ req[r].stage \in {"none", "answered"}
  \/ ~Connected(ConnOf(r))
  \/ conn[ConnOf(r)].cancelled

(* Every request is answered, unless its connection ends: one refused, one *)
(* whose Agent was replaced meanwhile, one that waits for a snapshot that  *)
(* fails, and one whose answer finds the channel full, which ends it.      *)
Answered == []<>(\A r \in Request : Settled(r))

Now == [place |-> Metadata, history |-> IF place.agent = None THEN None ELSE place.history]

(* When the world comes to rest, every registered Client ends up with the  *)
(* state the world is in: whatever order snapshots, histories read for     *)
(* queries and failures came in, and whatever it was shown meanwhile.      *)
Converges ==
  <>[](\A c \in Connection :
         Recipient(c) /\ ~conn[c].cancelled /\ Carried(Now) => conn[c].shown = Now)
=============================================================================
