------------------------------- MODULE Storage -------------------------------
(***************************************************************************)
(* The storage of one Agent: margatroid/storage.  A StorageRequest is      *)
(* taken by a frame, becomes a task of the async runtime, runs on a worker *)
(* thread under the lock of the connection or of the settings file, and    *)
(* its result comes back as an event.  Everybody who has the database open *)
(* shares one SQLite connection, which lives as long as one of them holds  *)
(* it; temporary blocks live in the connection.                            *)
(*                                                                         *)
(* A key of `blocks` is <<name, instance>>; None stands for the table of   *)
(* the file, which has no instances.  A message is an item of a field, a   *)
(* history record a member of one of two tables numbered together.  Times, *)
(* SQL and TOML texts are left out.                                        *)
(***************************************************************************)
EXTENDS Integers, Sequences, FiniteSets, FiniteSetsExt, SequencesExt

CONSTANTS
  Request,     (* StorageRequests, each with its own reply                 *)
  Operation,   (* what they ask                                            *)
  Asks,        (* which of them each request may                           *)
  None,
  Defaults,    (* the Driver's default settings                            *)
  Faults,      (* "busy", "io", "rollback", "panic", "submit", "file",     *)
               (* "sync", "cancel", "stop"                                 *)
  MaxCrashes,  (* bound on the crashes of the process                      *)
  MaxStops     (* bound on the stops of the Agent                          *)

VARIABLES
  disk,     (* the database file: blocks and the two history tables        *)
  conf,     (* the settings file                                           *)
  conn,     (* the shared connection and its settings lock's poison        *)
  lock,     (* who holds the lock of the connection                        *)
  cfglock,  (* who holds the lock of the settings                          *)
  agent,    (* the Agent has its component AgentStorage                    *)
  req,      (* the requests                                                *)
  over,     (* the async runtime is stopping                               *)
  crashes, stops

vars == <<disk, conf, conn, lock, cfglock, agent, req, over, crashes, stops>>

DatabaseKinds == {"create", "read", "replace", "drop", "append", "history"}
ConfigKinds == {"readconf", "setconf", "delconf"}

(* what a request may ask is an operation; None names none and nobody *)
ASSUME StorageAssumption ==
  /\ None \notin Request
  /\ None \notin Operation
  /\ None \notin {"ok", "CommitUnknown", "Dropped"}
  /\ \A r \in Request : Asks[r] \subseteq Operation
  /\ \A o \in Operation :
       /\ o.kind \in DatabaseKinds \cup ConfigKinds
       /\ o.kind = "append" => Len(o.records) \in Nat

NoData == [blocks |-> <<>>, message |-> <<>>, mcl |-> <<>>]

(***************************************************************************)
(* Operations on the data                                                  *)
(***************************************************************************)
Fail(e) == [kind |-> e, value |-> None]
Good(v) == [kind |-> "ok", value |-> v]

(* f, and g where f is not defined *)
Joined(f, g) == [k \in DOMAIN f \cup DOMAIN g |-> IF k \in DOMAIN f THEN f[k] ELSE g[k]]

Without(f, keys) == [k \in DOMAIN f \ keys |-> f[k]]

(* Mutant: the end of a negative index counts as that of a read *)
EndpointRead(n, len) == IF n < 0 THEN len + n ELSE n

(* the boundary n names: -1 is the one behind the last element *)
Endpoint(n, len) == IF n < 0 THEN len + 1 + n ELSE n

(* <<start, end>> of a selection in an array of length len, or None *)
Span(sel, len, write) ==
  LET e == [i \in DOMAIN sel |-> Endpoint(sel[i], len)]
      span == CASE sel = <<>> -> <<0, len>>
                [] Len(sel) = 1 /\ write -> <<e[1], e[1]>>
                [] Len(sel) = 1 /\ sel[1] = 0 /\ len = 0 /\ ~write -> <<0, 0>>
                [] Len(sel) = 1 /\ ~write /\ (sel[1] # 0 \/ len # 0) ->
                     IF sel[1] < 0 THEN <<e[1] - 1, e[1]>> ELSE <<e[1], e[1] + 1>>
                [] Len(sel) = 2 -> e
  IN IF \/ Len(sel) = 2 /\ (sel[1] < 0) # (sel[2] < 0)
        \/ ~(0 <= span[1] /\ span[1] <= span[2] /\ span[2] <= len)
     THEN None ELSE span

(* block(): the instance's own block hides the one of the file *)
Lookup(d, s) ==
  CASE s.inst # None /\ <<s.block, s.inst>> \in DOMAIN d.blocks -> <<s.block, s.inst>>
    [] (s.inst = None \/ <<s.block, s.inst>> \notin DOMAIN d.blocks)
         /\ <<s.block, None>> \in DOMAIN d.blocks -> <<s.block, None>>
    [] OTHER -> None

Messages(d, s) ==
  LET key == Lookup(d, s)
  IN IF key = None THEN Fail("BlockMissing")
     ELSE IF s.field \notin DOMAIN d.blocks[key] THEN Fail("FieldMissing")
     ELSE Good(d.blocks[key][s.field])

Selected(d, s) ==
  LET all == Messages(d, s)
      span == Span(s.sel, Len(all.value), FALSE)
  IN IF all.kind # "ok" THEN all
     ELSE IF span = None THEN Fail("InvalidRange")
     ELSE Good(SubSeq(all.value, span[1] + 1, span[2]))

(* a source is a selector or a literal *)
Source(d, s) == IF "lit" \in DOMAIN s THEN Good(s.lit) ELSE Selected(d, s)

Gather(d, sources) ==
  LET parts == [i \in DOMAIN sources |-> Source(d, sources[i])]
      bad == {i \in DOMAIN parts : parts[i].kind # "ok"}
  IN IF bad # {} THEN parts[Min(bad)]
     ELSE Good(FlattenSeq([i \in DOMAIN parts |-> parts[i].value]))

(* an outcome: the kind of error or "ok", the data left, the value returned *)
Refuse(d, e) == [kind |-> e, data |-> d, value |-> None]
Leave(d, v) == [kind |-> "ok", data |-> d, value |-> v]

(* Mutant: the other lifetime is looked for in the same instance only *)
CreateBlockSame(d, o) ==
  LET key == <<o.name, o.inst>>
  IN IF key \in DOMAIN d.blocks THEN Leave(d, None)
     ELSE Leave([d EXCEPT !.blocks = Joined(@, [k \in {key} |-> [f \in ToSet(o.fields) |-> <<>>]])],
                None)

CreateBlock(d, o) ==
  LET key == <<o.name, o.inst>>
      others == {k \in DOMAIN d.blocks : k[1] = o.name /\ (k[2] = None) # (o.inst = None)}
      fields == ToSet(o.fields)
  IN IF ~IsInjective(o.fields) THEN Refuse(d, "InvalidRequest")
     ELSE IF others # {} THEN Refuse(d, "LifecycleMismatch")
     ELSE IF key \in DOMAIN d.blocks
       THEN IF DOMAIN d.blocks[key] # fields THEN Refuse(d, "SchemaMismatch")
            ELSE Leave(d, None)
     ELSE Leave([d EXCEPT !.blocks = Joined(@, [k \in {key} |-> [f \in fields |-> <<>>]])], None)

ReplaceMessages(d, o) ==
  LET old == Messages(d, o.target)
      new == Gather(d, o.with)
      span == Span(o.target.sel, Len(old.value), TRUE)
      key == Lookup(d, o.target)
  IN IF old.kind # "ok" THEN Refuse(d, old.kind)
     ELSE IF new.kind # "ok" THEN Refuse(d, new.kind)
     ELSE IF span = None THEN Refuse(d, "InvalidRange")
     ELSE Leave([d EXCEPT !.blocks[key][o.target.field] =
                   SubSeq(old.value, 1, span[1]) \o new.value
                     \o SubSeq(old.value, span[2] + 1, Len(old.value))], None)

DropTemporary(d, o) ==
  Leave([d EXCEPT !.blocks = Without(@, {k \in DOMAIN @ : k[2] = o.inst})], None)

(* a history table maps the numbers of its records to what they hold *)
Numbers(d) == DOMAIN d.message \cup DOMAIN d.mcl

(* Mutant: each table has its own numbers *)
LastSequenceOwn(d, table) == Max({0} \cup DOMAIN d[table])

(* the greatest number of either table *)
LastSequence(d, table) == Max({0} \cup Numbers(d))

(* a table with those records of its kind that come before an invalid one *)
Appended(d, table, records) ==
  LET last == LastSequence(d, table)
      new == {i \in 1 .. Len(records) :
                /\ records[i].kind = table
                /\ \A j \in 1 .. i : records[j].kind \in {"message", "mcl"}}
  IN Joined(d[table], [n \in {last + i : i \in new} |-> records[n - last].item])

AppendHistory(d, o) ==
  LET left == [d EXCEPT !.message = Appended(d, "message", o.records),
                        !.mcl = Appended(d, "mcl", o.records)]
  IN IF \A i \in 1 .. Len(o.records) : o.records[i].kind \in {"message", "mcl"}
       THEN Leave(left, None)
       ELSE Refuse(left, "InvalidRecord")

(* the records of some tables in the order of their numbers *)
Merged(d, kinds) ==
  LET Rows(k) == {[seq |-> n, kind |-> k, item |-> d[k][n]] : n \in DOMAIN d[k]}
  IN SetToSortSeq(UNION {Rows(k) : k \in kinds}, LAMBDA a, b : a.seq < b.seq)

ReadHistory(d, o) == Leave(d, Merged(d, o.kinds))

ReadMessages(d, o) ==
  LET all == Gather(d, o.with)
  IN IF all.kind = "ok" THEN Leave(d, all.value) ELSE Refuse(d, all.kind)

DatabaseOperation(d, o) ==
  CASE o.kind = "create" -> CreateBlock(d, o)
    [] o.kind = "read" -> ReadMessages(d, o)
    [] o.kind = "replace" -> ReplaceMessages(d, o)
    [] o.kind = "drop" -> DropTemporary(d, o)
    [] o.kind = "append" -> AppendHistory(d, o)
    [] o.kind = "history" -> ReadHistory(d, o)

(* settings map paths <<table>> or <<table, key>> to values, tables to Table *)
Table == "table"

ConfigOperation(c, o) ==
  LET top == <<o.path[1]>>
      new == [p \in {o.path} |-> o.value]
      under == {p \in DOMAIN c : Len(o.path) = 1 /\ p[1] = o.path[1]}
      rest == Without(c, under \cup {o.path})
      parent == IF Len(o.path) = 2 THEN [p \in {top} |-> Table] ELSE <<>>
  IN IF o.kind = "readconf" THEN Leave(c, c)
     ELSE IF "" \in ToSet(o.path) THEN Refuse(c, "ConfigPathInvalid")
     ELSE IF Len(o.path) = 2 /\ top \in DOMAIN c /\ c[top] # Table
       THEN Refuse(c, "ConfigTypeMismatch")
     ELSE IF o.kind = "setconf" THEN Leave(Joined(new, Joined(parent, rest)), None)
     ELSE Leave(rest, None)

(***************************************************************************)
(* Requests                                                                *)
(***************************************************************************)
(* the steps of a request between which its worker holds a clone of the     *)
(* storage                                                                  *)
Holding == {"task", "worker", "open", "begun", "ran", "undo", "read", "synced", "renamed"}

(* `hit` is history: its effect is there, and `value` what it returned      *)
Idle == [pc |-> "idle", op |-> None, cancel |-> FALSE, res |-> None, value |-> None,
         hit |-> FALSE, draft |-> None, reply |-> None]

(* a connection just opened: no temporary blocks, no transaction            *)
Fresh == [temp |-> <<>>, work |-> None, poisoned |-> FALSE, retired |-> FALSE,
          confPoisoned |-> FALSE]

Init ==
  /\ disk = NoData
  /\ conf = Defaults
  /\ conn = Fresh
  /\ lock = None
  /\ cfglock = None
  /\ agent = TRUE
  /\ req = [r \in Request |-> Idle]
  /\ over = FALSE
  /\ crashes = 0
  /\ stops = 0

Step(r, from, to) ==
  /\ req[r].pc = from
  /\ req' = [req EXCEPT ![r].pc = to]

(* the result e is known; the worker ends (token and draft are of no more  *)
(* use, and reset to keep states few)                                      *)
Done(q, e) == [q EXCEPT !.pc = "done", !.res = e, !.cancel = FALSE, !.draft = None]

Ends(r, from, e) ==
  /\ req[r].pc = from
  /\ req' = [req EXCEPT ![r] = Done([@ EXCEPT !.value = None], e)]

(* and its operation took effect and returned v *)
EndsHit(r, from, e, v) ==
  /\ req[r].pc = from
  /\ req' = [req EXCEPT ![r] = Done([@ EXCEPT !.hit = TRUE, !.value = v], e)]

(* deliver: the reply channel is taken once *)
Answer(r, from, e) ==
  /\ req[r].pc = from
  /\ req[r].reply = None
  /\ req' = [req EXCEPT ![r] = [@ EXCEPT !.pc = "over", !.reply = e, !.res = None,
                                        !.cancel = FALSE]]

loopVars == <<over, crashes, stops>>
sameData == UNCHANGED <<disk, conf, lock, cfglock, agent, loopVars>>

Ask(r) ==
  /\ req[r].pc = "idle"
  /\ ~over
  /\ \E o \in Asks[r] : req' = [req EXCEPT ![r].pc = "sent", ![r].op = o]
  /\ UNCHANGED conn
  /\ sameData

Cancel(r) ==
  /\ "cancel" \in Faults
  /\ req[r].pc \in {"sent", "task", "worker"}
  /\ req' = [req EXCEPT ![r].cancel = TRUE]
  /\ UNCHANGED conn
  /\ sameData

(* handle_storage_request *)
Handle(r) ==
  /\ ~over
  /\ \/ ~agent /\ Answer(r, "sent", "OwnerMissing")
     \/ agent /\ req[r].cancel /\ Answer(r, "sent", "Cancelled")
     \/ agent /\ ~req[r].cancel /\ Step(r, "sent", "task")
     \/ agent /\ ~req[r].cancel /\ "submit" \in Faults /\ Answer(r, "sent", "Cancelled")
  /\ UNCHANGED conn
  /\ sameData

(* the task is polled for the first time, or dropped before *)
Poll(r) ==
  /\ \/ Step(r, "task", "worker")
     \/ over /\ Answer(r, "task", "Cancelled")
  /\ UNCHANGED conn
  /\ sameData

(* the worker begins; a stopping runtime may drop one that has not *)
Begin(r) ==
  /\ \/ req[r].cancel /\ Ends(r, "worker", "Cancelled")
     \/ ~req[r].cancel /\ Step(r, "worker", "open")
     \/ over /\ Ends(r, "worker", "CommitUnknown")
  /\ UNCHANGED conn
  /\ sameData

Visible == [disk EXCEPT !.blocks = Joined(@, conn.temp)]

(* Mutant: the lock is not taken *)
FreeAlways == TRUE

(* the lock of the connection is free *)
Free == lock = None

(* lock the connection and BEGIN *)
Lock(r) ==
  /\ req[r].pc = "open"
  /\ req[r].op.kind \notin ConfigKinds
  /\ Free
  /\ \/ /\ conn.poisoned
        /\ Ends(r, "open", "Closed")
        /\ UNCHANGED <<conn, lock>>
     \/ /\ ~conn.poisoned /\ conn.retired
        /\ Ends(r, "open", "CleanupFailed")
        /\ UNCHANGED <<conn, lock>>
     \/ /\ ~conn.poisoned /\ ~conn.retired /\ "busy" \in Faults
        /\ Ends(r, "open", "WriteFailed")
        /\ UNCHANGED <<conn, lock>>
     \/ /\ ~conn.poisoned /\ ~conn.retired
        /\ Step(r, "open", "begun")
        /\ conn' = [conn EXCEPT !.work = Visible]
        /\ lock' = r
  /\ UNCHANGED <<disk, conf, cfglock, agent, loopVars>>

(* database_operation: on the data of the transaction *)
Run(r) ==
  /\ req[r].pc = "begun"
  /\ LET out == DatabaseOperation(conn.work, req[r].op)
     IN /\ req' = [req EXCEPT ![r].pc = IF out.kind = "ok" THEN "ran" ELSE "undo",
                              ![r].res = out.kind, ![r].value = out.value]
        /\ conn' = [conn EXCEPT !.work = out.data]
  /\ sameData

(* a panic unwinds through a lock: of the connection, with the transaction  *)
(* open, or of the settings                                                 *)
Panic(r) ==
  /\ "panic" \in Faults
  /\ \/ /\ Ends(r, "begun", "CommitUnknown")
        /\ conn' = [conn EXCEPT !.poisoned = TRUE]
        /\ lock' = None
        /\ UNCHANGED cfglock
     \/ /\ Ends(r, "read", "CommitUnknown")
        /\ conn' = [conn EXCEPT !.confPoisoned = TRUE]
        /\ cfglock' = None
        /\ UNCHANGED lock
  /\ UNCHANGED <<disk, conf, agent, loopVars>>

Files(d) == [d EXCEPT !.blocks = Without(@, {k \in DOMAIN @ : k[2] # None})]
Temps(d) == Without(d.blocks, {k \in DOMAIN d.blocks : k[2] = None})
Committed == [conn EXCEPT !.work = None, !.temp = Temps(conn.work)]
RolledBack == [conn EXCEPT !.work = None]

(* Mutant: an error of COMMIT is an ordinary failure *)
CommitErrorPlain == "WriteFailed"

(* the I/O errors after which SQLite does not say whether it committed *)
CommitError == "CommitUnknown"

(* finish_transaction: COMMIT, which may fail with the transaction open or  *)
(* with an I/O error, which may have committed or not                       *)
Commit(r) ==
  /\ req[r].pc = "ran"
  /\ \/ /\ EndsHit(r, "ran", "ok", req[r].value)
        /\ disk' = Files(conn.work)
        /\ conn' = Committed
        /\ lock' = None
     \/ /\ "busy" \in Faults
        /\ req' = [req EXCEPT ![r].pc = "undo", ![r].res = "WriteFailed"]
        /\ UNCHANGED <<disk, conn, lock>>
     \/ /\ "io" \in Faults
        /\ \/ /\ EndsHit(r, "ran", CommitError, req[r].value)
              /\ disk' = Files(conn.work)
              /\ conn' = Committed
           \/ /\ Ends(r, "ran", CommitError)
              /\ disk' = disk
              /\ conn' = RolledBack
        /\ lock' = None
     \/ /\ "io" \in Faults
        /\ req' = [req EXCEPT ![r].pc = "undo", ![r].res = CommitError]
        /\ UNCHANGED <<disk, conn, lock>>
  /\ UNCHANGED <<conf, cfglock, agent, loopVars>>

Rollback(r) ==
  /\ \/ /\ Ends(r, "undo", req[r].res)
        /\ conn' = RolledBack
     \/ /\ "rollback" \in Faults
        /\ Ends(r, "undo", "CleanupFailed")
        /\ conn' = [conn EXCEPT !.retired = TRUE]
  /\ lock' = None
  /\ UNCHANGED <<disk, conf, cfglock, agent, loopVars>>

(* config_operation: under the lock of the file *)
ReadConfig(r) ==
  /\ req[r].pc = "open"
  /\ req[r].op.kind \in ConfigKinds
  /\ cfglock = None
  /\ LET out == ConfigOperation(conf, req[r].op)
     IN \/ conn.confPoisoned /\ Ends(r, "open", "Closed") /\ UNCHANGED cfglock
        \/ ~conn.confPoisoned /\ out.kind # "ok" /\ Ends(r, "open", out.kind) /\ UNCHANGED cfglock
        \/ /\ ~conn.confPoisoned /\ req[r].op.kind = "readconf"
           /\ EndsHit(r, "open", "ok", out.value)
           /\ UNCHANGED cfglock
        \/ /\ ~conn.confPoisoned /\ out.kind = "ok" /\ req[r].op.kind # "readconf"
           /\ req' = [req EXCEPT ![r].pc = "read", ![r].draft = out.data]
           /\ cfglock' = r
  /\ UNCHANGED conn
  /\ UNCHANGED <<disk, conf, lock, agent, loopVars>>

(* atomic_write: a temporary file, its sync *)
WriteTemp(r) ==
  /\ \/ Step(r, "read", "synced") /\ UNCHANGED cfglock
     \/ "file" \in Faults /\ Ends(r, "read", "WriteFailed") /\ cfglock' = None
  /\ UNCHANGED conn
  /\ UNCHANGED <<disk, conf, lock, agent, loopVars>>

(* the rename *)
Rename(r) ==
  /\ \/ /\ req[r].pc = "synced"
        /\ req' = [req EXCEPT ![r].pc = "renamed", ![r].hit = TRUE]
        /\ conf' = req[r].draft
        /\ UNCHANGED cfglock
     \/ /\ "file" \in Faults
        /\ Ends(r, "synced", "WriteFailed")
        /\ UNCHANGED conf
        /\ cfglock' = None
  /\ UNCHANGED conn
  /\ UNCHANGED <<disk, lock, agent, loopVars>>

(* the sync of the directory *)
SyncDir(r) ==
  /\ \/ Ends(r, "renamed", "ok")
     \/ "sync" \in Faults /\ Ends(r, "renamed", CommitError)
  /\ cfglock' = None
  /\ UNCHANGED conn
  /\ UNCHANGED <<disk, conf, lock, agent, loopVars>>

(* Mutant: the guard of a dropped task does not deliver the result *)
JoinQuiet(r) ==
  /\ ~over /\ Step(r, "done", "event")
  /\ UNCHANGED conn
  /\ sameData

(* the task is joined; the result becomes an event, or the guard of a task  *)
(* that is dropped delivers it *)
Join(r) ==
  /\ \/ ~over /\ Step(r, "done", "event")
     \/ over /\ Answer(r, "done", req[r].res)
  /\ UNCHANGED conn
  /\ sameData

(* handle_storage_result, or the drop of an event nobody reads *)
HandleResult(r) ==
  /\ Answer(r, "event", req[r].res)
  /\ UNCHANGED conn
  /\ sameData

(***************************************************************************)
(* The Agent and the process                                               *)
(***************************************************************************)
(* the Agent is despawned *)
StopAgent ==
  /\ agent
  /\ stops < MaxStops
  /\ stops' = stops + 1
  /\ agent' = FALSE
  /\ UNCHANGED <<disk, conf, conn, lock, cfglock, req, over, crashes>>

Held(steps) == \E r \in Request : req[r].pc \in steps

(* open_storage: the connection that somebody still holds is shared; one   *)
(* nobody holds is gone (a worker lets go right after its result).  The    *)
(* settings file is made once and never overwritten.                       *)
OpenStorage ==
  /\ ~agent
  /\ ~over
  /\ agent' = TRUE
  /\ \/ Held(Holding \cup {"done"}) /\ UNCHANGED conn
     \/ ~Held(Holding) /\ conn' = Fresh
  /\ UNCHANGED <<disk, conf, lock, cfglock, req, loopVars>>

RuntimeStops ==
  /\ "stop" \in Faults
  /\ ~over
  /\ over' = TRUE
  /\ UNCHANGED <<disk, conf, conn, lock, cfglock, agent, req, crashes, stops>>

(* a request nobody reads any more is dropped with its reply *)
DropRequest(r) ==
  /\ over
  /\ Answer(r, "sent", "Dropped")
  /\ UNCHANGED conn
  /\ sameData

(* the process ends; all but the files is lost *)
Crash ==
  /\ crashes < MaxCrashes
  /\ crashes' = crashes + 1
  /\ req' = [r \in Request |->
               IF req[r].pc \in {"idle", "over"} THEN req[r]
               ELSE [req[r] EXCEPT !.pc = "over", !.reply = "Dropped", !.res = None,
                                  !.cancel = FALSE, !.draft = None]]
  /\ agent' = FALSE
  /\ conn' = Fresh
  /\ lock' = None
  /\ cfglock' = None
  /\ over' = FALSE
  /\ UNCHANGED <<disk, conf, stops>>

Work(r) ==
  \/ Handle(r) \/ Poll(r) \/ Begin(r) \/ Lock(r) \/ Run(r) \/ Commit(r) \/ Rollback(r)
  \/ ReadConfig(r) \/ WriteTemp(r) \/ Rename(r) \/ SyncDir(r)
  \/ Join(r) \/ HandleResult(r) \/ DropRequest(r)

Next ==
  \/ \E r \in Request : Ask(r) \/ Cancel(r) \/ Work(r) \/ Panic(r)
  \/ StopAgent \/ OpenStorage \/ RuntimeStops \/ Crash

Spec == Init /\ [][Next]_vars

(* frames run, tasks and workers are scheduled, locks are granted *)
Fairness == \A r \in Request : WF_vars(Work(r))
FairSpec == Spec /\ Fairness

(***************************************************************************)
(* Properties                                                              *)
(***************************************************************************)
(* The connection's lock is held exactly in the steps of a transaction, and *)
(* a transaction is open only there, or where a panic or a failed ROLLBACK  *)
(* left it on a connection nothing more runs on.                            *)
StorageTypeOK ==
  /\ lock \in Request \cup {None}
  /\ cfglock \in Request \cup {None}
  /\ \A r \in Request :
       /\ req[r].pc \in Holding \cup {"idle", "sent", "done", "event", "over"}
       /\ (req[r].pc \in {"begun", "ran", "undo"}) = (lock = r)
       /\ (req[r].pc \in {"read", "synced", "renamed"}) = (cfglock = r)
  /\ conn.work # None => lock # None \/ conn.poisoned \/ conn.retired
  /\ \A k \in DOMAIN conn.temp : k[2] # None
  /\ \A k \in DOMAIN disk.blocks : k[2] = None

(* A name is that of a block of the file or of temporary blocks, never of   *)
(* both, through every create, restart and loss of the temporary blocks:    *)
(* else the block a selector finds would depend on which of them is left.   *)
OneLifetime ==
  \A k, l \in DOMAIN Visible.blocks : k[1] = l[1] => (k[2] = None) = (l[2] = None)

(* The two history tables share one numbering without gaps or repetitions   *)
(* whatever batches fail, roll back or are interrupted, so that the merged   *)
(* history is the order in which records were appended.                     *)
Contiguous ==
  Numbers(disk) = 1 .. Cardinality(DOMAIN disk.message) + Cardinality(DOMAIN disk.mcl)

(* The boundary b of an array of length len is named by b and by b - len - 1 *)
Names(b, len) == {b, b - len - 1}

(* the parts <<a, b>> of an array of length len that <<n>> and <<m, n>> name *)
PartsAt(n, len, write) ==
  {p \in (0 .. len) \X (0 .. len) :
    \/ write /\ p[1] = p[2] /\ n \in Names(p[1], len)
    \/ ~write /\ n >= 0 /\ n = p[1] /\ (p[2] = n + 1 \/ (len = 0 /\ p[2] = n))
    \/ ~write /\ n < 0 /\ n \in Names(p[2], len) /\ p[2] = p[1] + 1}

PartsBetween(m, n, len) ==
  {p \in (0 .. len) \X (0 .. len) :
    /\ p[1] <= p[2]
    /\ m \in Names(p[1], len) /\ n \in Names(p[2], len)
    /\ (m < 0) = (n < 0)}

TheOnly(parts) == IF parts = {} THEN None ELSE CHOOSE p \in parts : TRUE

(* A selection of a read or write is the part of the array between the two  *)
(* boundaries it names, and refused when there is none: an index reads the  *)
(* element behind it (before it, when it is negative), writes at it, and a   *)
(* range names both its ends from the same side.  (TLC looks before any     *)
(* request: the same in every state.)                                       *)
SpanExact ==
  (\A r \in Request : req[r] = Idle) => \A len \in 0 .. 3 : \A write \in BOOLEAN :
    /\ Span(<<>>, len, write) = <<0, len>>
    /\ \A n \in -5 .. 5 : Span(<<n>>, len, write) = TheOnly(PartsAt(n, len, write))
    /\ \A m, n \in -5 .. 5 : Span(<<m, n>>, len, write) = TheOnly(PartsBetween(m, n, len))

(* What a selector names is one block, and one part of it.                 *)
SelectorsExact == OneLifetime /\ SpanExact

(* Every request a frame can read is answered at last, also when the Agent  *)
(* is gone, the worker panics, the storage is dead or the runtime stops.    *)
Answered == \A r \in Request : (req[r].pc = "sent") ~> (req[r].reply # None)

(***************************************************************************)
(* The refinement                                                          *)
(***************************************************************************)
ApplyTo(s, o) ==
  IF o.kind \in ConfigKinds
  THEN [data |-> s.data, conf |-> ConfigOperation(s.conf, o).data]
  ELSE [data |-> DatabaseOperation(s.data, o).data, conf |-> s.conf]

Returned(s, o) ==
  IF o.kind \in ConfigKinds THEN ConfigOperation(s.conf, o).value
  ELSE DatabaseOperation(s.data, o).value

AfterRestart(s) == [data |-> Files(s.data), conf |-> s.conf]

Class(e) ==
  IF e \in {None, "ok"} THEN e
  ELSE IF e = "CommitUnknown" THEN "unknown"
  ELSE IF e = "Dropped" THEN "closed"
  ELSE "error"

Contents == [data |-> Visible, conf |-> conf]
OpOf == [r \in Request |-> req[r].op]
Hits == {r \in Request : req[r].hit}
Seen == [r \in Request |-> IF req[r].hit THEN req[r].value ELSE None]
Answers == [r \in Request |-> Class(req[r].reply)]

Abstract == INSTANCE AtomicStore WITH
  Stores <- {[data |-> NoData, conf |-> Defaults]},
  Effect <- ApplyTo,
  View <- Returned,
  Survives <- AfterRestart,
  store <- Contents,
  asked <- OpOf,
  applied <- Hits,
  seen <- Seen,
  answer <- Answers

(* The storage is an AtomicStore: each request takes effect at one instant  *)
(* between its making and its answer, on what all the others left, as a     *)
(* whole or not at all; success means that it did, a failure that it did    *)
(* not, and only CommitUnknown leaves it open, through locks, rollbacks,     *)
(* panics, cancellations, stops, crashes and shared connections.            *)
StoreSpec == Abstract!Spec
=============================================================================
