---------------------------- MODULE StorageProofs ----------------------------
(***************************************************************************)
(* Proofs about Storage, for any requests, operations and settings and any *)
(* number of crashes and stops.                                            *)
(*                                                                         *)
(* The invariant StorageInv says of each request what its worker has in    *)
(* its hands at its step: begun, the data it works on is what everybody    *)
(* sees; ran, it is what the operation makes of that; undo, the result is  *)
(* no success; on the settings, its draft is what the operation makes of   *)
(* them.  Nobody else changes any of these, since the worker alone holds   *)
(* the lock (RequestStep).  With it COMMIT and the rename are the instants *)
(* at which AtomicStore applies a request (CommitEffect, RenameEffect), an *)
(* answer is one that AtomicStore gives (Told), and every other step of a  *)
(* request is one that AtomicStore does not see.                           *)
(***************************************************************************)
EXTENDS Storage, FiniteSetTheorems, TLAPS

(***************************************************************************)
(* The data                                                                *)
(***************************************************************************)
(* two tables with one numbering *)
Numbered(m, l) ==
  \E n \in Nat : DOMAIN m \cup DOMAIN l = 1 .. n /\ DOMAIN m \cap DOMAIN l = {}

(* the contents of a database: blocks by their keys, and two tables *)
IsStore(d) ==
  /\ d = [blocks |-> d.blocks, message |-> d.message, mcl |-> d.mcl]
  /\ d.blocks = [k \in DOMAIN d.blocks |-> d.blocks[k]]
  /\ Numbered(d.message, d.mcl)

(* no name is that of a block of the file and of a temporary one *)
OneKind(keys) == \A k, l \in keys : k[1] = l[1] => (k[2] = None) = (l[2] = None)

(* temporary blocks t beside those of a file d *)
Beside(d, t) == [d EXCEPT !.blocks = Joined(@, t)]

LEMMA BesideStore ==
  ASSUME NEW d, NEW t, IsStore(d)
  PROVE  /\ IsStore(Beside(d, t))
         /\ DOMAIN Beside(d, t).blocks = DOMAIN d.blocks \cup DOMAIN t
         /\ Beside(d, t).message = d.message
         /\ Beside(d, t).mcl = d.mcl
         /\ Beside(d, t).blocks = Joined(d.blocks, t)
<1>1. Beside(d, t) = [blocks |-> Joined(d.blocks, t), message |-> d.message, mcl |-> d.mcl]
  BY DEF Beside, IsStore
<1>2. /\ Beside(d, t).message = d.message
      /\ Beside(d, t).mcl = d.mcl
      /\ Beside(d, t).blocks = Joined(d.blocks, t)
  BY <1>1
<1> QED
  BY <1>1, <1>2 DEF IsStore, Joined

LEMMA FilesStore ==
  ASSUME NEW d, IsStore(d)
  PROVE  /\ IsStore(Files(d))
         /\ DOMAIN Files(d).blocks = {k \in DOMAIN d.blocks : k[2] = None}
         /\ \A k \in DOMAIN Files(d).blocks : Files(d).blocks[k] = d.blocks[k]
         /\ Files(d).message = d.message
         /\ Files(d).mcl = d.mcl
<1> DEFINE kept == Without(d.blocks, {k \in DOMAIN d.blocks : k[2] # None})
<1>1. Files(d) = [blocks |-> kept, message |-> d.message, mcl |-> d.mcl]
  BY DEF Files, IsStore
<1>2. /\ kept = [k \in DOMAIN kept |-> kept[k]]
      /\ DOMAIN kept = {k \in DOMAIN d.blocks : k[2] = None}
      /\ \A k \in DOMAIN kept : kept[k] = d.blocks[k]
  BY DEF Without
<1> HIDE DEF kept
<1> QED
  BY <1>1, <1>2 DEF IsStore

LEMMA TempsStore ==
  ASSUME NEW d, IsStore(d)
  PROVE  /\ Temps(d) = [k \in DOMAIN Temps(d) |-> Temps(d)[k]]
         /\ DOMAIN Temps(d) = {k \in DOMAIN d.blocks : k[2] # None}
         /\ \A k \in DOMAIN Temps(d) : Temps(d)[k] = d.blocks[k]
  BY DEF Temps, Without

LEMMA SplitStore ==
  ASSUME NEW d, IsStore(d)
  PROVE  Beside(Files(d), Temps(d)) = d
<1> DEFINE f == Files(d)
           t == Temps(d)
<1>0. IsStore(f) /\ f.message = d.message /\ f.mcl = d.mcl
  BY FilesStore
<1>1. Beside(f, t) = [blocks |-> Joined(f.blocks, t), message |-> d.message, mcl |-> d.mcl]
  <2> HIDE DEF f, t
  <2>1. /\ IsStore(Beside(f, t))
        /\ Beside(f, t).blocks = Joined(f.blocks, t)
        /\ Beside(f, t).message = f.message /\ Beside(f, t).mcl = f.mcl
    BY <1>0, BesideStore
  <2> QED BY <1>0, <2>1 DEF IsStore
<1>2. Joined(f.blocks, t) = d.blocks
  <2>1. DOMAIN f.blocks \cup DOMAIN t = DOMAIN d.blocks
    BY FilesStore, TempsStore
  <2>2. \A k \in DOMAIN d.blocks : (IF k \in DOMAIN f.blocks THEN f.blocks[k] ELSE t[k]) = d.blocks[k]
    BY <2>1, FilesStore, TempsStore
  <2> HIDE DEF f, t
  <2> QED
    BY <2>1, <2>2 DEF Joined, IsStore
<1> QED
  BY <1>1, <1>2 DEF IsStore

LEMMA RestartStore ==
  ASSUME NEW d, NEW t, IsStore(d),
         \A k \in DOMAIN d.blocks : k[2] = None,
         \A k \in DOMAIN t : k[2] # None
  PROVE  Beside(d, <<>>) = Files(Beside(d, t))
<1> DEFINE v == Beside(d, t)
<1>0. \A x : IsStore(Beside(d, x)) /\ Beside(d, x).blocks = Joined(d.blocks, x)
              /\ Beside(d, x).message = d.message /\ Beside(d, x).mcl = d.mcl
  BY BesideStore
<1>1. Beside(d, <<>>) = [blocks |-> Joined(d.blocks, <<>>), message |-> d.message, mcl |-> d.mcl]
  BY <1>0 DEF IsStore
<1>2. Joined(d.blocks, <<>>) = d.blocks
  BY DEF Joined, IsStore
<1>3. /\ Files(v) = [blocks |-> Files(v).blocks, message |-> d.message, mcl |-> d.mcl]
      /\ DOMAIN Files(v).blocks = {k \in DOMAIN v.blocks : k[2] = None}
      /\ \A k \in DOMAIN Files(v).blocks : Files(v).blocks[k] = v.blocks[k]
      /\ Files(v).blocks = [k \in DOMAIN Files(v).blocks |-> Files(v).blocks[k]]
  <2>1. IsStore(v) /\ v.message = d.message /\ v.mcl = d.mcl
    BY <1>0
  <2> HIDE DEF v
  <2>2. IsStore(Files(v)) /\ Files(v).message = d.message /\ Files(v).mcl = d.mcl
    BY <2>1, FilesStore
  <2>3. /\ DOMAIN Files(v).blocks = {k \in DOMAIN v.blocks : k[2] = None}
        /\ \A k \in DOMAIN Files(v).blocks : Files(v).blocks[k] = v.blocks[k]
    BY <2>1, FilesStore
  <2> QED
    BY <2>2, <2>3 DEF IsStore
<1>4. /\ DOMAIN v.blocks = DOMAIN d.blocks \cup DOMAIN t
      /\ \A k \in DOMAIN d.blocks : v.blocks[k] = d.blocks[k]
  <2>1. v.blocks = Joined(d.blocks, t)
    BY <1>0
  <2> HIDE DEF v
  <2> QED BY <2>1 DEF Joined
<1> HIDE DEF v
<1>5. DOMAIN Files(v).blocks = DOMAIN d.blocks
  BY <1>3, <1>4
<1>6. Files(v).blocks = d.blocks
  BY <1>3, <1>4, <1>5 DEF IsStore
<1> QED
  BY <1>1, <1>2, <1>3, <1>6 DEF v

(* An operation that succeeds leaves the contents of a database, with names  *)
(* of one kind.                                                             *)
Keeps(out) == out.kind = "ok" => IsStore(out.data) /\ OneKind(DOMAIN out.data.blocks)

LEMMA CreateKeeps ==
  ASSUME NEW d, NEW o, IsStore(d), OneKind(DOMAIN d.blocks)
  PROVE  Keeps(CreateBlock(d, o))
<1> DEFINE key == <<o.name, o.inst>>
           others == {k \in DOMAIN d.blocks : k[1] = o.name /\ (k[2] = None) # (o.inst = None)}
           block == [f \in ToSet(o.fields) |-> <<>>]
           new == Beside(d, [k \in {key} |-> block])
<1>1. CASE CreateBlock(d, o).kind = "ok" /\ CreateBlock(d, o).data = d
  BY <1>1 DEF Keeps
<1>2. CASE CreateBlock(d, o).kind # "ok"
  BY <1>2 DEF Keeps
<1>3. CASE CreateBlock(d, o) = Leave(new, None) /\ others = {}
  <2>1. IsStore(new) /\ DOMAIN new.blocks = DOMAIN d.blocks \cup {key}
    BY BesideStore
  <2>2. \A k \in DOMAIN d.blocks : k[1] = key[1] => (k[2] = None) = (key[2] = None)
    BY <1>3
  <2>3. OneKind(DOMAIN new.blocks)
    <3> HIDE DEF new, key
    <3> QED BY <2>1, <2>2 DEF OneKind
  <2> HIDE DEF new, key, others
  <2>4. CreateBlock(d, o).data = new
    BY <1>3 DEF Leave
  <2> QED BY <2>1, <2>3, <2>4 DEF Keeps
<1>4. CreateBlock(d, o) =
        IF ~IsInjective(o.fields) THEN Refuse(d, "InvalidRequest")
        ELSE IF others # {} THEN Refuse(d, "LifecycleMismatch")
        ELSE IF key \in DOMAIN d.blocks
          THEN IF DOMAIN d.blocks[key] # ToSet(o.fields) THEN Refuse(d, "SchemaMismatch")
               ELSE Leave(d, None)
        ELSE Leave(new, None)
  BY DEF CreateBlock, Beside
<1> HIDE DEF new, others, key
<1> QED
  BY <1>1, <1>2, <1>3, <1>4 DEF Refuse, Leave

LEMMA ReplaceKeeps ==
  ASSUME NEW d, NEW o, IsStore(d), OneKind(DOMAIN d.blocks)
  PROVE  Keeps(ReplaceMessages(d, o))
<1> DEFINE key == Lookup(d, o.target)
<1>1. CASE ReplaceMessages(d, o).kind # "ok"
  BY <1>1 DEF Keeps
<1>2. ASSUME NEW x, ReplaceMessages(d, o) = Leave([d EXCEPT !.blocks[key][o.target.field] = x], None)
      PROVE  Keeps(ReplaceMessages(d, o))
  <2> DEFINE b == [d.blocks EXCEPT ![key][o.target.field] = x]
  <2>1. [d EXCEPT !.blocks[key][o.target.field] = x] = [blocks |-> b, message |-> d.message, mcl |-> d.mcl]
    BY DEF IsStore
  <2>2. b = [k \in DOMAIN b |-> b[k]] /\ DOMAIN b = DOMAIN d.blocks
    OBVIOUS
  <2> HIDE DEF b
  <2> QED BY <1>2, <2>1, <2>2 DEF Keeps, Leave, IsStore
<1> QED
  BY <1>1, <1>2 DEF ReplaceMessages, Refuse, Leave

LEMMA DropKeeps ==
  ASSUME NEW d, NEW o, IsStore(d), OneKind(DOMAIN d.blocks)
  PROVE  Keeps(DropTemporary(d, o))
<1> DEFINE b == Without(d.blocks, {k \in DOMAIN d.blocks : k[2] = o.inst})
<1>1. DropTemporary(d, o).data = [blocks |-> b, message |-> d.message, mcl |-> d.mcl]
  BY DEF DropTemporary, Leave, IsStore
<1>2. b = [k \in DOMAIN b |-> b[k]] /\ DOMAIN b \subseteq DOMAIN d.blocks
  BY DEF Without
<1> HIDE DEF b
<1> QED
  BY <1>1, <1>2 DEF Keeps, IsStore, OneKind

LEMMA TwoTables ==
  ASSUME NEW d, NEW m, NEW l, IsStore(d)
  PROVE  [d EXCEPT !.message = m, !.mcl = l] = [blocks |-> d.blocks, message |-> m, mcl |-> l]
<1>1. PICK b, x, y : d = [blocks |-> b, message |-> x, mcl |-> y]
  BY DEF IsStore
<1>2. [d EXCEPT !.message = m, !.mcl = l] = [[d EXCEPT !.message = m] EXCEPT !.mcl = l]
  OBVIOUS
<1>3. [d EXCEPT !.message = m] = [blocks |-> b, message |-> m, mcl |-> y]
  BY <1>1
<1>4. [[blocks |-> b, message |-> m, mcl |-> y] EXCEPT !.mcl = l] = [blocks |-> b, message |-> m, mcl |-> l]
  OBVIOUS
<1> QED
  BY <1>1, <1>2, <1>3, <1>4

(* The records of a batch get the numbers behind those of both tables.      *)
LEMMA AppendNumbers ==
  ASSUME NEW d, NEW rs, Len(rs) \in Nat, Numbered(d.message, d.mcl),
         \A i \in 1 .. Len(rs) : rs[i].kind \in {"message", "mcl"}
  PROVE  Numbered(Appended(d, "message", rs), Appended(d, "mcl", rs))
<1>1. PICK n \in Nat : Numbers(d) = 1 .. n /\ DOMAIN d.message \cap DOMAIN d.mcl = {}
  BY DEF Numbered, Numbers
<1>2. Max({0} \cup Numbers(d)) = n
  BY <1>1 DEF Max
<1> DEFINE new(t) == {n + i : i \in {j \in 1 .. Len(rs) : rs[j].kind = t}}
<1>3. ASSUME NEW t PROVE DOMAIN Appended(d, t, rs) = DOMAIN d[t] \cup new(t)
  <2>1. {i \in 1 .. Len(rs) : /\ rs[i].kind = t
                             /\ \A j \in 1 .. i : rs[j].kind \in {"message", "mcl"}}
          = {i \in 1 .. Len(rs) : rs[i].kind = t}
    OBVIOUS
  <2> QED
    BY <1>2, <2>1 DEF Appended, LastSequence, Joined
<1>4. new("message") \cup new("mcl") = n + 1 .. n + Len(rs)
  <2>1. ASSUME NEW x \in n + 1 .. n + Len(rs) PROVE x \in new("message") \cup new("mcl")
    <3>1. PICK i \in 1 .. Len(rs) : x = n + i
      <4>1. x - n \in 1 .. Len(rs) /\ x = n + (x - n)
        BY <1>1
      <4> QED
        BY <4>1
    <3>2. CASE rs[i].kind = "message"
      BY <3>1, <3>2
    <3>3. CASE rs[i].kind = "mcl"
      BY <3>1, <3>3
    <3> QED
      BY <3>2, <3>3
  <2>2. ASSUME NEW t, NEW x \in new(t) PROVE x \in n + 1 .. n + Len(rs)
    BY <1>1
  <2> QED
    BY <2>1, <2>2
<1>5. new("message") \cap new("mcl") = {}
  <2> SUFFICES ASSUME NEW x \in new("message"), x \in new("mcl") PROVE FALSE
    OBVIOUS
  <2>1. PICK i \in 1 .. Len(rs) : x = n + i /\ rs[i].kind = "message"
    OBVIOUS
  <2>2. PICK j \in 1 .. Len(rs) : x = n + j /\ rs[j].kind = "mcl"
    OBVIOUS
  <2> QED
    BY <1>1, <2>1, <2>2
<1> HIDE DEF new
<1>6. DOMAIN d.message \cup DOMAIN d.mcl = 1 .. n
  BY <1>1 DEF Numbers
<1>7. DOMAIN Appended(d, "message", rs) \cup DOMAIN Appended(d, "mcl", rs) = 1 .. n + Len(rs)
  <2>1. DOMAIN Appended(d, "message", rs) \cup DOMAIN Appended(d, "mcl", rs)
          = (1 .. n) \cup (n + 1 .. n + Len(rs))
    BY <1>3, <1>4, <1>6
  <2> QED
    BY <1>1, <2>1
<1>8. DOMAIN Appended(d, "message", rs) \cap DOMAIN Appended(d, "mcl", rs) = {}
  <2>1. (1 .. n) \cap (n + 1 .. n + Len(rs)) = {}
    BY <1>1
  <2> QED
    BY <1>1, <1>3, <1>4, <1>5, <1>6, <2>1
<1>9. n + Len(rs) \in Nat
  BY <1>1
<1> QED
  BY <1>7, <1>8, <1>9 DEF Numbered

LEMMA AppendKeeps ==
  ASSUME NEW d, NEW o, IsStore(d), OneKind(DOMAIN d.blocks), Len(o.records) \in Nat
  PROVE  Keeps(AppendHistory(d, o))
<1> DEFINE m == Appended(d, "message", o.records)
           l == Appended(d, "mcl", o.records)
           valid == \A i \in 1 .. Len(o.records) : o.records[i].kind \in {"message", "mcl"}
           left == [d EXCEPT !.message = m, !.mcl = l]
<1>1. left = [blocks |-> d.blocks, message |-> m, mcl |-> l]
  BY TwoTables
<1>2. valid => Numbered(m, l)
  BY AppendNumbers DEF IsStore
<1>3. AppendHistory(d, o) = IF valid THEN Leave(left, None) ELSE Refuse(left, "InvalidRecord")
  BY DEF AppendHistory
<1> HIDE DEF m, l, valid, left
<1>4. valid => IsStore(left) /\ DOMAIN left.blocks = DOMAIN d.blocks
  BY <1>1, <1>2 DEF IsStore
<1> QED
  BY <1>3, <1>4 DEF Keeps, Refuse, Leave

LEMMA OperationKeeps ==
  ASSUME NEW d, NEW o, IsStore(d), OneKind(DOMAIN d.blocks), o.kind \in DatabaseKinds,
         o.kind = "append" => Len(o.records) \in Nat
  PROVE  Keeps(DatabaseOperation(d, o))
<1>1. CASE o.kind = "create"
  BY <1>1, CreateKeeps DEF DatabaseOperation
<1>2. CASE o.kind = "read"
  BY <1>2 DEF DatabaseOperation, ReadMessages, Keeps, Leave, Refuse
<1>3. CASE o.kind = "replace"
  BY <1>3, ReplaceKeeps DEF DatabaseOperation
<1>4. CASE o.kind = "drop"
  BY <1>4, DropKeeps DEF DatabaseOperation
<1>5. CASE o.kind = "append"
  BY <1>5, AppendKeeps DEF DatabaseOperation
<1>6. CASE o.kind = "history"
  BY <1>6 DEF DatabaseOperation, ReadHistory, Keeps, Leave
<1> QED
  BY <1>1, <1>2, <1>3, <1>4, <1>5, <1>6 DEF DatabaseKinds

(***************************************************************************)
(* The invariant                                                           *)
(***************************************************************************)
ConnOK(c) ==
  /\ DOMAIN c = {"temp", "work", "poisoned", "retired", "confPoisoned"}
  /\ c.temp = [k \in DOMAIN c.temp |-> c.temp[k]]

(* the steps up to which a request has nothing to return *)
Unread == {"idle", "sent", "task", "worker", "open", "read", "synced", "renamed"}

IsRequest(q) ==
  /\ DOMAIN q = {"pc", "op", "cancel", "res", "value", "hit", "draft", "reply"}
  /\ q.hit \in BOOLEAN
  /\ q.op \in Operation \cup {None}
  /\ (q.op = None) <=> (q.pc = "idle")

(* an answer is the end; an effect is not before its step, and what says    *)
(* that there was none is not said after it                                 *)
Told(q) ==
  /\ q.reply # None => q.pc = "over"
  /\ q.hit => q.pc \in {"renamed", "done", "event", "over"}
  /\ q.pc = "renamed" => q.hit
  /\ q.pc \in {"done", "event"} => (q.res = "ok" => q.hit)
  /\ q.pc \in {"done", "event"} => (q.hit => q.res \in {"ok", "CommitUnknown"})
  /\ q.pc \in Unread => q.value = None

(* what a worker in a transaction has in its hands: the data w it works on,  *)
(* while v is what everybody sees                                           *)
InTransaction(q, w, v) ==
  /\ q.pc \in {"begun", "ran", "undo"} => q.op.kind \notin ConfigKinds
  /\ q.pc = "begun" => w = v
  /\ q.pc = "ran" => LET out == DatabaseOperation(v, q.op)
                     IN out.kind = "ok" /\ out.data = w /\ out.value = q.value
  /\ q.pc = "undo" => q.res # "ok"

(* and one that writes the settings c *)
InSettings(q, c) ==
  q.pc \in {"read", "synced"} =>
    /\ q.op.kind \in ConfigKinds
    /\ q.draft = ConfigOperation(c, q.op).data
    /\ ConfigOperation(c, q.op).value = None

RequestOK(q, w, v, c) == IsRequest(q) /\ Told(q) /\ InTransaction(q, w, v) /\ InSettings(q, c)

RequestsOK ==
  /\ req = [r \in Request |-> req[r]]
  /\ \A r \in Request : RequestOK(req[r], conn.work, Visible, conf)

StorageInv ==
  /\ StorageTypeOK
  /\ IsStore(disk)
  /\ ConnOK(conn)
  /\ OneKind(DOMAIN Visible.blocks)
  /\ RequestsOK

LEMMA VisibleBeside == Visible = Beside(disk, conn.temp)
  BY DEF Visible, Beside

(* A step of a request r that alone holds the locks of what the step        *)
(* changes keeps what is known of all requests.                             *)
LEMMA RequestStep ==
  ASSUME StorageInv, NEW r \in Request,
         req' = [req EXCEPT ![r] = req'[r]],
         RequestOK(req'[r], conn'.work, Visible', conf'),
         lock \in {None, r} \/ (conn'.work = conn.work /\ Visible' = Visible),
         cfglock \in {None, r} \/ conf' = conf
  PROVE  RequestsOK'
<1>1. req' = [x \in Request |-> req'[x]]
  BY DEF StorageInv, RequestsOK
<1>2. ASSUME NEW x \in Request, x # r
      PROVE  RequestOK(req'[x], conn'.work, Visible', conf')
  <2>1. req'[x] = req[x]
    BY <1>2 DEF StorageInv, RequestsOK
  <2>2. RequestOK(req[x], conn.work, Visible, conf)
    BY DEF StorageInv, RequestsOK
  <2>3. /\ (req[x].pc \in {"begun", "ran", "undo"}) <=> (lock = x)
        /\ (req[x].pc \in {"read", "synced", "renamed"}) <=> (cfglock = x)
    BY DEF StorageInv, StorageTypeOK
  <2>4. InTransaction(req[x], conn'.work, Visible')
    <3>1. CASE lock \in {None, r}
      <4>1. req[x].pc \notin {"begun", "ran", "undo"}
        BY <1>2, <2>3, <3>1, StorageAssumption
      <4> QED BY <4>1 DEF InTransaction
    <3>2. CASE conn'.work = conn.work /\ Visible' = Visible
      BY <2>2, <3>2 DEF RequestOK
    <3> QED BY <3>1, <3>2
  <2>5. InSettings(req[x], conf')
    <3>1. CASE cfglock \in {None, r}
      <4>1. req[x].pc \notin {"read", "synced", "renamed"}
        BY <1>2, <2>3, <3>1, StorageAssumption
      <4> QED BY <4>1 DEF InSettings
    <3>2. CASE conf' = conf
      BY <2>2, <3>2 DEF RequestOK
    <3> QED BY <3>1, <3>2
  <2> QED BY <2>1, <2>2, <2>4, <2>5 DEF RequestOK
<1>3. \A x \in Request : RequestOK(req'[x], conn'.work, Visible', conf')
  BY <1>1, <1>2
<1> QED
  BY <1>1, <1>3 DEF RequestsOK
Steps == Holding \cup {"idle", "sent", "done", "event", "over"}
InLock == {"begun", "ran", "undo"}
InCfgLock == {"read", "synced", "renamed"}

(* The same for the whole invariant.                                        *)
LEMMA StorageStep ==
  ASSUME StorageInv, NEW r \in Request,
         req' = [req EXCEPT ![r] = req'[r]],
         RequestOK(req'[r], conn'.work, Visible', conf'),
         req'[r].pc \in Steps,
         (req'[r].pc \in InLock) <=> (lock' = r),
         (req'[r].pc \in InCfgLock) <=> (cfglock' = r),
         \/ lock' = lock /\ conn'.work = conn.work /\ Visible' = Visible
         \/ lock \in {None, r} /\ lock' \in {None, r},
         \/ cfglock' = cfglock /\ conf' = conf
         \/ cfglock \in {None, r} /\ cfglock' \in {None, r},
         IsStore(disk'), ConnOK(conn'), OneKind(DOMAIN Visible'.blocks),
         conn'.work # None => lock' # None \/ conn'.poisoned \/ conn'.retired,
         \A k \in DOMAIN conn'.temp : k[2] # None,
         \A k \in DOMAIN disk'.blocks : k[2] = None
  PROVE  StorageInv'
<1>1. RequestsOK'
  BY RequestStep
<1>2. lock' \in Request \cup {None} /\ cfglock' \in Request \cup {None}
  BY DEF StorageInv, StorageTypeOK
<1>3. req' = [x \in Request |-> req'[x]] /\ \A x \in Request : x # r => req'[x] = req[x]
  BY DEF StorageInv, RequestsOK
<1>4. ASSUME NEW x \in Request
      PROVE  /\ req'[x].pc \in Steps
             /\ (req'[x].pc \in InLock) <=> (lock' = x)
             /\ (req'[x].pc \in InCfgLock) <=> (cfglock' = x)
  <2>1. CASE x = r
    BY <1>3, <2>1
  <2>2. CASE x # r
    <3>1. /\ req[x].pc \in Steps
          /\ (req[x].pc \in InLock) <=> (lock = x)
          /\ (req[x].pc \in InCfgLock) <=> (cfglock = x)
      BY DEF StorageInv, StorageTypeOK, Steps, InLock, InCfgLock
    <3>2. (lock' = x <=> lock = x) /\ (cfglock' = x <=> cfglock = x)
      BY <2>2, StorageAssumption
    <3> QED BY <1>3, <2>2, <3>1, <3>2
  <2> QED BY <2>1, <2>2
<1>5. StorageTypeOK'
  BY <1>2, <1>4 DEF StorageTypeOK, Steps, InLock, InCfgLock
<1> QED
  BY <1>1, <1>5 DEF StorageInv

(* A step that changes a request only.                                      *)
LEMMA QuietStep ==
  ASSUME StorageInv, NEW r \in Request,
         req' = [req EXCEPT ![r] = req'[r]],
         UNCHANGED <<disk, conn, lock, conf, cfglock>>,
         RequestOK(req'[r], conn.work, Visible, conf),
         req'[r].pc \in Steps,
         (req'[r].pc \in InLock) <=> (req[r].pc \in InLock),
         (req'[r].pc \in InCfgLock) <=> (req[r].pc \in InCfgLock)
  PROVE  StorageInv'
<1>1. Visible' = Visible
  BY DEF Visible
<1>2. /\ (req'[r].pc \in InLock) <=> (lock' = r)
      /\ (req'[r].pc \in InCfgLock) <=> (cfglock' = r)
  BY DEF StorageInv, StorageTypeOK, InLock, InCfgLock
<1>3. /\ IsStore(disk') /\ ConnOK(conn') /\ OneKind(DOMAIN Visible'.blocks)
      /\ conn'.work # None => lock' # None \/ conn'.poisoned \/ conn'.retired
      /\ \A k \in DOMAIN conn'.temp : k[2] # None
      /\ \A k \in DOMAIN disk'.blocks : k[2] = None
  BY <1>1 DEF StorageInv, StorageTypeOK
<1> QED
  BY <1>1, <1>2, <1>3, StorageStep

(* What is known of one request. *)
LEMMA RequestKnown ==
  ASSUME StorageInv, NEW r \in Request
  PROVE  /\ RequestOK(req[r], conn.work, Visible, conf)
         /\ req[r].pc \in Steps
         /\ (req[r].pc \in InLock) <=> (lock = r)
         /\ (req[r].pc \in InCfgLock) <=> (cfglock = r)
  BY DEF StorageInv, RequestsOK, StorageTypeOK, Steps, InLock, InCfgLock

(***************************************************************************)
(* The steps of a request                                                  *)
(***************************************************************************)
(* what a step makes of a request, field by field *)
LEMMA StepNext ==
  ASSUME NEW r \in Request, NEW from, NEW to, StorageInv, Step(r, from, to)
  PROVE  LET o == req[r]
             q == req'[r]
         IN /\ req' = [req EXCEPT ![r] = q]
            /\ DOMAIN q = DOMAIN o
            /\ q.pc = to /\ q.op = o.op /\ q.res = o.res /\ q.value = o.value
            /\ q.hit = o.hit /\ q.draft = o.draft /\ q.reply = o.reply
<1>1. IsRequest(req[r]) /\ req = [x \in Request |-> req[x]]
  BY RequestKnown DEF RequestOK, StorageInv, RequestsOK
<1>2. req' = [req EXCEPT ![r].pc = to]
  BY DEF Step
<1>3. req'[r] = [req[r] EXCEPT !.pc = to] /\ req' = [req EXCEPT ![r] = req'[r]]
  BY <1>1, <1>2
<1> QED
  BY <1>1, <1>3 DEF IsRequest

LEMMA EndsNext ==
  ASSUME NEW r \in Request, NEW from, NEW e, StorageInv, Ends(r, from, e)
  PROVE  LET o == req[r]
             q == req'[r]
         IN /\ req' = [req EXCEPT ![r] = q]
            /\ DOMAIN q = DOMAIN o
            /\ q.pc = "done" /\ q.op = o.op /\ q.res = e /\ q.value = None
            /\ q.hit = o.hit /\ q.draft = None /\ q.reply = o.reply
<1>1. IsRequest(req[r]) /\ req = [x \in Request |-> req[x]]
  BY RequestKnown DEF RequestOK, StorageInv, RequestsOK
<1>2. req' = [req EXCEPT ![r] = Done([req[r] EXCEPT !.value = None], e)]
  BY DEF Ends
<1>3. req'[r] = Done([req[r] EXCEPT !.value = None], e) /\ req' = [req EXCEPT ![r] = req'[r]]
  BY <1>1, <1>2
<1> QED
  BY <1>1, <1>3 DEF IsRequest, Done

LEMMA EndsHitNext ==
  ASSUME NEW r \in Request, NEW from, NEW e, NEW v, StorageInv, EndsHit(r, from, e, v)
  PROVE  LET o == req[r]
             q == req'[r]
         IN /\ req' = [req EXCEPT ![r] = q]
            /\ DOMAIN q = DOMAIN o
            /\ q.pc = "done" /\ q.op = o.op /\ q.res = e /\ q.value = v
            /\ q.hit /\ q.draft = None /\ q.reply = o.reply
<1>1. IsRequest(req[r]) /\ req = [x \in Request |-> req[x]]
  BY RequestKnown DEF RequestOK, StorageInv, RequestsOK
<1>2. req' = [req EXCEPT ![r] = Done([req[r] EXCEPT !.hit = TRUE, !.value = v], e)]
  BY DEF EndsHit
<1>3. req'[r] = Done([req[r] EXCEPT !.hit = TRUE, !.value = v], e) /\ req' = [req EXCEPT ![r] = req'[r]]
  BY <1>1, <1>2
<1> QED
  BY <1>1, <1>3 DEF IsRequest, Done

LEMMA AnswerNext ==
  ASSUME NEW r \in Request, NEW from, NEW e, StorageInv, Answer(r, from, e)
  PROVE  LET o == req[r]
             q == req'[r]
         IN /\ req' = [req EXCEPT ![r] = q]
            /\ DOMAIN q = DOMAIN o
            /\ q.pc = "over" /\ q.op = o.op /\ q.res = None /\ q.value = o.value
            /\ q.hit = o.hit /\ q.draft = o.draft /\ q.reply = e
<1>1. IsRequest(req[r]) /\ req = [x \in Request |-> req[x]]
  BY RequestKnown DEF RequestOK, StorageInv, RequestsOK
<1>2. req' = [req EXCEPT ![r] = [req[r] EXCEPT !.pc = "over", !.reply = e, !.res = None,
                                        !.cancel = FALSE]]
  BY DEF Answer
<1>3. /\ req'[r] = [req[r] EXCEPT !.pc = "over", !.reply = e, !.res = None, !.cancel = FALSE]
      /\ req' = [req EXCEPT ![r] = req'[r]]
  BY <1>1, <1>2
<1> QED
  BY <1>1, <1>3 DEF IsRequest
LEMMA AskInv ==
  ASSUME StorageInv, NEW r \in Request, Ask(r)
  PROVE  StorageInv'
<1> DEFINE q == req'[r]
<1>1. RequestOK(req[r], conn.work, Visible, conf) /\ req = [x \in Request |-> req[x]]
  BY RequestKnown DEF StorageInv, RequestsOK
<1>2. PICK o \in Asks[r] : req' = [req EXCEPT ![r].pc = "sent", ![r].op = o]
  BY DEF Ask
<1>3. q = [req[r] EXCEPT !.pc = "sent", !.op = o] /\ req' = [req EXCEPT ![r] = q]
  BY <1>1, <1>2
<1>4. /\ DOMAIN q = DOMAIN req[r]
      /\ q.pc = "sent" /\ q.op = o /\ q.value = req[r].value
      /\ q.hit = req[r].hit /\ q.reply = req[r].reply
  BY <1>1, <1>3 DEF RequestOK, IsRequest
<1>5. o \in Operation /\ o # None
  BY StorageAssumption
<1>6. req[r].pc = "idle"
  BY DEF Ask
<1> HIDE DEF q
<1>7. RequestOK(q, conn.work, Visible, conf)
  BY <1>1, <1>4, <1>5, <1>6 DEF RequestOK, IsRequest, Told, InTransaction, InSettings, Unread
<1>8. /\ q.pc \in Steps
      /\ (q.pc \in InLock) <=> (req[r].pc \in InLock)
      /\ (q.pc \in InCfgLock) <=> (req[r].pc \in InCfgLock)
  BY <1>4, <1>6 DEF Steps, InLock, InCfgLock
<1>9. UNCHANGED <<disk, conn, lock, conf, cfglock>>
  BY DEF Ask, sameData
<1> QED
  BY <1>3, <1>7, <1>8, <1>9, QuietStep DEF q

LEMMA CancelInv ==
  ASSUME StorageInv, NEW r \in Request, Cancel(r)
  PROVE  StorageInv'
<1> DEFINE q == req'[r]
<1>1. RequestOK(req[r], conn.work, Visible, conf) /\ req = [x \in Request |-> req[x]]
  BY RequestKnown DEF StorageInv, RequestsOK
<1>2. req' = [req EXCEPT ![r].cancel = TRUE]
  BY DEF Cancel
<1>3. q = [req[r] EXCEPT !.cancel = TRUE] /\ req' = [req EXCEPT ![r] = q]
  BY <1>1, <1>2
<1>4. /\ DOMAIN q = DOMAIN req[r]
      /\ q.pc = req[r].pc /\ q.op = req[r].op /\ q.value = req[r].value /\ q.res = req[r].res
      /\ q.hit = req[r].hit /\ q.reply = req[r].reply /\ q.draft = req[r].draft
  BY <1>1, <1>3 DEF RequestOK, IsRequest
<1> HIDE DEF q
<1>5. RequestOK(q, conn.work, Visible, conf)
  BY <1>1, <1>4 DEF RequestOK, IsRequest, Told, InTransaction, InSettings, Unread
<1>6. q.pc \in Steps
  BY <1>4, RequestKnown
<1>7. UNCHANGED <<disk, conn, lock, conf, cfglock>>
  BY DEF Cancel, sameData
<1> QED
  BY <1>3, <1>4, <1>5, <1>6, <1>7, QuietStep DEF q

(* Steps between places outside of the locks. *)
Outside == Steps \ (InLock \cup InCfgLock)

LEMMA QuietStepInv ==
  ASSUME StorageInv, NEW r \in Request, NEW from, NEW to, Step(r, from, to),
         from \in Outside \ {"idle", "over"}, to \in Outside \ {"idle", "over"},
         from \in {"done", "event"} <=> to \in {"done", "event"},
         UNCHANGED <<disk, conn, lock, conf, cfglock>>
  PROVE  StorageInv'
<1> DEFINE q == req'[r]
<1>1. RequestOK(req[r], conn.work, Visible, conf) /\ req[r].pc = from
  BY RequestKnown DEF Step
<1>2. /\ req' = [req EXCEPT ![r] = q]
      /\ DOMAIN q = DOMAIN req[r]
      /\ q.pc = to /\ q.op = req[r].op /\ q.res = req[r].res /\ q.value = req[r].value
      /\ q.hit = req[r].hit /\ q.draft = req[r].draft /\ q.reply = req[r].reply
  BY StepNext
<1> HIDE DEF q
<1>3. /\ from \in {"sent", "task", "worker", "open", "done", "event"}
      /\ to \in {"sent", "task", "worker", "open", "done", "event"}
  BY DEF Outside, Steps, Holding, InLock, InCfgLock
<1>4. RequestOK(q, conn.work, Visible, conf)
  <2>1. IsRequest(q)
    BY <1>1, <1>2, <1>3 DEF RequestOK, IsRequest
  <2>2. Told(q)
    BY <1>1, <1>2, <1>3 DEF RequestOK, Told, Unread
  <2>3. InTransaction(q, conn.work, Visible) /\ InSettings(q, conf)
    BY <1>2, <1>3 DEF InTransaction, InSettings
  <2> QED BY <2>1, <2>2, <2>3 DEF RequestOK
<1>5. /\ q.pc \in Steps
      /\ (q.pc \in InLock) <=> (req[r].pc \in InLock)
      /\ (q.pc \in InCfgLock) <=> (req[r].pc \in InCfgLock)
  BY <1>1, <1>2 DEF Outside
<1> QED
  BY <1>2, <1>4, <1>5, QuietStep DEF q

LEMMA QuietAnswerInv ==
  ASSUME StorageInv, NEW r \in Request, NEW from, NEW e, Answer(r, from, e),
         from \in Outside \ {"idle"},
         UNCHANGED <<disk, conn, lock, conf, cfglock>>
  PROVE  StorageInv'
<1> DEFINE q == req'[r]
<1>1. RequestOK(req[r], conn.work, Visible, conf) /\ req[r].pc = from
  BY RequestKnown DEF Answer
<1>2. /\ req' = [req EXCEPT ![r] = q]
      /\ DOMAIN q = DOMAIN req[r]
      /\ q.pc = "over" /\ q.op = req[r].op /\ q.hit = req[r].hit
  BY AnswerNext
<1> HIDE DEF q
<1>3. RequestOK(q, conn.work, Visible, conf)
  BY <1>1, <1>2 DEF RequestOK, IsRequest, Told, Unread, InTransaction, InSettings
<1>4. /\ q.pc \in Steps
      /\ (q.pc \in InLock) <=> (req[r].pc \in InLock)
      /\ (q.pc \in InCfgLock) <=> (req[r].pc \in InCfgLock)
  BY <1>1, <1>2 DEF Outside, Steps, InLock, InCfgLock
<1> QED
  BY <1>2, <1>3, <1>4, QuietStep DEF q

(* a worker that ends outside of the locks, without effect *)
LEMMA QuietEndsInv ==
  ASSUME StorageInv, NEW r \in Request, NEW from, NEW e, Ends(r, from, e),
         from \in {"worker", "open"}, e # "ok",
         UNCHANGED <<disk, conn, lock, conf, cfglock>>
  PROVE  StorageInv'
<1> DEFINE q == req'[r]
<1>1. RequestOK(req[r], conn.work, Visible, conf) /\ req[r].pc = from
  BY RequestKnown DEF Ends
<1>2. /\ req' = [req EXCEPT ![r] = q]
      /\ DOMAIN q = DOMAIN req[r]
      /\ q.pc = "done" /\ q.op = req[r].op /\ q.hit = req[r].hit /\ q.res = e
      /\ q.reply = req[r].reply
  BY EndsNext
<1> HIDE DEF q
<1>3. RequestOK(q, conn.work, Visible, conf)
  BY <1>1, <1>2 DEF RequestOK, IsRequest, Told, Unread, InTransaction, InSettings
<1>4. /\ q.pc \in Steps
      /\ (q.pc \in InLock) <=> (req[r].pc \in InLock)
      /\ (q.pc \in InCfgLock) <=> (req[r].pc \in InCfgLock)
  BY <1>1, <1>2 DEF Outside, Steps, InLock, InCfgLock
<1> QED
  BY <1>2, <1>3, <1>4, QuietStep DEF q

LEMMA HandleInv ==
  ASSUME StorageInv, NEW r \in Request, Handle(r) \/ Poll(r) \/ DropRequest(r)
  PROVE  StorageInv'
<1>1. UNCHANGED <<disk, conn, lock, conf, cfglock>>
  BY DEF Handle, Poll, DropRequest, sameData
<1>2. \/ Step(r, "sent", "task") \/ Step(r, "task", "worker")
      \/ \E e \in {"OwnerMissing", "Cancelled", "Dropped"} : Answer(r, "sent", e) \/ Answer(r, "task", e)
  BY DEF Handle, Poll, DropRequest
<1>3. {"sent", "task", "worker"} \subseteq Outside
  BY DEF Outside, Steps, Holding, InLock, InCfgLock
<1> QED
  BY <1>1, <1>2, <1>3, QuietStepInv, QuietAnswerInv

LEMMA BeginInv ==
  ASSUME StorageInv, NEW r \in Request, Begin(r)
  PROVE  StorageInv'
<1>1. UNCHANGED <<disk, conn, lock, conf, cfglock>>
  BY DEF Begin, sameData
<1>2. {"worker", "open"} \subseteq Outside
  BY DEF Outside, Steps, Holding, InLock, InCfgLock
<1> QED
  BY <1>1, <1>2, QuietStepInv, QuietEndsInv DEF Begin

LEMMA JoinInv ==
  ASSUME StorageInv, NEW r \in Request, Join(r) \/ HandleResult(r)
  PROVE  StorageInv'
<1>1. UNCHANGED <<disk, conn, lock, conf, cfglock>>
  BY DEF Join, HandleResult, sameData
<1>2. \/ Step(r, "done", "event")
      \/ \E e : Answer(r, "done", e) \/ Answer(r, "event", e)
  BY DEF Join, HandleResult
<1>3. {"done", "event"} \subseteq Outside
  BY DEF Outside, Steps, Holding, InLock, InCfgLock
<1> QED
  BY <1>1, <1>2, <1>3, QuietStepInv, QuietAnswerInv

(***************************************************************************)
(* The steps in a transaction                                              *)
(***************************************************************************)
LEMMA LockInv ==
  ASSUME StorageInv, NEW r \in Request, Lock(r)
  PROVE  StorageInv'
<1> DEFINE q == req'[r]
<1>1. CASE /\ \E e \in {"Closed", "CleanupFailed", "WriteFailed"} : Ends(r, "open", e)
           /\ UNCHANGED <<conn, lock>>
  <2>1. UNCHANGED <<disk, conn, lock, conf, cfglock>>
    BY <1>1 DEF Lock
  <2> QED BY <1>1, <2>1, QuietEndsInv
<1>2. CASE /\ ~conn.poisoned /\ ~conn.retired
           /\ Step(r, "open", "begun")
           /\ conn' = [conn EXCEPT !.work = Visible]
           /\ lock' = r
  <2>1. RequestOK(req[r], conn.work, Visible, conf) /\ req[r].pc = "open"
    BY <1>2, RequestKnown DEF Step
  <2>2. /\ req' = [req EXCEPT ![r] = q]
        /\ DOMAIN q = DOMAIN req[r]
        /\ q.pc = "begun" /\ q.op = req[r].op /\ q.hit = req[r].hit /\ q.reply = req[r].reply
    BY <1>2, StepNext
  <2>3. /\ ConnOK(conn') /\ conn'.work = Visible /\ conn'.temp = conn.temp
    BY <1>2 DEF StorageInv, ConnOK
  <2>4. UNCHANGED <<disk, conf, cfglock>> /\ lock = None /\ req[r].op.kind \notin ConfigKinds
    BY DEF Lock, Free
  <2>5. Visible' = Visible
    BY <2>3, <2>4 DEF Visible
  <2> HIDE DEF q
  <2>6. RequestOK(q, conn'.work, Visible', conf')
    BY <2>1, <2>2, <2>3, <2>4, <2>5 DEF RequestOK, IsRequest, Told, Unread, InTransaction, InSettings
  <2>7. /\ q.pc \in Steps
        /\ (q.pc \in InLock) <=> (lock' = r)
        /\ (q.pc \in InCfgLock) <=> (cfglock' = r)
    BY <1>2, <2>1, <2>2, <2>4, RequestKnown DEF Steps, InLock, InCfgLock, Holding
  <2>8. /\ IsStore(disk') /\ OneKind(DOMAIN Visible'.blocks)
        /\ conn'.work # None => lock' # None \/ conn'.poisoned \/ conn'.retired
        /\ \A k \in DOMAIN conn'.temp : k[2] # None
        /\ \A k \in DOMAIN disk'.blocks : k[2] = None
    BY <1>2, <2>3, <2>4, <2>5, StorageAssumption DEF StorageInv, StorageTypeOK
  <2> QED
    BY <1>2, <2>2, <2>3, <2>4, <2>6, <2>7, <2>8, StorageStep DEF q
<1> QED
  BY <1>1, <1>2 DEF Lock

LEMMA RunInv ==
  ASSUME StorageInv, NEW r \in Request, Run(r)
  PROVE  StorageInv'
<1> DEFINE q == req'[r]
           out == DatabaseOperation(conn.work, req[r].op)
           to == IF out.kind = "ok" THEN "ran" ELSE "undo"
<1>1. RequestOK(req[r], conn.work, Visible, conf) /\ req[r].pc = "begun" /\ req = [x \in Request |-> req[x]]
  BY RequestKnown DEF Run, StorageInv, RequestsOK
<1>2. /\ req' = [req EXCEPT ![r].pc = to, ![r].res = out.kind, ![r].value = out.value]
      /\ conn' = [conn EXCEPT !.work = out.data]
      /\ UNCHANGED <<disk, conf, lock, cfglock>>
  BY DEF Run, sameData
<1> HIDE DEF out, to
<1>3. q = [req[r] EXCEPT !.pc = to, !.res = out.kind, !.value = out.value] /\ req' = [req EXCEPT ![r] = q]
  BY <1>1, <1>2
<1>4. /\ DOMAIN q = DOMAIN req[r]
      /\ q.pc = to /\ q.op = req[r].op /\ q.value = out.value /\ q.res = out.kind
      /\ q.hit = req[r].hit /\ q.reply = req[r].reply
  BY <1>1, <1>3 DEF RequestOK, IsRequest
<1>5. /\ ConnOK(conn') /\ conn'.work = out.data /\ conn'.temp = conn.temp
      /\ conn'.poisoned = conn.poisoned /\ conn'.retired = conn.retired
  BY <1>2 DEF StorageInv, ConnOK
<1>6. Visible' = Visible
  BY <1>2, <1>5 DEF Visible
<1>7. lock = r /\ conn.work = Visible /\ req[r].op.kind \notin ConfigKinds
  BY <1>1, RequestKnown DEF InLock, RequestOK, InTransaction
<1>8. \/ to = "ran" /\ out.kind = "ok"
      \/ to = "undo" /\ out.kind # "ok"
  BY DEF to
<1>9. out = DatabaseOperation(Visible, q.op)
  BY <1>4, <1>7 DEF out
<1> HIDE DEF q
<1>10. RequestOK(q, conn'.work, Visible', conf')
  <2>1. IsRequest(q) /\ Told(q)
    BY <1>1, <1>4, <1>8 DEF RequestOK, IsRequest, Told, Unread
  <2>2. InTransaction(q, out.data, Visible)
    BY <1>4, <1>7, <1>8, <1>9 DEF InTransaction
  <2>3. InSettings(q, conf')
    BY <1>4, <1>8 DEF InSettings
  <2> QED BY <1>5, <1>6, <2>1, <2>2, <2>3 DEF RequestOK
<1>11. /\ q.pc \in Steps
       /\ (q.pc \in InLock) <=> (lock' = r)
       /\ (q.pc \in InCfgLock) <=> (cfglock' = r)
  BY <1>1, <1>2, <1>4, <1>7, <1>8, RequestKnown DEF Steps, InLock, InCfgLock, Holding
<1>12. /\ IsStore(disk') /\ OneKind(DOMAIN Visible'.blocks)
       /\ conn'.work # None => lock' # None \/ conn'.poisoned \/ conn'.retired
       /\ \A k \in DOMAIN conn'.temp : k[2] # None
       /\ \A k \in DOMAIN disk'.blocks : k[2] = None
  BY <1>2, <1>5, <1>6, <1>7, StorageAssumption DEF StorageInv, StorageTypeOK
<1> QED
  BY <1>2, <1>3, <1>5, <1>7, <1>10, <1>11, <1>12, StorageStep DEF q

(* A worker in a transaction ends with the lock let go of and nothing of    *)
(* its work in the file.                                                    *)
LEMMA UndoneInv ==
  ASSUME StorageInv, NEW r \in Request, NEW from, NEW e, Ends(r, from, e),
         from \in InLock, e # "ok",
         UNCHANGED <<disk, conf, cfglock>>, lock' = None,
         ConnOK(conn'), conn'.temp = conn.temp,
         conn'.work # None => conn'.poisoned \/ conn'.retired
  PROVE  StorageInv'
<1> DEFINE q == req'[r]
<1>1. RequestOK(req[r], conn.work, Visible, conf) /\ req[r].pc = from /\ lock = r
  BY RequestKnown DEF Ends
<1>2. /\ req' = [req EXCEPT ![r] = q]
      /\ DOMAIN q = DOMAIN req[r]
      /\ q.pc = "done" /\ q.op = req[r].op /\ q.hit = req[r].hit /\ q.res = e
      /\ q.reply = req[r].reply
  BY EndsNext
<1>3. Visible' = Visible
  BY DEF Visible
<1> HIDE DEF q
<1>4. RequestOK(q, conn'.work, Visible', conf')
  BY <1>1, <1>2 DEF RequestOK, IsRequest, Told, Unread, InTransaction, InSettings, InLock
<1>5. /\ q.pc \in Steps
      /\ (q.pc \in InLock) <=> (lock' = r)
      /\ (q.pc \in InCfgLock) <=> (cfglock' = r)
  BY <1>1, <1>2, RequestKnown, StorageAssumption DEF Steps, InLock, InCfgLock
<1>6. /\ IsStore(disk') /\ OneKind(DOMAIN Visible'.blocks)
      /\ conn'.work # None => lock' # None \/ conn'.poisoned \/ conn'.retired
      /\ \A k \in DOMAIN conn'.temp : k[2] # None
      /\ \A k \in DOMAIN disk'.blocks : k[2] = None
  BY <1>3 DEF StorageInv, StorageTypeOK
<1> QED
  BY <1>1, <1>2, <1>4, <1>5, <1>6, StorageStep DEF q

(* COMMIT makes what everybody sees what the operation makes of it.         *)
LEMMA CommitEffect ==
  ASSUME StorageInv, NEW r \in Request, req[r].pc = "ran",
         disk' = Files(conn.work), conn' = Committed
  PROVE  /\ Visible' = conn.work
         /\ conn.work = DatabaseOperation(Visible, req[r].op).data
         /\ req[r].value = DatabaseOperation(Visible, req[r].op).value
         /\ req[r].op.kind \in DatabaseKinds
         /\ IsStore(disk') /\ ConnOK(conn') /\ OneKind(DOMAIN Visible'.blocks)
         /\ conn'.work = None
         /\ \A k \in DOMAIN conn'.temp : k[2] # None
         /\ \A k \in DOMAIN disk'.blocks : k[2] = None
<1> DEFINE w == conn.work
           out == DatabaseOperation(Visible, req[r].op)
<1>1. RequestOK(req[r], conn.work, Visible, conf)
  BY RequestKnown
<1>2. out.kind = "ok" /\ out.data = w /\ out.value = req[r].value
  BY <1>1 DEF RequestOK, InTransaction
<1>3. /\ req[r].op.kind \in DatabaseKinds
      /\ req[r].op.kind = "append" => Len(req[r].op.records) \in Nat
  <2>1. req[r].op \in Operation
    BY <1>1 DEF RequestOK, IsRequest
  <2> QED
    BY <1>1, <2>1, StorageAssumption DEF RequestOK, InTransaction
<1>4. IsStore(Visible)
  BY VisibleBeside, BesideStore DEF StorageInv
<1> HIDE DEF out
<1>5. Keeps(out)
  BY <1>3, <1>4, OperationKeeps DEF StorageInv, out
<1>6. IsStore(w) /\ OneKind(DOMAIN w.blocks)
  BY <1>2, <1>5 DEF Keeps
<1>7. /\ ConnOK(conn') /\ conn'.work = None /\ conn'.temp = Temps(w)
  <2>1. /\ DOMAIN conn' = DOMAIN conn /\ conn'.work = None /\ conn'.temp = Temps(w)
    BY DEF Committed, StorageInv, ConnOK
  <2>2. Temps(w) = [k \in DOMAIN Temps(w) |-> Temps(w)[k]]
    BY <1>6, TempsStore
  <2> QED BY <2>1, <2>2 DEF StorageInv, ConnOK
<1>8. Visible' = w
  <2>1. Visible' = Beside(Files(w), Temps(w))
    BY <1>7 DEF Visible, Beside
  <2> QED BY <1>6, <2>1, SplitStore
<1>9. /\ IsStore(disk')
      /\ \A k \in DOMAIN conn'.temp : k[2] # None
      /\ \A k \in DOMAIN disk'.blocks : k[2] = None
  <2>1. IsStore(Files(w)) /\ DOMAIN Files(w).blocks = {k \in DOMAIN w.blocks : k[2] = None}
    BY <1>6, FilesStore
  <2>2. DOMAIN Temps(w) = {k \in DOMAIN w.blocks : k[2] # None}
    BY <1>6, TempsStore
  <2> QED BY <1>7, <2>1, <2>2
<1> QED
  BY <1>2, <1>3, <1>6, <1>7, <1>8, <1>9 DEF out

LEMMA CommittedInv ==
  ASSUME StorageInv, NEW r \in Request, NEW e \in {"ok", "CommitUnknown"},
         EndsHit(r, "ran", e, req[r].value),
         disk' = Files(conn.work), conn' = Committed, lock' = None,
         UNCHANGED <<conf, cfglock>>
  PROVE  StorageInv'
<1> DEFINE q == req'[r]
<1>1. RequestOK(req[r], conn.work, Visible, conf) /\ req[r].pc = "ran" /\ lock = r
  BY RequestKnown DEF EndsHit, InLock
<1>2. /\ req' = [req EXCEPT ![r] = q]
      /\ DOMAIN q = DOMAIN req[r]
      /\ q.pc = "done" /\ q.op = req[r].op /\ q.hit /\ q.res = e
      /\ q.reply = req[r].reply
  BY EndsHitNext
<1> HIDE DEF q
<1>3. RequestOK(q, conn'.work, Visible', conf')
  BY <1>1, <1>2 DEF RequestOK, IsRequest, Told, Unread, InTransaction, InSettings
<1>4. /\ q.pc \in Steps
      /\ (q.pc \in InLock) <=> (lock' = r)
      /\ (q.pc \in InCfgLock) <=> (cfglock' = r)
  BY <1>1, <1>2, RequestKnown, StorageAssumption DEF Steps, InLock, InCfgLock
<1>5. /\ IsStore(disk') /\ ConnOK(conn') /\ OneKind(DOMAIN Visible'.blocks)
      /\ conn'.work = None
      /\ \A k \in DOMAIN conn'.temp : k[2] # None
      /\ \A k \in DOMAIN disk'.blocks : k[2] = None
  BY <1>1, CommitEffect
<1> QED
  BY <1>1, <1>2, <1>3, <1>4, <1>5, StorageStep DEF q

(* COMMIT fails and ROLLBACK follows *)
LEMMA FailedInv ==
  ASSUME StorageInv, NEW r \in Request, req[r].pc = "ran", NEW e, e # "ok",
         req' = [req EXCEPT ![r].pc = "undo", ![r].res = e],
         UNCHANGED <<disk, conn, lock, conf, cfglock>>
  PROVE  StorageInv'
<1> DEFINE q == req'[r]
<1>1. RequestOK(req[r], conn.work, Visible, conf) /\ req = [x \in Request |-> req[x]]
  BY RequestKnown DEF StorageInv, RequestsOK
<1>2. q = [req[r] EXCEPT !.pc = "undo", !.res = e] /\ req' = [req EXCEPT ![r] = q]
  BY <1>1
<1>3. /\ DOMAIN q = DOMAIN req[r]
      /\ q.pc = "undo" /\ q.op = req[r].op /\ q.res = e
      /\ q.hit = req[r].hit /\ q.reply = req[r].reply
  BY <1>1, <1>2 DEF RequestOK, IsRequest
<1> HIDE DEF q
<1>4. RequestOK(q, conn.work, Visible, conf)
  BY <1>1, <1>3 DEF RequestOK, IsRequest, Told, Unread, InTransaction, InSettings
<1>5. /\ q.pc \in Steps
      /\ (q.pc \in InLock) <=> (req[r].pc \in InLock)
      /\ (q.pc \in InCfgLock) <=> (req[r].pc \in InCfgLock)
  BY <1>3 DEF Steps, InLock, InCfgLock, Holding
<1> QED
  BY <1>2, <1>4, <1>5, QuietStep DEF q

LEMMA CommitInv ==
  ASSUME StorageInv, NEW r \in Request, Commit(r)
  PROVE  StorageInv'
<1>1. UNCHANGED <<conf, cfglock>> /\ req[r].pc = "ran"
  BY DEF Commit
<1>2. CASE \E e \in {"ok", "CommitUnknown"} :
             /\ EndsHit(r, "ran", e, req[r].value)
             /\ disk' = Files(conn.work) /\ conn' = Committed /\ lock' = None
  BY <1>1, <1>2, CommittedInv
<1>3. CASE \E e \in {"WriteFailed", "CommitUnknown"} :
             /\ req' = [req EXCEPT ![r].pc = "undo", ![r].res = e]
             /\ UNCHANGED <<disk, conn, lock>>
  BY <1>1, <1>3, FailedInv
<1>4. CASE Ends(r, "ran", "CommitUnknown") /\ disk' = disk /\ conn' = RolledBack /\ lock' = None
  <2>1. ConnOK(conn') /\ conn'.temp = conn.temp /\ conn'.work = None
    BY <1>4 DEF RolledBack, StorageInv, ConnOK
  <2> QED BY <1>1, <1>4, <2>1, UndoneInv DEF InLock
<1> QED
  BY <1>2, <1>3, <1>4 DEF Commit, CommitError

LEMMA RollbackInv ==
  ASSUME StorageInv, NEW r \in Request, Rollback(r)
  PROVE  StorageInv'
<1>1. UNCHANGED <<disk, conf, cfglock>> /\ lock' = None
  BY DEF Rollback
<1>2. CASE Ends(r, "undo", req[r].res) /\ conn' = RolledBack
  <2>1. ConnOK(conn') /\ conn'.temp = conn.temp /\ conn'.work = None
    BY <1>2 DEF RolledBack, StorageInv, ConnOK
  <2>2. req[r].res # "ok"
    BY <1>2, RequestKnown DEF Ends, RequestOK, InTransaction
  <2> QED BY <1>1, <1>2, <2>1, <2>2, UndoneInv DEF InLock
<1>3. CASE Ends(r, "undo", "CleanupFailed") /\ conn' = [conn EXCEPT !.retired = TRUE]
  <2>1. ConnOK(conn') /\ conn'.temp = conn.temp /\ conn'.retired
    BY <1>3 DEF StorageInv, ConnOK
  <2> QED BY <1>1, <1>3, <2>1, UndoneInv DEF InLock
<1> QED
  BY <1>2, <1>3 DEF Rollback

(***************************************************************************)
(* The steps on the settings                                               *)
(***************************************************************************)
(* A worker on the settings ends and lets go of their lock.                 *)
LEMMA SettledInv ==
  ASSUME StorageInv, NEW r \in Request, NEW from, NEW e, Ends(r, from, e),
         \/ from \in {"read", "synced"} /\ e # "ok"
         \/ from = "renamed" /\ e \in {"ok", "CommitUnknown"},
         UNCHANGED <<disk, conf, lock>>, cfglock' = None,
         ConnOK(conn'), conn'.temp = conn.temp, conn'.work = conn.work,
         conn'.poisoned = conn.poisoned, conn'.retired = conn.retired
  PROVE  StorageInv'
<1> DEFINE q == req'[r]
<1>1. RequestOK(req[r], conn.work, Visible, conf) /\ req[r].pc = from /\ cfglock = r
  BY RequestKnown DEF Ends, InCfgLock
<1>2. /\ req' = [req EXCEPT ![r] = q]
      /\ DOMAIN q = DOMAIN req[r]
      /\ q.pc = "done" /\ q.op = req[r].op /\ q.hit = req[r].hit /\ q.res = e
      /\ q.reply = req[r].reply
  BY EndsNext
<1>3. Visible' = Visible
  BY DEF Visible
<1> HIDE DEF q
<1>4. RequestOK(q, conn'.work, Visible', conf')
  BY <1>1, <1>2 DEF RequestOK, IsRequest, Told, Unread, InTransaction, InSettings
<1>5. /\ q.pc \in Steps
      /\ (q.pc \in InLock) <=> (lock' = r)
      /\ (q.pc \in InCfgLock) <=> (cfglock' = r)
  BY <1>1, <1>2, RequestKnown, StorageAssumption DEF Steps, InLock, InCfgLock
<1>6. /\ IsStore(disk') /\ OneKind(DOMAIN Visible'.blocks)
      /\ conn'.work # None => lock' # None \/ conn'.poisoned \/ conn'.retired
      /\ \A k \in DOMAIN conn'.temp : k[2] # None
      /\ \A k \in DOMAIN disk'.blocks : k[2] = None
  BY <1>3 DEF StorageInv, StorageTypeOK
<1> QED
  BY <1>1, <1>2, <1>3, <1>4, <1>5, <1>6, StorageStep DEF q

LEMMA PanicInv ==
  ASSUME StorageInv, NEW r \in Request, Panic(r)
  PROVE  StorageInv'
<1>1. UNCHANGED <<disk, conf>>
  BY DEF Panic
<1>2. CASE /\ Ends(r, "begun", "CommitUnknown") /\ conn' = [conn EXCEPT !.poisoned = TRUE]
           /\ lock' = None /\ UNCHANGED cfglock
  <2>1. ConnOK(conn') /\ conn'.temp = conn.temp /\ conn'.poisoned
    BY <1>2 DEF StorageInv, ConnOK
  <2> QED BY <1>1, <1>2, <2>1, UndoneInv DEF InLock
<1>3. CASE /\ Ends(r, "read", "CommitUnknown") /\ conn' = [conn EXCEPT !.confPoisoned = TRUE]
           /\ cfglock' = None /\ UNCHANGED lock
  <2>1. /\ ConnOK(conn') /\ conn'.temp = conn.temp /\ conn'.work = conn.work
        /\ conn'.poisoned = conn.poisoned /\ conn'.retired = conn.retired
    BY <1>3 DEF StorageInv, ConnOK
  <2> QED BY <1>1, <1>3, <2>1, SettledInv
<1> QED
  BY <1>2, <1>3 DEF Panic

LEMMA WriteTempInv ==
  ASSUME StorageInv, NEW r \in Request, WriteTemp(r)
  PROVE  StorageInv'
<1> DEFINE q == req'[r]
<1>1. UNCHANGED <<disk, conn, conf, lock>>
  BY DEF WriteTemp
<1>2. CASE Ends(r, "read", "WriteFailed") /\ cfglock' = None
  <2>1. ConnOK(conn')
    BY <1>1 DEF StorageInv
  <2> QED BY <1>1, <1>2, <2>1, SettledInv
<1>3. CASE Step(r, "read", "synced") /\ UNCHANGED cfglock
  <2>1. RequestOK(req[r], conn.work, Visible, conf) /\ req[r].pc = "read"
    BY <1>3, RequestKnown DEF Step
  <2>2. /\ req' = [req EXCEPT ![r] = q]
        /\ DOMAIN q = DOMAIN req[r]
        /\ q.pc = "synced" /\ q.op = req[r].op /\ q.value = req[r].value /\ q.draft = req[r].draft
        /\ q.hit = req[r].hit /\ q.reply = req[r].reply
    BY <1>3, StepNext
  <2> HIDE DEF q
  <2>3. RequestOK(q, conn.work, Visible, conf)
    BY <2>1, <2>2 DEF RequestOK, IsRequest, Told, Unread, InTransaction, InSettings
  <2>4. /\ q.pc \in Steps
        /\ (q.pc \in InLock) <=> (req[r].pc \in InLock)
        /\ (q.pc \in InCfgLock) <=> (req[r].pc \in InCfgLock)
    BY <2>1, <2>2 DEF Steps, InLock, InCfgLock, Holding
  <2> QED
    BY <1>1, <1>3, <2>2, <2>3, <2>4, QuietStep DEF q
<1> QED
  BY <1>2, <1>3 DEF WriteTemp

(* The rename makes the settings what the operation makes of them.          *)
LEMMA RenameEffect ==
  ASSUME StorageInv, NEW r \in Request, req[r].pc = "synced"
  PROVE  /\ req[r].draft = ConfigOperation(conf, req[r].op).data
         /\ req[r].value = None /\ ConfigOperation(conf, req[r].op).value = None
         /\ req[r].op.kind \in ConfigKinds
  BY RequestKnown DEF RequestOK, Told, Unread, InSettings

LEMMA RenameInv ==
  ASSUME StorageInv, NEW r \in Request, Rename(r)
  PROVE  StorageInv'
<1> DEFINE q == req'[r]
<1>1. UNCHANGED <<disk, conn, lock>> /\ ConnOK(conn')
  BY DEF Rename, StorageInv
<1>2. CASE Ends(r, "synced", "WriteFailed") /\ UNCHANGED conf /\ cfglock' = None
  BY <1>1, <1>2, SettledInv
<1>3. CASE /\ req[r].pc = "synced"
           /\ req' = [req EXCEPT ![r].pc = "renamed", ![r].hit = TRUE]
           /\ conf' = req[r].draft /\ UNCHANGED cfglock
  <2>1. RequestOK(req[r], conn.work, Visible, conf) /\ req = [x \in Request |-> req[x]] /\ cfglock = r
    BY <1>3, RequestKnown DEF StorageInv, RequestsOK, InCfgLock
  <2>2. q = [req[r] EXCEPT !.pc = "renamed", !.hit = TRUE] /\ req' = [req EXCEPT ![r] = q]
    BY <1>3, <2>1
  <2>3. /\ DOMAIN q = DOMAIN req[r]
        /\ q.pc = "renamed" /\ q.op = req[r].op /\ q.value = req[r].value
        /\ q.hit /\ q.hit \in BOOLEAN /\ q.reply = req[r].reply
    BY <2>1, <2>2 DEF RequestOK, IsRequest
  <2>4. Visible' = Visible
    BY <1>1 DEF Visible
  <2> HIDE DEF q
  <2>5. RequestOK(q, conn'.work, Visible', conf')
    BY <1>3, <2>1, <2>3 DEF RequestOK, IsRequest, Told, Unread, InTransaction, InSettings
  <2>6. /\ q.pc \in Steps
        /\ (q.pc \in InLock) <=> (lock' = r)
        /\ (q.pc \in InCfgLock) <=> (cfglock' = r)
    BY <1>1, <1>3, <2>1, <2>3, RequestKnown DEF Steps, InLock, InCfgLock, Holding
  <2>7. /\ IsStore(disk') /\ OneKind(DOMAIN Visible'.blocks)
        /\ conn'.work # None => lock' # None \/ conn'.poisoned \/ conn'.retired
        /\ \A k \in DOMAIN conn'.temp : k[2] # None
        /\ \A k \in DOMAIN disk'.blocks : k[2] = None
    BY <1>1, <2>4 DEF StorageInv, StorageTypeOK
  <2> QED
    BY <1>1, <1>3, <2>1, <2>2, <2>4, <2>5, <2>6, <2>7, StorageStep DEF q
<1> QED
  BY <1>2, <1>3 DEF Rename

LEMMA SyncDirInv ==
  ASSUME StorageInv, NEW r \in Request, SyncDir(r)
  PROVE  StorageInv'
<1>1. UNCHANGED <<disk, conn, conf, lock>> /\ ConnOK(conn') /\ cfglock' = None
  BY DEF SyncDir, StorageInv
<1>2. \E e \in {"ok", "CommitUnknown"} : Ends(r, "renamed", e)
  BY DEF SyncDir, CommitError
<1> QED
  BY <1>1, <1>2, SettledInv

LEMMA ReadConfigInv ==
  ASSUME StorageInv, NEW r \in Request, ReadConfig(r)
  PROVE  StorageInv'
<1> DEFINE q == req'[r]
           out == ConfigOperation(conf, req[r].op)
<1>1. /\ UNCHANGED <<disk, conn, conf, lock>> /\ ConnOK(conn')
      /\ req[r].pc = "open" /\ req[r].op.kind \in ConfigKinds /\ cfglock = None
  BY DEF ReadConfig, StorageInv
<1>2. RequestOK(req[r], conn.work, Visible, conf) /\ req = [x \in Request |-> req[x]]
  BY RequestKnown DEF StorageInv, RequestsOK
<1>3. CASE (\E e : e # "ok" /\ Ends(r, "open", e)) /\ UNCHANGED cfglock
  BY <1>1, <1>3, QuietEndsInv
<1>4. CASE EndsHit(r, "open", "ok", out.value) /\ UNCHANGED cfglock
  <2>1. /\ req' = [req EXCEPT ![r] = q]
        /\ DOMAIN q = DOMAIN req[r]
        /\ q.pc = "done" /\ q.op = req[r].op /\ q.hit /\ q.res = "ok"
        /\ q.reply = req[r].reply
    BY <1>4, EndsHitNext
  <2>2. q.hit \in BOOLEAN
    <3>1. req' = [req EXCEPT ![r] = Done([req[r] EXCEPT !.hit = TRUE, !.value = out.value], "ok")]
      BY <1>4 DEF EndsHit
    <3>2. q = Done([req[r] EXCEPT !.hit = TRUE, !.value = out.value], "ok")
      BY <1>2, <3>1
    <3> QED BY <1>2, <3>2 DEF Done, RequestOK, IsRequest
  <2> HIDE DEF q, out
  <2>3. RequestOK(q, conn.work, Visible, conf)
    BY <1>1, <1>2, <2>1, <2>2 DEF RequestOK, IsRequest, Told, Unread, InTransaction, InSettings
  <2>4. /\ q.pc \in Steps
        /\ (q.pc \in InLock) <=> (req[r].pc \in InLock)
        /\ (q.pc \in InCfgLock) <=> (req[r].pc \in InCfgLock)
    BY <1>1, <2>1 DEF Steps, InLock, InCfgLock, Holding
  <2> QED
    BY <1>1, <1>4, <2>1, <2>3, <2>4, QuietStep DEF q
<1>5. CASE /\ out.kind = "ok" /\ req[r].op.kind # "readconf"
           /\ req' = [req EXCEPT ![r].pc = "read", ![r].draft = out.data]
           /\ cfglock' = r
  <2>1. out.value = None
    BY <1>1, <1>5 DEF ConfigOperation, Leave, Refuse, ConfigKinds
  <2> HIDE DEF out
  <2>2. q = [req[r] EXCEPT !.pc = "read", !.draft = out.data] /\ req' = [req EXCEPT ![r] = q]
    BY <1>2, <1>5
  <2>3. /\ DOMAIN q = DOMAIN req[r]
        /\ q.pc = "read" /\ q.op = req[r].op /\ q.value = req[r].value /\ q.draft = out.data
        /\ q.hit = req[r].hit /\ q.reply = req[r].reply
    BY <1>2, <2>2 DEF RequestOK, IsRequest
  <2>4. Visible' = Visible
    BY <1>1 DEF Visible
  <2> HIDE DEF q
  <2>5. RequestOK(q, conn'.work, Visible', conf')
    <3>1. IsRequest(q) /\ Told(q) /\ InTransaction(q, conn'.work, Visible')
      BY <1>1, <1>2, <2>3 DEF RequestOK, IsRequest, Told, Unread, InTransaction
    <3>2. InSettings(q, conf')
      BY <1>1, <2>1, <2>3 DEF InSettings, out
    <3> QED BY <3>1, <3>2 DEF RequestOK
  <2>6. /\ q.pc \in Steps
        /\ (q.pc \in InLock) <=> (lock' = r)
        /\ (q.pc \in InCfgLock) <=> (cfglock' = r)
    BY <1>1, <1>5, <2>3, RequestKnown DEF Steps, InLock, InCfgLock, Holding
  <2>7. /\ IsStore(disk') /\ OneKind(DOMAIN Visible'.blocks)
        /\ conn'.work # None => lock' # None \/ conn'.poisoned \/ conn'.retired
        /\ \A k \in DOMAIN conn'.temp : k[2] # None
        /\ \A k \in DOMAIN disk'.blocks : k[2] = None
    BY <1>1, <2>4 DEF StorageInv, StorageTypeOK
  <2> QED
    BY <1>1, <1>5, <2>2, <2>4, <2>5, <2>6, <2>7, StorageStep DEF q
<1> HIDE DEF out
<1>6. \/ Ends(r, "open", "Closed") /\ UNCHANGED cfglock
      \/ out.kind # "ok" /\ Ends(r, "open", out.kind) /\ UNCHANGED cfglock
      \/ EndsHit(r, "open", "ok", out.value) /\ UNCHANGED cfglock
      \/ /\ out.kind = "ok" /\ req[r].op.kind # "readconf"
         /\ req' = [req EXCEPT ![r].pc = "read", ![r].draft = out.data]
         /\ cfglock' = r
  BY DEF ReadConfig, out
<1> QED
  BY <1>3, <1>4, <1>5, <1>6

(***************************************************************************)
(* The Agent and the process                                               *)
(***************************************************************************)
LEMMA SameInv ==
  ASSUME StorageInv, UNCHANGED <<disk, conf, conn, lock, cfglock, req>>
  PROVE  StorageInv'
<1>1. Visible' = Visible
  BY DEF Visible
<1>2. RequestsOK'
  BY <1>1 DEF StorageInv, RequestsOK
<1>3. StorageTypeOK'
  BY DEF StorageInv, StorageTypeOK
<1> QED
  BY <1>1, <1>2, <1>3 DEF StorageInv

(* A new connection shows the file only.                                    *)
LEMMA FreshEffect ==
  ASSUME StorageInv, conn' = Fresh, disk' = disk
  PROVE  /\ Visible' = Files(Visible)
         /\ ConnOK(conn') /\ OneKind(DOMAIN Visible'.blocks)
         /\ conn'.work = None /\ conn'.temp = <<>>
<1>1. conn'.temp = <<>> /\ conn'.work = None /\ ConnOK(conn')
  BY DEF Fresh, ConnOK
<1>2. /\ \A k \in DOMAIN disk.blocks : k[2] = None
      /\ \A k \in DOMAIN conn.temp : k[2] # None
      /\ IsStore(disk)
  BY DEF StorageInv, StorageTypeOK
<1>3. Visible' = Beside(disk, <<>>)
  BY <1>1 DEF Visible, Beside
<1>4. Visible' = Files(Visible)
  BY <1>2, <1>3, RestartStore, VisibleBeside
<1>5. DOMAIN Visible'.blocks \subseteq DOMAIN Visible.blocks
  BY <1>2, <1>4, VisibleBeside, BesideStore, FilesStore
<1>6. OneKind(DOMAIN Visible'.blocks)
  BY <1>5 DEF OneKind, StorageInv
<1> QED
  BY <1>1, <1>4, <1>6

LEMMA OpenStorageInv ==
  ASSUME StorageInv, OpenStorage
  PROVE  StorageInv'
<1>1. UNCHANGED <<disk, conf, lock, cfglock, req>>
  BY DEF OpenStorage
<1>2. CASE UNCHANGED conn
  BY <1>1, <1>2, SameInv
<1>3. CASE ~Held(Holding) /\ conn' = Fresh
  <2>1. \A r \in Request : req[r].pc \notin Holding
    BY <1>3 DEF Held
  <2>2. /\ ConnOK(conn') /\ OneKind(DOMAIN Visible'.blocks)
        /\ conn'.work = None /\ conn'.temp = <<>>
    BY <1>1, <1>3, FreshEffect
  <2>3. ASSUME NEW r \in Request
        PROVE  RequestOK(req[r], conn'.work, Visible', conf')
    BY <1>1, <2>1, RequestKnown DEF RequestOK, InTransaction, InSettings, Holding
  <2>4. RequestsOK'
    BY <1>1, <2>3 DEF RequestsOK, StorageInv
  <2>5. StorageTypeOK'
    BY <1>1, <2>2 DEF StorageInv, StorageTypeOK
  <2> QED
    BY <1>1, <2>2, <2>4, <2>5 DEF StorageInv
<1> QED
  BY <1>2, <1>3 DEF OpenStorage

(* what a crash makes of a request *)
LEMMA CrashNext ==
  ASSUME StorageInv, Crash, NEW r \in Request
  PROVE  LET o == req[r]
             q == req'[r]
         IN /\ DOMAIN q = DOMAIN o
            /\ q.op = o.op /\ q.hit = o.hit /\ q.value = o.value
            /\ o.pc \in {"idle", "over"} => q = o
            /\ o.pc \notin {"idle", "over"} => q.pc = "over" /\ q.reply = "Dropped"
<1>1. IsRequest(req[r])
  BY RequestKnown DEF RequestOK
<1>2. CASE req[r].pc \in {"idle", "over"}
  <2>1. req'[r] = req[r]
    BY <1>2 DEF Crash
  <2> QED BY <1>2, <2>1
<1>3. CASE req[r].pc \notin {"idle", "over"}
  <2>1. req'[r] = [req[r] EXCEPT !.pc = "over", !.reply = "Dropped", !.res = None,
                                 !.cancel = FALSE, !.draft = None]
    BY <1>3 DEF Crash
  <2> QED BY <1>1, <1>3, <2>1 DEF IsRequest
<1> QED
  BY <1>2, <1>3

LEMMA CrashInv ==
  ASSUME StorageInv, Crash
  PROVE  StorageInv'
<1>1. /\ UNCHANGED <<disk, conf>> /\ conn' = Fresh /\ lock' = None /\ cfglock' = None
      /\ req' = [r \in Request |-> req'[r]]
  BY DEF Crash
<1>2. /\ ConnOK(conn') /\ OneKind(DOMAIN Visible'.blocks)
      /\ conn'.work = None /\ conn'.temp = <<>>
  BY <1>1, FreshEffect
<1>3. ASSUME NEW r \in Request
      PROVE  /\ RequestOK(req'[r], conn'.work, Visible', conf')
             /\ req'[r].pc \in {"idle", "over"}
  <2>1. RequestOK(req[r], conn.work, Visible, conf)
    BY RequestKnown
  <2>2. /\ DOMAIN req'[r] = DOMAIN req[r]
        /\ req'[r].op = req[r].op /\ req'[r].hit = req[r].hit /\ req'[r].value = req[r].value
        /\ req[r].pc \in {"idle", "over"} => req'[r] = req[r]
        /\ req[r].pc \notin {"idle", "over"} => req'[r].pc = "over" /\ req'[r].reply = "Dropped"
    BY CrashNext
  <2>3. CASE req[r].pc \in {"idle", "over"}
    BY <2>1, <2>2, <2>3 DEF RequestOK, InTransaction, InSettings
  <2>4. CASE req[r].pc \notin {"idle", "over"}
    BY <2>1, <2>2, <2>4 DEF RequestOK, IsRequest, Told, Unread, InTransaction, InSettings
  <2> QED BY <2>3, <2>4
<1>4. RequestsOK'
  BY <1>1, <1>3 DEF RequestsOK
<1>5. StorageTypeOK'
  <2>1. /\ lock' \in Request \cup {None} /\ cfglock' \in Request \cup {None}
        /\ \A k \in DOMAIN conn'.temp : k[2] # None
        /\ \A k \in DOMAIN disk'.blocks : k[2] = None
    BY <1>1, <1>2 DEF StorageInv, StorageTypeOK
  <2>2. ASSUME NEW r \in Request
        PROVE  /\ req'[r].pc \in Holding \cup {"idle", "sent", "done", "event", "over"}
               /\ (req'[r].pc \in {"begun", "ran", "undo"}) = (lock' = r)
               /\ (req'[r].pc \in {"read", "synced", "renamed"}) = (cfglock' = r)
    BY <1>1, <1>3, StorageAssumption
  <2> QED BY <1>2, <2>1, <2>2 DEF StorageTypeOK
<1> QED
  BY <1>1, <1>2, <1>4, <1>5 DEF StorageInv

LEMMA InitInv ==
  ASSUME Init
  PROVE  StorageInv
<1>1. /\ disk = NoData /\ conn = Fresh /\ lock = None /\ cfglock = None
      /\ req = [r \in Request |-> Idle]
  BY DEF Init
<1>2. IsStore(disk) /\ disk.blocks = <<>>
  <2>1. disk = [blocks |-> <<>>, message |-> <<>>, mcl |-> <<>>]
    BY <1>1 DEF NoData
  <2>2. Numbered(<<>>, <<>>)
    <3>1. 0 \in Nat /\ DOMAIN <<>> = 1 .. 0
      OBVIOUS
    <3> QED
      BY <3>1 DEF Numbered
  <2> QED
    BY <2>1, <2>2 DEF IsStore
<1>3. ConnOK(conn) /\ conn.temp = <<>> /\ conn.work = None
  BY <1>1 DEF ConnOK, Fresh
<1>4. DOMAIN Visible.blocks = {}
  BY <1>2, <1>3, VisibleBeside, BesideStore
<1>5. ASSUME NEW r \in Request
      PROVE  RequestOK(req[r], conn.work, Visible, conf) /\ req[r].pc = "idle"
  <2>1. req[r] = Idle
    BY <1>1
  <2> QED BY <2>1 DEF Idle, RequestOK, IsRequest, Told, Unread, InTransaction, InSettings
<1>6. RequestsOK
  BY <1>1, <1>5 DEF RequestsOK
<1>7. StorageTypeOK
  <2>1. ASSUME NEW r \in Request
        PROVE  /\ req[r].pc \in Holding \cup {"idle", "sent", "done", "event", "over"}
               /\ (req[r].pc \in {"begun", "ran", "undo"}) = (lock = r)
               /\ (req[r].pc \in {"read", "synced", "renamed"}) = (cfglock = r)
    BY <1>1, <1>5, StorageAssumption
  <2> QED BY <1>1, <1>2, <1>3, <2>1 DEF StorageTypeOK
<1> QED
  BY <1>2, <1>3, <1>4, <1>6, <1>7 DEF StorageInv, OneKind

LEMMA StepInv ==
  ASSUME StorageInv, [Next]_vars
  PROVE  StorageInv'
<1>1. ASSUME NEW r \in Request, Ask(r) \/ Cancel(r) \/ Panic(r)
      PROVE  StorageInv'
  BY <1>1, AskInv, CancelInv, PanicInv
<1>2. ASSUME NEW r \in Request, Work(r)
      PROVE  StorageInv'
  BY <1>2, HandleInv, BeginInv, LockInv, RunInv, CommitInv, RollbackInv, ReadConfigInv, WriteTempInv,
     RenameInv, SyncDirInv, JoinInv DEF Work
<1>3. CASE StopAgent \/ RuntimeStops \/ UNCHANGED vars
  BY <1>3, SameInv DEF StopAgent, RuntimeStops, vars
<1>4. CASE OpenStorage \/ Crash
  BY <1>4, OpenStorageInv, CrashInv
<1> QED
  BY <1>1, <1>2, <1>3, <1>4 DEF Next

LEMMA StorageInvCorrect == Spec => []StorageInv
<1> QED
  BY InitInv, StepInv, PTL DEF Spec

(* The lock of the connection is held exactly in the steps of a transaction *)
(* and that of the settings in those of a write; a transaction is open only *)
(* there or on a connection nothing more runs on: for any requests and any  *)
(* number of crashes and stops.                                             *)
THEOREM StorageTypeCorrect == Spec => []StorageTypeOK
<1>1. StorageInv => StorageTypeOK
  BY DEF StorageInv
<1> QED
  BY <1>1, StorageInvCorrect, PTL

(***************************************************************************)
(* What a selector names                                                   *)
(***************************************************************************)
(* whether <<a, b>> is a part of an array of length len *)
Inside(a, b, len) == 0 <= a /\ a <= b /\ b <= len

LEMMA SpanAll ==
  ASSUME NEW len \in Nat, NEW write \in BOOLEAN
  PROVE  Span(<<>>, len, write) = <<0, len>>
<1>1. <<>> = <<>> /\ Len(<<>>) = 0
  OBVIOUS
<1> QED
  BY <1>1 DEF Span

LEMMA SpanOne ==
  ASSUME NEW len \in Nat, NEW n \in Int, NEW write \in BOOLEAN
  PROVE  LET e == Endpoint(n, len)
         IN /\ write \/ (n = 0 /\ len = 0) =>
                 Span(<<n>>, len, write) = IF Inside(e, e, len) THEN <<e, e>> ELSE None
            /\ ~write /\ n < 0 =>
                 Span(<<n>>, len, write) = IF Inside(e - 1, e, len) THEN <<e - 1, e>> ELSE None
            /\ ~write /\ n >= 0 /\ (n # 0 \/ len # 0) =>
                 Span(<<n>>, len, write) = IF Inside(e, e + 1, len) THEN <<e, e + 1>> ELSE None
<1> DEFINE sel == <<n>>
           e == Endpoint(n, len)
<1>1. sel # <<>> /\ Len(sel) = 1 /\ sel[1] = n /\ DOMAIN sel = {1}
  OBVIOUS
<1>2. [i \in DOMAIN sel |-> Endpoint(sel[i], len)][1] = e
  BY <1>1
<1>3. e \in Int /\ (n = 0 => e = 0)
  BY DEF Endpoint
<1>4. CASE write
  <2>1. Span(sel, len, write) = IF Inside(e, e, len) THEN <<e, e>> ELSE None
    <3> HIDE DEF sel, e
    <3> QED BY <1>1, <1>2, <1>3, <1>4 DEF Span, Inside
  <2> QED BY <1>3, <1>4, <2>1
<1>5. CASE ~write /\ n = 0 /\ len = 0
  <2>1. Span(sel, len, write) = IF Inside(0, 0, len) THEN <<0, 0>> ELSE None
    <3> HIDE DEF sel, e
    <3> QED BY <1>1, <1>2, <1>3, <1>5 DEF Span, Inside
  <2> QED BY <1>3, <1>5, <2>1
<1>6. CASE ~write /\ (n # 0 \/ len # 0) /\ n < 0
  <2>1. Span(sel, len, write) = IF Inside(e - 1, e, len) THEN <<e - 1, e>> ELSE None
    <3> HIDE DEF sel, e
    <3> QED BY <1>1, <1>2, <1>3, <1>6 DEF Span, Inside
  <2> QED BY <1>3, <1>6, <2>1
<1>7. CASE ~write /\ (n # 0 \/ len # 0) /\ ~(n < 0)
  <2>1. Span(sel, len, write) = IF Inside(e, e + 1, len) THEN <<e, e + 1>> ELSE None
    <3> HIDE DEF sel, e
    <3> QED BY <1>1, <1>2, <1>3, <1>7 DEF Span, Inside
  <2> QED BY <1>3, <1>7, <2>1
<1> QED
  BY <1>4, <1>5, <1>6, <1>7

LEMMA SpanTwo ==
  ASSUME NEW len \in Nat, NEW m \in Int, NEW n \in Int, NEW write \in BOOLEAN
  PROVE  LET a == Endpoint(m, len)
             b == Endpoint(n, len)
         IN Span(<<m, n>>, len, write) =
              IF (m < 0 <=> n < 0) /\ Inside(a, b, len) THEN <<a, b>> ELSE None
<1> DEFINE sel == <<m, n>>
           e == [i \in DOMAIN sel |-> Endpoint(sel[i], len)]
<1>1. sel # <<>> /\ Len(sel) = 2 /\ sel[1] = m /\ sel[2] = n /\ DOMAIN sel = {1, 2}
  OBVIOUS
<1>2. e = <<Endpoint(m, len), Endpoint(n, len)>>
  BY <1>1
<1>3. Span(sel, len, write) =
        IF (m < 0) # (n < 0) \/ ~(0 <= e[1] /\ e[1] <= e[2] /\ e[2] <= len) THEN None ELSE e
  <2> HIDE DEF sel
  <2> QED BY <1>1 DEF Span
<1> HIDE DEF e
<1> QED
  BY <1>2, <1>3 DEF Inside

LEMMA OnlyOne ==
  ASSUME NEW parts, NEW p
  PROVE  /\ parts = {} => TheOnly(parts) = None
         /\ parts = {p} => TheOnly(parts) = p
<1>1. CASE parts = {}
  BY <1>1 DEF TheOnly
<1>2. CASE parts = {p}
  BY <1>2 DEF TheOnly
<1> QED
  BY <1>1, <1>2

(* A set of parts with one pair of ends, or none.                           *)
LEMMA PartsOf ==
  ASSUME NEW len \in Nat, NEW a \in Int, NEW b \in Int,
         NEW parts \in SUBSET ((0 .. len) \X (0 .. len)),
         \A p \in (0 .. len) \X (0 .. len) : p \in parts <=> p[1] = a /\ p[2] = b /\ a <= b
  PROVE  TheOnly(parts) = IF Inside(a, b, len) THEN <<a, b>> ELSE None
<1>1. CASE Inside(a, b, len)
  <2>1. <<a, b>> \in (0 .. len) \X (0 .. len)
    BY <1>1 DEF Inside
  <2>2. parts = {<<a, b>>}
    BY <1>1, <2>1 DEF Inside
  <2> QED BY <1>1, <2>2, OnlyOne
<1>2. CASE ~Inside(a, b, len)
  <2>1. parts = {}
    BY <1>2 DEF Inside
  <2> QED BY <1>2, <2>1, OnlyOne
<1> QED
  BY <1>1, <1>2

(* An index names one part of an array or none, and its span is that.       *)
LEMMA SpanOfIndex ==
  ASSUME NEW len \in Nat, NEW n \in Int, NEW write \in BOOLEAN
  PROVE  Span(<<n>>, len, write) = TheOnly(PartsAt(n, len, write))
<1> DEFINE e == Endpoint(n, len)
           parts == PartsAt(n, len, write)
<1>1. e \in Int /\ e = IF n < 0 THEN len + 1 + n ELSE n
  BY DEF Endpoint
<1>2. parts \in SUBSET ((0 .. len) \X (0 .. len))
  BY DEF PartsAt
<1>3. CASE write
  <2>1. \A p \in (0 .. len) \X (0 .. len) : p \in parts <=> p[1] = e /\ p[2] = e /\ e <= e
    <3> HIDE DEF e
    <3> QED BY <1>1, <1>3 DEF PartsAt, Names
  <2> HIDE DEF e, parts
  <2>2. TheOnly(parts) = IF Inside(e, e, len) THEN <<e, e>> ELSE None
    BY <1>1, <1>2, <2>1, PartsOf
  <2> QED BY <1>3, <2>2, SpanOne DEF e, parts
<1>4. CASE ~write /\ n = 0 /\ len = 0
  <2>1. \A p \in (0 .. len) \X (0 .. len) : p \in parts <=> p[1] = e /\ p[2] = e /\ e <= e
    <3> HIDE DEF e
    <3> QED BY <1>1, <1>4 DEF PartsAt, Names
  <2> HIDE DEF e, parts
  <2>2. TheOnly(parts) = IF Inside(e, e, len) THEN <<e, e>> ELSE None
    BY <1>1, <1>2, <2>1, PartsOf
  <2> QED BY <1>4, <2>2, SpanOne DEF e, parts
<1>5. CASE ~write /\ n < 0
  <2>1. \A p \in (0 .. len) \X (0 .. len) : p \in parts <=> p[1] = e - 1 /\ p[2] = e /\ e - 1 <= e
    <3> HIDE DEF e
    <3> QED BY <1>1, <1>5 DEF PartsAt, Names
  <2> HIDE DEF e, parts
  <2>2. TheOnly(parts) = IF Inside(e - 1, e, len) THEN <<e - 1, e>> ELSE None
    BY <1>1, <1>2, <2>1, PartsOf
  <2> QED BY <1>5, <2>2, SpanOne DEF e, parts
<1>6. CASE ~write /\ n >= 0 /\ (n # 0 \/ len # 0)
  <2>1. ASSUME NEW p \in (0 .. len) \X (0 .. len)
        PROVE  p \in parts <=> p[1] = e /\ p[2] = e + 1 /\ e <= e + 1
    <3> HIDE DEF e
    <3>1. p \in parts <=> n = p[1] /\ (p[2] = n + 1 \/ (len = 0 /\ p[2] = n))
      BY <1>6 DEF PartsAt
    <3>2. p[1] \in 0 .. len /\ p[2] \in 0 .. len
      OBVIOUS
    <3>3. CASE len = 0
      BY <1>1, <1>6, <3>1, <3>2, <3>3
    <3>4. CASE len # 0
      BY <1>1, <1>6, <3>1, <3>2, <3>4
    <3> QED BY <3>3, <3>4
  <2> HIDE DEF e, parts
  <2>2. TheOnly(parts) = IF Inside(e, e + 1, len) THEN <<e, e + 1>> ELSE None
    BY <1>1, <1>2, <2>1, PartsOf
  <2> QED BY <1>6, <2>2, SpanOne DEF e, parts
<1> QED
  BY <1>3, <1>4, <1>5, <1>6

(* So does a range.                                                         *)
LEMMA SpanOfRange ==
  ASSUME NEW len \in Nat, NEW m \in Int, NEW n \in Int, NEW write \in BOOLEAN
  PROVE  Span(<<m, n>>, len, write) = TheOnly(PartsBetween(m, n, len))
<1> DEFINE a == Endpoint(m, len)
           b == Endpoint(n, len)
           parts == PartsBetween(m, n, len)
<1>1. /\ a \in Int /\ a = IF m < 0 THEN len + 1 + m ELSE m
      /\ b \in Int /\ b = IF n < 0 THEN len + 1 + n ELSE n
  BY DEF Endpoint
<1>2. parts \in SUBSET ((0 .. len) \X (0 .. len))
  BY DEF PartsBetween
<1>3. CASE m < 0 <=> n < 0
  <2>1. \A p \in (0 .. len) \X (0 .. len) : p \in parts <=> p[1] = a /\ p[2] = b /\ a <= b
    <3> HIDE DEF a, b
    <3> QED BY <1>1, <1>3 DEF PartsBetween, Names
  <2> HIDE DEF a, b, parts
  <2>2. TheOnly(parts) = IF Inside(a, b, len) THEN <<a, b>> ELSE None
    BY <1>1, <1>2, <2>1, PartsOf
  <2> QED BY <1>3, <2>2, SpanTwo DEF a, b, parts
<1>4. CASE ~(m < 0 <=> n < 0)
  <2>1. parts = {}
    BY <1>4 DEF PartsBetween
  <2> QED BY <1>4, <2>1, SpanTwo, OnlyOne
<1> QED
  BY <1>3, <1>4

LEMMA SpanAlwaysExact == SpanExact
<1>1. ASSUME NEW len \in 0 .. 3, NEW write \in BOOLEAN
      PROVE  /\ Span(<<>>, len, write) = <<0, len>>
             /\ \A n \in -5 .. 5 : Span(<<n>>, len, write) = TheOnly(PartsAt(n, len, write))
             /\ \A m, n \in -5 .. 5 : Span(<<m, n>>, len, write) = TheOnly(PartsBetween(m, n, len))
  <2>1. len \in Nat /\ -5 .. 5 \subseteq Int
    OBVIOUS
  <2> QED BY <2>1, SpanAll, SpanOfIndex, SpanOfRange
<1> QED
  BY <1>1 DEF SpanExact

(* One numbering without gaps for both tables, whatever batches fail, roll  *)
(* back or are interrupted by a crash, for batches of every length.         *)
THEOREM ContiguousCorrect == Spec => []Contiguous
<1>1. StorageInv => Contiguous
  <2> SUFFICES ASSUME StorageInv PROVE Contiguous
    OBVIOUS
  <2>1. PICK n \in Nat : /\ DOMAIN disk.message \cup DOMAIN disk.mcl = 1 .. n
                         /\ DOMAIN disk.message \cap DOMAIN disk.mcl = {}
    BY DEF StorageInv, IsStore, Numbered
  <2>2. IsFiniteSet(1 .. n) /\ Cardinality(1 .. n) = n
    BY FS_Interval
  <2>3. IsFiniteSet(DOMAIN disk.message) /\ IsFiniteSet(DOMAIN disk.mcl)
    BY <2>1, <2>2, FS_Subset
  <2> DEFINE m == DOMAIN disk.message
             l == DOMAIN disk.mcl
  <2>4. n = Cardinality(m) + Cardinality(l)
    <3>1. Cardinality(m) \in Nat /\ Cardinality(l) \in Nat
      BY <2>3, FS_CardinalityType
    <3>2. Cardinality(m \cap l) = 0
      BY <2>1, FS_EmptySet
    <3> HIDE DEF m, l
    <3>3. Cardinality(m \cup l) = Cardinality(m) + Cardinality(l) - Cardinality(m \cap l)
      BY <2>3, FS_Union DEF m, l
    <3>4. m \cup l = 1 .. n
      BY <2>1 DEF m, l
    <3>5. Cardinality(m \cup l) = n
      BY <2>2, <3>4
    <3> QED
      BY <3>1, <3>2, <3>3, <3>5
  <2> QED
    BY <2>1, <2>4 DEF Contiguous, Numbers
<1> QED
  BY <1>1, StorageInvCorrect, PTL

(* What a selector names is one block and one part of it: a name is never   *)
(* that of a block of the file and of a temporary one, through any creates, *)
(* restarts and losses of the temporary blocks, and an index or a range is   *)
(* the part between the boundaries it names.  (SpanOfIndex and SpanOfRange   *)
(* say the second part for arrays of every length.)                         *)
THEOREM SelectorsExactCorrect == Spec => []SelectorsExact
<1>1. StorageInv => SelectorsExact
  BY SpanAlwaysExact DEF StorageInv, SelectorsExact, OneLifetime, OneKind
<1> QED
  BY <1>1, StorageInvCorrect, PTL

(***************************************************************************)
(* The storage implements AtomicStore                                      *)
(***************************************************************************)
LEMMA InitRefines ==
  ASSUME Init
  PROVE  Abstract!Init
<1>1. \A r \in Request : req[r].op = None /\ ~req[r].hit /\ req[r].reply = None
  BY DEF Init, Idle
<1>2. Visible = NoData
  <2>1. Visible = [NoData EXCEPT !.blocks = Joined(@, <<>>)]
    BY DEF Init, Visible, Fresh
  <2>2. Joined(<<>>, <<>>) = <<>>
    BY DEF Joined
  <2> QED BY <2>1, <2>2 DEF NoData
<1>3. Contents = [data |-> NoData, conf |-> Defaults]
  BY <1>2 DEF Contents, Init
<1>4. /\ OpOf = [r \in Request |-> None]
      /\ Hits = {}
      /\ Seen = [r \in Request |-> None]
  BY <1>1 DEF OpOf, Hits, Seen
<1>5. Answers = [r \in Request |-> None]
  BY <1>1 DEF Answers, Class
<1> QED
  BY <1>3, <1>4, <1>5 DEF Abstract!Init

(* what a step of one request changes of what AtomicStore sees *)
LEMMA MapStep ==
  ASSUME NEW r \in Request, StorageInv, req' = [req EXCEPT ![r] = req'[r]]
  PROVE  /\ OpOf' = [OpOf EXCEPT ![r] = req'[r].op]
         /\ Hits' = IF req'[r].hit THEN Hits \cup {r} ELSE Hits \ {r}
         /\ Seen' = [Seen EXCEPT ![r] = IF req'[r].hit THEN req'[r].value ELSE None]
         /\ Answers' = [Answers EXCEPT ![r] = Class(req'[r].reply)]
<1>1. \A x \in Request : x # r => req'[x] = req[x]
  BY DEF StorageInv, RequestsOK
<1>2. OpOf' = [OpOf EXCEPT ![r] = req'[r].op]
  BY <1>1 DEF OpOf
<1>3. Hits' = IF req'[r].hit THEN Hits \cup {r} ELSE Hits \ {r}
  BY <1>1 DEF Hits
<1>4. Seen' = [Seen EXCEPT ![r] = IF req'[r].hit THEN req'[r].value ELSE None]
  BY <1>1 DEF Seen
<1>5. Answers' = [Answers EXCEPT ![r] = Class(req'[r].reply)]
  BY <1>1 DEF Answers
<1> QED
  BY <1>2, <1>3, <1>4, <1>5

(* a step that AtomicStore does not see *)
LEMMA UnseenStep ==
  ASSUME NEW r \in Request, StorageInv, req' = [req EXCEPT ![r] = req'[r]],
         Contents' = Contents,
         req'[r].op = req[r].op, req'[r].hit = req[r].hit, req'[r].reply = req[r].reply,
         req[r].hit => req'[r].value = req[r].value
  PROVE  UNCHANGED Abstract!vars
<1>1. OpOf' = OpOf
  BY MapStep DEF OpOf
<1>2. Hits' = Hits
  BY MapStep DEF Hits
<1>3. Seen' = Seen
  BY MapStep DEF Seen
<1>4. Answers' = Answers
  BY MapStep DEF Answers
<1> QED
  BY <1>1, <1>2, <1>3, <1>4 DEF Abstract!vars

(* a request gets its answer *)
LEMMA AnswerRefines ==
  ASSUME NEW r \in Request, NEW from, NEW e, StorageInv, Answer(r, from, e),
         from # "idle", Contents' = Contents,
         e = "ok" => req[r].hit,
         req[r].hit => e \in {"ok", "CommitUnknown", "Dropped", None}
  PROVE  Abstract!Answer(r) \/ UNCHANGED Abstract!vars
<1>1. /\ req' = [req EXCEPT ![r] = req'[r]]
      /\ req'[r].op = req[r].op /\ req'[r].value = req[r].value
      /\ req'[r].hit = req[r].hit /\ req'[r].reply = e
  BY AnswerNext
<1>2. req[r].reply = None /\ req[r].op # None
  BY RequestKnown DEF Answer, RequestOK, IsRequest
<1>3. OpOf' = OpOf
  BY <1>1, MapStep DEF OpOf
<1>4. Hits' = Hits
  BY <1>1, MapStep DEF Hits
<1>5. Seen' = Seen
  BY <1>1, MapStep DEF Seen
<1>6. Answers' = [Answers EXCEPT ![r] = Class(e)]
  BY <1>1, MapStep
<1>7. Answers[r] = None /\ OpOf[r] # None /\ (r \in Hits <=> req[r].hit)
  BY <1>2 DEF Answers, OpOf, Hits, Class
<1>8. CASE e = None
  <2>1. Answers' = Answers
    BY <1>6, <1>7, <1>8 DEF Class, Answers
  <2> QED BY <1>3, <1>4, <1>5, <2>1 DEF Abstract!vars
<1>9. CASE e # None
  <2>1. /\ Class(e) \in {"ok", "error", "unknown", "closed"}
        /\ Class(e) = "ok" => r \in Hits
        /\ Class(e) = "error" => r \notin Hits
    BY <1>7, <1>9 DEF Class
  <2> QED BY <1>3, <1>4, <1>5, <1>6, <1>7, <2>1 DEF Abstract!Answer
<1> QED
  BY <1>8, <1>9

(* a request takes effect *)
LEMMA ApplyRefines ==
  ASSUME NEW r \in Request, StorageInv, req' = [req EXCEPT ![r] = req'[r]],
         req[r].pc \notin {"idle", "over"}, ~req[r].hit,
         req'[r].op = req[r].op, req'[r].hit, req'[r].reply = req[r].reply,
         Contents' = ApplyTo(Contents, req[r].op),
         req'[r].value = Returned(Contents, req[r].op)
  PROVE  Abstract!Apply(r)
<1>1. req[r].reply = None /\ req[r].op # None
  BY RequestKnown DEF RequestOK, IsRequest, Told
<1>2. OpOf' = OpOf
  BY MapStep DEF OpOf
<1>3. Hits' = Hits \cup {r}
  BY MapStep
<1>4. Seen' = [Seen EXCEPT ![r] = Returned(Contents, req[r].op)]
  BY MapStep
<1>5. Answers' = Answers
  BY MapStep DEF Answers
<1>6. Answers[r] = None /\ OpOf[r] = req[r].op /\ r \notin Hits
  BY <1>1 DEF Answers, OpOf, Hits, Class
<1> QED
  BY <1>1, <1>2, <1>3, <1>4, <1>5, <1>6 DEF Abstract!Apply

LEMMA SameContents ==
  ASSUME UNCHANGED <<disk, conf>>, conn'.temp = conn.temp
  PROVE  Contents' = Contents
  BY DEF Contents, Visible

LEMMA AskRefines ==
  ASSUME NEW r \in Request, StorageInv, Ask(r)
  PROVE  Abstract!Ask(r)
<1>1. IsRequest(req[r]) /\ req = [x \in Request |-> req[x]] /\ req[r].pc = "idle"
  BY RequestKnown DEF RequestOK, StorageInv, RequestsOK, Ask
<1>2. PICK o \in Asks[r] : req' = [req EXCEPT ![r].pc = "sent", ![r].op = o]
  BY DEF Ask
<1>3. req'[r] = [req[r] EXCEPT !.pc = "sent", !.op = o] /\ req' = [req EXCEPT ![r] = req'[r]]
  BY <1>1, <1>2
<1>4. /\ req'[r].op = o /\ req'[r].hit = req[r].hit /\ req'[r].reply = req[r].reply
      /\ req'[r].value = req[r].value
  BY <1>1, <1>3 DEF IsRequest
<1>5. OpOf' = [OpOf EXCEPT ![r] = o] /\ OpOf[r] = None
  BY <1>1, <1>3, <1>4, MapStep DEF OpOf, IsRequest
<1>6. Hits' = Hits
  BY <1>3, <1>4, MapStep DEF Hits
<1>7. Seen' = Seen
  <2>1. req' = [req EXCEPT ![r] = req'[r]]
    BY <1>3
  <2>2. Seen' = [Seen EXCEPT ![r] = IF req'[r].hit THEN req'[r].value ELSE None]
    BY <2>1, MapStep
  <2>3. Seen[r] = IF req'[r].hit THEN req'[r].value ELSE None
    BY <1>4 DEF Seen
  <2> QED BY <2>2, <2>3 DEF Seen
<1>8. Answers' = Answers
  BY <1>3, <1>4, MapStep DEF Answers
<1>9. Contents' = Contents
  BY SameContents DEF Ask, sameData
<1>10. o \in Operation
  BY StorageAssumption
<1> QED
  BY <1>5, <1>6, <1>7, <1>8, <1>9, <1>10 DEF Abstract!Ask

(* a request passes from one place to another *)
LEMMA PassRefines ==
  ASSUME NEW r \in Request, NEW from, NEW to, StorageInv, Step(r, from, to),
         Contents' = Contents
  PROVE  UNCHANGED Abstract!vars
  BY StepNext, UnseenStep

(* a worker ends without effect *)
LEMMA EndsRefines ==
  ASSUME NEW r \in Request, NEW from, NEW e, StorageInv, Ends(r, from, e),
         from \notin {"done", "event", "over"},
         Contents' = Contents
  PROVE  UNCHANGED Abstract!vars
<1>1. /\ req' = [req EXCEPT ![r] = req'[r]]
      /\ req'[r].op = req[r].op /\ req'[r].hit = req[r].hit /\ req'[r].reply = req[r].reply
      /\ req'[r].value = None
  BY EndsNext
<1>2. req[r].hit => req[r].value = None
  BY RequestKnown DEF Ends, RequestOK, Told, Unread
<1> QED
  BY <1>1, <1>2, UnseenStep

LEMMA CancelRefines ==
  ASSUME NEW r \in Request, StorageInv, Cancel(r)
  PROVE  UNCHANGED Abstract!vars
<1>1. IsRequest(req[r]) /\ req = [x \in Request |-> req[x]]
  BY RequestKnown DEF RequestOK, StorageInv, RequestsOK
<1>2. req'[r] = [req[r] EXCEPT !.cancel = TRUE] /\ req' = [req EXCEPT ![r] = req'[r]]
  BY <1>1 DEF Cancel
<1>3. /\ req'[r].op = req[r].op /\ req'[r].hit = req[r].hit /\ req'[r].reply = req[r].reply
      /\ req'[r].value = req[r].value
  BY <1>1, <1>2 DEF IsRequest
<1>4. Contents' = Contents
  BY SameContents DEF Cancel, sameData
<1> QED
  BY <1>2, <1>3, <1>4, UnseenStep

LEMMA TaskRefines ==
  ASSUME NEW r \in Request, StorageInv, Handle(r) \/ Poll(r) \/ Begin(r) \/ DropRequest(r)
  PROVE  Abstract!Answer(r) \/ UNCHANGED Abstract!vars
<1>1. Contents' = Contents
  BY SameContents DEF Handle, Poll, Begin, DropRequest, sameData
<1>2. \/ \E from, to : Step(r, from, to)
      \/ \E e : Ends(r, "worker", e)
      \/ \E e \in {"OwnerMissing", "Cancelled", "Dropped"} : Answer(r, "sent", e) \/ Answer(r, "task", e)
  BY DEF Handle, Poll, Begin, DropRequest
<1>3. req[r].pc \in {"sent", "task"} => ~req[r].hit
  BY RequestKnown DEF RequestOK, Told
<1>4. ASSUME NEW e \in {"OwnerMissing", "Cancelled", "Dropped"}, NEW from \in {"sent", "task"},
             Answer(r, from, e)
      PROVE  Abstract!Answer(r) \/ UNCHANGED Abstract!vars
  BY <1>1, <1>3, <1>4, AnswerRefines DEF Answer
<1> QED
  BY <1>1, <1>2, <1>4, PassRefines, EndsRefines

LEMMA ResultRefines ==
  ASSUME NEW r \in Request, StorageInv, Join(r) \/ HandleResult(r)
  PROVE  Abstract!Answer(r) \/ UNCHANGED Abstract!vars
<1>1. Contents' = Contents
  BY SameContents DEF Join, HandleResult, sameData
<1>2. \/ Step(r, "done", "event")
      \/ \E from \in {"done", "event"} : Answer(r, from, req[r].res)
  BY DEF Join, HandleResult
<1>3. ASSUME NEW from \in {"done", "event"}, Answer(r, from, req[r].res)
      PROVE  Abstract!Answer(r) \/ UNCHANGED Abstract!vars
  <2>1. /\ req[r].res = "ok" => req[r].hit
        /\ req[r].hit => req[r].res \in {"ok", "CommitUnknown"}
    BY <1>3, RequestKnown DEF RequestOK, Told, Answer
  <2> QED BY <1>1, <1>3, <2>1, AnswerRefines
<1> QED
  BY <1>1, <1>2, <1>3, PassRefines

LEMMA LockRefines ==
  ASSUME NEW r \in Request, StorageInv, Lock(r)
  PROVE  UNCHANGED Abstract!vars
<1>1. conn'.temp = conn.temp
  BY DEF Lock, StorageInv, ConnOK
<1>2. Contents' = Contents
  BY <1>1, SameContents DEF Lock
<1>3. Step(r, "open", "begun") \/ \E e : Ends(r, "open", e)
  BY DEF Lock
<1> QED
  BY <1>2, <1>3, PassRefines, EndsRefines

LEMMA RunRefines ==
  ASSUME NEW r \in Request, StorageInv, Run(r)
  PROVE  UNCHANGED Abstract!vars
<1> DEFINE out == DatabaseOperation(conn.work, req[r].op)
           to == IF out.kind = "ok" THEN "ran" ELSE "undo"
<1>1. IsRequest(req[r]) /\ req = [x \in Request |-> req[x]] /\ ~req[r].hit
  BY RequestKnown DEF RequestOK, StorageInv, RequestsOK, Run, Told
<1>2. /\ req' = [req EXCEPT ![r].pc = to, ![r].res = out.kind, ![r].value = out.value]
      /\ conn' = [conn EXCEPT !.work = out.data]
      /\ UNCHANGED <<disk, conf>>
  BY DEF Run, sameData
<1> HIDE DEF out, to
<1>3. /\ req'[r] = [req[r] EXCEPT !.pc = to, !.res = out.kind, !.value = out.value]
      /\ req' = [req EXCEPT ![r] = req'[r]]
  BY <1>1, <1>2
<1>4. req'[r].op = req[r].op /\ req'[r].hit = req[r].hit /\ req'[r].reply = req[r].reply
  BY <1>1, <1>3 DEF IsRequest
<1>5. conn'.temp = conn.temp
  BY <1>2 DEF StorageInv, ConnOK
<1> QED
  BY <1>1, <1>2, <1>3, <1>4, <1>5, SameContents, UnseenStep

LEMMA CommitRefines ==
  ASSUME NEW r \in Request, StorageInv, Commit(r)
  PROVE  Abstract!Apply(r) \/ UNCHANGED Abstract!vars
<1>1. /\ req[r].pc = "ran" /\ UNCHANGED conf
      /\ IsRequest(req[r]) /\ req = [x \in Request |-> req[x]] /\ ~req[r].hit
  BY RequestKnown DEF RequestOK, StorageInv, RequestsOK, Commit, Told
<1>2. CASE \E e \in {"ok", "CommitUnknown"} :
             /\ EndsHit(r, "ran", e, req[r].value)
             /\ disk' = Files(conn.work) /\ conn' = Committed
  <2>1. /\ req' = [req EXCEPT ![r] = req'[r]]
        /\ req'[r].op = req[r].op /\ req'[r].hit /\ req'[r].value = req[r].value
        /\ req'[r].reply = req[r].reply
    BY <1>2, EndsHitNext
  <2>2. /\ Visible' = DatabaseOperation(Visible, req[r].op).data
        /\ req[r].value = DatabaseOperation(Visible, req[r].op).value
        /\ req[r].op.kind \notin ConfigKinds
    <3>1. DatabaseKinds \cap ConfigKinds = {}
      BY DEF DatabaseKinds, ConfigKinds
    <3> QED BY <1>1, <1>2, <3>1, CommitEffect
  <2>3. Contents' = ApplyTo(Contents, req[r].op)
    BY <1>1, <2>2 DEF Contents, ApplyTo
  <2>4. req[r].value = Returned(Contents, req[r].op)
    BY <2>2 DEF Contents, Returned
  <2> QED BY <1>1, <2>1, <2>3, <2>4, ApplyRefines
<1>3. CASE \E e \in {"WriteFailed", "CommitUnknown"} :
             /\ req' = [req EXCEPT ![r].pc = "undo", ![r].res = e]
             /\ UNCHANGED <<disk, conn, lock>>
  <2>1. PICK e : req' = [req EXCEPT ![r].pc = "undo", ![r].res = e]
    BY <1>3
  <2>2. req'[r] = [req[r] EXCEPT !.pc = "undo", !.res = e] /\ req' = [req EXCEPT ![r] = req'[r]]
    BY <1>1, <2>1
  <2>3. req'[r].op = req[r].op /\ req'[r].hit = req[r].hit /\ req'[r].reply = req[r].reply
    BY <1>1, <2>2 DEF IsRequest
  <2>4. Contents' = Contents
    BY <1>1, <1>3, SameContents
  <2> QED BY <1>1, <2>2, <2>3, <2>4, UnseenStep
<1>4. CASE Ends(r, "ran", "CommitUnknown") /\ disk' = disk /\ conn' = RolledBack
  <2>1. conn'.temp = conn.temp
    BY <1>4 DEF RolledBack, StorageInv, ConnOK
  <2> QED BY <1>1, <1>4, <2>1, SameContents, EndsRefines
<1> QED
  BY <1>2, <1>3, <1>4 DEF Commit, CommitError

LEMMA RollbackRefines ==
  ASSUME NEW r \in Request, StorageInv, Rollback(r) \/ Panic(r)
  PROVE  UNCHANGED Abstract!vars
<1>1. /\ UNCHANGED <<disk, conf>>
      /\ \E e : Ends(r, "undo", e) \/ Ends(r, "begun", e) \/ Ends(r, "read", e)
  BY DEF Rollback, Panic
<1>2. conn'.temp = conn.temp
  BY DEF Rollback, Panic, RolledBack, StorageInv, ConnOK
<1> QED
  BY <1>1, <1>2, SameContents, EndsRefines

LEMMA SettingsRefines ==
  ASSUME NEW r \in Request, StorageInv, ReadConfig(r) \/ WriteTemp(r) \/ Rename(r) \/ SyncDir(r)
  PROVE  Abstract!Apply(r) \/ UNCHANGED Abstract!vars
<1>1. UNCHANGED <<disk, conn>> /\ Visible' = Visible
  BY DEF ReadConfig, WriteTemp, Rename, SyncDir, Visible
<1>2. IsRequest(req[r]) /\ req = [x \in Request |-> req[x]] /\ Told(req[r])
  BY RequestKnown DEF RequestOK, StorageInv, RequestsOK
<1>3. CASE /\ UNCHANGED conf
           /\ (\E e : Ends(r, "open", e) \/ Ends(r, "read", e) \/ Ends(r, "synced", e) \/ Ends(r, "renamed", e))
              \/ Step(r, "read", "synced")
  BY <1>1, <1>3, SameContents, PassRefines, EndsRefines
<1>4. CASE /\ req[r].op.kind = "readconf" /\ req[r].pc = "open" /\ UNCHANGED conf
           /\ EndsHit(r, "open", "ok", ConfigOperation(conf, req[r].op).value)
  <2>1. ConfigOperation(conf, req[r].op) = Leave(conf, conf)
    BY <1>4 DEF ConfigOperation
  <2>2. /\ req' = [req EXCEPT ![r] = req'[r]]
        /\ req'[r].op = req[r].op /\ req'[r].hit /\ req'[r].value = conf
        /\ req'[r].reply = req[r].reply
    BY <1>4, <2>1, EndsHitNext DEF Leave
  <2>3. Contents' = ApplyTo(Contents, req[r].op)
    BY <1>1, <1>4, <2>1 DEF Contents, ApplyTo, Leave, ConfigKinds
  <2>4. req'[r].value = Returned(Contents, req[r].op)
    BY <1>4, <2>1, <2>2 DEF Contents, Returned, Leave, ConfigKinds
  <2>5. ~req[r].hit
    BY <1>2, <1>4 DEF Told
  <2> QED BY <1>4, <2>2, <2>3, <2>4, <2>5, ApplyRefines
<1>5. CASE /\ req[r].pc = "open" /\ UNCHANGED conf
           /\ \E d : req' = [req EXCEPT ![r].pc = "read", ![r].draft = d]
  <2>1. PICK d : req' = [req EXCEPT ![r].pc = "read", ![r].draft = d]
    BY <1>5
  <2>2. req'[r] = [req[r] EXCEPT !.pc = "read", !.draft = d] /\ req' = [req EXCEPT ![r] = req'[r]]
    BY <1>2, <2>1
  <2>3. /\ req'[r].op = req[r].op /\ req'[r].hit = req[r].hit /\ req'[r].reply = req[r].reply
        /\ req'[r].value = req[r].value
    BY <1>2, <2>2 DEF IsRequest
  <2> QED BY <1>1, <1>5, <2>2, <2>3, SameContents, UnseenStep
<1>6. CASE /\ req[r].pc = "synced" /\ conf' = req[r].draft
           /\ req' = [req EXCEPT ![r].pc = "renamed", ![r].hit = TRUE]
  <2>1. req'[r] = [req[r] EXCEPT !.pc = "renamed", !.hit = TRUE] /\ req' = [req EXCEPT ![r] = req'[r]]
    BY <1>2, <1>6
  <2>2. /\ req'[r].op = req[r].op /\ req'[r].hit /\ req'[r].reply = req[r].reply
        /\ req'[r].value = req[r].value
    BY <1>2, <2>1 DEF IsRequest
  <2>3. /\ req[r].draft = ConfigOperation(conf, req[r].op).data
        /\ req[r].value = ConfigOperation(conf, req[r].op).value
        /\ req[r].op.kind \in ConfigKinds
    BY <1>6, RenameEffect
  <2>4. Contents' = ApplyTo(Contents, req[r].op)
    BY <1>1, <1>6, <2>3 DEF Contents, ApplyTo
  <2>5. req'[r].value = Returned(Contents, req[r].op)
    BY <2>2, <2>3 DEF Contents, Returned
  <2>6. ~req[r].hit
    BY <1>2, <1>6 DEF Told
  <2> QED BY <1>6, <2>1, <2>2, <2>4, <2>5, <2>6, ApplyRefines
<1> QED
  BY <1>3, <1>4, <1>5, <1>6 DEF ReadConfig, WriteTemp, Rename, SyncDir

LEMMA RestartRefines ==
  ASSUME StorageInv, OpenStorage \/ Crash
  PROVE  Abstract!Restart \/ UNCHANGED Abstract!vars
<1>1. CASE OpenStorage /\ UNCHANGED conn
  <2>1. Contents' = Contents
    BY <1>1, SameContents DEF OpenStorage
  <2> QED
    BY <1>1, <2>1 DEF OpenStorage, Abstract!vars, OpOf, Hits, Seen, Answers
<1>2. CASE OpenStorage /\ conn' = Fresh
  <2>1. Contents' = AfterRestart(Contents)
    BY <1>2, FreshEffect DEF OpenStorage, Contents, AfterRestart
  <2>2. OpOf' = OpOf /\ Hits' = Hits /\ Seen' = Seen /\ Answers' = Answers
    BY <1>2 DEF OpenStorage, OpOf, Hits, Seen, Answers
  <2> DEFINE S == {}
  <2>3. Answers' = [r \in Request |-> IF r \in S /\ Answers[r] = None /\ OpOf[r] # None
                                       THEN "closed" ELSE Answers[r]]
    BY <2>2 DEF Answers
  <2>4. S \in SUBSET Request
    OBVIOUS
  <2> HIDE DEF S
  <2> QED
    BY <2>1, <2>2, <2>3, <2>4 DEF Abstract!Restart
<1>3. CASE Crash
  <2> DEFINE S == {r \in Request : req[r].pc \notin {"idle", "over"}}
  <2>1. Contents' = AfterRestart(Contents)
    BY <1>3, FreshEffect DEF Crash, Contents, AfterRestart
  <2>2. \A r \in Request : /\ req'[r].op = req[r].op /\ req'[r].hit = req[r].hit
                           /\ req'[r].value = req[r].value
    BY <1>3, CrashNext
  <2>3. OpOf' = OpOf /\ Hits' = Hits /\ Seen' = Seen
    BY <2>2 DEF OpOf, Hits, Seen
  <2>4. ASSUME NEW r \in Request
        PROVE  Class(req'[r].reply) = IF r \in S /\ Answers[r] = None /\ OpOf[r] # None
                                      THEN "closed" ELSE Answers[r]
    <3>1. CASE r \in S
      <4>1. req[r].reply = None /\ req[r].op # None
        BY <3>1, RequestKnown DEF RequestOK, IsRequest, Told
      <4>2. req'[r].reply = "Dropped"
        BY <1>3, <3>1, CrashNext
      <4> QED BY <3>1, <4>1, <4>2, StorageAssumption DEF Class, Answers, OpOf
    <3>2. CASE r \notin S
      <4>1. req'[r] = req[r]
        BY <1>3, <3>2, CrashNext
      <4> QED BY <3>2, <4>1 DEF Answers
    <3> QED BY <3>1, <3>2
  <2>5. Answers' = [r \in Request |-> IF r \in S /\ Answers[r] = None /\ OpOf[r] # None
                                       THEN "closed" ELSE Answers[r]]
    BY <2>4 DEF Answers
  <2>6. S \in SUBSET Request
    OBVIOUS
  <2> HIDE DEF S
  <2> QED
    BY <2>1, <2>3, <2>5, <2>6 DEF Abstract!Restart
<1> QED
  BY <1>1, <1>2, <1>3 DEF OpenStorage

LEMMA NextRefines ==
  ASSUME StorageInv, [Next]_vars
  PROVE  [Abstract!Next]_(Abstract!vars)
<1>1. ASSUME NEW r \in Request, Ask(r) \/ Cancel(r) \/ Panic(r)
      PROVE  Abstract!Ask(r) \/ UNCHANGED Abstract!vars
  BY <1>1, AskRefines, CancelRefines, RollbackRefines
<1>2. ASSUME NEW r \in Request, Work(r)
      PROVE  Abstract!Apply(r) \/ Abstract!Answer(r) \/ UNCHANGED Abstract!vars
  BY <1>2, TaskRefines, LockRefines, RunRefines, CommitRefines, RollbackRefines, SettingsRefines,
     ResultRefines DEF Work
<1>3. CASE StopAgent \/ RuntimeStops \/ UNCHANGED vars
  <2>1. UNCHANGED <<disk, conf, conn, req>>
    BY <1>3 DEF StopAgent, RuntimeStops, vars
  <2>2. Contents' = Contents
    BY <2>1, SameContents
  <2> QED BY <2>1, <2>2 DEF Abstract!vars, OpOf, Hits, Seen, Answers
<1>4. CASE OpenStorage \/ Crash
  BY <1>4, RestartRefines DEF Abstract!Next
<1> QED
  BY <1>1, <1>2, <1>3, <1>4 DEF Next, Abstract!Next

(* The storage implements AtomicStore: for any requests, operations and     *)
(* settings, any number of crashes and stops and every fault of SQLite, the  *)
(* files, the locks and the runtime, a request takes effect at one instant   *)
(* on what all the others left or not at all, and its answer says which      *)
(* unless it says that this is unknown.                                     *)
THEOREM StorageImplements == Spec => StoreSpec
<1>1. Init => Abstract!Init
  BY InitRefines
<1>2. StorageInv /\ [Next]_vars => [Abstract!Next]_(Abstract!vars)
  BY NextRefines
<1> QED
  BY <1>1, <1>2, StorageInvCorrect, PTL DEF Spec, StoreSpec, Abstract!Spec
=============================================================================
