------------------------------ MODULE DriverVm ------------------------------
(***************************************************************************)
(* Driver Lua virtual machines: margatroid/lua_runtime.  An Agent has at   *)
(* most one component DriverLuaVm, whose program runs on the thread of its *)
(* workspace.  A start is coordinated by the task start_vm, which awaits   *)
(* the program's ready; a stop by the task stop_vm, which awaits its end   *)
(* through a receiver that is there once.  Both talk to the World by       *)
(* events, and a start that fails asks for a stop itself.                  *)
(*                                                                         *)
(* An instance <<a, n>> is the n-th start on Agent a: next_id never gives  *)
(* an identity twice.                                                      *)
(***************************************************************************)
EXTENDS Integers, FiniteSets

CONSTANTS
  Agent,            (* entities that own virtual machines                  *)
  MaxStarts,        (* bound on the starts on one Agent                    *)
  None,             (* the empty Option                                    *)
  StartupTimeout,   (* LuaRuntimeConfig.startup_timeout is set             *)
  Faults            (* the kinds of failure that happen                    *)

Instance == Agent \X (1 .. MaxStarts)

ASSUME VmAssumption ==
  /\ IsFiniteSet(Agent)
  /\ MaxStarts \in Nat
  /\ None \notin Instance
  /\ StartupTimeout \in BOOLEAN

VARIABLES
  vm,          (* the instance of the component DriverLuaVm                *)
  starts,      (* number of instances made on an Agent                     *)
  driver,      (* run_driver of an instance                                *)
  ready,       (* the ready channel: its sender is there iff "armed"       *)
  cancel,      (* the cancellation token of an instance                    *)
  ended,       (* who took the ended receiver; "free" when nobody has      *)
  starter,     (* start_vm of an instance                                  *)
  requests,    (* StopDriverLuaVm events not yet read                      *)
  startReply,  (* answer to the last StartDriverLuaVm of an Agent          *)
  stopReply    (* answer to the last StopDriverLuaVm of an Agent's flow    *)

vmVars == <<vm, starts, driver, ready, cancel, ended, starter, requests, startReply,
            stopReply>>

Asker == {"starter", "flow"}

VmTypeOK ==
  /\ vm \in [Agent -> Instance \cup {None}]
  /\ starts \in [Agent -> 0 .. MaxStarts]
  /\ driver \in [Instance -> {"none", "running", "over"}]
  /\ ready \in [Instance -> {"armed", "ok", "failed"}]
  /\ cancel \in [Instance -> BOOLEAN]
  /\ ended \in [Instance -> {"free", "spent"} \cup Asker]
  /\ starter \in [Instance -> {"none", "waiting", "stopping", "cleaned", "failed"}]
  /\ requests \subseteq Instance \X Asker
  /\ startReply \in [Agent -> {"none", "ok", "refused", "uncertain"}]
  /\ stopReply \in [Agent -> {"none", "ok", "error"}]

VmInit ==
  /\ vm = [a \in Agent |-> None]
  /\ starts = [a \in Agent |-> 0]
  /\ driver = [i \in Instance |-> "none"]
  /\ ready = [i \in Instance |-> "armed"]
  /\ cancel = [i \in Instance |-> FALSE]
  /\ ended = [i \in Instance |-> "free"]
  /\ starter = [i \in Instance |-> "none"]
  /\ requests = {}
  /\ startReply = [a \in Agent |-> "none"]
  /\ stopReply = [a \in Agent |-> "none"]

Current(i) == vm[i[1]] = i

-----------------------------------------------------------------------------
(* handle_start_driver_lua_vm *)

RefuseStart(a) ==
  /\ vm[a] # None \/ "submit" \in Faults
  /\ startReply' = [startReply EXCEPT ![a] = "refused"]
  /\ UNCHANGED <<vm, starts, driver, ready, cancel, ended, starter, requests, stopReply>>

CreateVm(a) ==
  LET i == <<a, starts[a] + 1>>
  IN /\ vm[a] = None
     /\ starts[a] < MaxStarts
     /\ starts' = [starts EXCEPT ![a] = @ + 1]
     /\ vm' = [vm EXCEPT ![a] = i]
     /\ driver' = [driver EXCEPT ![i] = "running"]
     /\ starter' = [starter EXCEPT ![i] = "waiting"]
     /\ startReply' = [startReply EXCEPT ![a] = "none"]
     /\ UNCHANGED <<ready, cancel, ended, requests, stopReply>>

StartVm(a) == RefuseStart(a) \/ CreateVm(a)

-----------------------------------------------------------------------------
(* The program *)

(* the MCL command ready, through World::driver_ready; the sender is spent *)
(* also when start_vm no longer waits                                      *)
DriverReady(i) ==
  /\ Current(i)
  /\ driver[i] = "running"
  /\ ready[i] = "armed"
  /\ ready' = [ready EXCEPT ![i] = "ok"]
  /\ UNCHANGED <<vm, starts, driver, cancel, ended, starter, requests, startReply,
                 stopReply>>

(* run_driver ends: the program returned, failed or was cancelled *)
DriverEnds(i) ==
  /\ driver[i] = "running"
  /\ driver' = [driver EXCEPT ![i] = "over"]
  /\ ready' = [ready EXCEPT ![i] = IF @ = "armed" THEN "failed" ELSE @]
  /\ UNCHANGED <<vm, starts, cancel, ended, starter, requests, startReply, stopReply>>

-----------------------------------------------------------------------------
(* start_vm *)

(* start_vm saw ready; handle_start_result *)
Started(i) ==
  /\ starter[i] = "waiting"
  /\ ready[i] = "ok"
  /\ starter' = [starter EXCEPT ![i] = "none"]
  /\ startReply' = [startReply EXCEPT ![i[1]] = IF Current(i) THEN "ok" ELSE "refused"]
  /\ UNCHANGED <<vm, starts, driver, ready, cancel, ended, requests, stopReply>>

(* Mutant: a start that failed does not ask for the stop. *)
NotReadyForgets(i) ==
  /\ starter[i] = "waiting"
  /\ ready[i] = "failed" \/ StartupTimeout
  /\ starter' = [starter EXCEPT ![i] = "stopping"]
  /\ cancel' = [cancel EXCEPT ![i] = TRUE]
  /\ UNCHANGED <<vm, starts, driver, ready, ended, requests, startReply, stopReply>>

(* the program ended first, or the time is over: it asks for a stop *)
NotReady(i) ==
  /\ starter[i] = "waiting"
  /\ ready[i] = "failed" \/ StartupTimeout
  /\ starter' = [starter EXCEPT ![i] = "stopping"]
  /\ cancel' = [cancel EXCEPT ![i] = TRUE]
  /\ requests' = requests \cup {<<i, "starter">>}
  /\ UNCHANGED <<vm, starts, driver, ready, ended, startReply, stopReply>>

(* handle_start_result of a failed start *)
StartFailed(i) ==
  /\ starter[i] \in {"cleaned", "failed"}
  /\ starter' = [starter EXCEPT ![i] = "none"]
  /\ vm' = [vm EXCEPT ![i[1]] = IF starter[i] = "cleaned" /\ @ = i THEN None ELSE @]
  /\ startReply' = [startReply EXCEPT ![i[1]] =
                      IF starter[i] = "cleaned" THEN "refused" ELSE "uncertain"]
  /\ UNCHANGED <<starts, driver, ready, cancel, ended, requests, stopReply>>

-----------------------------------------------------------------------------
(* Stops *)

ReplyStop(i, by, ok) ==
  IF by = "starter"
    THEN /\ starter' = [starter EXCEPT ![i] = IF ok THEN "cleaned" ELSE "failed"]
         /\ UNCHANGED stopReply
    ELSE /\ stopReply' = [stopReply EXCEPT ![i[1]] = IF ok THEN "ok" ELSE "error"]
         /\ UNCHANGED starter

(* handle_stop_driver_lua_vm: the receiver is taken, or was taken before *)
HandleStop(i, by) ==
  /\ <<i, by>> \in requests
  /\ requests' = requests \ {<<i, by>>}
  /\ IF Current(i) /\ ended[i] = "free"
       THEN /\ ended' = [ended EXCEPT ![i] = by]
            /\ cancel' = [cancel EXCEPT ![i] = TRUE]
            /\ UNCHANGED <<starter, stopReply>>
       ELSE ReplyStop(i, by, FALSE) /\ UNCHANGED <<ended, cancel>>
  /\ UNCHANGED <<vm, starts, driver, ready, startReply>>

(* Mutant: the stop does not await the end of the program. *)
StoppedEarly(i) ==
  /\ ended[i] \in Asker
  /\ ended' = [ended EXCEPT ![i] = "spent"]
  /\ vm' = [vm EXCEPT ![i[1]] = IF @ = i THEN None ELSE @]
  /\ ReplyStop(i, ended[i], Current(i))
  /\ UNCHANGED <<starts, driver, ready, cancel, requests, startReply>>

(* stop_vm saw the end; handle_stop_result *)
Stopped(i) ==
  /\ ended[i] \in Asker
  /\ driver[i] = "over"
  /\ ended' = [ended EXCEPT ![i] = "spent"]
  /\ vm' = [vm EXCEPT ![i[1]] = IF @ = i THEN None ELSE @]
  /\ ReplyStop(i, ended[i], Current(i))
  /\ UNCHANGED <<starts, driver, ready, cancel, requests, startReply>>

-----------------------------------------------------------------------------
(* what happens to an instance besides the call of ready *)
VmStep(i) ==
  \/ DriverEnds(i)
  \/ Started(i) \/ NotReady(i) \/ StartFailed(i) \/ Stopped(i)
  \/ \E by \in Asker : HandleStop(i, by)

-----------------------------------------------------------------------------
(* Properties *)

(* Two programs of one Agent never run at a time, whatever timeouts, late  *)
(* ready calls and stops of earlier instances race: the next start meets   *)
(* an empty component only when the last program is over                   *)
(* (lua_runtime/plugin/src/handler.rs:62-67, 154-181, 228-253).            *)
OneDriver ==
  \A i, j \in Instance :
    i[1] = j[1] /\ driver[i] = "running" /\ driver[j] = "running" => i = j
=============================================================================
