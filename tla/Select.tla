------------------------------- MODULE Select -------------------------------
(***************************************************************************)
(* One task that receives from, or selects over, several ports:            *)
(* src/src/libstd/comm/select.rs over the deschedule and reawaken of       *)
(* src/src/libnative/task.rs or src/src/libgreen/task.rs and the handles   *)
(* of src/src/libstd/rt/task.rs.  A port is what Oneshot, Stream and       *)
(* Shared promise: an event (a message or the hang-up) and the taking of   *)
(* the handle that was left there are one step; waking it are two more.    *)
(***************************************************************************)
EXTENDS Naturals, FiniteSets

CONSTANTS N,         \* the ports are 1..N, in the order of the handle list
          MaxSends,  \* bound: messages per port
          Native     \* a native task, or a green one

SelectAssumption ==
    N \in Nat \ {0} /\ MaxSends \in Nat /\ Native \in BOOLEAN

VARIABLES
    data, closed,  \* per port: messages waiting, has the sender hung up?
    slot,          \* per port: the handle left by a blocked task
    flag,          \* the word the handles of a select share: is the task in it?
    awoken,        \* Ops.awoken; for a green task, that it is on a run queue
    spc, nsent,    \* per port: where its sender is, messages sent
    tpc, call,     \* the task: where it is; the port it receives from, 0: select
    cur, upto,     \* the port being blocked on or aborted, the last to abort
    ready,         \* ready_id, 0 for uint::MAX
    fails          \* the assertions and unreachable!()s that were reached

ports == <<data, closed, slot>>
senders == <<spc, nsent>>
task == <<tpc, call, cur, upto, ready>>
vars == <<ports, flag, awoken, senders, task, fails>>

Ports == 1..N
Check(cond, site) == fails' = IF cond THEN fails ELSE fails \cup {site}
Avail(p) == data[p] > 0 \/ closed[p]

Init ==
    /\ data = [p \in Ports |-> 0] /\ closed = [p \in Ports |-> FALSE]
    /\ slot = [p \in Ports |-> "none"] /\ flag = FALSE /\ awoken = FALSE
    /\ spc = [p \in Ports |-> "idle"] /\ nsent = [p \in Ports |-> 0]
    /\ tpc = "run" /\ call = 0 /\ cur = 1 /\ upto = 0 /\ ready = 0 /\ fails = {}
-----------------------------------------------------------------------------
(* The senders.                                                             *)

TakeHandle(p) ==
    /\ spc' = [spc EXCEPT ![p] = slot[p]]
    /\ slot' = [slot EXCEPT ![p] = "none"]

(* An event on port p takes the handle out of its slot. *)
Event(p) ==
    /\ spc[p] = "idle" /\ ~closed[p]
    /\ \/ /\ nsent[p] < MaxSends /\ data' = [data EXCEPT ![p] = @ + 1]
          /\ nsent' = [nsent EXCEPT ![p] = @ + 1] /\ UNCHANGED closed
       \/ closed' = [closed EXCEPT ![p] = TRUE] /\ UNCHANGED <<data, nsent>>
    /\ TakeHandle(p)
    /\ UNCHANGED <<flag, awoken, task, fails>>

(* Mutant: the handles of a select do not share their word. *)
Wake_NoSwap(p) ==
    /\ spc[p] \in {"none", "owned", "shared"}
    /\ spc' = [spc EXCEPT ![p] = IF spc[p] = "none" THEN "idle" ELSE "reawaken"]
    /\ UNCHANGED <<ports, flag, awoken, nsent, task, fails>>

(* BlockedTask::wake: only the first of the handles of a select yields the  *)
(* task.                                                                    *)
Wake(p) ==
    /\ spc[p] \in {"none", "owned", "shared"}
    /\ spc' = [spc EXCEPT ![p] =
                 IF spc[p] = "owned" \/ (spc[p] = "shared" /\ flag)
                 THEN "reawaken" ELSE "idle"]
    /\ flag' = (flag /\ spc[p] # "shared")
    /\ UNCHANGED <<ports, awoken, nsent, task, fails>>

(* reawaken; a native one is under the lock that the descheduling task      *)
(* holds until it sleeps.                                                   *)
Reawaken(p) ==
    /\ spc[p] = "reawaken" /\ (Native => tpc # "block")
    /\ awoken' = TRUE /\ spc' = [spc EXCEPT ![p] = "idle"]
    /\ UNCHANGED <<ports, flag, nsent, task, fails>>
-----------------------------------------------------------------------------
(* The task.                                                                *)

(* A receive that finds a message, or the end of the channel, at once ...   *)
RecvNow(p) ==
    /\ tpc = "run" /\ Avail(p) /\ ready' = 0
    /\ data' = [data EXCEPT ![p] = IF @ > 0 THEN @ - 1 ELSE 0]
    /\ UNCHANGED <<closed, slot, flag, awoken, senders, tpc, call, cur, upto,
                   fails>>

(* ... and one that does not. *)
RecvBlocks(p) ==
    /\ tpc = "run" /\ ~Avail(p)
    /\ tpc' = "lock" /\ call' = p /\ ready' = 0
    /\ UNCHANGED <<ports, flag, awoken, senders, cur, upto, fails>>

(* Select::wait2; make_selectable puts the task into a new shared word: a   *)
(* handle of an earlier select that a sender still has is to an empty one,  *)
(* and as good as none.                                                     *)
Wait ==
    /\ tpc = "run" /\ tpc' = "lock" /\ call' = 0 /\ ready' = 0
    /\ flag' = TRUE
    /\ spc' = [p \in Ports |-> IF spc[p] = "shared" THEN "none" ELSE spc[p]]
    /\ UNCHANGED <<ports, awoken, nsent, cur, upto, fails>>

Deschedule ==
    /\ tpc = "lock" /\ tpc' = "block" /\ cur' = 1
    /\ awoken' = FALSE
    /\ UNCHANGED <<ports, flag, senders, call, upto, ready, fails>>

(* deschedule(1): the port keeps the task, or hands it back.                *)
BlockRecv ==
    /\ tpc = "block" /\ call # 0
    /\ IF Avail(call) THEN tpc' = "again" /\ UNCHANGED slot
       ELSE tpc' = "asleep" /\ slot' = [slot EXCEPT ![call] = "owned"]
    /\ UNCHANGED <<data, closed, flag, awoken, senders, call, cur, upto, ready,
                   fails>>

(* A port hands its handle back: the task is taken out of the shared word.  *)
(* If a sender was there first, a green task stays asleep until that sender *)
(* reawakens it; a native one goes on.                                      *)
HandedBack ==
    /\ flag' = FALSE
    /\ tpc' = IF Native \/ flag THEN "abort" ELSE "asleep"

AllBlocked == cur' = 1 /\ upto' = N /\ tpc' = "asleep"

(* deschedule(n): block on one port after the other. *)
BlockSelect ==
    /\ tpc = "block" /\ call = 0
    /\ IF Avail(cur)
         THEN /\ ready' = cur /\ upto' = cur - 1 /\ cur' = 1
              /\ HandedBack /\ UNCHANGED slot
         ELSE /\ slot' = [slot EXCEPT ![cur] = "shared"]
              /\ IF cur < N THEN cur' = cur + 1 /\ UNCHANGED <<tpc, upto>>
                 ELSE AllBlocked
              /\ UNCHANGED <<ready, flag>>
    /\ UNCHANGED <<data, closed, awoken, senders, call, fails>>

Resume ==
    /\ tpc = "asleep" /\ awoken
    /\ tpc' = IF call = 0 THEN "abort" ELSE "again"
    /\ UNCHANGED <<ports, flag, awoken, senders, call, cur, upto, ready, fails>>

(* The second try_recv of a receive, which must not find the port empty.    *)
RecvAgain ==
    /\ tpc = "again" /\ tpc' = "run"
    /\ Check(Avail(call), "mod.rs:752,760,768")
    /\ data' = [data EXCEPT ![call] = IF @ > 0 THEN @ - 1 ELSE 0]
    /\ UNCHANGED <<closed, slot, flag, awoken, senders, call, cur, upto, ready>>

(* abort_selection on each port that was blocked on: one whose handle is    *)
(* gone is ready.                                                           *)
AbortPort ==
    /\ tpc = "abort" /\ cur <= upto /\ cur' = cur + 1
    /\ slot' = [slot EXCEPT ![cur] = "none"]
    /\ ready' = IF slot[cur] = "none" THEN cur ELSE ready
    /\ UNCHANGED <<data, closed, flag, awoken, senders, tpc, call, upto, fails>>

WaitReturns ==
    /\ tpc = "abort" /\ cur > upto /\ tpc' = "run"
    /\ Check(ready # 0, "select.rs:220")
    /\ UNCHANGED <<ports, flag, awoken, senders, call, cur, upto, ready>>

TaskStep == \/ Deschedule \/ BlockRecv \/ BlockSelect \/ Resume \/ RecvAgain
            \/ AbortPort \/ WaitReturns
SenderStep(p) == Wake(p) \/ Reawaken(p)

Next == \/ \E p \in Ports : \/ Event(p) \/ SenderStep(p)
                            \/ RecvNow(p) \/ RecvBlocks(p)
        \/ Wait \/ TaskStep

Spec == Init /\ [][Next]_vars

(* Calls make progress and senders do not live for ever. *)
FairSpec == /\ Spec /\ WF_vars(TaskStep)
            /\ \A p \in Ports : WF_vars(SenderStep(p)) /\ WF_vars(Event(p))
-----------------------------------------------------------------------------
(* Every variable keeps its type. *)
TypeOK ==
    /\ data \in [Ports -> 0..MaxSends] /\ closed \in [Ports -> BOOLEAN]
    /\ slot \in [Ports -> {"none", "owned", "shared"}]
    /\ flag \in BOOLEAN /\ awoken \in BOOLEAN /\ nsent \in [Ports -> 0..MaxSends]
    /\ spc \in [Ports -> {"idle", "none", "owned", "shared", "reawaken"}]
    /\ tpc \in {"run", "lock", "block", "asleep", "again", "abort"}
    /\ call \in 0..N /\ cur \in 1..(N + 1) /\ upto \in 0..N /\ ready \in 0..N

(* A receive that slept finds a message or the end of the channel (the      *)
(* unreachable!()s of recv_opt), and a select finds a ready port.           *)
NoAssertionFails == fails = {}

(* With the types: the task is held exactly once, a running one by nobody   *)
(* else, a sleeping one by a port, the word its handles share, a sender     *)
(* about to reawaken it or the run queue.                                   *)
HeldOnce ==
    LET holders == Cardinality({p \in Ports : slot[p] = "owned"})
                   + Cardinality({p \in Ports : spc[p] \in {"owned", "reawaken"}})
                   + (IF flag THEN 1 ELSE 0) IN
    /\ TypeOK
    /\ tpc \in {"run", "again", "abort"} => holders = 0
    /\ tpc = "asleep" => holders + (IF awoken THEN 1 ELSE 0) = 1

(* "The handle with the matching `id` will have some sort of event          *)
(* available on it" (select.rs:132), and no port keeps a handle.            *)
ReadyHasEvent ==
    tpc = "run" => /\ ready # 0 => Avail(ready)
                   /\ \A p \in Ports : slot[p] = "none"

(* Every receive and every select returns. *)
CallsReturn == tpc # "run" ~> tpc = "run"
-----------------------------------------------------------------------------
(* Why it holds, for a green task: the inductive invariant.                 *)

Holds(p) == spc[p] \in {"owned", "reawaken"}
NoneHolds == \A p \in Ports : ~Holds(p)
NoneStored == \A p \in Ports : slot[p] # "owned"
Selecting == call = 0 /\ tpc \in {"block", "asleep", "abort"}

(* The ports that the select has blocked on and not aborted yet. *)
BlockedOn == IF tpc = "block" THEN 1..(cur - 1)
             ELSE (IF tpc = "asleep" THEN 1 ELSE cur)..upto

(* Who has the task: itself, its port, the shared word or the run queue, or *)
(* one sender.                                                              *)
HolderInv ==
    /\ tpc \in {"run", "again", "abort"} => NoneHolds /\ ~flag
    /\ tpc = "lock" => NoneHolds /\ flag = (call = 0)
    /\ tpc = "block" /\ call # 0 => NoneHolds /\ ~flag /\ ~awoken
    /\ tpc = "asleep" \/ (tpc = "block" /\ call = 0) =>
         \/ call # 0 /\ slot[call] = "owned" /\ NoneHolds /\ ~flag /\ ~awoken
         \/ NoneStored /\ NoneHolds /\ (flag # awoken)
         \/ NoneStored /\ ~flag /\ ~awoken /\ \E q \in Ports : \A p \in Ports : Holds(p) <=> p = q

(* Where handles are. *)
SlotInv ==
    /\ tpc \in {"run", "lock", "again"} \/ (tpc = "block" /\ call # 0) =>
         \A p \in Ports : slot[p] = "none"
    /\ tpc = "asleep" /\ call # 0 =>
         \A p \in Ports : slot[p] # "none" => p = call /\ slot[p] = "owned"
    /\ Selecting => \A p \in Ports : slot[p] # "none" => p \in BlockedOn /\ slot[p] = "shared"

(* How far the task is. *)
PlaceInv ==
    /\ tpc = "again" => call # 0
    /\ tpc = "abort" => call = 0
    /\ tpc = "asleep" /\ call = 0 => cur = 1
    /\ tpc = "block" => cur \in Ports
    /\ tpc \in {"lock", "block", "again"} \/ (tpc = "asleep" /\ call # 0) => ready = 0

(* A handle that is gone was taken with an event, and as long as the select *)
(* lasts nothing takes the event.                                           *)
EventInv ==
    /\ ready # 0 => Avail(ready)
    /\ tpc = "again" => Avail(call)
    /\ tpc = "asleep" /\ call # 0 /\ slot[call] = "none" => Avail(call)
    /\ Selecting => \A p \in BlockedOn : slot[p] = "none" => Avail(p)
    /\ Selecting /\ ~flag => ready # 0 \/ \E p \in BlockedOn : slot[p] = "none"
    /\ Selecting /\ flag =>
         \A p \in Ports : spc[p] = "shared" => p \in BlockedOn /\ slot[p] = "none"
    /\ tpc = "lock" /\ call = 0 => \A p \in Ports : spc[p] # "shared"

SelectInv ==
    /\ TypeOK /\ (\A p \in Ports : data[p] <= nsent[p])
    /\ HolderInv /\ SlotInv /\ PlaceInv /\ EventInv /\ fails = {}
=============================================================================
