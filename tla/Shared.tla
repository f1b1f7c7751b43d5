------------------------------- MODULE Shared -------------------------------
(***************************************************************************)
(* The channel of many senders, src/src/libstd/comm/shared.rs: the counter *)
(* protocol of Stream over an MPSC queue, born from the upgrade of a       *)
(* oneshot or stream with the task that was asleep there.  One action per  *)
(* atomic instruction; a push is the exchange that reserves the place and  *)
(* the store that links it.  A cnt the receiver finds                      *)
(* DISCONNECTED was left by the last sender, so its add and the store that *)
(* restores the value are one step; for the senders they are two.          *)
(***************************************************************************)
EXTENDS Integers, Sequences, FiniteSets, Functions

CONSTANTS Senders,     \* the Sender handles that can exist
          MaxSends,    \* bound: messages sent in all
          MAX_STEALS,  \* see shared.rs:39
          Inherits,    \* the tasks that can be inherited: subset of
                       \* {"none", "owned", "shared"}
          Selects,     \* does the receiver use select?
          DISCONNECTED, FUDGE

ASSUME SharedAssumption ==
    /\ IsFiniteSet(Senders) /\ Cardinality(Senders) >= 2
    /\ MaxSends \in Nat /\ MAX_STEALS \in Nat /\ Selects \in BOOLEAN
    /\ Inherits \subseteq {"none", "owned", "shared"}
    /\ DISCONNECTED \in Int /\ FUDGE \in Nat /\ FUDGE > Cardinality(Senders)
    /\ DISCONNECTED + FUDGE < -MAX_STEALS - MaxSends - Cardinality(Senders) - 10

VARIABLES
    queue,         \* items in reservation order, with the link to each
    cnt, steals, toWake, channels, portDropped, senderDrain,  \* struct Packet
    locked,        \* select_lock, held from new to the end of inherit_blocker
    inherit,       \* the task inherit_blocker is given
    spc, nsent,    \* senders: where each is, messages begun
    handle,        \* the task a sender took out of to_wake
    rpc, rmode, got, amt,  \* receiver: where it is, in which call, locals
    dsteals,       \* the local steals of drop_port
    ready,         \* select reported this port as ready
    received,      \* ghost: how many messages of each sender were received
    refused,       \* ghost: messages whose send returned false
    fails          \* the assertions and unreachable!()s that were reached

born == <<locked, inherit>>
flags == <<channels, portDropped, senderDrain>>
counters == <<cnt, steals, toWake>>
packet == <<queue, counters, flags, born>>
senders == <<spc, nsent, handle, refused>>
locals == <<got, amt, dsteals>>
receiver == <<rpc, rmode, locals, ready, received>>
vars == <<packet, senders, receiver, fails>>

Check(cond, site) == fails' = IF cond THEN fails ELSE fails \cup {site}
Min(a, b) == IF a <= b THEN a ELSE b
NoMsg == <<>>
Msg(s) == <<s, nsent[s]>>
Sent == SumFunction(nsent)
First == CHOOSE s \in Senders : TRUE
Goto(s, where) == spc' = [spc EXCEPT ![s] = where]

(* The receiver is on its way here; if its task is inherited it is asleep   *)
(* on the old port.                                                         *)
Init ==
    /\ queue = <<>> /\ cnt = 0 /\ steals = 0 /\ toWake = "none"
    /\ channels = 2 /\ portDropped = FALSE /\ senderDrain = 0
    /\ locked = TRUE /\ inherit \in Inherits
    /\ spc = [s \in Senders |-> IF s = First THEN "inherit" ELSE "unborn"]
    /\ nsent = [s \in Senders |-> 0]
    /\ handle = [s \in Senders |-> "none"]
    /\ rpc = IF inherit = "none" THEN "idle"
             ELSE IF inherit = "owned" THEN "inherited" ELSE "selecting"
    /\ rmode = "try" /\ got = NoMsg /\ amt = 0 /\ dsteals = 0
    /\ ready = FALSE /\ received = [s \in Senders |-> 0] /\ refused = {}
    /\ fails = {}
-----------------------------------------------------------------------------
(* Construction and the senders.                                            *)

(* inherit_blocker: until the lock is free only this sender is here.        *)
InheritBlocker(s) ==
    /\ spc[s] = "inherit" /\ Goto(s, "unlock")
    /\ IF inherit = "none" THEN UNCHANGED <<counters, fails>>
       ELSE /\ Check(cnt = 0 /\ toWake = "none", "shared.rs:94,95")
            /\ toWake' = inherit /\ cnt' = -1 /\ steals' = -1
    /\ UNCHANGED <<queue, flags, born, nsent, handle, refused, receiver>>

(* The construction is over, and the clone that caused it is handed out. *)
InheritUnlock(s) ==
    /\ spc[s] = "unlock" /\ locked' = FALSE
    /\ \E t \in Senders : /\ spc[t] = "unborn"
                          /\ spc' = [spc EXCEPT ![s] = "idle", ![t] = "idle"]
    /\ UNCHANGED <<queue, counters, flags, inherit, nsent, handle, refused,
                   receiver, fails>>

(* send: the gate on port_dropped ... *)
Send(s) ==
    /\ spc[s] = "idle" /\ Sent < MaxSends
    /\ nsent' = [nsent EXCEPT ![s] = @ + 1]
    /\ IF portDropped THEN refused' = refused \cup {Msg(s)'} /\ UNCHANGED spc
                      ELSE Goto(s, "load") /\ UNCHANGED refused
    /\ UNCHANGED <<packet, handle, receiver, fails>>

(* ... and the one on a disconnected count, which other senders may be      *)
(* moving away from DISCONNECTED.                                           *)
SendLoad(s) ==
    /\ spc[s] = "load"
    /\ IF cnt < DISCONNECTED + FUDGE
         THEN refused' = refused \cup {Msg(s)} /\ Goto(s, "idle")
         ELSE Goto(s, "reserve") /\ UNCHANGED refused
    /\ UNCHANGED <<packet, nsent, handle, receiver, fails>>

SendReserve(s) ==
    /\ spc[s] = "reserve" /\ Goto(s, "link")
    /\ queue' = Append(queue, [msg |-> Msg(s), linked |-> FALSE])
    /\ UNCHANGED <<counters, flags, born, nsent, handle, refused, receiver,
                   fails>>

SendLink(s) ==
    /\ spc[s] = "link" /\ Goto(s, "add")
    /\ queue' = [i \in DOMAIN queue |->
                   IF queue[i].msg = Msg(s) THEN [queue[i] EXCEPT !.linked = TRUE]
                                            ELSE queue[i]]
    /\ UNCHANGED <<counters, flags, born, nsent, handle, refused, receiver,
                   fails>>

SendAdd(s) ==
    /\ spc[s] = "add" /\ cnt' = cnt + 1
    /\ Goto(s, IF cnt = -1 THEN "take"
               ELSE IF cnt < DISCONNECTED + FUDGE THEN "store" ELSE "idle")
    /\ UNCHANGED <<queue, steals, toWake, flags, born, nsent, handle, refused,
                   receiver, fails>>

SendStore(s) ==
    /\ spc[s] = "store" /\ cnt' = DISCONNECTED /\ Goto(s, "drainIn")
    /\ UNCHANGED <<queue, steals, toWake, flags, born, nsent, handle, refused,
                   receiver, fails>>

(* The senders that find the port gone elect one of them to drain.          *)
SendDrainIn(s) ==
    /\ spc[s] = "drainIn" /\ senderDrain' = senderDrain + 1
    /\ Goto(s, IF senderDrain = 0 THEN "drain" ELSE "idle")
    /\ UNCHANGED <<queue, counters, channels, portDropped, born, nsent, handle,
                   refused, receiver, fails>>

(* pop: a first item that is not linked is an inconsistency, to wait out.   *)
Poppable == queue # <<>> /\ queue[1].linked

SendDrain(s) ==
    /\ spc[s] = "drain"
    /\ \/ Poppable /\ queue' = Tail(queue) /\ UNCHANGED spc
       \/ queue = <<>> /\ Goto(s, "drainOut") /\ UNCHANGED queue
    /\ UNCHANGED <<counters, flags, born, nsent, handle, refused, receiver,
                   fails>>

(* Mutant: the drainer leaves after one pass. *)
SendDrainOut_Once(s) ==
    /\ spc[s] = "drainOut" /\ senderDrain' = senderDrain - 1 /\ Goto(s, "idle")
    /\ UNCHANGED <<queue, counters, channels, portDropped, born, nsent, handle,
                   refused, receiver, fails>>

(* The drainer stays until it is the only one counted in. *)
SendDrainOut(s) ==
    /\ spc[s] = "drainOut" /\ senderDrain' = senderDrain - 1
    /\ Goto(s, IF senderDrain = 1 THEN "idle" ELSE "drain")
    /\ UNCHANGED <<queue, counters, channels, portDropped, born, nsent, handle,
                   refused, receiver, fails>>

TakeToWake(s) ==
    /\ spc[s] \in {"take", "dropTake"}
    /\ Check(toWake # "none", "shared.rs:391")
    /\ handle' = [handle EXCEPT ![s] = toWake] /\ toWake' = "none"
    /\ Goto(s, IF spc[s] = "take" THEN "wake" ELSE "dropWake")
    /\ UNCHANGED <<queue, cnt, steals, flags, born, nsent, refused, receiver>>

(* A task asleep on the old port comes here to recv; one asleep in a recv   *)
(* of this port looks at the queue again; the handle of a select that       *)
(* another port ended does nothing.                                         *)
Wake(s) ==
    /\ spc[s] \in {"wake", "dropWake"}
    /\ handle' = [handle EXCEPT ![s] = "none"]
    /\ Goto(s, IF spc[s] = "wake" THEN "idle" ELSE "gone")
    /\ IF handle[s] = "owned"
         THEN /\ rmode' = IF rpc = "inherited" THEN "recv" ELSE "again"
              /\ rpc' = "pop"
         ELSE /\ rpc' = IF rpc = "selecting" THEN "abort" ELSE rpc
              /\ UNCHANGED rmode
    /\ UNCHANGED <<packet, nsent, refused, locals, ready, received, fails>>

CloneChan(s, t) ==
    /\ spc[s] = "idle" /\ spc[t] = "unborn"
    /\ channels' = channels + 1 /\ Goto(t, "idle")
    /\ UNCHANGED <<queue, counters, portDropped, senderDrain, born, nsent,
                   handle, refused, receiver, fails>>

DropChan(s) ==
    /\ spc[s] = "idle" /\ channels' = channels - 1
    /\ Goto(s, IF channels = 1 THEN "last" ELSE "gone")
    /\ Check(channels >= 1, "shared.rs:356")
    /\ UNCHANGED <<queue, counters, portDropped, senderDrain, born, nsent,
                   handle, refused, receiver>>

(* Mutant: the last sender does not look for a sleeper. *)
DropChanLast_NoWake(s) ==
    /\ spc[s] = "last" /\ cnt' = DISCONNECTED /\ Goto(s, "gone")
    /\ UNCHANGED <<queue, steals, toWake, flags, born, nsent, handle, refused,
                   receiver, fails>>

DropChanLast(s) ==
    /\ spc[s] = "last" /\ cnt' = DISCONNECTED
    /\ Goto(s, IF cnt = -1 THEN "dropTake" ELSE "gone")
    /\ Check(cnt = DISCONNECTED \/ cnt >= -1, "shared.rs:362")
    /\ UNCHANGED <<queue, steals, toWake, flags, born, nsent, handle, refused,
                   receiver>>
-----------------------------------------------------------------------------
(* The receiver.                                                            *)

Recv ==
    /\ rpc = "idle" /\ rpc' = "pop" /\ rmode' \in {"try", "recv"}
    /\ ready' = FALSE
    /\ UNCHANGED <<packet, senders, locals, received, fails>>

(* Message m is returned, with n steals on record; the receive that slept   *)
(* has its own decrement for a steal.                                       *)
Return(m, n) ==
    /\ steals' = IF rmode = "again" THEN n - 1 ELSE n
    /\ received' = [received EXCEPT ![m[1]] = m[2]]
    /\ Check(m[2] = received[m[1]] + 1, "order")
    /\ rpc' = "idle"

(* pop; an inconsistent queue is not empty, and is waited for.              *)
TryRecvPop ==
    /\ rpc = "pop" /\ (Poppable \/ queue = <<>>)
    /\ IF queue = <<>>
         THEN rpc' = "load" /\ UNCHANGED <<queue, steals, got, received,
                                           fails>>
         ELSE /\ queue' = Tail(queue) /\ got' = queue[1].msg
              /\ IF steals > MAX_STEALS
                   THEN rpc' = "swap" /\ UNCHANGED <<steals, received, fails>>
                   ELSE Return(queue[1].msg, steals + 1)
    /\ UNCHANGED <<cnt, toWake, flags, born, senders, rmode, amt, dsteals,
                   ready>>

TryRecvSwap ==
    /\ rpc = "swap"
    /\ IF cnt = DISCONNECTED
         THEN Return(got, steals + 1) /\ UNCHANGED <<cnt, amt>>
         ELSE /\ cnt' = 0 /\ rpc' = "bump"
              /\ steals' = steals - Min(cnt, steals)
              /\ amt' = cnt - Min(cnt, steals)
              /\ Check(steals' >= 0, "shared.rs:319")
              /\ UNCHANGED received
    /\ UNCHANGED <<queue, toWake, flags, born, senders, rmode, got, dsteals,
                   ready>>

Bump(n) == IF cnt = DISCONNECTED THEN cnt ELSE cnt + n

TryRecvBump ==
    /\ rpc = "bump"
    /\ cnt' = Bump(amt) /\ Return(got, steals + 1)
    /\ UNCHANGED <<queue, toWake, flags, born, senders, rmode, locals, ready>>

TryRecvLoad ==
    /\ rpc = "load"
    /\ Check(rmode = "again" => cnt = DISCONNECTED, "mod.rs:768")
    /\ rpc' = IF cnt = DISCONNECTED THEN "popAgain"
              ELSE IF rmode = "recv" THEN "decrement" ELSE "idle"
    /\ UNCHANGED <<packet, senders, rmode, locals, ready, received>>

TryRecvPopAgain ==
    /\ rpc = "popAgain"
    /\ IF Poppable
         THEN queue' = Tail(queue) /\ Return(queue[1].msg, steals)
         ELSE /\ Check(queue = <<>>, "shared.rs:335")
              /\ rpc' = "idle" /\ UNCHANGED <<queue, steals, received>>
    /\ UNCHANGED <<cnt, toWake, flags, born, senders, rmode, locals, ready>>

Decrement ==
    /\ rpc = "decrement" /\ rpc' = "sub"
    /\ Check(toWake = "none", "shared.rs:240")
    /\ toWake' = IF rmode = "recv" THEN "owned" ELSE "shared"
    /\ UNCHANGED <<queue, cnt, steals, flags, born, senders, rmode, locals,
                   ready, received>>

DecrementSub ==
    /\ rpc = "sub" /\ steals' = 0
    /\ cnt' = Bump(-1 - steals)
    /\ Check(cnt = DISCONNECTED \/ cnt >= 0, "shared.rs:252")
    /\ rpc' = IF cnt = DISCONNECTED \/ cnt - steals > 0 THEN "unset"
              ELSE IF rmode = "recv" THEN "blocked" ELSE "selecting"
    /\ UNCHANGED <<queue, toWake, flags, born, senders, rmode, locals, ready,
                   received>>

DecrementUnset ==
    /\ rpc = "unset" /\ toWake' = "none"
    /\ IF rmode = "recv" THEN rpc' = "pop" /\ rmode' = "again"
                         ELSE rpc' = "undo" /\ UNCHANGED rmode
    /\ UNCHANGED <<queue, cnt, steals, flags, born, senders, locals, ready,
                   received, fails>>

DropPort ==
    /\ rpc \in {"idle", "close"} /\ rpc' = "dropCas"
    /\ portDropped' = TRUE /\ dsteals' = steals
    /\ UNCHANGED <<queue, counters, channels, senderDrain, born, senders,
                   rmode, got, amt, ready, received, fails>>

DropPortCas ==
    /\ rpc = "dropCas"
    /\ cnt' = IF cnt = dsteals THEN DISCONNECTED ELSE cnt
    /\ rpc' = IF cnt \in {dsteals, DISCONNECTED} THEN "gone" ELSE "drain"
    /\ UNCHANGED <<queue, steals, toWake, flags, born, senders, rmode, locals,
                   ready, received, fails>>

DropPortDrain ==
    /\ rpc = "drain"
    /\ IF Poppable
         THEN queue' = Tail(queue) /\ dsteals' = dsteals + 1 /\ UNCHANGED rpc
         ELSE rpc' = "dropCas" /\ UNCHANGED <<queue, dsteals>>
    /\ UNCHANGED <<counters, flags, born, senders, rmode, got, amt, ready,
                   received, fails>>
-----------------------------------------------------------------------------
(* select. *)

CanRecv ==
    /\ Selects /\ rpc = "idle"
    /\ ready' = (cnt = DISCONNECTED \/ cnt - steals > 0)
    /\ UNCHANGED <<packet, senders, rpc, rmode, locals, received, fails>>

StartSelection ==
    /\ Selects /\ rpc = "idle" /\ rpc' = "decrement" /\ rmode' = "select"
    /\ ready' = FALSE
    /\ UNCHANGED <<packet, senders, locals, received, fails>>

StartUndo ==
    /\ rpc = "undo" /\ rpc' = "idle" /\ ready' = TRUE
    /\ cnt' = Bump(1)
    /\ Check(cnt = DISCONNECTED \/ cnt >= 0, "shared.rs:431")
    /\ UNCHANGED <<queue, steals, toWake, flags, born, senders, rmode, locals,
                   received>>

(* Another port of the same select wakes the receiver. *)
OtherPortReady ==
    /\ rpc = "selecting" /\ rpc' = "abort"
    /\ UNCHANGED <<packet, senders, rmode, locals, ready, received, fails>>

(* Mutant: the lock of the construction is not waited for. *)
Abort_NoLock ==
    /\ rpc = "abort" /\ rpc' = "abortBump"
    /\ amt' = IF cnt < 0 /\ cnt # DISCONNECTED THEN -cnt ELSE 0
    /\ UNCHANGED <<packet, senders, rmode, got, dsteals, ready, received,
                   fails>>

(* abort_selection bounces on the lock, then reads how far to undo.         *)
Abort ==
    /\ rpc = "abort" /\ ~locked /\ rpc' = "abortBump"
    /\ amt' = IF cnt < 0 /\ cnt # DISCONNECTED THEN -cnt ELSE 0
    /\ UNCHANGED <<packet, senders, rmode, got, dsteals, ready, received,
                   fails>>

(* A failed assertion unwinds the receiver's task. *)
AbortBump ==
    /\ rpc = "abortBump" /\ cnt' = Bump(amt + 1)
    /\ IF cnt = DISCONNECTED
         THEN /\ Check(toWake = "none", "shared.rs:464")
              /\ rpc' = IF toWake = "none" THEN "idle" ELSE "close"
              /\ ready' = (toWake = "none")
         ELSE /\ Check(cnt + amt + 1 >= 0, "shared.rs:468")
              /\ rpc' = IF cnt < 0 THEN "trash" ELSE "spin"
              /\ UNCHANGED ready
    /\ UNCHANGED <<queue, steals, toWake, flags, born, senders, rmode, locals,
                   received>>

(* Mutant: the port is taken to have data. *)
AbortTrash_Ready ==
    /\ rpc = "trash" /\ toWake' = "none" /\ steals' = amt
    /\ rpc' = "idle" /\ ready' = TRUE
    /\ UNCHANGED <<queue, cnt, flags, born, senders, rmode, locals, received,
                   fails>>

AbortTrash ==
    /\ rpc = "trash"
    /\ Check(toWake # "none" /\ steals \in {0, -1}, "shared.rs:391,479")
    /\ toWake' = "none" /\ steals' = amt
    /\ rpc' = "idle" /\ ready' = FALSE
    /\ UNCHANGED <<queue, cnt, flags, born, senders, rmode, locals, received>>

AbortSpin ==
    /\ rpc = "spin" /\ toWake = "none"
    /\ Check(steals \in {0, -1}, "shared.rs:479")
    /\ steals' = amt /\ rpc' = "idle" /\ ready' = TRUE
    /\ UNCHANGED <<queue, cnt, toWake, flags, born, senders, rmode, locals,
                   received>>
-----------------------------------------------------------------------------
SendStep(s) ==
    \/ InheritBlocker(s) \/ InheritUnlock(s)
    \/ SendLoad(s) \/ SendReserve(s) \/ SendLink(s) \/ SendAdd(s)
    \/ SendStore(s) \/ SendDrainIn(s) \/ SendDrain(s) \/ SendDrainOut(s)
    \/ TakeToWake(s) \/ Wake(s) \/ DropChanLast(s)
SenderNext(s) == \/ Send(s) \/ DropChan(s) \/ SendStep(s)
                 \/ \E t \in Senders : CloneChan(s, t)

ReceiverStep ==
    \/ TryRecvPop \/ TryRecvSwap \/ TryRecvBump \/ TryRecvLoad \/ TryRecvPopAgain
    \/ Decrement \/ DecrementSub \/ DecrementUnset
    \/ (rpc = "close" /\ DropPort) \/ DropPortCas \/ DropPortDrain
    \/ StartUndo \/ Abort \/ AbortBump \/ AbortTrash \/ AbortSpin
ReceiverNext == Recv \/ DropPort \/ CanRecv \/ StartSelection \/ ReceiverStep

Finished == /\ rpc = "gone" /\ \A s \in Senders : spc[s] \in {"gone", "unborn"}
            /\ UNCHANGED vars

Next == \/ \E s \in Senders : SenderNext(s)
        \/ ReceiverNext \/ OtherPortReady \/ Finished

Spec == Init /\ [][Next]_vars

(* Calls make progress, and a sender that stops sending is dropped. *)
FairSpec == /\ Spec /\ WF_vars(ReceiverStep)
            /\ \A s \in Senders : WF_vars(SendStep(s)) /\ WF_vars(DropChan(s))
-----------------------------------------------------------------------------
Messages == Senders \X (1..MaxSends)
Connected == cnt >= DISCONNECTED + FUDGE

(* Every variable keeps its type; while the senders are there the steals    *)
(* stay within their limit, give or take sends that are not counted yet.    *)
TypeOK ==
    /\ queue \in Seq([msg : Messages, linked : BOOLEAN]) /\ cnt \in Int
    /\ steals \in Int
    /\ Connected => steals \in -1..(MAX_STEALS + Cardinality(Senders) + 1)
    /\ toWake \in {"none", "owned", "shared"} /\ portDropped \in BOOLEAN
    /\ channels \in 0..Cardinality(Senders) /\ locked \in BOOLEAN
    /\ senderDrain \in 0..MaxSends
    /\ inherit \in Inherits /\ nsent \in [Senders -> 0..MaxSends]
    /\ spc \in [Senders -> {"inherit", "unlock", "unborn", "idle", "load",
                  "reserve", "link", "add", "store", "drainIn", "drain",
                  "drainOut", "take", "wake", "last", "dropTake", "dropWake",
                  "gone"}]
    /\ handle \in [Senders -> {"none", "owned", "shared"}]
    /\ rpc \in {"inherited", "idle", "pop", "load", "popAgain", "swap", "bump",
                "decrement", "sub", "unset", "blocked", "selecting", "undo",
                "abort", "abortBump", "trash", "spin", "close", "dropCas",
                "drain", "gone"}
    /\ rmode \in {"try", "recv", "again", "select"}
    /\ got \in Messages \cup {NoMsg} /\ amt \in Int /\ dsteals \in Int
    /\ ready \in BOOLEAN /\ received \in [Senders -> 0..MaxSends]
    /\ refused \subseteq Messages

(* With the types, no assertion, fail!() or unreachable!() of shared.rs is  *)
(* reached (but shared.rs:464, the assertion of AbortDisconnected in Stream, *)
(* which these lines share), and Drop for Packet                            *)
(* finds the channel disconnected, nobody to wake and no sender.            *)
NoAssertionFails ==
    /\ TypeOK
    /\ fails \subseteq {"shared.rs:464", "order"}
    /\ rpc = "gone" /\ (\A s \in Senders : spc[s] \in {"gone", "unborn"})
         => cnt = DISCONNECTED /\ toWake = "none" /\ channels = 0

Uncounted == Cardinality({s \in Senders : spc[s] \in {"link", "add"}})

(* What the receiver's position adds to the count (see Stream). *)
Debt ==
    CASE rpc \in {"blocked", "unset", "undo"} -> 1
      [] rpc \in {"selecting", "abort", "abortBump"} /\ steals # -1 /\ ~locked -> 1
      [] rpc \in {"pop", "load"} /\ rmode = "again" -> 1
      [] rpc = "swap" -> -1
      [] rpc \in {"trash", "spin"} -> steals - amt
      [] rpc = "bump" -> amt - 1
      [] OTHER -> 0

(* The count is the number of items in the queue, but for those whose       *)
(* senders have not counted them yet, the receiver's steals and its debt;   *)
(* the steal of -1 stands for the decrement of an inherited task.           *)
CounterExact ==
    Connected /\ ~locked /\ rpc \notin {"close", "dropCas", "drain", "gone"} =>
        cnt = Len(queue) - Uncounted + steals - Debt

(* The count is exact, and a receiver that sleeps on this packet sleeps     *)
(* beside no message but those whose senders are still to add to it, or     *)
(* somebody is on the way to wake it; a port that select reports as ready   *)
(* has a message or is disconnected.                                        *)
SleeperCovered ==
    /\ CounterExact
    /\ rpc \in {"inherited", "blocked", "selecting"} /\ ~locked =>
        \/ toWake # "none" /\ cnt < 0 /\ Connected /\ Len(queue) <= Uncounted
        \/ toWake # "none" /\ \E s \in Senders : spc[s] \in {"take", "dropTake"}
        \/ \E s \in Senders : handle[s] # "none"
    /\ ready /\ rpc = "idle" => queue # <<>> \/ cnt = DISCONNECTED

(* The queue is single-consumer: the receiver and the senders that drain it *)
(* never pop at the same time.                                              *)
OneConsumer ==
    Cardinality({s \in Senders : spc[s] \in {"drain", "drainOut"}})
      + (IF rpc # "gone" THEN 1 ELSE 0) <= 1

(* Every message sent to a live port is in the queue, in the receiver's     *)
(* hands or received; each sender's messages arrive once and in the order   *)
(* they were sent; a message whose send returned false is not received      *)
(* ("`false` == the data will *never* be received", shared.rs:153).  When   *)
(* the port is gone and no sender is inside send, nothing is left: "that    *)
(* sender in question will drain its own data" (shared.rs:205).  Only one   *)
(* task is a consumer at a time.                                            *)
Delivered ==
    /\ "order" \notin fails
    /\ \A m \in refused : m[2] > received[m[1]]
    /\ ~portDropped => \A s \in Senders :
         nsent[s] = received[s]
           + Cardinality({i \in DOMAIN queue : queue[i].msg[1] = s})
           + (IF rpc \in {"swap", "bump"} /\ got[1] = s THEN 1 ELSE 0)
           + (IF spc[s] \in {"load", "reserve"} THEN 1 ELSE 0)
    /\ (/\ rpc = "gone" /\ \E s \in Senders : spc[s] = "idle"
        /\ \A s \in Senders : spc[s] \in {"idle", "unborn", "gone"})
         => queue = <<>>
    /\ OneConsumer

(* Every call returns: the receiver's sleeps, spins and drains end, and a   *)
(* sender's draining does, whoever else drains.  The senders call a bounded *)
(* number of times, so that all are out of their calls again and again,     *)
(* together, just when each call returns.                                   *)
CallsReturn ==
    []<>(/\ rpc \in {"idle", "gone"}
         /\ \A s \in Senders : spc[s] \in {"idle", "unborn", "gone"})
=============================================================================
