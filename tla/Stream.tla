------------------------------- MODULE Stream -------------------------------
(***************************************************************************)
(* The channel of one sender and one receiver,                             *)
(* src/src/libstd/comm/stream.rs: an SPSC queue, whose push and pop are    *)
(* one step each, and a counter on which both halves agree who             *)
(* sleeps and who wakes.  One action per atomic instruction or queue       *)
(* operation.  A cnt that is DISCONNECTED has been left behind by the      *)
(* other half for good, so an add that meets it and the store that puts it *)
(* back are one step.                                                      *)
(***************************************************************************)
EXTENDS Integers, Sequences, FiniteSets

CONSTANTS MaxSends,    \* bound: messages the sender sends
          MAX_STEALS,  \* see stream.rs:36
          Selects,     \* does the receiver use select?
          DISCONNECTED \* int::MIN

StreamAssumption ==
    /\ MaxSends \in Nat /\ MAX_STEALS \in Nat /\ Selects \in BOOLEAN
    /\ DISCONNECTED \in Int /\ DISCONNECTED < -MAX_STEALS - MaxSends - 10

VARIABLES
    queue, cnt, steals, toWake, portDropped,  \* struct Packet
    spc, nsent, smsg,    \* sender: where it is, messages begun, message in hand
    handle,              \* the task the sender took out of to_wake
    rpc, rmode, got, amt,\* receiver: where it is, in which call, locals
    dsteals,             \* the local steals of drop_port
    ready,               \* select reported this port as ready
    received,            \* ghost: messages handed to the user, in order
    hungup,              \* ghost: a receive returned Disconnected
    refused,             \* ghost: messages whose send returned false
    fails                \* the assertions and unreachable!()s that were reached

packet == <<queue, cnt, steals, toWake, portDropped>>
sender == <<spc, nsent, smsg, handle, refused>>
receiver == <<rpc, rmode, got, amt, dsteals, ready, received, hungup>>
vars == <<packet, sender, receiver, fails>>

GoUp == 0                     \* an upgrade request; messages are 1, 2, ...
Messages == 1..MaxSends
Check(cond, site) == fails' = IF cond THEN fails ELSE fails \cup {site}
Min(a, b) == IF a <= b THEN a ELSE b

Init ==
    /\ queue = <<>> /\ cnt = 0 /\ steals = 0 /\ toWake = "none"
    /\ portDropped = FALSE
    /\ spc = "idle" /\ nsent = 0 /\ smsg = GoUp /\ handle = "none"
    /\ rpc \in {"idle", "abortUpgraded"} /\ rmode = "try"
    /\ got = GoUp /\ amt = 0 /\ dsteals = 0
    /\ ready = FALSE /\ received = <<>> /\ hungup = FALSE
    /\ refused = {} /\ fails = {}
-----------------------------------------------------------------------------
(* The sender.                                                              *)

(* The send that upgraded a oneshot into this packet sends on it before the *)
(* Sender is used again; if the upgrade failed, the port is dropped already.*)
Begun == nsent > 0 \/ rpc = "gone"

(* send, or the upgrade of Sender::clone: the gate on port_dropped.         *)
DoSend ==
    /\ spc = "idle"
    /\ \/ nsent < MaxSends /\ nsent' = nsent + 1 /\ smsg' = nsent + 1
       \/ Begun /\ smsg' = GoUp /\ UNCHANGED nsent
    /\ IF portDropped
         THEN /\ spc' = IF smsg' = GoUp THEN "drop" ELSE "idle"
              /\ refused' = refused \cup ({smsg'} \ {GoUp})
         ELSE spc' = "push" /\ UNCHANGED refused
    /\ UNCHANGED <<packet, handle, receiver, fails>>

(* Where the sender is once do_send is over: an upgraded one leaves. *)
Sent == IF smsg = GoUp THEN "drop" ELSE "idle"

SendPush ==
    /\ spc = "push" /\ spc' = "add"
    /\ queue' = Append(queue, smsg)
    /\ UNCHANGED <<cnt, steals, toWake, portDropped, nsent, smsg, handle,
                   refused, receiver, fails>>

(* Mutant: any negative count is taken for a sleeping receiver. *)
SendAdd_Negative ==
    /\ spc = "add" /\ cnt # DISCONNECTED /\ cnt' = cnt + 1
    /\ spc' = IF cnt < 0 THEN "take" ELSE Sent
    /\ UNCHANGED <<queue, steals, toWake, portDropped, nsent, smsg, handle,
                   refused, receiver, fails>>

(* fetch_add: -1 is a sleeper to wake, DISCONNECTED a port whose last item  *)
(* the sender has to drain itself.                                          *)
SendAdd ==
    /\ spc = "add"
    /\ IF cnt = DISCONNECTED
         THEN /\ queue' = IF queue = <<>> THEN queue ELSE Tail(queue)
              /\ refused' = IF queue = <<>> THEN refused \cup ({smsg} \ {GoUp})
                                            ELSE refused
              /\ Check(Len(queue) <= 1, "stream.rs:127")
              /\ spc' = Sent /\ UNCHANGED cnt
         ELSE /\ cnt' = cnt + 1
              /\ spc' = IF cnt = -1 THEN "take" ELSE Sent
              /\ Check(cnt >= -2, "stream.rs:137")
              /\ UNCHANGED <<queue, refused>>
    /\ UNCHANGED <<steals, toWake, portDropped, nsent, smsg, handle, receiver>>

(* take_to_wake *)
TakeToWake ==
    /\ spc \in {"take", "dropTake"}
    /\ Check(toWake # "none", "stream.rs:145")
    /\ handle' = toWake /\ toWake' = "none"
    /\ spc' = IF spc = "take" THEN "wake" ELSE "dropWake"
    /\ UNCHANGED <<queue, cnt, steals, portDropped, nsent, smsg, refused,
                   receiver>>

(* A task is woken: one that sleeps in recv always, one in select unless    *)
(* another port has woken it.                                               *)
WakeHandle(h) ==
    IF h = "owned" THEN rpc' = "pop" /\ rmode' = "again"
    ELSE IF h = "shared" /\ rpc = "selecting"
         THEN rpc' = "abort" /\ UNCHANGED rmode
         ELSE UNCHANGED <<rpc, rmode>>

(* Reawaken the receiver; on an upgrade the handle stays with the sender,   *)
(* to be inherited by the shared packet.                                    *)
Wake ==
    /\ spc \in {"wake", "dropWake"}
    /\ IF spc = "wake" /\ smsg = GoUp
         THEN spc' = "drop" /\ UNCHANGED <<handle, rpc, rmode>>
         ELSE /\ WakeHandle(handle) /\ handle' = "none"
              /\ spc' = IF spc = "wake" THEN "idle" ELSE "gone"
    /\ UNCHANGED <<packet, nsent, smsg, refused, got, amt, dsteals, ready,
                   received, hungup, fails>>

(* The shared packet wakes the blocker it inherited. *)
InheritorWakes ==
    /\ spc \in {"drop", "gone"} /\ handle # "none"
    /\ WakeHandle(handle) /\ handle' = "none"
    /\ UNCHANGED <<packet, spc, nsent, smsg, refused, got, amt, dsteals, ready,
                   received, hungup, fails>>

(* Mutant: the sleeper is not woken. *)
DropChan_NoWake ==
    /\ spc = "drop" \/ (spc = "idle" /\ Begun)
    /\ cnt' = DISCONNECTED /\ spc' = "gone"
    /\ UNCHANGED <<queue, steals, toWake, portDropped, nsent, smsg, handle,
                   refused, receiver, fails>>

DropChan ==
    /\ spc = "drop" \/ (spc = "idle" /\ Begun)
    /\ cnt' = DISCONNECTED
    /\ spc' = IF cnt = -1 THEN "dropTake" ELSE "gone"
    /\ Check(cnt = DISCONNECTED \/ cnt >= -1, "stream.rs:269")
    /\ UNCHANGED <<queue, steals, toWake, portDropped, nsent, smsg, handle,
                   refused, receiver>>
-----------------------------------------------------------------------------
(* The receiver.                                                            *)

unlocal == <<got, amt, dsteals>>

(* try_recv or recv is called. *)
Recv ==
    /\ rpc = "idle" /\ rpc' = "pop" /\ rmode' \in {"try", "recv"}
    /\ ready' = FALSE
    /\ UNCHANGED <<packet, sender, hungup, unlocal, received, fails>>

(* A popped message is returned, with n steals on record; the receive that  *)
(* slept has its own decrement for a steal.  An upgrade leaves this packet. *)
Return(v, n) ==
    /\ steals' = IF rmode = "again" THEN n - 1 ELSE n
    /\ received' = IF v = GoUp THEN received ELSE Append(received, v)
    /\ rpc' = IF v = GoUp THEN "close" ELSE "idle"

TryRecvPop ==
    /\ rpc = "pop"
    /\ IF queue = <<>>
         THEN rpc' = "load" /\ UNCHANGED <<queue, steals, got, received>>
         ELSE /\ queue' = Tail(queue) /\ got' = Head(queue)
              /\ IF steals > MAX_STEALS
                   THEN rpc' = "swap" /\ UNCHANGED <<steals, received>>
                   ELSE Return(Head(queue), steals + 1)
    /\ UNCHANGED <<cnt, toWake, portDropped, sender, hungup, rmode, amt, dsteals, ready,
                   fails>>

(* Too many steals: cnt is swapped out to cancel them against it.           *)
TryRecvSwap ==
    /\ rpc = "swap"
    /\ IF cnt = DISCONNECTED
         THEN Return(got, steals + 1) /\ UNCHANGED <<cnt, amt, fails>>
         ELSE /\ cnt' = 0 /\ rpc' = "bump"
              /\ steals' = steals - Min(cnt, steals)
              /\ amt' = cnt - Min(cnt, steals)
              /\ Check(steals' >= 0, "stream.rs:227")
              /\ UNCHANGED received
    /\ UNCHANGED <<queue, toWake, portDropped, sender, hungup, rmode, got, dsteals,
                   ready>>

Bump(n) == IF cnt = DISCONNECTED THEN cnt ELSE cnt + n

TryRecvBump ==
    /\ rpc = "bump"
    /\ cnt' = Bump(amt) /\ Return(got, steals + 1)
    /\ UNCHANGED <<queue, toWake, portDropped, sender, hungup, rmode, unlocal, ready,
                   fails>>

(* The queue was empty: is the channel disconnected?                        *)
TryRecvLoad ==
    /\ rpc = "load"
    /\ Check(rmode = "again" => cnt = DISCONNECTED, "mod.rs:760")
    /\ rpc' = IF cnt = DISCONNECTED THEN "popAgain"
              ELSE IF rmode = "recv" THEN "decrement" ELSE "idle"
    /\ UNCHANGED <<packet, sender, hungup, rmode, unlocal, ready, received>>

(* Mutant: no second look at the queue. *)
TryRecvPopAgain_None ==
    /\ rpc = "popAgain" /\ rpc' = "idle" /\ hungup' = TRUE
    /\ UNCHANGED <<packet, sender, rmode, unlocal, ready, received, fails>>

TryRecvPopAgain ==
    /\ rpc = "popAgain"
    /\ IF queue = <<>>
         THEN /\ rpc' = "idle" /\ hungup' = TRUE
              /\ UNCHANGED <<queue, steals, received>>
         ELSE queue' = Tail(queue) /\ Return(Head(queue), steals) /\ UNCHANGED hungup
    /\ UNCHANGED <<cnt, toWake, portDropped, sender, rmode, unlocal, ready, fails>>

(* decrement publishes the task ...                                         *)
Decrement ==
    /\ rpc = "decrement" /\ rpc' = "sub"
    /\ Check(toWake = "none", "stream.rs:153")
    /\ toWake' = IF rmode = "recv" THEN "owned" ELSE "shared"
    /\ UNCHANGED <<queue, cnt, steals, portDropped, sender, hungup, rmode, unlocal,
                   ready, received>>

(* ... and takes one off the count, and all the steals, before it sleeps.   *)
DecrementSub ==
    /\ rpc = "sub" /\ steals' = 0
    /\ cnt' = Bump(-1 - steals)
    /\ Check(cnt = DISCONNECTED \/ cnt >= 0, "stream.rs:165")
    /\ rpc' = IF cnt = DISCONNECTED \/ cnt - steals > 0 THEN "unset"
              ELSE IF rmode = "recv" THEN "blocked" ELSE "selecting"
    /\ UNCHANGED <<queue, toWake, portDropped, sender, hungup, rmode, unlocal, ready,
                   received>>

DecrementUnset ==
    /\ rpc = "unset" /\ toWake' = "none"
    /\ IF rmode = "recv" THEN rpc' = "pop" /\ rmode' = "again"
                         ELSE rpc' = "cancel" /\ UNCHANGED rmode
    /\ UNCHANGED <<queue, cnt, steals, portDropped, sender, hungup, unlocal, ready,
                   received, fails>>

(* drop_port: raise the flag, then alternate between exchanging the count   *)
(* that means "empty" for DISCONNECTED and draining the queue.              *)
DropPort ==
    /\ rpc \in {"idle", "close"} /\ rpc' = "dropCas"
    /\ portDropped' = TRUE /\ dsteals' = steals
    /\ UNCHANGED <<queue, cnt, steals, toWake, sender, hungup, rmode, got, amt, ready,
                   received, fails>>

DropPortCas ==
    /\ rpc = "dropCas"
    /\ cnt' = IF cnt = dsteals THEN DISCONNECTED ELSE cnt
    /\ rpc' = IF cnt \in {dsteals, DISCONNECTED} THEN "gone" ELSE "drain"
    /\ UNCHANGED <<queue, steals, toWake, portDropped, sender, hungup, rmode, unlocal,
                   ready, received, fails>>

DropPortDrain ==
    /\ rpc = "drain"
    /\ IF queue = <<>> THEN rpc' = "dropCas" /\ UNCHANGED <<queue, dsteals>>
       ELSE queue' = Tail(queue) /\ dsteals' = dsteals + 1 /\ UNCHANGED rpc
    /\ UNCHANGED <<cnt, steals, toWake, portDropped, sender, hungup, rmode, got, amt,
                   ready, received, fails>>
-----------------------------------------------------------------------------
(* select. *)

(* can_recv; a pending upgrade is received, and leads away from here. *)
CanRecv ==
    /\ Selects /\ rpc = "idle"
    /\ ready' = (queue # <<>> /\ Head(queue) # GoUp)
    /\ IF queue # <<>> /\ Head(queue) = GoUp
         THEN rpc' = "pop" /\ rmode' = "recv" ELSE UNCHANGED <<rpc, rmode>>
    /\ UNCHANGED <<packet, sender, unlocal, received, hungup, fails>>

StartSelection ==
    /\ Selects /\ rpc = "idle" /\ rpc' = "decrement" /\ rmode' = "select"
    /\ ready' = FALSE
    /\ UNCHANGED <<packet, sender, unlocal, received, hungup, fails>>

(* There is data, or the channel is disconnected: no selection.             *)
StartCancel ==
    /\ rpc = "cancel"
    /\ IF queue # <<>> /\ Head(queue) = GoUp
         THEN queue' = Tail(queue) /\ rpc' = "undoUpgrade"
         ELSE rpc' = "undo" /\ UNCHANGED queue
    /\ UNCHANGED <<cnt, steals, toWake, portDropped, sender, rmode, unlocal,
                   ready, received, hungup, fails>>

StartUndo ==
    /\ rpc \in {"undo", "undoUpgrade"}
    /\ cnt' = Bump(1)
    /\ Check(cnt = DISCONNECTED \/ cnt >= 0, "stream.rs:379")
    /\ IF rpc = "undo" THEN rpc' = "idle" /\ ready' = TRUE
                       ELSE rpc' = "close" /\ UNCHANGED ready
    /\ UNCHANGED <<queue, steals, toWake, portDropped, sender, rmode, unlocal,
                   received, hungup>>

(* Another port of the same select wakes the receiver. *)
OtherPortReady ==
    /\ rpc = "selecting" /\ rpc' = "abort"
    /\ UNCHANGED <<packet, sender, rmode, unlocal, ready, received, hungup,
                   fails>>

(* abort_selection(true): this packet came out of the upgrade of a oneshot, *)
(* and is reported as ready whether the message has been pushed or not.     *)
AbortUpgraded ==
    /\ rpc = "abortUpgraded" /\ rpc' = "idle" /\ ready' = TRUE
    /\ Check(steals = 0 /\ toWake = "none", "stream.rs:402,403")
    /\ UNCHANGED <<packet, sender, rmode, unlocal, received, hungup>>

(* abort_selection(false); a failed assertion unwinds the receiver's task.  *)
Abort ==
    /\ rpc = "abort" /\ cnt' = Bump(2)
    /\ IF cnt = DISCONNECTED
         THEN /\ Check(toWake = "none", "stream.rs:416")
              /\ rpc' = IF toWake = "none" THEN "peek" ELSE "close"
         ELSE /\ Check(cnt + 2 >= 0, "stream.rs:420")
              /\ rpc' = IF cnt < 0 THEN "trash" ELSE "spin"
    /\ UNCHANGED <<queue, steals, toWake, portDropped, sender, rmode, unlocal,
                   ready, received, hungup>>

(* Nobody woke this port: its handle is taken back. *)
AbortTrash ==
    /\ rpc = "trash"
    /\ Check(toWake # "none" /\ steals = 0, "stream.rs:145,443")
    /\ toWake' = "none" /\ steals' = 1
    /\ rpc' = "idle" /\ ready' = FALSE
    /\ UNCHANGED <<queue, cnt, portDropped, sender, rmode, unlocal, received,
                   hungup>>

(* A sender counted past -1: wait until it has taken the handle. *)
AbortSpin ==
    /\ rpc = "spin" /\ toWake = "none"
    /\ Check(steals = 0, "stream.rs:443")
    /\ steals' = 1 /\ rpc' = "peek"
    /\ UNCHANGED <<queue, cnt, toWake, portDropped, sender, rmode, unlocal,
                   ready, received, hungup>>

AbortPeek ==
    /\ rpc = "peek"
    /\ IF queue # <<>> /\ Head(queue) = GoUp
         THEN queue' = Tail(queue) /\ rpc' = "close" /\ UNCHANGED ready
         ELSE rpc' = "idle" /\ ready' = TRUE /\ UNCHANGED queue
    /\ UNCHANGED <<cnt, steals, toWake, portDropped, sender, rmode, unlocal,
                   received, hungup, fails>>
-----------------------------------------------------------------------------
SenderStep ==
    \/ (nsent = 0 /\ DoSend)
    \/ SendPush \/ SendAdd \/ TakeToWake \/ Wake \/ InheritorWakes
SenderNext == DoSend \/ DropChan \/ SenderStep

ReceiverStep ==
    \/ TryRecvPop \/ TryRecvSwap \/ TryRecvBump \/ TryRecvLoad \/ TryRecvPopAgain
    \/ Decrement \/ DecrementSub \/ DecrementUnset
    \/ (rpc = "close" /\ DropPort) \/ DropPortCas \/ DropPortDrain
    \/ StartCancel \/ StartUndo \/ AbortUpgraded
    \/ Abort \/ AbortTrash \/ AbortSpin \/ AbortPeek
ReceiverNext == Recv \/ DropPort \/ CanRecv \/ StartSelection \/ ReceiverStep

Finished == rpc = "gone" /\ spc = "gone" /\ handle = "none" /\ UNCHANGED vars

Next == SenderNext \/ ReceiverNext \/ OtherPortReady \/ Finished

Spec == Init /\ [][Next]_vars

(* Calls make progress, and a sender that stops sending is dropped. *)
FairSpec == Spec /\ WF_vars(SenderStep) /\ WF_vars(DropChan)
                 /\ WF_vars(ReceiverStep)
-----------------------------------------------------------------------------
(* Every variable keeps its type; while the sender is there steals stay     *)
(* within their limit.                                                      *)
TypeOK ==
    /\ queue \in Seq(Messages \cup {GoUp}) /\ cnt \in Int
    /\ steals \in Int /\ (cnt # DISCONNECTED => steals \in 0..(MAX_STEALS + 1))
    /\ toWake \in {"none", "owned", "shared"} /\ portDropped \in BOOLEAN
    /\ spc \in {"idle", "push", "add", "take", "wake", "drop", "dropTake",
                "dropWake", "gone"}
    /\ nsent \in 0..MaxSends /\ smsg \in Messages \cup {GoUp}
    /\ handle \in {"none", "owned", "shared"}
    /\ rpc \in {"idle", "pop", "load", "popAgain", "swap", "bump", "decrement",
                "sub", "unset", "blocked", "selecting", "cancel", "undo",
                "undoUpgrade", "abortUpgraded", "abort", "trash", "spin",
                "peek", "close", "dropCas", "drain", "gone"}
    /\ rmode \in {"try", "recv", "again", "select"}
    /\ got \in Messages \cup {GoUp} /\ amt \in Int /\ dsteals \in Int
    /\ ready \in BOOLEAN /\ hungup \in BOOLEAN
    /\ received \in Seq(Messages) /\ refused \subseteq Messages

(* No assertion or unreachable!() of a send, receive, drop or select is     *)
(* reached (stream.rs:416 is AbortDisconnected below), and Drop for Packet  *)
(* finds the channel disconnected with nobody to wake.                      *)
NoAssertionFails ==
    /\ fails \subseteq {"stream.rs:416"}
    /\ rpc = "gone" /\ spc = "gone" => cnt = DISCONNECTED /\ toWake = "none"

(* "If we were previously disconnected, then we know for sure that there is *)
(* no task in to_wake" (stream.rs:413).                                     *)
AbortDisconnected == "stream.rs:416" \notin fails

(* What the receiver's position adds to the count: a decrement not yet      *)
(* matched by a pop, a pop not yet recorded as a steal, an undo that        *)
(* assumed a steal, a count swapped out.                                    *)
Debt ==
    IF rpc \in {"blocked", "selecting", "unset", "cancel", "undo", "abort"} THEN 1
    ELSE IF rpc \in {"pop", "load"} /\ rmode = "again" THEN 1
    ELSE IF rpc \in {"swap", "trash", "spin"} THEN -1
    ELSE IF rpc = "bump" THEN amt - 1 ELSE 0

(* The protocol of mod.rs:185-236: on a connected channel the count is the  *)
(* number of items in the queue, but for the item a sender has not counted  *)
(* yet, the receiver's steals and its debt.                                 *)
CounterExact ==
    cnt # DISCONNECTED
      /\ rpc \notin {"undoUpgrade", "close", "dropCas", "drain", "gone"} =>
        cnt = Len(queue) - (IF spc = "add" THEN 1 ELSE 0) + steals - Debt

(* The send that made this packet has not pushed its message yet.           *)
Awaited == nsent = 0 \/ (nsent = 1 /\ smsg = 1 /\ spc = "push")

(* "-1 == wakeup": a receiver that sleeps in recv or select sleeps on an    *)
(* empty queue with its handle published, or a sender is on its way to add  *)
(* to the count, or someone holds the handle to wake it.  A port that       *)
(* select reports as ready has a message or is disconnected; only that of   *)
(* an upgraded oneshot may have to wait for the message of the send that    *)
(* upgraded it: "we know it's a small bounded windows of time until the     *)
(* data is actually sent" (stream.rs:399).                                  *)
SleeperCovered ==
    /\ rpc \in {"blocked", "selecting"} =>
        \/ toWake # "none" /\ cnt \in {-1, -2} /\ (queue = <<>> \/ spc = "add")
        \/ toWake # "none" /\ spc \in {"take", "dropTake"}
        \/ handle # "none"
    /\ ready /\ rpc = "idle" => queue # <<>> \/ cnt = DISCONNECTED \/ Awaited

(* Every message that went into the queue comes out once and in order, in   *)
(* the same order it was sent, and nothing comes after an upgrade; one      *)
(* whose send returned false is not received.  A receive returns            *)
(* Disconnected only when no message is left or can come, and drop_port     *)
(* leaves nothing behind: "we have to make sure *everything* is dropped"    *)
(* (stream.rs:287).                                                         *)
Delivered ==
    LET held == IF rpc \in {"swap", "bump"} /\ got # GoUp THEN <<got>> ELSE <<>>
        data == IF queue # <<>> /\ queue[Len(queue)] = GoUp
                  THEN SubSeq(queue, 1, Len(queue) - 1) ELSE queue
        pushed == nsent - (IF spc = "push" /\ smsg # GoUp THEN 1 ELSE 0) IN
    /\ ~portDropped => received \o held \o data = [i \in 1..pushed |-> i]
    /\ received = [i \in 1..Len(received) |-> i]
    /\ \A i \in DOMAIN received : received[i] \notin refused
    /\ hungup => queue = <<>> /\ cnt = DISCONNECTED
    /\ rpc = "gone" /\ spc = "idle" => queue = <<>>

(* The receiver is in no call, and its port was not reported as ready ahead *)
(* of its first message.                                                    *)
Settled == rpc = "gone" \/ (rpc = "idle" /\ (ready => ~Awaited))
-----------------------------------------------------------------------------
(* The inductive invariant.                                                 *)

(* The sender has swapped DISCONNECTED in; drop_port has raised its flag;   *)
(* the receiver has been counted as asleep.                                 *)
SenderLeft == spc \in {"dropTake", "dropWake", "gone"}
PortClosing == rpc \in {"dropCas", "drain", "gone"}
CountedAsleep == rpc \in {"blocked", "selecting", "abort"}

(* The last message the sender has pushed or will push is out of the queue  *)
(* again, and it was an upgrade.                                            *)
Upgraded == smsg = GoUp /\ spc \notin {"idle", "push"} /\ queue = <<>>

Uncounted == IF spc = "add" THEN 1 ELSE 0

(* On a connected channel the count is exact, or one too high where an      *)
(* upgrade was taken out of the queue without being recorded as a steal; it *)
(* is negative only for a receiver counted as asleep.                       *)
Counts ==
    /\ cnt = DISCONNECTED <=> SenderLeft \/ rpc = "gone"
    /\ cnt # DISCONNECTED =>
        /\ cnt >= -2 /\ (cnt >= 0 \/ CountedAsleep)
        /\ rpc \in {"undoUpgrade", "close"} =>
            \/ cnt = Len(queue) - Uncounted + steals
            \/ rpc = "close" /\ Upgraded /\ cnt = steals - Uncounted + 1
        /\ rpc \in {"dropCas", "drain"} =>
            \/ cnt = Len(queue) - Uncounted + dsteals
            \/ Upgraded /\ cnt = dsteals - Uncounted + 1
        /\ rpc \in {"spin", "peek"} => cnt >= 2
        /\ rpc = "peek" => steals = 1
    /\ rpc = "undoUpgrade" => Upgraded
    /\ rpc = "bump" => amt >= 0
    /\ rpc = "popAgain" => cnt = DISCONNECTED
    /\ rpc = "load" /\ rmode = "again" => cnt = DISCONNECTED

(* What the receiver has on record of its steals, and in which call it is.  *)
Steals ==
    /\ rpc \in {"unset", "blocked", "selecting", "cancel", "undo", "undoUpgrade",
               "abort", "trash", "spin", "bump", "abortUpgraded"} => steals = 0
    /\ rpc \in {"pop", "load", "popAgain"} =>
        rmode # "select" /\ (rmode = "again" => steals = 0)
    /\ rpc = "swap" => steals > MAX_STEALS
    /\ rpc \in {"swap", "bump"} => rmode # "again"
    /\ rpc \in {"decrement", "sub", "unset"} => rmode \in {"recv", "select"}
    /\ rpc = "blocked" => rmode = "recv"
    /\ rpc \in {"selecting", "abort"} => rmode = "select"

(* Who holds the receiver's handle: the packet from decrement on; a sender  *)
(* whose add or swap met -1, which alone may take it; and the same sender   *)
(* until it wakes the task.  A handle of a select may be an old one, whose  *)
(* task is awake.                                                           *)
Handles ==
    /\ toWake = "owned" => rpc \in {"sub", "unset", "blocked"} /\ rmode = "recv"
    /\ toWake = "shared" =>
        \/ rpc \in {"sub", "unset", "selecting", "abort", "trash", "spin"}
        \/ rpc \in {"close", "dropCas", "gone"} /\ spc = "dropTake"
    /\ toWake = "shared" /\ rpc \in {"sub", "unset"} => rmode = "select"
    /\ rpc \in {"sub", "trash"} => toWake # "none"
    /\ CountedAsleep =>
        /\ cnt < 0 /\ cnt # DISCONNECTED => toWake # "none"
        /\ toWake # "none" => \/ cnt < 0 /\ cnt # DISCONNECTED
                             \/ spc \in {"take", "dropTake"}
    /\ rpc = "blocked" /\ toWake = "none" => handle = "owned"
    /\ rpc = "selecting" /\ toWake = "none" => handle = "shared"
    /\ handle = "owned" => rpc = "blocked" /\ toWake = "none"
    /\ spc \in {"idle", "push", "add", "take"} => handle = "none"
    /\ spc = "take" => /\ toWake # "none" /\ cnt >= 0
                       /\ rpc \in {"blocked", "selecting", "abort", "spin"}
    /\ spc = "dropTake" =>
        /\ toWake # "none"
        /\ rpc \in {"blocked", "selecting", "abort", "close", "dropCas", "gone"}

(* Messages that are received and not handed out yet; begun and not pushed  *)
(* yet; upgrades in the queue.                                              *)
Held == IF rpc \in {"swap", "bump"} /\ got # GoUp THEN 1 ELSE 0
Unpushed == IF spc = "push" /\ smsg # GoUp THEN 1 ELSE 0
UpgradeQueued == IF queue # <<>> /\ queue[Len(queue)] = GoUp THEN 1 ELSE 0

(* Messages are numbered in the order they are sent, and an upgrade is the  *)
(* last thing sent.                                                         *)
Ordered ==
    /\ spc = "push" /\ smsg # GoUp => smsg = nsent
    /\ \A i \in 1..Len(queue) : queue[i] = GoUp =>
        i = Len(queue) /\ smsg = GoUp /\ spc \notin {"idle", "push"}
    /\ \A i \in 1..Len(received) : received[i] = i
    /\ ~portDropped =>
        /\ Held = 1 => got = Len(received) + 1
        /\ \A i \in 1..Len(queue) :
            queue[i] # GoUp => queue[i] = Len(received) + Held + i
        /\ nsent = Len(received) + Held + Len(queue) - UpgradeQueued + Unpushed

(* What is refused is begun after the port was dropped.                     *)
Gated ==
    /\ portDropped <=> PortClosing
    /\ Len(received) <= nsent
    /\ ~portDropped => refused = {}
    /\ \A m \in refused : m > Len(received)

(* What the last look of the receiver told it stays true.                   *)
Answers ==
    /\ rpc = "gone" /\ ~SenderLeft =>
        Len(queue) <= Uncounted /\ (spc = "add" /\ queue = <<>> => smsg = GoUp)
    /\ hungup => queue = <<>> /\ SenderLeft
    /\ ready => rpc = "idle" \/ PortClosing

StreamInv ==
    /\ TypeOK /\ NoAssertionFails /\ CounterExact
    /\ Counts /\ Steals /\ Handles /\ Ordered /\ Gated /\ Answers

(* A port that is reported as ready, or will be when abort_selection(true)  *)
(* returns, has a message, is disconnected or is about to get a message.    *)
Reported ==
    (ready /\ rpc = "idle") \/ rpc = "abortUpgraded" =>
        queue # <<>> \/ cnt = DISCONNECTED \/ Awaited
=============================================================================
