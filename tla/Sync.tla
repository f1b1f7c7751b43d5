-------------------------------- MODULE Sync --------------------------------
(***************************************************************************)
(* The bounded channel, src/src/libstd/comm/sync.rs: senders and one       *)
(* receiver share a State under a mutex.  A critical section is one        *)
(* action; a task that sleeps releases the lock and takes it again, in an  *)
(* action of its own, after it was woken.  The ring buffer is a sequence.  *)
(* Tasks are woken outside the lock in the code: a woken task first has to *)
(* take the lock, so the model wakes it in the waker's critical section.   *)
(***************************************************************************)
EXTENDS Integers, Sequences, FiniteSets

CONSTANTS Senders,     \* the SyncSender handles that can exist
          TrySenders,  \* those that also call try_send
          Caps,        \* the bounds that may be passed to sync_channel
          MaxSends     \* bound: messages sent in all

SyncAssumption ==
    /\ IsFiniteSet(Senders) /\ Senders # {} /\ TrySenders \subseteq Senders
    /\ Caps \subseteq Nat /\ MaxSends \in Nat
    /\ {"none", "recv", "select"} \cap Senders = {}

VARIABLES
    channels,      \* the count of sender handles
    cap, disconnected, queue, blocker, buf, canceled,  \* struct State
    spc,           \* where each sender is
    nsent,         \* messages a sender has started to send
    rpc,           \* where the receiver is
    selects,       \* does this receiver use select?
    ready,         \* select reported this port as ready
    received,      \* ghost: what recv and try_recv returned, in order
    accepted,      \* ghost: messages whose send returned success
    back,          \* ghost: messages given back to their sender
    destroyed,     \* ghost: messages destroyed with the port
    asleep,        \* ghost: a try_send left a message beside a sleeping
                   \* receiver (see ReceiverWoken)
    fails          \* the assertions and unreachable!()s that were reached

state == <<disconnected, queue, blocker, buf, canceled>>
setup == <<cap, selects>>
ghosts == <<received, accepted, back, destroyed, asleep>>
vars == <<setup, channels, state, spc, nsent, rpc, ready, ghosts, fails>>

(* The message a sender is sending, or sent last. *)
Msg(s) == <<s, nsent[s]>>
Messages == Senders \X (1..MaxSends)
Sent == {m \in Messages : m[2] <= nsent[m[1]]}
First == CHOOSE s \in Senders : TRUE
BufCap == IF cap = 0 THEN 1 ELSE cap
Full == Len(buf) = BufCap

Check(cond, site) == fails' = IF cond THEN fails ELSE fails \cup {site}

Init ==
    /\ cap \in Caps /\ selects \in BOOLEAN
    /\ channels = 1 /\ disconnected = FALSE /\ queue = <<>>
    /\ blocker = "none" /\ buf = <<>> /\ canceled = "none"
    /\ spc = [s \in Senders |-> IF s = First THEN "idle" ELSE "unborn"]
    /\ nsent = [s \in Senders |-> 0]
    /\ rpc = "idle" /\ ready = FALSE
    /\ received = <<>> /\ accepted = {} /\ back = {} /\ destroyed = {}
    /\ asleep = FALSE /\ fails = {}
-----------------------------------------------------------------------------
(* Wakes the receiver if b is its handle; the handle of a select that       *)
(* another port has already woken does nothing.                             *)
WakeReceiver(b) ==
    rpc' = IF b = "recv" THEN "woken"
           ELSE IF b = "select" /\ rpc = "selecting" THEN "aborting" ELSE rpc

(* A send begins a new message or, woken from the queue, tries again. *)
Sending(s) ==
    \/ /\ spc[s] = "idle" /\ Cardinality(Sent) < MaxSends
       /\ nsent' = [nsent EXCEPT ![s] = @ + 1]
    \/ spc[s] = "retry" /\ UNCHANGED nsent

(* The buffer is full: sleep in the queue of senders. *)
SendQueues(s) ==
    /\ Sending(s) /\ ~disconnected /\ Full
    /\ queue' = Append(queue, s)
    /\ spc' = [spc EXCEPT ![s] = "queued"]
    /\ UNCHANGED <<setup, channels, disconnected, blocker, buf, canceled, rpc, ready,
                   ghosts, fails>>

SendDisconnected(s) ==
    /\ Sending(s) /\ disconnected
    /\ back' = back \cup {Msg(s)'}
    /\ spc' = [spc EXCEPT ![s] = "idle"]
    /\ UNCHANGED <<setup, channels, state, rpc, ready, received, accepted, destroyed,
                   asleep, fails>>

(* Mutant: the blocked receiver is cleared but not woken. *)
SendEnqueues_NoWake(s) ==
    /\ Sending(s) /\ ~disconnected /\ ~Full
    /\ buf' = Append(buf, Msg(s)') /\ blocker' = "none"
    /\ accepted' = accepted \cup {Msg(s)'}
    /\ spc' = [spc EXCEPT ![s] = "idle"]
    /\ UNCHANGED <<setup, channels, disconnected, queue, canceled, rpc, ready,
                   received, back, destroyed, asleep, fails>>

(* Room in the buffer: with capacity 0 and no receiver waiting the sender   *)
(* sleeps as the blocker until its message is taken or handed back.         *)
SendEnqueues(s) ==
    /\ Sending(s) /\ ~disconnected /\ ~Full
    /\ buf' = Append(buf, Msg(s)')
    /\ Check(/\ blocker \notin Senders
             /\ cap = 0 /\ blocker = "none" => canceled = "none",
             "sync.rs:188,200")
    /\ IF cap = 0 /\ blocker = "none"
         THEN /\ canceled' = s /\ blocker' = s
              /\ spc' = [spc EXCEPT ![s] = "handoff"]
              /\ UNCHANGED <<rpc, accepted>>
         ELSE /\ blocker' = "none" /\ WakeReceiver(blocker)
              /\ spc' = [spc EXCEPT ![s] = "idle"]
              /\ accepted' = accepted \cup {Msg(s)'}
              /\ UNCHANGED canceled
    /\ UNCHANGED <<setup, channels, disconnected, queue, ready, received, back,
                   destroyed, asleep>>

(* The end of a send with capacity 0: the sender was acknowledged, or the   *)
(* port was dropped and it takes its message back out of the buffer.        *)
SendAcked(s) ==
    /\ spc[s] \in {"acked", "canceled"}
    /\ spc' = [spc EXCEPT ![s] = "idle"]
    /\ IF spc[s] = "canceled"
         THEN /\ Check(Len(buf) > 0, "sync.rs:191")
              /\ back' = back \cup {Head(buf)} /\ buf' = Tail(buf)
              /\ UNCHANGED accepted
         ELSE accepted' = accepted \cup {Msg(s)} /\ UNCHANGED <<back, buf, fails>>
    /\ UNCHANGED <<setup, channels, disconnected, queue, blocker, canceled, nsent,
                   rpc, ready, received, destroyed, asleep>>

(* try_send: Disconnected and Full give the message back. *)
TrySendRefused(s) ==
    /\ s \in TrySenders /\ spc[s] = "idle" /\ Sending(s)
    /\ disconnected \/ Full \/ (cap = 0 /\ blocker = "none")
    /\ Check(~disconnected /\ ~Full => blocker \notin Senders, "sync.rs:215")
    /\ back' = back \cup {Msg(s)'}
    /\ UNCHANGED <<setup, channels, state, spc, rpc, ready, received, accepted,
                   destroyed, asleep>>

(* try_send: with a buffer the message is left there, the blocker alone.    *)
TrySendAccepted(s) ==
    /\ s \in TrySenders /\ spc[s] = "idle" /\ Sending(s)
    /\ ~disconnected /\ ~Full
    /\ IF cap = 0
         THEN blocker # "none" /\ blocker' = "none" /\ WakeReceiver(blocker)
         ELSE UNCHANGED <<blocker, rpc>>
    /\ asleep' = (asleep \/ (cap > 0 /\ rpc \in {"blocked", "selecting"}))
    /\ buf' = Append(buf, Msg(s)') /\ accepted' = accepted \cup {Msg(s)'}
    /\ UNCHANGED <<setup, channels, disconnected, queue, canceled, spc, ready,
                   received, back, destroyed, fails>>

CloneChan(s, t) ==
    /\ spc[s] = "idle" /\ spc[t] = "unborn"
    /\ channels' = channels + 1 /\ spc' = [spc EXCEPT ![t] = "idle"]
    /\ UNCHANGED <<setup, state, nsent, rpc, ready, ghosts, fails>>

(* drop_chan: the decrement, outside the lock. *)
DropChan(s) ==
    /\ spc[s] = "idle"
    /\ channels' = channels - 1
    /\ spc' = [spc EXCEPT ![s] = IF channels = 1 THEN "last" ELSE "gone"]
    /\ UNCHANGED <<setup, state, nsent, rpc, ready, ghosts, fails>>

(* drop_chan: the last sender disconnects the channel. *)
DropChanLast(s) ==
    /\ spc[s] = "last"
    /\ spc' = [spc EXCEPT ![s] = "gone"]
    /\ disconnected' = TRUE
    /\ IF disconnected THEN UNCHANGED <<blocker, rpc, fails>>
       ELSE /\ Check(blocker \notin Senders, "sync.rs:319")
            /\ blocker' = "none" /\ WakeReceiver(blocker)
    /\ UNCHANGED <<setup, channels, queue, buf, canceled, nsent, ready, ghosts>>
-----------------------------------------------------------------------------
(* The receiver.                                                            *)

Dequeue == received' = Append(received, Head(buf)) /\ buf' = Tail(buf)

RecvBlocks ==
    /\ rpc = "idle" /\ ~disconnected /\ buf = <<>>
    /\ Check(blocker = "none", "sync.rs:118")
    /\ blocker' = "recv" /\ rpc' = "blocked" /\ ready' = FALSE
    /\ UNCHANGED <<setup, channels, disconnected, queue, buf, canceled, spc, nsent,
                   ghosts>>

(* wakeup_senders: one sender leaves the queue to try again; with capacity  *)
(* 0, unless the receiver had waited, the sender in blocker is acknowledged. *)
WakeupSenders(waited) ==
    LET ack == cap = 0 /\ ~waited IN
    /\ queue' = IF queue = <<>> THEN <<>> ELSE Tail(queue)
    /\ spc' = [s \in Senders |->
                 IF queue # <<>> /\ s = Head(queue) THEN "retry"
                 ELSE IF ack /\ s = blocker THEN "acked" ELSE spc[s]]
    /\ blocker' = IF ack THEN "none" ELSE blocker
    /\ canceled' = IF ack /\ blocker \in Senders THEN "none" ELSE canceled
    /\ Check(ack => blocker \notin {"recv", "select"}, "sync.rs:284")

(* The part of recv after the wait.                                         *)
RecvTakes ==
    /\ rpc = "woken" \/ (rpc = "idle" /\ (disconnected \/ buf # <<>>))
    /\ rpc' = "idle" /\ ready' = FALSE
    /\ IF buf # <<>>
         THEN Dequeue /\ WakeupSenders(rpc = "woken")
         ELSE /\ Check(disconnected, "sync.rs:248")
              /\ UNCHANGED <<received, buf, queue, spc, blocker, canceled>>
    /\ UNCHANGED <<setup, channels, disconnected, nsent, accepted, back, destroyed,
                   asleep>>

(* try_recv looks at disconnected before it looks at the buffer. *)
TryRecv ==
    /\ rpc = "idle"
    /\ IF ~disconnected /\ buf # <<>>
         THEN Dequeue /\ WakeupSenders(FALSE)
         ELSE UNCHANGED <<received, buf, queue, spc, blocker, canceled, fails>>
    /\ ready' = FALSE
    /\ UNCHANGED <<setup, channels, disconnected, nsent, rpc, accepted, back,
                   destroyed, asleep>>

(* Mutant: the buffered messages are destroyed whatever the capacity. *)
DropPort_DestroyAll ==
    /\ rpc = "idle" /\ ~disconnected /\ rpc' = "gone" /\ disconnected' = TRUE
    /\ destroyed' = destroyed \cup {buf[i] : i \in DOMAIN buf}
    /\ buf' = <<>> /\ queue' = <<>> /\ blocker' = "none" /\ canceled' = "none"
    /\ spc' = [s \in Senders |->
                 IF s = blocker THEN "canceled"
                 ELSE IF spc[s] = "queued" THEN "retry" ELSE spc[s]]
    /\ UNCHANGED <<setup, channels, nsent, ready, received, accepted, back, asleep,
                   fails>>

(* Mutant: the queued senders are forgotten with the queue. *)
DropPort_ForgetQueue ==
    /\ rpc = "idle" /\ rpc' = "gone" /\ disconnected' = TRUE
    /\ destroyed' = destroyed \cup {buf[i] : i \in DOMAIN buf}
    /\ buf' = <<>> /\ queue' = <<>> /\ blocker' = "none"
    /\ UNCHANGED <<setup, channels, canceled, spc, nsent, ready, received, accepted,
                   back, asleep, fails>>

(* drop_port wakes every sender; with capacity 0 the blocked one is told to *)
(* take its message back, otherwise the buffered messages are destroyed.    *)
DropPort ==
    /\ rpc = "idle" /\ rpc' = "gone" /\ disconnected' = TRUE
    /\ IF disconnected
         THEN UNCHANGED <<destroyed, buf, queue, blocker, canceled, spc, fails>>
         ELSE /\ Check(/\ blocker \notin {"recv", "select"}
                       /\ blocker \in Senders => canceled = blocker,
                       "sync.rs:348,351")
              /\ destroyed' = IF cap = 0 THEN destroyed
                              ELSE destroyed \cup {buf[i] : i \in DOMAIN buf}
              /\ buf' = IF cap = 0 THEN buf ELSE <<>>
              /\ queue' = <<>> /\ blocker' = "none"
              /\ canceled' = IF blocker \in Senders THEN "none" ELSE canceled
              /\ spc' = [s \in Senders |->
                           IF s = blocker THEN "canceled"
                           ELSE IF spc[s] = "queued" THEN "retry" ELSE spc[s]]
    /\ UNCHANGED <<setup, channels, nsent, ready, received, accepted, back, asleep>>
-----------------------------------------------------------------------------
(* select. *)

HasData == disconnected \/ buf # <<>>

CanRecv ==
    /\ selects /\ rpc = "idle"
    /\ ready' = HasData
    /\ UNCHANGED <<setup, channels, state, spc, nsent, rpc, ghosts, fails>>

StartSelection ==
    /\ selects /\ rpc = "idle"
    /\ IF HasData THEN ready' = TRUE /\ UNCHANGED <<blocker, rpc, fails>>
       ELSE /\ Check(blocker = "none", "sync.rs:384,385")
            /\ blocker' = "select" /\ rpc' = "selecting" /\ ready' = FALSE
    /\ UNCHANGED <<setup, channels, disconnected, queue, buf, canceled, spc, nsent,
                   ghosts>>

(* Another port of the same select wakes the receiver. *)
OtherPortReady ==
    /\ rpc = "selecting" /\ rpc' = "aborting"
    /\ UNCHANGED <<setup, channels, state, spc, nsent, ready, ghosts, fails>>

AbortSelection ==
    /\ rpc = "aborting" /\ rpc' = "idle"
    /\ ready' = (blocker # "select")
    /\ blocker' = IF blocker = "select" THEN "none" ELSE blocker
    /\ UNCHANGED <<setup, channels, disconnected, queue, buf, canceled, spc, nsent,
                   ghosts, fails>>
-----------------------------------------------------------------------------
SenderNext(s) ==
    \/ SendQueues(s) \/ SendDisconnected(s) \/ SendEnqueues(s) \/ SendAcked(s)
    \/ TrySendRefused(s) \/ TrySendAccepted(s)
    \/ \E t \in Senders : CloneChan(s, t)
    \/ DropChan(s) \/ DropChanLast(s)

ReceiverNext == \/ RecvBlocks \/ RecvTakes \/ TryRecv \/ DropPort
                \/ CanRecv \/ StartSelection \/ AbortSelection

(* Both halves are gone, or the receiver was left asleep for ever. *)
Finished == /\ \/ rpc = "gone" /\ \A s \in Senders : spc[s] \in {"gone", "unborn"}
               \/ asleep
            /\ UNCHANGED vars

Next == (\E s \in Senders : SenderNext(s)) \/ ReceiverNext \/ OtherPortReady
        \/ Finished

Spec == Init /\ [][Next]_vars

(* A woken task runs; a sender that has nothing more to send is dropped; a  *)
(* receiver keeps receiving or is dropped.                                  *)
Fairness ==
    /\ \A s \in Senders :
         /\ WF_vars(spc[s] = "retry" /\ SenderNext(s))
         /\ WF_vars(SendAcked(s)) /\ WF_vars(DropChanLast(s))
         /\ WF_vars(DropChan(s))
    /\ WF_vars(RecvTakes) /\ WF_vars(RecvBlocks) /\ WF_vars(AbortSelection)

FairSpec == Spec /\ Fairness
-----------------------------------------------------------------------------
Occurs(m, q) == Cardinality({i \in DOMAIN q : q[i] = m})
InHand(m) == \E s \in Senders : spc[s] \in {"queued", "retry"} /\ m = Msg(s)

(* Every variable keeps its type. *)
TypeOK ==
    /\ cap \in Caps /\ selects \in BOOLEAN
    /\ channels \in 0..Cardinality(Senders) /\ disconnected \in BOOLEAN
    /\ queue \in Seq(Senders) /\ buf \in Seq(Messages)
    /\ blocker \in Senders \cup {"none", "recv", "select"}
    /\ canceled \in Senders \cup {"none"}
    /\ spc \in [Senders -> {"unborn", "idle", "queued", "retry", "handoff",
                            "acked", "canceled", "last", "gone"}]
    /\ nsent \in [Senders -> 0..MaxSends]
    /\ rpc \in {"idle", "blocked", "woken", "selecting", "aborting", "gone"}
    /\ ready \in BOOLEAN /\ received \in Seq(Messages)
    /\ accepted \subseteq Messages /\ back \subseteq Messages
    /\ destroyed \subseteq Messages /\ asleep \in BOOLEAN

(* No assertion, fail!() or unreachable!() of sync.rs is reached, and when   *)
(* both halves are gone Drop for Packet finds no sender asleep, no pending  *)
(* cancellation and no sender handle.                                       *)
NoAssertionFails ==
    /\ fails = {}
    /\ rpc = "gone" /\ (\A s \in Senders : spc[s] \in {"gone", "unborn"})
         => channels = 0 /\ queue = <<>> /\ canceled = "none"

(* send, recv and drop_port neither lose nor duplicate a message: each one  *)
(* that was ever sent is in exactly one place - its sender's hands (waiting *)
(* or given back), the buffer, the receiver's hands, or destroyed with the  *)
(* port - and a canceled sender takes back its own message.  With no buffer *)
(* and no select, the message of a successful send was received, or a       *)
(* receiver inside recv is about to pick it up (mod.rs:569).                *)
Conserved ==
    /\ \A s \in Senders : \A n \in 1..nsent[s] :
         LET m == <<s, n>>
             One(b) == IF b THEN 1 ELSE 0 IN
         Occurs(m, buf) + Occurs(m, received) + One(InHand(m))
           + One(m \in back) + One(m \in destroyed) = 1
    /\ \A s \in Senders : spc[s] = "canceled" => buf = <<Msg(s)>>
    /\ cap = 0 /\ ~selects => \A m \in accepted :
         Occurs(m, received) = 1 \/ (buf = <<m>> /\ rpc = "woken")

(* Nobody sleeps beside what they wait for.  The buffer never exceeds its   *)
(* bound, and the room a queued sender waits for is covered by senders that *)
(* were woken to take it.  A receiver asleep in recv or select is asleep on *)
(* an open, empty channel that still holds its handle, until a try_send     *)
(* leaves it so; and a port that select reports as ready has a message or   *)
(* is disconnected.                                                         *)
SleepersCovered ==
    /\ Len(buf) <= BufCap
    /\ queue # <<>> =>
         Len(buf) + Cardinality({s \in Senders : spc[s] = "retry"}) >= BufCap
    /\ ~asleep =>
         /\ rpc = "blocked" => buf = <<>> /\ ~disconnected /\ blocker = "recv"
         /\ rpc = "selecting" => buf = <<>> /\ ~disconnected /\ blocker = "select"
    /\ ready /\ rpc = "idle" => HasData

(* "This receiver will be woken up when data is ready" (mod.rs:649).        *)
ReceiverWoken == rpc = "blocked" => buf = <<>>

(* Every call returns, unless a receiver was left asleep: a blocking send   *)
(* for a receiver that keeps receiving or leaves, a recv for senders that   *)
(* send or leave.                                                           *)
CallsReturn ==
    /\ \A s \in Senders :
         spc[s] \in {"queued", "handoff"} ~> spc[s] = "idle" \/ asleep
    /\ rpc = "blocked" ~> rpc = "idle" \/ asleep
-----------------------------------------------------------------------------
(* Why it holds: the inductive invariant.                                   *)

Live(s) == spc[s] \in {"idle", "queued", "retry", "handoff", "acked", "canceled"}
InBuf(m) == \E i \in 1..Len(buf) : buf[i] = m
Got(m) == \E i \in 1..Len(received) : received[i] = m

(* The handles are counted, and after the last one no sender comes back. *)
CountInv ==
    /\ channels = Cardinality({s \in Senders : Live(s)})
    /\ \A s \in Senders : spc[s] = "last" => channels = 0

(* Who is in the queue sleeps there, and the room in the buffer is for the  *)
(* senders that were woken.                                                 *)
QueueInv ==
    /\ \A s \in Senders : spc[s] = "queued" <=> \E i \in 1..Len(queue) : queue[i] = s
    /\ \A i, j \in 1..Len(queue) : queue[i] = queue[j] => i = j
    /\ Len(buf) <= BufCap
    /\ queue # <<>> =>
         Len(buf) + Cardinality({s \in Senders : spc[s] = "retry"}) >= BufCap

(* Whose handle blocker is, and what disconnection leaves. *)
BlockerInv ==
    /\ \A s \in Senders : spc[s] = "handoff" <=> blocker = s
    /\ canceled = IF blocker \in Senders THEN blocker ELSE "none"
    /\ blocker \in Senders => cap = 0 /\ buf = <<Msg(blocker)>>
    /\ \A s \in Senders : spc[s] = "canceled" => rpc = "gone" /\ buf = <<Msg(s)>>
    /\ blocker = "recv" <=> rpc = "blocked"
    /\ blocker = "select" => rpc \in {"selecting", "aborting"}
    /\ rpc = "selecting" => blocker = "select"
    /\ rpc = "woken" => blocker = "none"
    /\ disconnected => blocker = "none" /\ queue = <<>> /\ (rpc = "gone" \/ channels = 0)
    /\ rpc = "gone" => disconnected

(* A receiver is woken for something, and sleeps beside nothing. *)
ReceiverInv ==
    /\ rpc = "woken" => HasData
    /\ rpc = "aborting" /\ blocker # "select" => HasData
    /\ ready /\ rpc = "idle" => HasData
    /\ ~asleep /\ rpc \in {"blocked", "selecting"} => buf = <<>>
    /\ ~selects => rpc \notin {"selecting", "aborting"}

(* Each message that was sent is in one place and no other message is in    *)
(* any.                                                                     *)
OnePlace(m) ==
    /\ InBuf(m) \/ Got(m) \/ InHand(m) \/ m \in back \/ m \in destroyed
    /\ InBuf(m) => ~Got(m) /\ ~InHand(m) /\ m \notin back /\ m \notin destroyed
    /\ Got(m) => ~InHand(m) /\ m \notin back /\ m \notin destroyed
    /\ InHand(m) => m \notin back /\ m \notin destroyed
    /\ m \in back => m \notin destroyed

PlaceInv ==
    /\ \A m \in Messages :
         /\ m \in Sent => OnePlace(m)
         /\ m \notin Sent => ~(InBuf(m) \/ Got(m) \/ InHand(m) \/ m \in back \/ m \in destroyed)
    /\ \A i, j \in 1..Len(buf) : buf[i] = buf[j] => i = j
    /\ \A i, j \in 1..Len(received) : received[i] = received[j] => i = j
    /\ \A s \in Senders : spc[s] \in {"queued", "retry"} => nsent[s] > 0

(* With no buffer a send succeeds when its message was received. *)
AcceptInv ==
    /\ \A s \in Senders : spc[s] = "acked" => Got(Msg(s))
    /\ cap = 0 /\ ~selects => \A m \in accepted :
         Got(m) \/ (buf = <<m>> /\ rpc = "woken")

SyncInv ==
    /\ TypeOK /\ CountInv /\ QueueInv /\ BlockerInv /\ ReceiverInv /\ PlaceInv
    /\ AcceptInv /\ fails = {}
=============================================================================
