------------------------------- MODULE MCComm -------------------------------
(***************************************************************************)
(* The channels of libstd/comm for TLC: a packet of any flavour but shared *)
(* (for that see MCShared), or a select.  They share no state; a behaviour *)
(* is one of one of them.  The oneshot has variables of its own; the       *)
(* others use the variables below in turn, and those a part does not use   *)
(* are 0.                                                                  *)
(***************************************************************************)
EXTENDS Oneshot

CONSTANTS StreamSends, StreamSteals, Selects, DISCONNECTED, Senders,
          TrySenders, Caps, SyncSends, N, SelectSends, Native

VARIABLES
    part,  \* what this behaviour is about
    queue, cnt, steals, toWake, portDropped, tx, nsent, smsg, handle, rx, rmode, item, amt,
    dsteals, isready, received, hungup, refused, failed,
    channels, cap, disconnected, blocker, buf, canceled, selects, accepted, back, destroyed, asleep,
    msgs, closed, slot, flag, awoken, tpc, call, cur, upto

Minimum == -1000

(* A module with proofs adds only lemmas to the component it extends. *)
St == INSTANCE StreamProofs WITH MaxSends <- StreamSends, MAX_STEALS <- StreamSteals,
        spc <- tx, rpc <- rx, got <- item, ready <- isready, fails <- failed
Sy == INSTANCE SyncProofs WITH MaxSends <- SyncSends,
        spc <- tx, rpc <- rx, ready <- isready, fails <- failed
Se == INSTANCE SelectProofs WITH MaxSends <- SelectSends,
        data <- msgs, spc <- tx, ready <- isready, fails <- failed

ASSUME CommAssumption ==
    St!StreamAssumption /\ Sy!SyncAssumption /\ Se!SelectAssumption

(* What the parts use of the variables, and what is not theirs. *)
all == <<isready, failed, tx, nsent>>
queued == <<queue, rx, received>>
counted == <<cnt, steals, toWake, portDropped, handle, rmode, item, amt, dsteals, refused>>
streams == <<smsg, hungup>>
syncs == <<cap, disconnected, blocker, buf, canceled, selects, accepted, back, destroyed, asleep>>
selecting == <<msgs, closed, slot, flag, awoken, tpc, call, cur, upto>>
chanvars == <<all, queued, counted, streams, channels, syncs, selecting>>

NoAll == isready = 0 /\ failed = 0 /\ tx = 0 /\ nsent = 0
NoQueue == queue = 0 /\ rx = 0 /\ received = 0
NoCounts ==
    /\ cnt = 0 /\ steals = 0 /\ toWake = 0 /\ portDropped = 0 /\ handle = 0 /\ rmode = 0
    /\ item = 0 /\ amt = 0 /\ dsteals = 0 /\ refused = 0
NoStream == smsg = 0 /\ hungup = 0
NoSync ==
    /\ cap = 0 /\ disconnected = 0 /\ blocker = 0 /\ buf = 0 /\ canceled = 0 /\ selects = 0
    /\ accepted = 0 /\ back = 0 /\ destroyed = 0 /\ asleep = 0
NoSelect ==
    /\ msgs = 0 /\ closed = 0 /\ slot = 0 /\ flag = 0 /\ awoken = 0 /\ tpc = 0 /\ call = 0
    /\ cur = 0 /\ upto = 0

CommInit ==
    /\ Init
    /\ \/ /\ part = "oneshot"
          /\ NoAll /\ NoQueue /\ NoCounts /\ NoStream
          /\ channels = 0 /\ NoSync /\ NoSelect
       \/ /\ part = "stream" /\ St!Init
          /\ channels = 0 /\ NoSync /\ NoSelect
       \/ /\ part = "sync" /\ Sy!Init
          /\ NoCounts /\ NoStream /\ NoSelect
       \/ /\ part = "select" /\ Se!Init
          /\ NoQueue /\ NoCounts /\ NoStream
          /\ channels = 0 /\ NoSync

InOneshot(A) == part = "oneshot" /\ A /\ UNCHANGED <<part, chanvars>>
InStream(A) ==
    part = "stream" /\ A /\ UNCHANGED <<part, vars, channels, syncs, selecting>>
InSync(A) ==
    part = "sync" /\ A /\ UNCHANGED <<part, vars, counted, streams, selecting>>
InSelect(A) ==
    /\ part = "select" /\ A
    /\ UNCHANGED <<part, vars, queued, counted, streams, channels, syncs>>

CommNext ==
    \/ InOneshot(Next) \/ InStream(St!Next) \/ InSync(Sy!Next)
    \/ InSelect(Se!Next)

(* The fairness of the parts, one actor at a time.  No two of the steps of  *)
(* an actor are enabled together but for those that happen a bounded number *)
(* of times, so that this asks no more than the modules do.                 *)
ReceiverMust ==
    \/ InOneshot(rpc # "idle" /\ ReceiverNext) \/ InStream(St!ReceiverStep)
    \/ InSelect(Se!TaskStep)
    \/ InSync(Sy!RecvTakes \/ Sy!RecvBlocks \/ Sy!AbortSelection)
OnlySenderMust ==
    \/ InOneshot(SendSwap \/ UpgradeSwap \/ Wake \/ InheritorWakes \/ DropChan)
    \/ InStream(St!SenderStep \/ St!DropChan)
SenderMust(s) ==
    InSync(\/ tx[s] = "retry" /\ Sy!SenderNext(s)
           \/ Sy!SendAcked(s) \/ Sy!DropChanLast(s) \/ Sy!DropChan(s))
PortMust(p) == InSelect(Se!SenderStep(p) \/ Se!Event(p))

commvars == <<part, vars, chanvars>>
CommSpec ==
    /\ CommInit /\ [][CommNext]_commvars
    /\ WF_commvars(ReceiverMust) /\ WF_commvars(OnlySenderMust)
    /\ \A s \in Senders : WF_commvars(SenderMust(s))
    /\ \A p \in 1..N : WF_commvars(PortMust(p))
-----------------------------------------------------------------------------
(* With the types, no assertion, fail!() or unreachable!() of stream.rs,    *)
(* sync.rs or select.rs is reached: see NoAssertionFails there.             *)
ChannelAssertions ==
    /\ part = "stream" => St!TypeOK /\ St!NoAssertionFails
    /\ part = "sync" => Sy!TypeOK /\ Sy!NoAssertionFails
    /\ part = "select" => Se!NoAssertionFails

(* stream.rs: the count is exact, and a receiver that sleeps is covered:    *)
(* see CounterExact and SleeperCovered in Stream.                           *)
StreamCovered == part = "stream" => St!CounterExact /\ St!SleeperCovered
(* stream.rs: messages arrive once and in order: see Delivered in Stream.   *)
StreamDelivered == part = "stream" => St!Delivered
(* sync.rs: no message is lost or duplicated: see Conserved in Sync.        *)
SyncConserved == part = "sync" => Sy!Conserved
(* sync.rs: nobody sleeps beside what they wait for: see SleepersCovered in *)
(* Sync.                                                                    *)
SyncCovered == part = "sync" => Sy!SleepersCovered
(* select.rs: the task is held exactly once, and the port that select names *)
(* has an event: see HeldOnce and ReadyHasEvent in Select.                  *)
SelectHeld == part = "select" => Se!HeldOnce /\ Se!ReadyHasEvent
(* Every call returns: a receive, a select or a drop that waits is woken,   *)
(* its spins and drains end, a send that waits for room gets it, and a port *)
(* that select reported ahead of its message gets it (Settled in Stream).   *)
(* Calls are bounded in number, so that all are out of them together, again *)
(* and again, just when each returns.  (In sync.rs a receiver may be left   *)
(* asleep, see ReceiverWoken in Sync.)                                      *)
AllReturned ==
    /\ rpc \in {"idle", "gone"}
    /\ part = "stream" => St!Settled
    /\ part = "sync" => \/ asleep
                        \/ /\ rx \in {"idle", "gone"}
                           /\ \A s \in Senders : tx[s] \in {"idle", "unborn", "gone"}
    /\ part = "select" => tpc = "run"
ChannelCallsReturn == []<>AllReturned
=============================================================================
