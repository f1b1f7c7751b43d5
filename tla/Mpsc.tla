-------------------------------- MODULE Mpsc --------------------------------
(***************************************************************************)
(* The multi-producer single-consumer queue, libstd/sync/mpsc_queue.rs: a  *)
(* push swaps the head and then links its node behind the old one.  The    *)
(* node of a value is named by the value; the first one is the stub.       *)
(***************************************************************************)
EXTENDS Integers, Sequences, FiniteSets

CONSTANTS Pushers,
          MpscPushes  \* bound: values pushed

VARIABLES
    mheap,    \* the nodes: [next, value], or Gone when freed
    mhead, mtail,
    pushers,  \* pushers[p]: the node that p has swapped in and the old head
    mret,     \* what the popper's last operation returned
    popper,   \* where the popper is
    mpushed   \* values pushed

mpscvars == <<mheap, mhead, mtail, pushers, mret, popper, mpushed>>

MNull == -1
MStub == 0
Gone == [next |-> MNull, value |-> -1]
NoPush == [node |-> MNull, prev |-> MNull]

MpscInit ==
    /\ mheap = [n \in {MStub} |-> [next |-> MNull, value |-> 0]]
    /\ mhead = MStub /\ mtail = MStub
    /\ pushers = [p \in Pushers |-> NoPush]
    /\ mret = <<"done">> /\ popper = "idle" /\ mpushed = 0

(* push: the node is new, and the swap of the head reserves its place. *)
Swap(p) ==
    LET n == mpushed + 1
    IN  /\ pushers[p] = NoPush /\ mpushed < MpscPushes /\ popper # "gone"
        /\ mpushed' = n
        /\ mheap' = [m \in DOMAIN mheap \cup {n} |->
                       IF m = n THEN [next |-> MNull, value |-> n] ELSE mheap[m]]
        /\ mhead' = n
        /\ pushers' = [pushers EXCEPT ![p] = [node |-> n, prev |-> mhead]]
        /\ UNCHANGED <<mtail, mret, popper>>

(* push: the release store that makes it reachable. *)
LinkNode(p) ==
    /\ pushers[p] # NoPush
    /\ mheap' = [mheap EXCEPT ![pushers[p].prev].next = pushers[p].node]
    /\ pushers' = [pushers EXCEPT ![p] = NoPush]
    /\ mret' = IF mheap[pushers[p].prev] = Gone THEN <<"push writes to a freed node">> ELSE mret
    /\ UNCHANGED <<mhead, mtail, popper, mpushed>>

MpscCall ==
    /\ popper = "idle" /\ mret # <<"pending">> /\ mret' = <<"pending">>
    /\ UNCHANGED <<mheap, mhead, mtail, pushers, popper, mpushed>>

(* Mutation: the node is freed that holds the next value. *)
MpscPop_FreeNext ==
    LET next == mheap[mtail].next
    IN  /\ popper = "idle" /\ mret = <<"pending">> /\ next # MNull
        /\ mret' = <<"some", mheap[next].value>>
        /\ mtail' = next
        /\ mheap' = [mheap EXCEPT ![next] = Gone]
        /\ UNCHANGED <<mhead, pushers, popper, mpushed>>

(* pop: a linked node gives up its value and becomes the stub; the old stub *)
(* is freed.  The value is the popper's once the link is seen.              *)
MpscPop ==
    LET next == mheap[mtail].next
    IN  /\ popper = "idle" /\ mret = <<"pending">> /\ next # MNull
        /\ mret' = IF mheap[mtail].value = 0 /\ mheap[next].value # 0
                     THEN <<"some", mheap[next].value>> ELSE <<"pop asserts">>
        /\ mtail' = next
        /\ mheap' = [mheap EXCEPT ![next].value = 0, ![mtail] = Gone]
        /\ UNCHANGED <<mhead, pushers, popper, mpushed>>

(* pop: nothing is linked, and a second load tells Empty from Inconsistent. *)
PopUnlinked ==
    /\ popper = "idle" /\ mret = <<"pending">> /\ mheap[mtail].next = MNull
    /\ popper' = "head" /\ mret' = <<"nothing">>
    /\ UNCHANGED <<mheap, mhead, mtail, pushers, mpushed>>
-----------------------------------------------------------------------------
RECURSIVE Line(_)
(* What stands in the queue behind node n: by the links, and where one is   *)
(* missing by the push that is about to set it.                             *)
Line(n) ==
    LET linked == mheap[n].next # MNull
        late == {p \in Pushers : pushers[p] # NoPush /\ pushers[p].prev = n}
        m == IF linked THEN mheap[n].next ELSE pushers[CHOOSE p \in late : TRUE].node
    IN  IF ~linked /\ late = {} THEN <<>>
        ELSE <<[item |-> mheap[m].value, available |-> linked]>> \o Line(m)

MContents == IF popper = "gone" THEN <<>> ELSE Line(mtail)

(* Empty is only answered when nothing was pushed, Inconsistent only when   *)
(* a push is under way: casual_pop makes the same of both.                  *)
PopHeadLoad ==
    /\ popper = "head" /\ popper' = "idle"
    /\ mret' = IF (mhead = mtail) = (MContents = <<>>) THEN mret ELSE <<"wrong kind of nothing">>
    /\ UNCHANGED <<mheap, mhead, mtail, pushers, mpushed>>

(* drop: nobody pushes any more, and the nodes from the tail on are all. *)
MpscDrop ==
    /\ popper = "idle" /\ mret # <<"pending">> /\ \A p \in Pushers : pushers[p] = NoPush
    /\ popper' = "gone"
    /\ mret' = IF Cardinality({n \in DOMAIN mheap : mheap[n] # Gone}) = Len(MContents) + 1
                 THEN mret ELSE <<"drop frees wrongly">>
    /\ mheap' = [n \in DOMAIN mheap |-> Gone]
    /\ UNCHANGED <<mhead, mtail, pushers, mpushed>>

MpscNext ==
    \/ \E p \in Pushers : Swap(p) \/ LinkNode(p)
    \/ MpscCall \/ MpscPop \/ PopUnlinked \/ PopHeadLoad \/ MpscDrop
    \/ popper = "gone" /\ UNCHANGED mpscvars

MpscSpec == MpscInit /\ [][MpscNext]_mpscvars
-----------------------------------------------------------------------------
MAbstract == INSTANCE Fifo WITH
    Items <- 1..MpscPushes, Clients <- {"popper"}, capacity <- MpscPushes,
    fifo <- MContents, answer <- [c \in {"popper"} |-> mret],
    emptying <- {}, exists <- popper # "gone"

(* The list is a FIFO queue in which a push reserves its place with the     *)
(* swap and makes its value available with the link, as Shared and Sched    *)
(* have it: values come out once, in the order of the swaps; nothing is     *)
(* answered only when the first push is not linked; nobody touches a freed  *)
(* node.                                                                    *)
MpscRefines == MAbstract!FifoSpec
=============================================================================
