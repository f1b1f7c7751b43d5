-------------------------------- MODULE Mpmc --------------------------------
(***************************************************************************)
(* The bounded multi-producer multi-consumer queue of the sleeper list,    *)
(* libstd/sync/mpmc_bounded_queue.rs: a ring of slots, each with a         *)
(* sequence number that says whose turn it is.  One action per atomic      *)
(* instruction or access to a value.  The positions count up from 0; their *)
(* wrap-around after 2^w operations is not reached.                        *)
(***************************************************************************)
EXTENDS Integers, Sequences

CONSTANTS Ends,        \* the tasks that push and pop
          Asked,       \* the capacities that are asked for
          MpmcPushes,  \* bound: values pushed
          MpmcPops     \* bound: calls of pop

VARIABLES
    buffer,       \* the slots: [sequence, value]
    enqueue_pos, dequeue_pos,
    ends,         \* ends[e]: [pc, pos, value] of e's call
    ret,          \* ret[e]: what e's last call returned
    npushes, npops

mpmcvars == <<buffer, enqueue_pos, dequeue_pos, ends, ret, npushes, npops>>

(* with_capacity: at least two, and a power of two. *)
PowerOfTwo(n) == \E k \in 0..n : 2 ^ k = n
WithCapacity(n) ==
    IF n < 2 THEN 2
    ELSE CHOOSE c \in n..(2 * n) : PowerOfTwo(c) /\ \A d \in n..(c - 1) : ~PowerOfTwo(d)

Free == 0
Resting == [pc |-> "idle", pos |-> 0, value |-> Free]

MpmcInit ==
    /\ \E n \in Asked : buffer = [i \in 0..(WithCapacity(n) - 1) |-> [sequence |-> i, value |-> Free]]
    /\ enqueue_pos = 0 /\ dequeue_pos = 0 /\ npushes = 0 /\ npops = 0
    /\ ends = [e \in Ends |-> Resting] /\ ret = [e \in Ends |-> <<"done">>]

Cap == CHOOSE n \in 2..(2 * MpmcPushes + 2) : DOMAIN buffer = 0..(n - 1)
SlotOf(e) == ends[e].pos % Cap

At(e, from, to) == ends[e].pc = from /\ ends' = [ends EXCEPT ![e].pc = to]
EndsWith(e, r) ==
    /\ ends' = [ends EXCEPT ![e] = Resting]
    /\ ret' = [ret EXCEPT ![e] = r]
-----------------------------------------------------------------------------
PushLoad(e) ==
    /\ ends[e].pc = "idle" /\ npushes < MpmcPushes /\ npushes' = npushes + 1
    /\ ends' = [ends EXCEPT ![e] = [pc |-> "push_seq", pos |-> enqueue_pos, value |-> npushes + 1]]
    /\ ret' = [ret EXCEPT ![e] = <<"pending">>]
    /\ UNCHANGED <<buffer, enqueue_pos, dequeue_pos, npops>>

(* push: whose turn is it on the slot?  A slot that is behind is full. *)
PushSeq(e) ==
    LET diff == buffer[SlotOf(e)].sequence - ends[e].pos
    IN  /\ ends[e].pc = "push_seq"
        /\ IF diff < 0 THEN EndsWith(e, <<"refused">>)
           ELSE /\ ends' = [ends EXCEPT ![e].pc = IF diff = 0 THEN "push_cas" ELSE "push_reload"]
                /\ UNCHANGED ret
        /\ UNCHANGED <<buffer, enqueue_pos, dequeue_pos, npushes, npops>>

PushReload(e) ==
    /\ ends[e].pc = "push_reload"
    /\ ends' = [ends EXCEPT ![e].pc = "push_seq", ![e].pos = enqueue_pos]
    /\ UNCHANGED <<buffer, enqueue_pos, dequeue_pos, ret, npushes, npops>>

PushCas(e) ==
    /\ ends[e].pc = "push_cas"
    /\ IF enqueue_pos = ends[e].pos
         THEN /\ enqueue_pos' = enqueue_pos + 1
              /\ ends' = [ends EXCEPT ![e].pc = "push_write"]
         ELSE /\ ends' = [ends EXCEPT ![e].pc = "push_seq", ![e].pos = enqueue_pos]
              /\ UNCHANGED enqueue_pos
    /\ UNCHANGED <<buffer, dequeue_pos, ret, npushes, npops>>

PushWrite(e) ==
    /\ At(e, "push_write", "push_store")
    /\ buffer' = [buffer EXCEPT ![SlotOf(e)].value = ends[e].value]
    /\ ret' = IF buffer[SlotOf(e)].value = Free THEN ret
              ELSE [ret EXCEPT ![e] = <<"overwrites a value">>]
    /\ UNCHANGED <<enqueue_pos, dequeue_pos, npushes, npops>>

PushStore(e) ==
    /\ ends[e].pc = "push_store" /\ EndsWith(e, <<"done">>)
    /\ buffer' = [buffer EXCEPT ![SlotOf(e)].sequence = ends[e].pos + 1]
    /\ UNCHANGED <<enqueue_pos, dequeue_pos, npushes, npops>>
-----------------------------------------------------------------------------
PopLoad(e) ==
    /\ ends[e].pc = "idle" /\ npops < MpmcPops /\ npops' = npops + 1
    /\ ends' = [ends EXCEPT ![e] = [pc |-> "pop_seq", pos |-> dequeue_pos, value |-> Free]]
    /\ ret' = [ret EXCEPT ![e] = <<"pending">>]
    /\ UNCHANGED <<buffer, enqueue_pos, dequeue_pos, npushes>>

(* pop: a slot that is behind is not filled. *)
PopSeq(e) ==
    LET diff == buffer[SlotOf(e)].sequence - (ends[e].pos + 1)
    IN  /\ ends[e].pc = "pop_seq"
        /\ IF diff < 0 THEN EndsWith(e, <<"nothing">>)
           ELSE /\ ends' = [ends EXCEPT ![e].pc = IF diff = 0 THEN "pop_cas" ELSE "pop_reload"]
                /\ UNCHANGED ret
        /\ UNCHANGED <<buffer, enqueue_pos, dequeue_pos, npushes, npops>>

PopReload(e) ==
    /\ ends[e].pc = "pop_reload"
    /\ ends' = [ends EXCEPT ![e].pc = "pop_seq", ![e].pos = dequeue_pos]
    /\ UNCHANGED <<buffer, enqueue_pos, dequeue_pos, ret, npushes, npops>>

PopCas(e) ==
    /\ ends[e].pc = "pop_cas"
    /\ IF dequeue_pos = ends[e].pos
         THEN /\ dequeue_pos' = dequeue_pos + 1
              /\ ends' = [ends EXCEPT ![e].pc = "pop_take"]
         ELSE /\ ends' = [ends EXCEPT ![e].pc = "pop_seq", ![e].pos = dequeue_pos]
              /\ UNCHANGED dequeue_pos
    /\ UNCHANGED <<buffer, enqueue_pos, ret, npushes, npops>>

PopTake(e) ==
    /\ ends[e].pc = "pop_take"
    /\ ends' = [ends EXCEPT ![e].pc = "pop_store", ![e].value = buffer[SlotOf(e)].value]
    /\ buffer' = [buffer EXCEPT ![SlotOf(e)].value = Free]
    /\ UNCHANGED <<enqueue_pos, dequeue_pos, ret, npushes, npops>>

(* Mutation: the slot is given to the wrong lap. *)
PopStore_Lap(e) ==
    /\ ends[e].pc = "pop_store" /\ EndsWith(e, <<"some", ends[e].value>>)
    /\ buffer' = [buffer EXCEPT ![SlotOf(e)].sequence = ends[e].pos + Cap - 1]
    /\ UNCHANGED <<enqueue_pos, dequeue_pos, npushes, npops>>

(* pos + mask + 1: the slot is a lap further. *)
PopStore(e) ==
    /\ ends[e].pc = "pop_store" /\ EndsWith(e, <<"some", ends[e].value>>)
    /\ buffer' = [buffer EXCEPT ![SlotOf(e)].sequence = ends[e].pos + Cap]
    /\ UNCHANGED <<enqueue_pos, dequeue_pos, npushes, npops>>

MpmcNext ==
    \/ \E e \in Ends :
         \/ PushLoad(e) \/ PushSeq(e) \/ PushReload(e) \/ PushCas(e) \/ PushWrite(e) \/ PushStore(e)
         \/ PopLoad(e) \/ PopSeq(e) \/ PopReload(e) \/ PopCas(e) \/ PopTake(e) \/ PopStore(e)
    \/ /\ npushes = MpmcPushes /\ npops = MpmcPops /\ \A e \in Ends : ends[e] = Resting
       /\ UNCHANGED mpmcvars

MpmcSpec == MpmcInit /\ [][MpmcNext]_mpmcvars
-----------------------------------------------------------------------------
(* The item at a position: still with its pusher, or in its slot. *)
ItemAt(pos) ==
    LET late == {e \in Ends : ends[e].pos = pos /\ ends[e].pc \in {"push_write", "push_store"}}
    IN  IF late = {} THEN [item |-> buffer[pos % Cap].value, available |-> TRUE]
        ELSE [item |-> ends[CHOOSE e \in late : TRUE].value, available |-> FALSE]

BContents == [i \in 1..(enqueue_pos - dequeue_pos) |-> ItemAt(dequeue_pos + i - 1)]

(* A pop has its answer from its exchange on: the value in its slot, which  *)
(* nobody else may touch.                                                   *)
Answers ==
    [e \in Ends |-> CASE ends[e].pc = "pop_take" -> <<"some", buffer[SlotOf(e)].value>>
                      [] ends[e].pc = "pop_store" -> <<"some", ends[e].value>>
                      [] OTHER -> ret[e]]

BAbstract == INSTANCE Fifo WITH
    Items <- 1..MpmcPushes, Clients <- Ends, capacity <- Cap, fifo <- BContents,
    answer <- Answers, exists <- TRUE,
    emptying <- {e \in Ends : ends[e].pc \in {"pop_take", "pop_store"}}

(* The ring is a bounded FIFO queue: each value comes out once, in the      *)
(* order of the exchanges on enqueue_pos; a push is refused only when all   *)
(* slots are taken or one is being emptied, a pop only when the first value *)
(* is not written yet; no slot is used by two at once.                      *)
MpmcRefines == BAbstract!FifoSpec
=============================================================================
