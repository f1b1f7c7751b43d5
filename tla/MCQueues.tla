------------------------------ MODULE MCQueues ------------------------------
(***************************************************************************)
(* The queues of libstd/sync for TLC: the work-stealing deque, or one of   *)
(* the queues that are shown to implement Fifo.  They share no state; a    *)
(* behaviour is one of one of them, and the others rest in a fixed state.  *)
(***************************************************************************)
EXTENDS Deque, TLC

CONSTANTS CacheBounds, WORD, SpscPushes, Pushers, MpscPushes, Ends, Asked, MpmcPushes, MpmcPops

VARIABLES sheap, freed, squeue, producer, consumer, sret, spushed,
          mheap, mhead, mtail, pushers, mret, popper, mpushed,
          buffer, enqueue_pos, dequeue_pos, ends, ret, npushes, npops,
          queue  \* the queue that this behaviour is about

spsc == <<sheap, freed, squeue, producer, consumer, sret, spushed>>
mpsc == <<mheap, mhead, mtail, pushers, mret, popper, mpushed>>
mpmc == <<buffer, enqueue_pos, dequeue_pos, ends, ret, npushes, npops>>

Sp == INSTANCE Spsc
Ms == INSTANCE Mpsc
Mm == INSTANCE Mpmc

QueuesInit ==
    /\ queue \in {"deque", "spsc", "mpsc", "mpmc"}
    /\ Init /\ Sp!SpscInit /\ Ms!MpscInit /\ Mm!MpmcInit
    /\ queue # "spsc" => \A b \in CacheBounds : squeue.cache_bound <= b
    /\ queue # "mpmc" => \A n \in Asked : Mm!Cap <= Mm!WithCapacity(n)

QueuesNext ==
    \/ /\ queue = "deque" /\ Next
       /\ UNCHANGED <<queue, spsc, mpsc, mpmc>>
    \/ /\ queue = "spsc" /\ Sp!SpscNext
       /\ UNCHANGED <<queue, vars, mpsc, mpmc>>
    \/ /\ queue = "mpsc" /\ Ms!MpscNext
       /\ UNCHANGED <<queue, vars, spsc, mpmc>>
    \/ /\ queue = "mpmc" /\ Mm!MpmcNext
       /\ UNCHANGED <<queue, vars, spsc, mpsc>>

QueuesSpec ==
    QueuesInit /\ [][QueuesNext]_<<queue, vars, spsc, mpsc, mpmc>>

(* spsc_queue.rs implements Fifo: see SpscRefines in Spsc. *)
SpscRefines == Sp!SpscRefines
(* mpsc_queue.rs implements Fifo: see MpscRefines in Mpsc. *)
MpscRefines == Ms!MpscRefines
(* mpmc_bounded_queue.rs implements Fifo: see MpmcRefines in Mpmc. *)
MpmcRefines == Mm!MpmcRefines

QueueSymmetry == Permutations(Stealers) \cup Permutations(Ends)
=============================================================================
