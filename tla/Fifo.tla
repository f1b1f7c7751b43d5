-------------------------------- MODULE Fifo --------------------------------
(***************************************************************************)
(* What the queues of src/src/libstd/sync promise, and what the channels   *)
(* and the scheduler rely on: items come out in the order in which pushes  *)
(* took effect, each once.  A push of several producers takes effect in    *)
(* two steps, reserving a place and making the item available; an item     *)
(* that is not available yet hides those behind it.  The queues that       *)
(* implement this are Spsc, Mpsc and Mpmc.                                 *)
(***************************************************************************)
EXTENDS Integers, Sequences

CONSTANTS Items, Clients

VARIABLES capacity,  \* of a bounded queue, or as much as is ever pushed
          fifo,      \* the queue: records of an item and whether it is available
          answer,    \* answer[c]: what the last operation of client c returned
          emptying,  \* clients that have an item but still occupy its place
          exists     \* the queue was not destroyed

Nothing == <<"nothing">>
Refused == <<"refused">>
Pending == <<"pending">>
Done == <<"done">>
Some(x) == <<"some", x>>

FifoInit ==
    /\ fifo = <<>> /\ answer = [c \in Clients |-> Done]
    /\ emptying = {} /\ exists = TRUE /\ capacity \in Nat

(* The call of an operation that has an answer, and the answer. *)
Call(c) ==
    /\ answer[c] # Pending /\ answer' = [answer EXCEPT ![c] = Pending]
    /\ UNCHANGED <<fifo, emptying>>

Answer(c, a) == answer[c] = Pending /\ answer' = [answer EXCEPT ![c] = a]

(* push reserves the next place, makes its item available, and returns. *)
Reserve(x) ==
    /\ Len(fifo) < capacity
    /\ fifo' = Append(fifo, [item |-> x, available |-> FALSE])
    /\ UNCHANGED <<answer, emptying>>

Avail(i) ==
    /\ ~fifo[i].available /\ fifo' = [fifo EXCEPT ![i].available = TRUE]
    /\ UNCHANGED answer \/ \E c \in Clients : Answer(c, Done)
    /\ UNCHANGED emptying

(* Both at once, when there is a single producer. *)
Put(x) ==
    /\ Len(fifo) < capacity
    /\ fifo' = Append(fifo, [item |-> x, available |-> TRUE])
    /\ UNCHANGED <<answer, emptying>>

Hidden == fifo = <<>> \/ ~Head(fifo).available

(* pop takes the first item, and the place is free then or later; it has no *)
(* item only when there is none, or the first one is not available.         *)
Take(c) ==
    /\ ~Hidden
    /\ fifo' = Tail(fifo) /\ Answer(c, Some(Head(fifo).item))
    /\ emptying' \in {emptying, emptying \cup {c}}

Free(c) == emptying' = emptying \ {c} /\ UNCHANGED <<fifo, answer>>

Empty(c) == Hidden /\ Answer(c, Nothing) /\ UNCHANGED <<fifo, emptying>>

Peek(c) == ~Hidden /\ Answer(c, Some(Head(fifo).item)) /\ UNCHANGED <<fifo, emptying>>

(* A push into a bounded queue is refused only when all places are taken,   *)
(* or when some are not freed yet.                                          *)
Refuse(c) ==
    /\ Len(fifo) = capacity \/ emptying # {}
    /\ Answer(c, Refused) /\ UNCHANGED <<fifo, emptying>>

(* The destruction of the queue, with what is left in it. *)
Destroy == fifo' = <<>> /\ exists' = FALSE /\ UNCHANGED <<answer, emptying>>

Operation ==
    \/ \E c \in Clients :
         Call(c) \/ Take(c) \/ Free(c) \/ Empty(c) \/ Peek(c) \/ Refuse(c)
    \/ \E x \in Items : Reserve(x) \/ Put(x)
    \/ \E i \in DOMAIN fifo : Avail(i)

FifoNext ==
    /\ exists /\ UNCHANGED capacity
    /\ (Operation /\ UNCHANGED exists) \/ Destroy

FifoSpec == FifoInit /\ [][FifoNext]_<<capacity, fifo, answer, emptying, exists>>
=============================================================================
