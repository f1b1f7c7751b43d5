---------------------------- MODULE MpscIntrusive ----------------------------
(***************************************************************************)
(* The intrusive queue of src/src/libsync/mpsc_intrusive.rs: many pushers, *)
(* one popper, nodes that live on the stacks of the blocked tasks.  The    *)
(* operators below are the atomic steps of push and pop; the control that  *)
(* strings them together belongs to the caller (Mutex).  The node of a     *)
(* task is named by the task.                                              *)
(***************************************************************************)
EXTENDS Integers

CONSTANT Nodes

VARIABLES head,  \* the node pushed last, Null at first
          tail,  \* the node popped next, Null at first; the popper's own
          next   \* next[n]: the link of node n

queue == <<head, tail, next>>

Null == "null"
Stub == "stub"
AllNodes == Nodes \cup {Stub}

QTypeOK ==
    /\ head \in AllNodes \cup {Null}
    /\ tail \in AllNodes \cup {Null}
    /\ next \in [AllNodes -> AllNodes \cup {Null}]

QInit == head = Null /\ tail = Null /\ next = [n \in AllNodes |-> Null]

(* push: clear the link and swap head; the caller keeps the old head.  No   *)
(* one else reaches the node before the swap, so the two steps are one.     *)
PushSwap(n) ==
    /\ next' = [next EXCEPT ![n] = Null]
    /\ head' = n
    /\ UNCHANGED tail

(* Mutation: the first node of a static queue is not linked to the stub. *)
PushLink_NoStub(prev, n) ==
    /\ next' = IF prev = Null THEN next ELSE [next EXCEPT ![prev] = n]
    /\ UNCHANGED <<head, tail>>

(* push: link the node behind the old head.  A statically initialised queue *)
(* has the null head stand for the stub.                                    *)
PushLink(prev, n) ==
    /\ next' = [next EXCEPT ![IF prev = Null THEN Stub ELSE prev] = n]
    /\ UNCHANGED <<head, tail>>

(* pop: the tail, null standing for the stub. *)
AtStub == tail \in {Null, Stub}

(* pop: step over the stub; nothing is linked behind it when SkipEmpty. *)
SkipEmpty == AtStub /\ next[Stub] = Null
SkipStub ==
    /\ AtStub /\ next[Stub] # Null
    /\ tail' = next[Stub]
    /\ UNCHANGED <<head, next>>

(* pop: a node with a successor can be returned, and tail moves on. *)
Linked == ~AtStub /\ next[tail] # Null
Advance == tail' = next[tail] /\ UNCHANGED <<head, next>>
=============================================================================
