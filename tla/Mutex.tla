-------------------------------- MODULE Mutex --------------------------------
(***************************************************************************)
(* StaticMutex of src/src/libsync/mutex.rs, the mutex that green and       *)
(* native tasks share: one atomic word, a native mutex that arbitrates     *)
(* among native tasks, a counter and an intrusive queue that arbitrate     *)
(* among green ones, and one blocked task of each kind.  Every atomic      *)
(* instruction is an action; so is every group of accesses to the plain    *)
(* fields between two of them.                                             *)
(***************************************************************************)
EXTENDS MpscIntrusive, FiniteSets

CONSTANTS Native, Green, None

(* A green task waits with a queue node on its own stack. *)
ASSUME TaskAssumption ==
    Native \cap Green = {} /\ None \notin Native \cup Green /\ Nodes = Green

Tasks == Native \cup Green

VARIABLES
    state,      \* the atomic word, as the set of its bits
    lock,       \* the native mutex: the task that holds it
    flavor,     \* how the mutex was acquired
    blocker,    \* green_blocker and native_blocker, by their bit
    green_cnt,  \* green tasks between green_lock and green_unlock
    pc,         \* where each task is
    loc,        \* the local variables of lock and unlock
    awoken,     \* the task was woken from its deschedule
    fails       \* the assertions and unreachable!()s that were reached

word == <<state, fails>>
fields == <<flavor, blocker>>
halves == <<lock, green_cnt>>
vars == <<queue, state, lock, flavor, blocker, green_cnt, pc, loc, awoken, fails>>

Bits == {"GREEN_BLOCKED", "NATIVE_BLOCKED"}
Bit(t) == IF t \in Native THEN "NATIVE_BLOCKED" ELSE "GREEN_BLOCKED"
Acquisition(bit) ==
    IF bit = "NATIVE_BLOCKED" THEN "NativeAcquisition" ELSE "GreenAcquisition"
Flavors == {"Unlocked", "TryLockAcquisition", "GreenAcquisition", "NativeAcquisition"}

(* The locals: old, the last value seen of state; node, the old head of a   *)
(* push or the node popped; flavor, bit, unlocked and task as in unlock.    *)
NoLocals == [old |-> {}, node |-> Null, flavor |-> "Unlocked", bit |-> "none",
             unlocked |-> FALSE, task |-> None]

Check(cond, site) == fails' = IF cond THEN fails ELSE fails \cup {site}

Init ==
    /\ QInit
    /\ state = {} /\ lock = None /\ flavor = "Unlocked" /\ green_cnt = 0
    /\ blocker = [b \in Bits |-> None]
    /\ pc = [t \in Tasks |-> "idle"] /\ loc = [t \in Tasks |-> NoLocals]
    /\ awoken = [t \in Tasks |-> FALSE] /\ fails = {}

Goto(t, from, to) == pc[t] = from /\ pc' = [pc EXCEPT ![t] = to]

-----------------------------------------------------------------------------
(* lock and try_lock.                                                       *)

(* try_lock, and the fast path of lock: the exchange on the word. *)
Grab(t, otherwise) ==
    /\ pc[t] = "idle"
    /\ IF state = {}
         THEN state' = {"LOCKED"} /\ pc' = [pc EXCEPT ![t] = "stolen"]
         ELSE UNCHANGED state /\ pc' = [pc EXCEPT ![t] = otherwise]
    /\ UNCHANGED <<queue, fields, halves, loc, awoken, fails>>

TryLock(t) == Grab(t, "idle")
Lock(t) == Grab(t, "half")

Stolen(t) ==
    /\ Goto(t, "stolen", "in")
    /\ flavor' = "TryLockAcquisition"
    /\ Check(flavor = "Unlocked", "try_lock")
    /\ UNCHANGED <<queue, state, halves, blocker, loc, awoken>>

NativeLock(t) ==
    /\ t \in Native
    /\ Goto(t, "half", "retry")
    /\ lock = None /\ lock' = t
    /\ UNCHANGED <<queue, word, fields, green_cnt, loc, awoken>>

GreenLock(t) ==
    /\ t \in Green
    /\ Goto(t, "half", IF green_cnt = 0 THEN "retry" ELSE "push")
    /\ green_cnt' = green_cnt + 1
    /\ UNCHANGED <<queue, word, fields, lock, loc, awoken>>

(* green_lock: deschedule(1, ...) with the closure pushing the task's node. *)
EnqueueSwap(t) ==
    /\ Goto(t, "push", "link")
    /\ PushSwap(t)
    /\ loc' = [loc EXCEPT ![t].node = head]
    /\ UNCHANGED <<word, fields, halves, awoken>>

EnqueueLink(t) ==
    /\ Goto(t, "link", "queued")
    /\ PushLink(loc[t].node, t)
    /\ loc' = [loc EXCEPT ![t] = NoLocals]
    /\ UNCHANGED <<word, fields, halves, awoken>>

(* The task was reawoken: its deschedule returns. *)
Resume(t, from, to) ==
    /\ Goto(t, from, to)
    /\ awoken[t] /\ awoken' = [awoken EXCEPT ![t] = FALSE]
    /\ UNCHANGED <<queue, word, fields, halves, loc>>

(* lock: the exchange after the arbitration. *)
Retry(t) ==
    /\ pc[t] = "retry"
    /\ IF state = {}
         THEN state' = {"LOCKED"} /\ pc' = [pc EXCEPT ![t] = "own"] /\ UNCHANGED loc
         ELSE /\ pc' = [pc EXCEPT ![t] = "block"]
              /\ loc' = [loc EXCEPT ![t].old = state]
              /\ UNCHANGED state
    /\ UNCHANGED <<queue, fields, halves, awoken, fails>>

Own(t) ==
    /\ Goto(t, "own", "in")
    /\ flavor' = Acquisition(Bit(t))
    /\ UNCHANGED <<queue, word, halves, blocker, loc, awoken>>

(* lock: the closure of the deschedule announces the task ... *)
Block(t) ==
    /\ Goto(t, "block", "flag")
    /\ blocker' = [blocker EXCEPT ![Bit(t)] = t]
    /\ Check(blocker[Bit(t)] = None, "lock_blocker")
    /\ UNCHANGED <<queue, state, halves, flavor, loc, awoken>>

(* ... and loops until it has set its bit or taken the lock. *)
Flag(t) ==
    LET old == loc[t].old
        held == "LOCKED" \in old
    IN  /\ pc[t] = "flag"
        /\ Check(Bit(t) \notin old /\ (held \/ old = {}), "lock_old")
        /\ IF state = old
             THEN /\ state' = old \cup {IF held THEN Bit(t) ELSE "LOCKED"}
                  /\ pc' = [pc EXCEPT ![t] = IF held THEN "blocked" ELSE "won"]
                  /\ loc' = [loc EXCEPT ![t] = NoLocals]
             ELSE /\ loc' = [loc EXCEPT ![t].old = state]
                  /\ UNCHANGED <<state, pc>>
        /\ UNCHANGED <<queue, fields, halves, awoken>>

Won(t) ==
    /\ Goto(t, "won", "in")
    /\ blocker' = [blocker EXCEPT ![Bit(t)] = None]
    /\ flavor' = Acquisition(Bit(t))
    /\ Check(flavor = "Unlocked", "lock_flavor")
    /\ UNCHANGED <<queue, state, halves, loc, awoken>>

-----------------------------------------------------------------------------
(* unlock: the drop of the guard.                                           *)

Unlock(t) ==
    /\ Goto(t, "in", "load")
    /\ loc' = [loc EXCEPT ![t].flavor = flavor]
    /\ flavor' = "Unlocked"
    /\ Check(flavor # "Unlocked", "unlock_unreachable")
    /\ UNCHANGED <<queue, state, halves, blocker, awoken>>

(* The body of the loop up to its next atomic step, for the value s of the  *)
(* word: hand the lock to a blocked task, green ones first, or release it.  *)
Examine(t, s) ==
    LET bit == IF "GREEN_BLOCKED" \in s THEN "GREEN_BLOCKED"
               ELSE IF "NATIVE_BLOCKED" \in s THEN "NATIVE_BLOCKED" ELSE "none"
    IN  /\ Check("LOCKED" \in s, "unlock_locked")
        /\ loc' = [loc EXCEPT ![t].old = s, ![t].bit = bit]
        /\ pc' = [pc EXCEPT ![t] = IF bit # "none" THEN "unset"
                                   ELSE IF loc[t].unlocked THEN "final" ELSE "release"]

UnlockLoad(t) ==
    /\ pc[t] = "load"
    /\ Examine(t, state)
    /\ UNCHANGED <<queue, state, fields, halves, awoken>>

UnlockFinal(t) ==
    /\ pc[t] = "final"
    /\ IF state = {"LOCKED"}
         THEN /\ state' = {}
              /\ pc' = [pc EXCEPT ![t] = "idle"]
              /\ loc' = [loc EXCEPT ![t] = NoLocals]
              /\ UNCHANGED fails
         ELSE Examine(t, state) /\ UNCHANGED state
    /\ UNCHANGED <<queue, fields, halves, awoken>>

(* Mutation: the whole word is cleared with the bit. *)
Unset_Zero(t) ==
    /\ Goto(t, "unset", "hand")
    /\ state' = {}
    /\ UNCHANGED <<queue, fields, halves, loc, awoken, fails>>

Unset(t) ==
    LET old == loc[t].old
    IN  /\ pc[t] = "unset"
        /\ Check(loc[t].bit \in old, "unset")
        /\ IF state = old
             THEN /\ state' = old \ {loc[t].bit}
                  /\ pc' = [pc EXCEPT ![t] = "hand"]
                  /\ UNCHANGED loc
             ELSE loc' = [loc EXCEPT ![t].old = state] /\ UNCHANGED <<state, pc>>
        /\ UNCHANGED <<queue, fields, halves, awoken>>

(* Mutation: the blocker slot is read but not emptied. *)
HandOver_Keep(t) ==
    LET bit == loc[t].bit
    IN  /\ Goto(t, "hand", IF loc[t].unlocked THEN "wake" ELSE "release")
        /\ flavor' = Acquisition(bit)
        /\ loc' = [loc EXCEPT ![t].task = blocker[bit]]
        /\ Check(blocker[bit] # None, "unlock_cast")
        /\ UNCHANGED <<queue, state, blocker, halves, awoken>>

(* Pass the flavor on and take the task that will own the mutex. *)
HandOver(t) ==
    LET bit == loc[t].bit
    IN  /\ Goto(t, "hand", IF loc[t].unlocked THEN "wake" ELSE "release")
        /\ flavor' = Acquisition(bit)
        /\ blocker' = [blocker EXCEPT ![bit] = None]
        /\ loc' = [loc EXCEPT ![t].task = blocker[bit]]
        /\ Check(blocker[bit] # None, "unlock_cast")
        /\ UNCHANGED <<queue, state, halves, awoken>>

(* Where unlock goes on once its half is released. *)
Released(t) == IF loc[t].task = None THEN "final" ELSE "wake"

Release(t) ==
    /\ pc[t] = "release"
    /\ loc' = [loc EXCEPT ![t].unlocked = TRUE]
    /\ CASE loc[t].flavor = "NativeAcquisition" ->
              /\ lock' = None /\ UNCHANGED green_cnt
              /\ Check(lock = t, "native_unlock")
              /\ pc' = [pc EXCEPT ![t] = Released(t)]
         [] loc[t].flavor = "GreenAcquisition" ->
              /\ green_cnt' = green_cnt - 1 /\ UNCHANGED <<lock, fails>>
              /\ pc' = [pc EXCEPT ![t] = IF green_cnt = 1 THEN Released(t) ELSE "pop"]
         [] OTHER -> /\ UNCHANGED <<halves, fails>>
                     /\ pc' = [pc EXCEPT ![t] = Released(t)]
    /\ UNCHANGED <<queue, state, fields, awoken>>

(* green_unlock: pop, again and again until it returns a node. *)
Pop(t) ==
    /\ pc[t] = "pop"
    /\ \/ SkipEmpty /\ UNCHANGED <<queue, pc>>
       \/ SkipStub /\ pc' = [pc EXCEPT ![t] = "next"]
       \/ ~AtStub /\ pc' = [pc EXCEPT ![t] = "next"] /\ UNCHANGED queue
    /\ UNCHANGED <<word, fields, halves, loc, awoken>>

(* The node found, or None: the next step of pop, or pop again. *)
PopIfLinked(t, from, otherwise) ==
    /\ pc[t] = from
    /\ IF Linked
         THEN /\ Advance
              /\ loc' = [loc EXCEPT ![t].node = tail]
              /\ pc' = [pc EXCEPT ![t] = "popped"]
         ELSE /\ pc' = [pc EXCEPT ![t] = otherwise]
              /\ loc' = [loc EXCEPT ![t].node = Null]
              /\ UNCHANGED queue
    /\ UNCHANGED <<word, fields, halves, awoken>>

PopHead(t) ==
    /\ Goto(t, "head", IF tail = head THEN "stub" ELSE "pop")
    /\ UNCHANGED <<queue, word, fields, halves, loc, awoken>>

PopStub(t) ==
    /\ Goto(t, "stub", "stublink")
    /\ PushSwap(Stub)
    /\ loc' = [loc EXCEPT ![t].node = head]
    /\ UNCHANGED <<word, fields, halves, awoken>>

PopStubLink(t) ==
    /\ Goto(t, "stublink", "last")
    /\ PushLink(loc[t].node, Stub)
    /\ UNCHANGED <<word, fields, halves, loc, awoken>>

GreenWake(t) ==
    /\ Goto(t, "popped", Released(t))
    /\ awoken' = [awoken EXCEPT ![loc[t].node] = TRUE]
    /\ loc' = [loc EXCEPT ![t].node = Null]
    /\ UNCHANGED <<queue, word, fields, halves>>

Wake(t) ==
    /\ Goto(t, "wake", "idle")
    /\ awoken' = [awoken EXCEPT ![loc[t].task] = TRUE]
    /\ loc' = [loc EXCEPT ![t] = NoLocals]
    /\ UNCHANGED <<queue, word, fields, halves>>

(* Everything a task does between its call of lock and its return, and      *)
(* between the drop of the guard and its return.                            *)
Inside(t) ==
    \/ Stolen(t) \/ NativeLock(t) \/ GreenLock(t)
    \/ EnqueueSwap(t) \/ EnqueueLink(t) \/ Resume(t, "queued", "retry")
    \/ Retry(t) \/ Own(t) \/ Block(t) \/ Flag(t) \/ Won(t) \/ Resume(t, "blocked", "in")
    \/ UnlockLoad(t) \/ UnlockFinal(t) \/ Unset(t) \/ HandOver(t) \/ Release(t)
    \/ Pop(t) \/ PopIfLinked(t, "next", "head") \/ PopHead(t) \/ PopStub(t)
    \/ PopStubLink(t) \/ PopIfLinked(t, "last", "pop") \/ GreenWake(t) \/ Wake(t)

Next == \E t \in Tasks : Lock(t) \/ TryLock(t) \/ Unlock(t) \/ Inside(t)

-----------------------------------------------------------------------------

PCs == {"idle", "stolen", "half", "push", "link", "queued", "retry", "own",
        "block", "flag", "won", "blocked", "in", "load", "unset", "hand",
        "release", "pop", "next", "head", "stub", "stublink", "last", "popped",
        "final", "wake"}

(* The types of the fields of StaticMutex and of the locals of lock and     *)
(* unlock.                                                                  *)
TypeOK ==
    /\ QTypeOK
    /\ state \in SUBSET ({"LOCKED"} \cup Bits)
    /\ lock \in Native \cup {None} /\ flavor \in Flavors
    /\ blocker \in [Bits -> Tasks \cup {None}]
    /\ green_cnt \in 0..Cardinality(Green)
    /\ pc \in [Tasks -> PCs] /\ awoken \in [Tasks -> BOOLEAN]
    /\ \A t \in Tasks :
          /\ loc[t].old \in SUBSET ({"LOCKED"} \cup Bits)
          /\ loc[t].node \in AllNodes \cup {Null}
          /\ loc[t].flavor \in Flavors /\ loc[t].bit \in Bits \cup {"none"}
          /\ loc[t].unlocked \in BOOLEAN /\ loc[t].task \in Tasks \cup {None}

(* No assertion of mutex.rs fails: a blocker slot is free when a task       *)
(* announces itself in it and taken when unlock hands the mutex over; the   *)
(* flavor is Unlocked whenever the word is taken; the native mutex is       *)
(* released by the task that locked it.                                     *)
NoAssertionFails == fails = {}

(* Poppers of the queue, and owners of the mutex: from the exchange or the  *)
(* hand-over that gives a task the lock to the step with which unlock gives *)
(* it away.                                                                 *)
Popping == {t \in Tasks : pc[t] \in {"pop", "next", "head", "stub", "stublink", "last"}}
Owners ==
    {t \in Tasks : \/ pc[t] \in {"stolen", "own", "won", "in", "load", "unset", "hand", "final"}
                   \/ pc[t] = "blocked" /\ awoken[t]
                   \/ /\ pc[t] \in {"release", "popped"} \cup
                                   {"pop", "next", "head", "stub", "stublink", "last"}
                      /\ loc[t].task = None}

(* The nodes of the queue are on the stacks of blocked tasks: a node that   *)
(* push or pop may still read or write belongs to a task that cannot have   *)
(* returned from green_lock.                                                *)
NodesLive ==
    LET used == ({head, tail} \cup {loc[t].node : t \in Tasks}) \ {Null, Stub}
    IN  \A n \in used : pc[n] \in {"link", "queued"} /\ ~awoken[n]

(* With the types: mutual exclusion of lock and try_lock, green and native, *)
(* throughout the hand-over.  One task at most owns the mutex, and one that *)
(* is being handed it is not raced by a second; the word says LOCKED all    *)
(* the while.  The single-consumer queue has one consumer, and its nodes    *)
(* are those of tasks that wait.                                            *)
Exclusion ==
    LET handed == {t \in Tasks : loc[t].task # None}
    IN  /\ TypeOK
        /\ Cardinality(Owners) + Cardinality(handed) <= 1
        /\ Owners \cup handed # {} <=> "LOCKED" \in state
        /\ Cardinality(Popping) <= 1 /\ NodesLive
=============================================================================
