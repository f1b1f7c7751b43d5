--------------------------------- MODULE Raw ---------------------------------
(***************************************************************************)
(* src/src/libsync/raw.rs: the semaphore Sem, and what is built from it: a *)
(* Semaphore, a Mutex with condition variables, and an RWLock whose order  *)
(* lock queues readers and writers and whose access lock is held by one    *)
(* writer or by all the readers together.  A step is a critical section of *)
(* Sem::with or one atomic operation on read_count.  A sleeping task waits *)
(* on a channel of its own, so a signal that is sent is not lost.          *)
(***************************************************************************)
EXTENDS Integers, Sequences, FiniteSets

CONSTANTS Users,        \* the tasks
          NumCondvars,  \* num_condvars of the mutex or the reader-writer lock
          Permits,      \* the initial count of a Semaphore
          MaxUses       \* bound: calls made by all tasks together

ASSUME RawAssumption ==
    /\ IsFiniteSet(Users)
    /\ NumCondvars \in Nat /\ Permits \in Nat /\ MaxUses \in Nat

VARIABLES
    kind,        \* what the object is: "semaphore", "mutex" or "rwlock"
    count,       \* count[s]: of the access lock, the Sem itself when there is
                 \* no other, and of the order lock
    waiters,     \* waiters[s]: the wait queue of each
    blocked,     \* blocked[c]: the wait queue of each condition variable
    signalled,   \* the tasks whose wait end holds a signal
    read_count,
    at,          \* where each task is
    waking,      \* waking[t]: the queue a broadcasting task has taken out
    permits,     \* ghost: the permits a Semaphore started with or was given
    nuse         \* calls made

sems == <<count, waiters, signalled>>
rawvars == <<kind, sems, blocked, read_count, at, waking, permits, nuse>>

Sems == {"access", "order"}
Condvars == 0..(NumCondvars - 1)

Places == {"idle", "order_r", "order_w", "add", "acc_r", "acc_w", "asleep_r",
           "asleep_w", "leave_r", "leave_w", "reading", "writing", "last",
           "hand", "cond", "bcast"}

RawInit ==
    /\ kind \in {"semaphore", "mutex", "rwlock"}
    /\ count = [s \in Sems |-> IF kind = "semaphore" THEN Permits ELSE 1]
    /\ waiters = [s \in Sems |-> <<>>] /\ blocked = [c \in Condvars |-> <<>>]
    /\ signalled = {} /\ read_count = 0 /\ permits = Permits /\ nuse = 0
    /\ at = [t \in Users |-> "idle"] /\ waking = [t \in Users |-> <<>>]

Move(t, from, to) == at[t] = from /\ at' = [at EXCEPT ![t] = to]

(* A task makes a call. *)
Use(t) == at[t] = "idle" /\ nuse < MaxUses /\ nuse' = nuse + 1
-----------------------------------------------------------------------------
(* Sem                                                                      *)

(* acquire: t goes on at once, or enqueues itself and sleeps. *)
Acquire(s, t, on, asleep) ==
    /\ count' = [count EXCEPT ![s] = @ - 1]
    /\ waiters' = IF count[s] - 1 < 0
                    THEN [waiters EXCEPT ![s] = Append(@, t)] ELSE waiters
    /\ at' = [at EXCEPT ![t] = IF count[s] - 1 < 0 THEN asleep ELSE on]

(* Mutation: a task is signalled only when it is not the last one. *)
SemRelease_Off(s) ==
    /\ count' = [count EXCEPT ![s] = @ + 1]
    /\ IF count[s] + 1 < 0
         THEN /\ signalled' = signalled \cup {Head(waiters[s])}
              /\ waiters' = [waiters EXCEPT ![s] = Tail(@)]
         ELSE UNCHANGED <<signalled, waiters>>

(* release: the first waiter, if there is one, gets the permit. *)
SemRelease(s) ==
    /\ count' = [count EXCEPT ![s] = @ + 1]
    /\ IF count[s] + 1 <= 0
         THEN /\ signalled' = signalled \cup {Head(waiters[s])}
              /\ waiters' = [waiters EXCEPT ![s] = Tail(@)]
         ELSE UNCHANGED <<signalled, waiters>>

(* The sleeper's recv returns. *)
Woken(t, from, to) ==
    /\ t \in signalled /\ signalled' = signalled \ {t}
    /\ Move(t, from, to)
    /\ UNCHANGED <<kind, count, waiters, blocked, read_count, waking, permits, nuse>>

(* Semaphore::acquire and Mutex::lock. *)
LockCall(t) ==
    /\ kind # "rwlock" /\ Use(t)
    /\ Acquire("access", t, "writing", "asleep_w")
    /\ UNCHANGED <<kind, blocked, signalled, read_count, waking, permits>>

(* Semaphore::release of a permit that the task has not acquired. *)
Give(t) ==
    /\ kind = "semaphore" /\ Use(t) /\ SemRelease("access")
    /\ permits' = permits + 1
    /\ UNCHANGED <<kind, blocked, read_count, at, waking>>

(* The drop of a guard, of a Semaphore, a Mutex or a writer. *)
DropWriter(t) ==
    /\ Move(t, "writing", "idle") /\ SemRelease("access")
    /\ UNCHANGED <<kind, blocked, read_count, waking, permits, nuse>>
-----------------------------------------------------------------------------
(* RWLock                                                                   *)

(* read and write start with the order lock. *)
ReadCall(t) ==
    /\ kind = "rwlock" /\ Use(t)
    /\ Acquire("order", t, "add", "order_r")
    /\ UNCHANGED <<kind, blocked, signalled, read_count, waking, permits>>

WriteCall(t) ==
    /\ kind = "rwlock" /\ Use(t)
    /\ Acquire("order", t, "acc_w", "order_w")
    /\ UNCHANGED <<kind, blocked, signalled, read_count, waking, permits>>

(* Mutation: each reader asks for the access lock. *)
ReadAdd_All(t) ==
    /\ Move(t, "add", "acc_r")
    /\ read_count' = read_count + 1
    /\ UNCHANGED <<kind, sems, blocked, waking, permits, nuse>>

(* read: the first reader acquires the access lock for all. *)
ReadAdd(t) ==
    /\ Move(t, "add", IF read_count = 0 THEN "acc_r" ELSE "leave_r")
    /\ read_count' = read_count + 1
    /\ UNCHANGED <<kind, sems, blocked, waking, permits, nuse>>

AccessRead(t) ==
    /\ at[t] = "acc_r" /\ Acquire("access", t, "leave_r", "asleep_r")
    /\ UNCHANGED <<kind, blocked, signalled, read_count, waking, permits, nuse>>

AccessWrite(t) ==
    /\ at[t] = "acc_w" /\ Acquire("access", t, "leave_w", "asleep_w")
    /\ UNCHANGED <<kind, blocked, signalled, read_count, waking, permits, nuse>>

(* read and write return: the guard of the order lock is dropped. *)
LeaveOrder(t, from, to) ==
    /\ Move(t, from, to) /\ SemRelease("order")
    /\ UNCHANGED <<kind, blocked, read_count, waking, permits, nuse>>

(* The drop of a reader; the last one releases the access lock. *)
DropReader(t) ==
    /\ Move(t, "reading", IF read_count = 1 THEN "last" ELSE "idle")
    /\ read_count' = read_count - 1
    /\ UNCHANGED <<kind, sems, blocked, waking, permits, nuse>>

DropLast(t) ==
    /\ Move(t, "last", "idle") /\ SemRelease("access")
    /\ UNCHANGED <<kind, blocked, read_count, waking, permits, nuse>>

(* downgrade, and the hand-over to a reader that is already waiting. *)
Downgrade(t) ==
    /\ kind = "rwlock"
    /\ Move(t, "writing", IF read_count # 0 THEN "hand" ELSE "reading")
    /\ read_count' = read_count + 1
    /\ UNCHANGED <<kind, sems, blocked, waking, permits, nuse>>

HandOff(t) ==
    /\ Move(t, "hand", "reading") /\ SemRelease("access")
    /\ UNCHANGED <<kind, blocked, read_count, waking, permits, nuse>>
-----------------------------------------------------------------------------
(* Condvar                                                                  *)

(* wait_on: release the lock and enqueue in one critical section. *)
Wait(t, c) ==
    /\ kind # "semaphore" /\ c \in Condvars
    /\ Move(t, "writing", "cond") /\ SemRelease("access")
    /\ blocked' = [blocked EXCEPT ![c] = Append(@, t)]
    /\ UNCHANGED <<kind, read_count, waking, permits>>

WaitCall(t, c) == nuse < MaxUses /\ nuse' = nuse + 1 /\ Wait(t, c)

(* Mutation: the order lock is not taken around the reacquire, the race in  *)
(* the comment of write.                                                    *)
Reacquire_CutIn(t) ==
    /\ at[t] = "cond" /\ t \in signalled /\ signalled' = signalled \ {t}
    /\ Acquire("access", t, "writing", "asleep_w")
    /\ UNCHANGED <<kind, blocked, read_count, waking, permits, nuse>>

(* wait_on: the signal is received and the lock reacquired, for an RWLock   *)
(* in the way of write.                                                     *)
Reacquire(t) ==
    /\ at[t] = "cond" /\ t \in signalled /\ signalled' = signalled \ {t}
    /\ IF kind = "rwlock" THEN Acquire("order", t, "acc_w", "order_w")
                          ELSE Acquire("access", t, "writing", "asleep_w")
    /\ UNCHANGED <<kind, blocked, read_count, waking, permits, nuse>>

(* signal_on; the caller holds the lock. *)
Signal(t, c) ==
    /\ kind # "semaphore" /\ at[t] = "writing" /\ c \in Condvars
    /\ blocked[c] # <<>>
    /\ signalled' = signalled \cup {Head(blocked[c])}
    /\ blocked' = [blocked EXCEPT ![c] = Tail(@)]
    /\ UNCHANGED <<kind, count, waiters, read_count, at, waking, permits, nuse>>

(* broadcast_on: swap the queue out ... *)
Broadcast(t, c) ==
    /\ kind # "semaphore" /\ c \in Condvars /\ blocked[c] # <<>>
    /\ Move(t, "writing", "bcast")
    /\ waking' = [waking EXCEPT ![t] = blocked[c]]
    /\ blocked' = [blocked EXCEPT ![c] = <<>>]
    /\ UNCHANGED <<kind, sems, read_count, permits, nuse>>

(* ... and signal the tasks on it outside of the critical section. *)
BroadcastOne(t) ==
    /\ at[t] = "bcast" /\ waking[t] # <<>>
    /\ signalled' = signalled \cup {Head(waking[t])}
    /\ waking' = [waking EXCEPT ![t] = Tail(@)]
    /\ at' = [at EXCEPT ![t] = IF Len(waking[t]) = 1 THEN "writing" ELSE "bcast"]
    /\ UNCHANGED <<kind, count, waiters, blocked, read_count, permits, nuse>>
-----------------------------------------------------------------------------
(* What a task does inside of read, write, lock, acquire and wait_on, and   *)
(* of the drop of a guard.                                                  *)
InCall(t) ==
    \/ Woken(t, "order_r", "add") \/ Woken(t, "order_w", "acc_w")
    \/ Woken(t, "asleep_r", "leave_r")
    \/ Woken(t, "asleep_w", IF kind = "rwlock" THEN "leave_w" ELSE "writing")
    \/ ReadAdd(t) \/ AccessRead(t) \/ AccessWrite(t)
    \/ LeaveOrder(t, "leave_r", "reading") \/ LeaveOrder(t, "leave_w", "writing")
    \/ DropLast(t) \/ HandOff(t) \/ Reacquire(t) \/ BroadcastOne(t)

(* What a task does with a guard that it may also drop. *)
WithGuard(t) ==
    \/ Downgrade(t)
    \/ \E c \in Condvars : WaitCall(t, c) \/ Signal(t, c) \/ Broadcast(t, c)

RawCall(t) == LockCall(t) \/ Give(t) \/ ReadCall(t) \/ WriteCall(t)

RawNext == \E t \in Users : RawCall(t) \/ InCall(t) \/ WithGuard(t)
                            \/ DropWriter(t) \/ DropReader(t)

RawSpec == RawInit /\ [][RawNext]_rawvars
-----------------------------------------------------------------------------
RawTypeOK ==
    /\ kind \in {"semaphore", "mutex", "rwlock"}
    /\ count \in [Sems -> Int] /\ waiters \in [Sems -> Seq(Users)]
    /\ blocked \in [Condvars -> Seq(Users)] /\ signalled \in SUBSET Users
    /\ read_count \in Nat /\ permits \in Nat /\ nuse \in Nat
    /\ at \in [Users -> Places] /\ waking \in [Users -> Seq(Users)]

(* Who may touch the data: exclusively, or together with others.  The last  *)
(* steps of write and read, and the first of downgrade, belong to them.     *)
Writers == {t \in Users : at[t] \in {"leave_w", "writing", "bcast"}}
Readers == {t \in Users : at[t] \in {"leave_r", "reading"}}

(* Mutual exclusion: a writer is alone, also while a downgrading writer     *)
(* hands the access lock to a waiting reader and another writer returns     *)
(* from a condition variable; a Semaphore lets in at most as many as it has *)
(* permits.                                                                 *)
RawExclusion ==
    /\ kind # "semaphore" => \A t \in Writers : Writers = {t} /\ Readers = {}
    /\ kind = "semaphore" => Cardinality(Writers) <= permits

(* With the types: nobody sleeps beside a permit and nobody is woken        *)
(* without one.  A queue is as long as the count is negative, it holds the  *)
(* tasks that sleep there, and so do the queues of the condition variables. *)
NoneForgotten ==
    /\ RawTypeOK
    /\ \A s \in Sems : Len(waiters[s]) = IF count[s] < 0 THEN -count[s] ELSE 0
    /\ \A t \in Users \ signalled :
         /\ at[t] \in {"order_r", "order_w"} =>
              \E i \in DOMAIN waiters["order"] : waiters["order"][i] = t
         /\ at[t] \in {"asleep_r", "asleep_w"} =>
              \E i \in DOMAIN waiters["access"] : waiters["access"][i] = t
         /\ at[t] = "cond" =>
              \/ \E c \in Condvars : \E i \in DOMAIN blocked[c] : blocked[c][i] = t
              \/ \E u \in Users : \E i \in DOMAIN waking[u] : waking[u][i] = t
=============================================================================
