-------------------------------- MODULE Locks --------------------------------
(***************************************************************************)
(* src/src/libsync/lock.rs on top of Raw: the Mutex and the RWLock that    *)
(* own their data and are poisoned when a task fails inside, and the       *)
(* Barrier made of a Mutex and its condition variable.  The check of the   *)
(* flag that follows an acquisition is taken with the task's next step.  A *)
(* failing task unwinds: it destroys the fields of its guard one by one,   *)
(* and its destructors may take the lock again.                            *)
(***************************************************************************)
EXTENDS Raw

CONSTANT num_tasks  \* of the Barrier

(* The tasks that wait at the barrier are those it was made for. *)
ASSUME BarrierAssumption == num_tasks = Cardinality(Users)

VARIABLES
    barrier,        \* the mutex is that of a Barrier
    poisoned,       \* the flag `failed` of the Mutex or the RWLock
    failing,        \* the tasks that have failed and unwind or are gone
    failed,         \* the tasks whose PoisonOnFail has `failed` set: they were
                    \* failing when they made their last call
    unpoisoned,     \* the tasks that have destroyed the field `poison` of the
                    \* Condvar in their guard, and not yet the field `inner`
    aborted,        \* a task failed while it was unwinding
    torn,           \* ghost: a task failed inside and left the data half-written
    arrivals,       \* BarrierState::count
    generation_id,
    local_gen,      \* local_gen[t], or -1 outside of the loop of wait
    entered, left   \* ghosts: how often each task came to the barrier and left

state_of_barrier == <<arrivals, generation_id, local_gen, entered, left>>
poison == <<poisoned, failing, failed, unpoisoned, aborted, torn>>
lockvars == <<rawvars, barrier, poison, state_of_barrier>>

LocksInit ==
    /\ RawInit
    /\ barrier \in BOOLEAN /\ (barrier => kind = "mutex" /\ NumCondvars > 0)
    /\ poisoned = FALSE /\ failing = {} /\ failed = {} /\ unpoisoned = {}
    /\ aborted = FALSE /\ torn = FALSE
    /\ arrivals = 0 /\ generation_id = 0
    /\ local_gen = [t \in Users |-> -1]
    /\ entered = [t \in Users |-> 0] /\ left = [t \in Users |-> 0]

Plain == ~barrier /\ UNCHANGED <<barrier, state_of_barrier>>

(* Does t run code of its own, with its guard intact?  It does while it has *)
(* not failed, and in a destructor that takes the lock while t unwinds.     *)
Runs(t) == t \notin failing \/ t \in failed \ unpoisoned

(* A new call, also of a destructor that runs in a failing task. *)
Start(t) ==
    /\ RawCall(t)
    /\ failed' = IF t \in failing THEN failed \cup {t} ELSE failed
    /\ UNCHANGED <<barrier, poisoned, failing, unpoisoned, aborted, torn, state_of_barrier>>

Go(t) == InCall(t) /\ UNCHANGED <<barrier, poison, state_of_barrier>>

(* The check found the lock in order, and the task uses its guard. *)
Work(t) ==
    /\ Plain /\ Runs(t) /\ ~poisoned
    /\ WithGuard(t)
    /\ UNCHANGED poison

(* The task fails with the lock held for writing. *)
FailInside(t) ==
    /\ Plain /\ t \notin failing /\ ~poisoned /\ kind # "semaphore"
    /\ at[t] = "writing"
    /\ failing' = failing \cup {t} /\ torn' = TRUE
    /\ UNCHANGED <<rawvars, poisoned, failed, unpoisoned, aborted>>

(* Failing with a read lock does not poison. *)
FailReading(t) ==
    /\ Plain /\ t \notin failing /\ ~poisoned
    /\ at[t] = "reading"
    /\ failing' = failing \cup {t}
    /\ UNCHANGED <<rawvars, poisoned, failed, unpoisoned, aborted, torn>>

(* PoisonOnFail::check after an acquisition, or after wait_on; in a task    *)
(* that unwinds the second failure ends the process (rt/unwind.rs:449).     *)
CheckFails(t) ==
    /\ Plain /\ Runs(t) /\ poisoned
    /\ at[t] \in {"writing", "reading"}
    /\ failing' = failing \cup {t} /\ aborted' = (t \in failing)
    /\ UNCHANGED <<rawvars, poisoned, failed, unpoisoned, torn>>

(* The drop of PoisonOnFail in a failing task; in any other it does         *)
(* nothing.                                                                 *)
DropPoison(t) ==
    /\ Plain /\ t \in failing \ unpoisoned /\ at[t] = "writing"
    /\ poisoned => t \notin failed
    /\ poisoned' = (poisoned \/ t \notin failed)
    /\ unpoisoned' = unpoisoned \cup {t}
    /\ UNCHANGED <<rawvars, failing, failed, aborted, torn>>

(* Mutation: `inner` comes before `poison`, and the lock is released while  *)
(* the flag is still to be set.                                             *)
Drop_Early(t) ==
    /\ Plain /\ (poisoned => ~Runs(t))
    /\ DropWriter(t) \/ DropReader(t)
    /\ unpoisoned' = unpoisoned \ {t}
    /\ UNCHANGED <<poisoned, failing, failed, aborted, torn>>

(* The raw guard goes, when it goes out of scope or after DropPoison. *)
Drop(t) ==
    /\ Plain /\ (poisoned => ~Runs(t))
    /\ \/ DropWriter(t) /\ (t \in failing => t \in unpoisoned)
       \/ DropReader(t)
    /\ unpoisoned' = unpoisoned \ {t}
    /\ UNCHANGED <<poisoned, failing, failed, aborted, torn>>
-----------------------------------------------------------------------------
(* Barrier::wait, with the lock held: the task that comes last starts a new *)
(* generation and wakes the others, who wait in a loop.                     *)

(* Mutation: one task too few is waited for. *)
IsLast_Off == arrivals + 2 >= num_tasks

IsLast == arrivals + 1 >= num_tasks

ArriveLast(t) ==
    /\ barrier /\ at[t] = "writing" /\ local_gen[t] = -1
    /\ IsLast
    /\ arrivals' = 0 /\ generation_id' = generation_id + 1
    /\ local_gen' = [local_gen EXCEPT ![t] = generation_id]
    /\ entered' = [entered EXCEPT ![t] = @ + 1]
    /\ IF blocked[0] = <<>> THEN UNCHANGED rawvars ELSE Broadcast(t, 0)
    /\ UNCHANGED <<barrier, poison, left>>

Arrive(t) ==
    /\ barrier /\ at[t] = "writing" /\ local_gen[t] = -1 /\ ~IsLast
    /\ arrivals' = arrivals + 1
    /\ local_gen' = [local_gen EXCEPT ![t] = generation_id]
    /\ entered' = [entered EXCEPT ![t] = @ + 1]
    /\ Wait(t, 0)
    /\ UNCHANGED <<nuse, barrier, poison, generation_id, left>>

(* The loop is over when wait returns in a later generation.  It would go   *)
(* round after a wakeup in the same one, which the condition variable never *)
(* gives: a task that got one would be stuck here.                          *)
LeaveBarrier(t) ==
    /\ barrier /\ local_gen[t] # -1 /\ local_gen[t] # generation_id
    /\ DropWriter(t)
    /\ local_gen' = [local_gen EXCEPT ![t] = -1]
    /\ left' = [left EXCEPT ![t] = @ + 1]
    /\ UNCHANGED <<barrier, poison, arrivals, generation_id, entered>>

(* What a task does without being asked: it goes through its calls, uses    *)
(* and drops its guards.                                                    *)
Proceed(t) ==
    \/ Go(t) \/ DropPoison(t) \/ Drop(t) \/ CheckFails(t)
    \/ ArriveLast(t) \/ Arrive(t) \/ LeaveBarrier(t)

(* The end: no more calls are made, nobody is left to send the signal, or   *)
(* the process has been aborted.                                            *)
LocksOver ==
    /\ \A t \in Users :
         \/ aborted
         \/ at[t] = "idle" /\ (nuse = MaxUses \/ t \in failing)
         \/ at[t] = "cond" /\ t \notin signalled /\ ~barrier
    /\ UNCHANGED lockvars

LocksStep ==
    \E t \in Users : Start(t) \/ Proceed(t) \/ Work(t) \/ FailInside(t) \/ FailReading(t)

LocksNext == (~aborted /\ LocksStep) \/ LocksOver

(* A task that can run gets to run, and it drops the guards it holds. *)
LocksFairness == \A t \in Users : WF_lockvars(~aborted /\ Proceed(t))
LocksSpec == LocksInit /\ [][LocksNext]_lockvars /\ LocksFairness
-----------------------------------------------------------------------------
(* Whoever gets hold of data that a failing task left half-written finds    *)
(* the lock poisoned: "we must set the poison flag *inside* the mutex"      *)
(* (lock.rs:83).  And nothing else poisons it: not a reader that fails, not *)
(* a guard that a destructor takes and drops while its task unwinds.        *)
PoisonSeen ==
    /\ torn /\ (\E t \in Writers \cup Readers : Runs(t)) => poisoned
    /\ poisoned => torn

(* No task leaves the barrier before all have come to it as often. *)
BarrierTogether == barrier => \A s, t \in Users : left[t] <= entered[s]

(* Every call returns: read, write, lock, acquire and the drops of guards.  *)
(* Only a wait for a signal that nobody sends does not, and a wait at the   *)
(* barrier in a generation for which not all tasks have come.               *)
LocksReturn ==
    <>[](\A t \in Users :
           \/ at[t] = "idle" \/ aborted
           \/ at[t] = "cond" /\ t \notin signalled /\ local_gen[t] \in {-1, generation_id})
-----------------------------------------------------------------------------
(* The inductive invariant of PoisonSeen.  Data that is left half-written   *)
(* is behind the flag, or in the hands of a task that has yet to destroy    *)
(* its PoisonOnFail, and still holds the lock.                              *)
Owes(t) == t \in failing \ (failed \cup unpoisoned) /\ at[t] = "writing"
PoisonInv ==
    /\ failing \subseteq Users /\ failed \subseteq failing /\ unpoisoned \subseteq failing
    /\ torn => kind # "semaphore" /\ (poisoned \/ \E t \in Users : Owes(t))
    /\ poisoned => torn
    /\ barrier => ~torn /\ failing = {}
    /\ \A t \in failing \ failed : torn \/ at[t] \in {"idle", "reading", "last"}
=============================================================================
