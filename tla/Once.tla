-------------------------------- MODULE Once --------------------------------
(***************************************************************************)
(* Once of src/src/libsync/one.rs on top of the StaticMutex it contains,   *)
(* whose steps are those of module Mutex.  An instance has either tasks    *)
(* that call doit, or tasks that use a StaticMutex directly (uses).        *)
(***************************************************************************)
EXTENDS Mutex

CONSTANTS MinInt,    \* int::MIN, below any count of calls
          MaxCalls   \* bound on the calls made

ASSUME MinIntAssumption == MinInt \in Int /\ MinInt < -MaxCalls

VARIABLES
    uses,      \* "once" or "mutex": what the tasks call
    cnt,       \* calls of doit, or a very negative value when it is done
    lock_cnt,  \* calls that still have to let go of the mutex
    opc,       \* where each task is in doit
    calls,     \* calls made
    ran,       \* ghost: how often f ran to its end
    destroyed  \* ghost: how often the mutex was destroyed

once == <<uses, cnt, lock_cnt, opc, ran, destroyed>>
allvars == <<vars, once, calls>>

OnceInit ==
    /\ Init
    /\ uses \in {"once", "mutex"}
    /\ cnt = 0 /\ lock_cnt = 0 /\ opc = [t \in Tasks |-> "out"]
    /\ calls = 0 /\ ran = 0 /\ destroyed = 0

OGoto(t, from, to) == opc[t] = from /\ opc' = [opc EXCEPT ![t] = to]

(* A call of lock or try_lock by a user of a StaticMutex of its own. *)
Call(t) ==
    /\ uses = "mutex" /\ calls < MaxCalls /\ calls' = calls + 1
    /\ Lock(t) \/ TryLock(t)
    /\ UNCHANGED once

Leave(t) ==
    /\ uses = "mutex" /\ Unlock(t)
    /\ UNCHANGED <<once, calls>>

(* doit: announce the call; when the count is negative, all is done. *)
Doit(t) ==
    /\ uses = "once" /\ calls < MaxCalls /\ calls' = calls + 1
    /\ OGoto(t, "out", IF cnt < 0 THEN "reset" ELSE "lock")
    /\ cnt' = cnt + 1
    /\ UNCHANGED <<vars, uses, lock_cnt, ran, destroyed>>

DoitReset(t) ==
    /\ OGoto(t, "reset", "out")
    /\ cnt' = MinInt
    /\ UNCHANGED <<vars, uses, lock_cnt, calls, ran, destroyed>>

DoitLock(t) ==
    /\ OGoto(t, "lock", "locked")
    /\ Lock(t)
    /\ UNCHANGED <<uses, cnt, lock_cnt, calls, ran, destroyed>>

(* Mutation: the negative count is in place before f has run. *)
DoitTest_Early(t) ==
    /\ pc[t] = "in"
    /\ OGoto(t, "locked", IF cnt > 0 THEN "f" ELSE "drop")
    /\ cnt' = MinInt
    /\ UNCHANGED <<vars, uses, lock_cnt, calls, ran, destroyed>>

DoitTest(t) ==
    /\ pc[t] = "in"
    /\ OGoto(t, "locked", IF cnt > 0 THEN "f" ELSE "drop")
    /\ UNCHANGED <<vars, uses, cnt, lock_cnt, calls, ran, destroyed>>

(* f returns. *)
DoitRan(t) ==
    /\ OGoto(t, "f", "swap")
    /\ ran' = ran + 1
    /\ UNCHANGED <<vars, uses, cnt, lock_cnt, calls, destroyed>>

(* f fails: the task unwinds out of doit, drops the guard and is gone.  Its *)
(* call stays in the count, and the next one in runs its closure.           *)
DoitFails(t) ==
    /\ OGoto(t, "f", "unwind")
    /\ UNCHANGED <<vars, uses, cnt, lock_cnt, calls, ran, destroyed>>

DoitUnwinds(t) ==
    /\ OGoto(t, "unwind", "gone")
    /\ Unlock(t)
    /\ UNCHANGED <<uses, cnt, lock_cnt, calls, ran, destroyed>>

(* The swap; the count read goes to lock_cnt, which only now is in use. *)
DoitSwap(t) ==
    /\ OGoto(t, "swap", "drop")
    /\ cnt' = MinInt
    /\ lock_cnt' = cnt
    /\ UNCHANGED <<vars, uses, calls, ran, destroyed>>

DoitDrop(t) ==
    /\ OGoto(t, "drop", "last")
    /\ Unlock(t)
    /\ UNCHANGED <<uses, cnt, lock_cnt, calls, ran, destroyed>>

DoitLast(t) ==
    /\ pc[t] = "idle"
    /\ OGoto(t, "last", "out")
    /\ lock_cnt' = lock_cnt - 1
    /\ destroyed' = IF lock_cnt = 1 THEN destroyed + 1 ELSE destroyed
    /\ UNCHANGED <<vars, uses, cnt, calls, ran>>

Step(t) ==
    \/ Inside(t) /\ UNCHANGED <<once, calls>>
    \/ Leave(t) \/ DoitReset(t) \/ DoitLock(t) \/ DoitTest(t)
    \/ DoitRan(t) \/ DoitFails(t) \/ DoitUnwinds(t)
    \/ DoitSwap(t) \/ DoitDrop(t) \/ DoitLast(t)

(* The task is in no call: it makes its next one, or is gone. *)
Outside(t) == pc[t] = "idle" /\ opc[t] \in {"out", "gone"}

(* The end: every call has returned and no more are made. *)
Finished ==
    /\ \A t \in Tasks : Outside(t) /\ (calls = MaxCalls \/ opc[t] = "gone")
    /\ UNCHANGED allvars

OnceNext == (\E t \in Tasks : Call(t) \/ Doit(t) \/ Step(t)) \/ Finished

(* A task that can run gets to run: native tasks are OS threads, green ones *)
(* are scheduled by their pool, and the spinning unlocker yields.           *)
Spec == OnceInit /\ [][OnceNext]_allvars /\ \A t \in Tasks : WF_allvars(Step(t))

-----------------------------------------------------------------------------

(* One closure runs to its end, however many fail before it; doit returns   *)
(* only after that, and destroys the mutex once, when every call that will  *)
(* ever touch it is done with it.  Unless a closure failed, whose call      *)
(* nobody takes off the count, it is destroyed in the end.                  *)
OnceSafe ==
    /\ ran <= 1 /\ destroyed <= 1
    /\ \A t \in Tasks : opc[t] \in {"reset", "drop", "last"} => ran = 1
    /\ destroyed = 1 => \A t \in Tasks : opc[t] \in {"out", "reset"} /\ pc[t] = "idle"
    /\ uses = "once" /\ calls > 0 /\ (\A t \in Tasks : opc[t] = "out") => destroyed = 1

(* Every call of lock, of doit and of the drop of a guard returns: no       *)
(* wakeup is lost between the word, the two blockers and the queue, and the *)
(* unlocker that spins on the queue gets its node.  The calls are bounded,  *)
(* so they all return just when in the end nobody is in a call.             *)
CallsReturn == <>[](\A t \in Tasks : Outside(t))
=============================================================================
