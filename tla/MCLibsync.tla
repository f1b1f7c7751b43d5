------------------------------ MODULE MCLibsync ------------------------------
(***************************************************************************)
(* The locks of libsync for TLC: an instance of Once, with the mutex.rs in *)
(* it, or of Locks, with the raw.rs in it.  The two share no state, since  *)
(* Raw takes the critical sections of mutex.rs as steps; a behaviour is    *)
(* one of the one or of the other.                                         *)
(***************************************************************************)
EXTENDS Once, Locks

VARIABLE crate  \* the part that this behaviour is about

Minimum == -1000

LibInit ==
    /\ crate \in {"once", "locks"} /\ OnceInit /\ LocksInit
    /\ crate = "once" => kind = "mutex" /\ ~barrier
    /\ crate = "locks" => uses = "once"

LibNext ==
    \/ crate = "once" /\ OnceNext /\ UNCHANGED <<crate, lockvars>>
    \/ crate = "locks" /\ LocksNext /\ UNCHANGED <<crate, allvars>>

(* Before a call is made, no step is enabled that fairness is asked of. *)
LibSpec ==
    /\ LibInit /\ [][LibNext]_<<crate, allvars, lockvars>>
    /\ \A t \in Tasks : WF_allvars(Step(t))
    /\ LocksFairness
=============================================================================
