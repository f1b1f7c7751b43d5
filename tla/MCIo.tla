-------------------------------- MODULE MCIo --------------------------------
(***************************************************************************)
(* The threads that I/O goes through, for TLC: the event loop of librustuv *)
(* with the green tasks that come home to it, or the timer helper of       *)
(* libnative.  They share no state; a behaviour is one of one of them.     *)
(***************************************************************************)
EXTENDS Homing, Timers

VARIABLE io  \* the part that this behaviour is about

IoInit == io \in {"homing", "timers"} /\ HomingInit /\ TimersInit

IoNext ==
    \/ io = "homing" /\ HomingNext /\ UNCHANGED <<io, timervars>>
    \/ io = "timers" /\ TimersNext /\ UNCHANGED <<io, homingvars>>

(* The fairness of HomingSpec with TasksEnd, when the behaviour is about    *)
(* the loop (a task and its thread do not step both, and one that runs on   *)
(* the loop's thread steps); in the timers no step is enabled that fairness *)
(* is asked of before a task makes one.                                     *)
IoSpec ==
    /\ IoInit /\ [][IoNext]_<<io, homingvars, timervars>>
    /\ WF_homingvars(io = "homing" /\ LoopStep)
    /\ \A t \in Workers : WF_homingvars(io = "homing" /\ (ThreadStep(t) \/ TaskStep(t)))
    /\ TimersFairness

(* Once the tasks let go of their handles, each that was sent home          *)
(* (homing.rs) has got there and each that waited for the access had its    *)
(* turn (access.rs): the loop ends.                                         *)
HomingFinishes == []<>(io = "homing" => loop = "gone")
=============================================================================
