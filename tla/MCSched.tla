------------------------------ MODULE MCSched ------------------------------
(* Instances of Sched for TLC. *)
EXTENDS Sched
CONSTANTS a, b, t1, t2

Setup(l, handles, asleep, new, n) ==
    [evloop |-> l, handles |-> handles, sleepers |-> asleep, tasks |-> new,
     blocked |-> {}, home |-> None, ops |-> n]

(* A pool of one with its spawn_sched, a pool of two, one with a blocked    *)
(* task that is pinned to its second scheduler, and one on the event loop   *)
(* of librustuv.                                                            *)
Pools ==
    {Setup("basic", <<a>>, <<a>>, {t1, t2}, 2),
     Setup("basic", <<a, b>>, <<b, a>>, {t1, t2}, 2),
     [Setup("basic", <<a, b>>, <<b, a>>, {}, 1) EXCEPT !.blocked = {t1}, !.home = b],
     Setup("uv", <<a, b>>, <<a, b>>, {t1}, 1)}

(* A pool of one on the event loop of librustuv. *)
UvPool == {Setup("uv", <<a>>, <<a>>, {t1}, 2)}
=============================================================================
