------------------------------- MODULE Homing -------------------------------
(***************************************************************************)
(* I/O of green tasks on the event loop that owns it: librustuv/homing.rs, *)
(* queue.rs and access.rs.  A task that uses an I/O object on another      *)
(* scheduler sends itself to the object's loop through the queue of that   *)
(* loop, which handles of the object keep alive; there it takes turns with *)
(* the other users of the object.  The queue is the Fifo that Mpsc         *)
(* implements: a push reserves a place and then links it.                  *)
(*                                                                         *)
(* One loop is modelled, with tasks that come to it.  While a task is away *)
(* each of its steps is one of the thread it runs on there; the closure of *)
(* a deschedule goes on there even when the task has come home.  A task    *)
(* that is at home runs in the loop's thread, inside the callback that     *)
(* woke it.  Tasks are AnySched, and all of one pool.                      *)
(***************************************************************************)
EXTENDS Integers, Sequences, FiniteSets

CONSTANTS Workers,     \* the green tasks
          NoWorker,
          MaxHandles,  \* bound: handles of a task
          MaxSteps     \* bound: what the tasks do beside letting go of things

ASSUME HomingAssumption ==
    /\ IsFiniteSet(Workers) /\ NoWorker \notin Workers
    /\ MaxHandles \in Nat \ {0} /\ MaxSteps \in Nat

VARIABLES
    messages,  \* State.queue: records of a message, its task, and its link
    signalled, \* uv_async_send was called after the callback last began
    refcnt,    \* QueuePool.refcnt
    refd,      \* the async handle is referenced: it keeps the loop running
    droplock,  \* State.lock: its holder
    loop,      \* where the loop is: "idle", in async_cb, or "gone"
    running,   \* the task that runs on the loop's thread
    where,     \* where each task is
    thread,    \* what the thread of a task that is or was away still does
    handles,   \* Queue handles of each task
    guard,     \* the tasks that have the Guard of the Access
    held, turn,\* Access: Inner.held and Inner.queue
    steps,
    wrong      \* the assertions that failed

homingvars == <<messages, signalled, refcnt, refd, droplock, loop, running, where, thread,
                handles, guard, held, turn, steps, wrong>>

(* Each task has an I/O object, or a clone of one, that was made at home. *)
HomingInit ==
    /\ messages = <<>> /\ signalled = FALSE
    /\ refcnt = Cardinality(Workers) /\ refd = (refcnt > 0)
    /\ droplock = NoWorker /\ loop = "idle" /\ running = NoWorker
    /\ where = [t \in Workers |-> "ready"] /\ thread = [t \in Workers |-> "none"]
    /\ handles = [t \in Workers |-> 1]
    /\ guard = {} /\ held = FALSE /\ turn = <<>> /\ steps = 0 /\ wrong = {}

Step == steps < MaxSteps /\ steps' = steps + 1
Message(kind, t, linked) == [kind |-> kind, task |-> t, linked |-> linked]
To(t, place) == where' = [where EXCEPT ![t] = place]
Thread(t, doing) == thread' = [thread EXCEPT ![t] = doing]
Handles(t, n) == handles' = [handles EXCEPT ![t] = @ + n]

(* The bounce on the nasty_deschedule_lock: a task that was resumed goes on *)
(* only when the closure that sent it has ended.                            *)
Resumed(t) == running = t /\ thread[t] = "none"

Away(t) == where[t] = "away" /\ thread[t] = "none"
-----------------------------------------------------------------------------
(* The tasks among the schedulers: the loop's one runs a task of its work   *)
(* queue between callbacks, or another one steals it.                       *)

RunTask(t) ==
    /\ loop = "idle" /\ running = NoWorker /\ where[t] = "ready"
    /\ running' = t /\ To(t, "home")
    /\ UNCHANGED <<messages, signalled, refcnt, refd, droplock, loop, thread, handles, guard,
                   held, turn, steps, wrong>>

(* It yields or blocks on something else, and another scheduler takes it. *)
Leave(t) ==
    /\ Resumed(t) /\ t \notin guard
    /\ running' = NoWorker /\ To(t, "away")
    /\ UNCHANGED <<messages, signalled, refcnt, refd, droplock, loop, thread, handles, guard,
                   held, turn, steps, wrong>>

Steal(t) ==
    /\ where[t] = "ready" /\ thread[t] = "none" /\ To(t, "away")
    /\ UNCHANGED <<messages, signalled, refcnt, refd, droplock, loop, running, thread, handles,
                   guard, held, turn, steps, wrong>>

Finish(t) ==
    /\ handles[t] = 0 /\ t \notin guard /\ To(t, "done")
    /\ \/ Resumed(t) /\ running' = NoWorker
       \/ Away(t) /\ UNCHANGED running
    /\ UNCHANGED <<messages, signalled, refcnt, refd, droplock, loop, thread, handles, guard,
                   held, turn, steps, wrong>>
-----------------------------------------------------------------------------
(* Handles.                                                                 *)

(* QueuePool::queue, when a task at home makes an I/O object. *)
MakeHandle(t) ==
    /\ Resumed(t) /\ t \notin guard /\ handles[t] < MaxHandles /\ Step
    /\ refcnt' = refcnt + 1 /\ refd' = TRUE /\ Handles(t, 1)
    /\ UNCHANGED <<messages, signalled, droplock, loop, running, where, thread, guard, held,
                   turn, wrong>>

(* Queue::clone: an Increment is pushed and nothing is signalled. *)
CloneAt(t, linked) ==
    /\ handles[t] > 0 /\ handles[t] < MaxHandles /\ Step
    /\ messages' = Append(messages, Message("Increment", t, linked))
    /\ Handles(t, 1)
    /\ UNCHANGED <<signalled, refcnt, refd, droplock, loop, running, where, guard, held, turn,
                   wrong>>

(* Mutation: a clone is not counted. *)
Clone_Uncounted(t) ==
    /\ handles[t] > 0 /\ handles[t] < MaxHandles /\ Step /\ Away(t) /\ Handles(t, 1)
    /\ UNCHANGED <<messages, signalled, refcnt, refd, droplock, loop, running, where, thread,
                   guard, held, turn, wrong>>

Clone(t) ==
    \/ Away(t) /\ CloneAt(t, FALSE) /\ Thread(t, "increment")
    \/ Resumed(t) /\ t \notin guard /\ CloneAt(t, TRUE) /\ UNCHANGED thread

(* Mutation: like a clone, a drop away from home signals nothing. *)
DropHandle_Quiet(t) ==
    /\ handles[t] > 0 /\ droplock = NoWorker /\ Handles(t, -1)
    /\ \/ /\ Away(t) /\ Thread(t, "increment")
          /\ messages' = Append(messages, Message("Decrement", t, FALSE))
          /\ UNCHANGED signalled
       \/ /\ Resumed(t) /\ t \notin guard
          /\ messages' = Append(messages, Message("Decrement", t, TRUE))
          /\ signalled' = TRUE /\ UNCHANGED thread
    /\ UNCHANGED <<droplock, refcnt, refd, loop, running, where, guard, held, turn, steps, wrong>>

(* Queue::drop: a Decrement is pushed and signalled under the lock.  On the *)
(* loop's own thread nobody sees the steps between.                         *)
DropHandle(t) ==
    /\ handles[t] > 0 /\ droplock = NoWorker /\ Handles(t, -1)
    /\ \/ /\ Away(t) /\ droplock' = t /\ Thread(t, "decrement")
          /\ messages' = Append(messages, Message("Decrement", t, FALSE))
          /\ UNCHANGED signalled
       \/ /\ Resumed(t) /\ t \notin guard
          /\ messages' = Append(messages, Message("Decrement", t, TRUE))
          /\ signalled' = TRUE /\ UNCHANGED <<droplock, thread>>
    /\ UNCHANGED <<refcnt, refd, loop, running, where, guard, held, turn, steps, wrong>>

(* go_to_IO_home, away from home: the task is descheduled, and the closure  *)
(* pushes it and signals the loop.                                          *)
GoHome(t) ==
    /\ Away(t) /\ handles[t] > 0 /\ Step
    /\ To(t, "sent") /\ Thread(t, "task")
    /\ messages' = Append(messages, Message("Task", t, FALSE))
    /\ UNCHANGED <<signalled, refcnt, refd, droplock, loop, running, handles, guard, held, turn,
                   wrong>>

(* The second half of a push, by the thread that began it. *)
LinkMessage(t) ==
    /\ thread[t] \in {"increment", "decrement", "task"}
    /\ Thread(t, CASE thread[t] = "increment" -> "none" [] thread[t] = "decrement" -> "signalDrop"
                   [] OTHER -> "signal")
    /\ messages' = [i \in DOMAIN messages |->
                      IF messages[i].task = t THEN Message(messages[i].kind, t, TRUE)
                      ELSE messages[i]]
    /\ UNCHANGED <<signalled, refcnt, refd, droplock, loop, running, where, handles, guard, held,
                   turn, steps, wrong>>

SignalLoop(t) ==
    /\ thread[t] \in {"signal", "signalDrop"} /\ signalled' = TRUE
    /\ Thread(t, IF thread[t] = "signal" THEN "none" ELSE "unlock")
    /\ wrong' = IF loop = "gone" THEN wrong \cup {"send to a closed handle"} ELSE wrong
    /\ UNCHANGED <<messages, refcnt, refd, droplock, loop, running, where, handles, guard, held,
                   turn, steps>>

UnlockDrop(t) ==
    /\ thread[t] = "unlock" /\ Thread(t, "none") /\ droplock' = NoWorker
    /\ UNCHANGED <<messages, signalled, refcnt, refd, loop, running, where, handles, guard, held,
                   turn, steps, wrong>>
-----------------------------------------------------------------------------
(* The loop: async_cb.                                                      *)

AsyncCb ==
    /\ loop = "idle" /\ running = NoWorker /\ signalled
    /\ signalled' = FALSE /\ loop' = "callback"
    /\ UNCHANGED <<messages, refcnt, refd, droplock, running, where, thread, handles, guard,
                   held, turn, steps, wrong>>

PopMessage ==
    LET m == Head(messages)
    IN  /\ loop = "callback" /\ running = NoWorker /\ messages # <<>> /\ m.linked
        /\ messages' = Tail(messages)
        /\ \/ /\ m.kind = "Task" /\ running' = m.task /\ To(m.task, "home")
              /\ UNCHANGED <<refcnt, refd, wrong>>
           \/ /\ m.kind = "Increment" /\ refcnt' = refcnt + 1 /\ refd' = TRUE
              /\ UNCHANGED <<running, where, wrong>>
           \/ /\ m.kind = "Decrement" /\ refcnt' = refcnt - 1 /\ refd' = (refcnt # 1)
              /\ wrong' = IF refcnt = 0 THEN wrong \cup {"refcnt"} ELSE wrong
              /\ UNCHANGED <<running, where>>
        /\ UNCHANGED <<signalled, droplock, loop, thread, handles, guard, held, turn, steps>>

NothingLinked == IF messages = <<>> THEN TRUE ELSE ~Head(messages).linked

(* Mutation: the callback does not wait for a handle that is being dropped. *)
PopNothing_NoWait ==
    /\ loop = "callback" /\ running = NoWorker
    /\ NothingLinked
    /\ loop' = "idle"
    /\ UNCHANGED <<messages, signalled, refcnt, refd, droplock, running, where, thread, handles,
                   guard, held, turn, steps, wrong>>

(* Empty and Inconsistent end the callback; without a reference it waits    *)
(* for the lock, that is for the last drop.                                 *)
PopNothing ==
    /\ loop = "callback" /\ running = NoWorker
    /\ NothingLinked
    /\ refcnt = 0 => droplock = NoWorker
    /\ loop' = "idle"
    /\ UNCHANGED <<messages, signalled, refcnt, refd, droplock, running, where, thread, handles,
                   guard, held, turn, steps, wrong>>

(* The pool shuts its schedulers down when its tasks have ended; the loop   *)
(* ends when nothing refers to it, and is destroyed with its handles.       *)
LoopEnds ==
    /\ loop = "idle" /\ running = NoWorker /\ ~refd
    /\ \A t \in Workers : where[t] = "done"
    /\ loop' = "gone"
    /\ UNCHANGED <<messages, signalled, refcnt, refd, droplock, running, where, thread, handles,
                   guard, held, turn, steps, wrong>>
-----------------------------------------------------------------------------
(* Access: one I/O object that the tasks have clones of.                    *)

(* grant, with the missile in the task's hand. *)
Grant(t) ==
    /\ Resumed(t) /\ handles[t] > 0 /\ t \notin guard /\ Step
    /\ IF held
         THEN /\ turn' = Append(turn, t) /\ To(t, "waiting") /\ running' = NoWorker
              /\ UNCHANGED <<guard, held>>
         ELSE /\ held' = TRUE /\ guard' = guard \cup {t} /\ To(t, "granted")
              /\ UNCHANGED <<turn, running>>
    /\ UNCHANGED <<messages, signalled, refcnt, refd, droplock, loop, thread, handles, wrong>>

(* wait_until_woken_after, and the callback that ends the operation. *)
WaitIo(t) ==
    /\ Resumed(t) /\ where[t] = "granted" /\ running' = NoWorker /\ To(t, "blocked")
    /\ UNCHANGED <<messages, signalled, refcnt, refd, droplock, loop, thread, handles, guard,
                   held, turn, steps, wrong>>

IoDone(t) ==
    /\ loop = "idle" /\ running = NoWorker /\ where[t] = "blocked"
    /\ running' = t /\ To(t, "home")
    /\ UNCHANGED <<messages, signalled, refcnt, refd, droplock, loop, thread, handles, guard,
                   held, turn, steps, wrong>>

(* Mutation: held is reset also when the access is handed on. *)
DropGuard_Reset(t) ==
    /\ Resumed(t) /\ t \in guard
    /\ held' = FALSE
    /\ IF turn = <<>>
         THEN guard' = guard \ {t} /\ To(t, "home") /\ UNCHANGED <<turn, running>>
         ELSE /\ guard' = (guard \ {t}) \cup {Head(turn)} /\ turn' = Tail(turn)
              /\ running' = Head(turn)
              /\ where' = [where EXCEPT ![t] = "ready", ![Head(turn)] = "granted"]
    /\ UNCHANGED <<messages, signalled, refcnt, refd, droplock, loop, thread, handles, steps,
                   wrong>>

(* Guard::drop hands the access to the task that waited longest, which runs *)
(* at once; the other one goes to the work queue.                           *)
DropGuard(t) ==
    /\ Resumed(t) /\ t \in guard
    /\ IF turn = <<>>
         THEN /\ held' = FALSE /\ guard' = guard \ {t} /\ To(t, "home")
              /\ UNCHANGED <<turn, running, wrong>>
         ELSE /\ guard' = (guard \ {t}) \cup {Head(turn)} /\ turn' = Tail(turn)
              /\ running' = Head(turn)
              /\ where' = [where EXCEPT ![t] = "ready", ![Head(turn)] = "granted"]
              /\ wrong' = IF held THEN wrong ELSE wrong \cup {"assert!(inner.held)"}
              /\ UNCHANGED held
    /\ UNCHANGED <<messages, signalled, refcnt, refd, droplock, loop, thread, handles, steps>>
-----------------------------------------------------------------------------
(* What happens without a decision of a task: the loop, and the threads     *)
(* that are in the middle of something.                                     *)
LoopStep ==
    \/ AsyncCb \/ PopMessage \/ PopNothing \/ LoopEnds
    \/ \E t \in Workers : RunTask(t) \/ IoDone(t)
ThreadStep(t) == LinkMessage(t) \/ SignalLoop(t) \/ UnlockDrop(t)

TaskStep(t) ==
    \/ Leave(t) \/ Steal(t) \/ Finish(t) \/ MakeHandle(t) \/ Clone(t) \/ DropHandle(t)
    \/ GoHome(t) \/ Grant(t) \/ WaitIo(t) \/ DropGuard(t)

HomingOver == loop = "gone" /\ UNCHANGED homingvars

HomingNext ==
    \/ LoopStep
    \/ \E t \in Workers : ThreadStep(t) \/ TaskStep(t)
    \/ HomingOver

(* Threads are scheduled by the system, and the loop runs while it has      *)
(* something to do.  A task that runs on the loop's thread gives it back.   *)
HomingFairness ==
    /\ WF_homingvars(LoopStep)
    /\ \A t \in Workers : WF_homingvars(ThreadStep(t)) /\ WF_homingvars(running = t /\ TaskStep(t))

HomingSpec == HomingInit /\ [][HomingNext]_homingvars /\ HomingFairness

(* If moreover the tasks do not stay away for ever with what they hold.     *)
TasksEnd == \A t \in Workers : WF_homingvars(TaskStep(t))
-----------------------------------------------------------------------------
HomingTypeOK ==
    /\ \A i \in DOMAIN messages :
         messages[i] \in [kind : {"Task", "Increment", "Decrement"}, task : Workers, linked : BOOLEAN]
    /\ refcnt \in Nat /\ {signalled, refd, held} \subseteq BOOLEAN
    /\ droplock \in Workers \cup {NoWorker} /\ running \in Workers \cup {NoWorker}
    /\ where \in [Workers -> {"ready", "home", "away", "sent", "waiting", "granted", "blocked",
                           "done"}]
    /\ handles \in [Workers -> 0..MaxHandles] /\ guard \subseteq Workers

Queued(kind) == Cardinality({i \in DOMAIN messages : messages[i].kind = kind})
AllHandles == {h \in Workers \X (1..MaxHandles) : h[2] <= handles[h[1]]}

(* With the types: the count of the loop (queue.rs) and the messages on     *)
(* their way to it make up the handles there are, and while a task has one  *)
(* the loop is referenced, so that a homing operation finds it: "This       *)
(* handle will keep the event loop alive while active" (homing.rs:44).      *)
LoopKept ==
    /\ HomingTypeOK
    /\ refcnt + Queued("Increment") - Queued("Decrement") = Cardinality(AllHandles)
    /\ refd = (refcnt > 0)
    /\ (\E t \in Workers : handles[t] > 0) => refd /\ loop # "gone"

(* When async_cb returns without a reference, nobody is still using the     *)
(* handle of the loop ("no longer any senders which are holding on to their *)
(* handles", queue.rs:100), whoever dropped the last handle and wherever    *)
(* its thread is; and no message is left behind.                            *)
SendersDone ==
    loop = "gone" \/ (loop = "idle" /\ ~refd) =>
        messages = <<>> /\ \A t \in Workers : thread[t] = "none"

(* The guard of access.rs is exclusive, and held says so while it is handed *)
(* from task to task; who waits keeps the place it came to; the assertions  *)
(* of grant and of the drops hold; a task has the guard only at home.       *)
AccessExclusive ==
    /\ Cardinality(guard) <= 1 /\ held = (guard # {}) /\ (turn # <<>> => held)
    /\ \A t \in guard : where[t] \in {"home", "granted", "blocked"}
    /\ \A t \in Workers : where[t] = "waiting" <=> \E i \in DOMAIN turn : turn[i] = t
    /\ wrong = {}
    /\ (\A t \in Workers : handles[t] = 0) => ~held

(* A task that was sent home gets there, as homing.rs:45 says: "to ensure   *)
(* that a homing operation can always be completed".                        *)
HomingCompletes == \A t \in Workers : (where[t] = "sent") ~> (where[t] # "sent")
=============================================================================
