-------------------------------- MODULE Sched --------------------------------
(***************************************************************************)
(* A pool of green schedulers: src/src/libgreen/sched.rs, sleeper_list.rs, *)
(* message_queue.rs and the SchedPool of lib.rs, on the event loop of      *)
(* basic.rs or on that of librustuv.  It is about who runs, who sleeps and *)
(* who wakes whom: the tasks only start, yield, block, wake one another,   *)
(* spawn and end, and no I/O is active.  A work queue is a sequence here   *)
(* (its steps are in module Deque), and so is a message queue, of which    *)
(* the two steps of a push are kept: a message that is not linked yet      *)
(* hides itself and those behind it.                                       *)
(***************************************************************************)
EXTENDS Integers, Sequences, FiniteSets, SequencesExt

CONSTANTS Scheds,   \* the schedulers there may be
          Tasks,    \* the tasks there may be
          None,
          Setups    \* the pools there may be, see Init

ASSUME SchedAssumption == Scheds \cap Tasks = {} /\ None \notin Scheds \cup Tasks

VARIABLES
    evloop,    \* the event loop this pool uses
    sch,       \* the schedulers
    msgs,      \* their message queues
    asyncs,    \* pending calls and removals of remote callbacks, per scheduler
    wq,        \* their work queues, oldest task first
    known,     \* the work queues each may steal from
    sleepers,  \* the sleeper list
    snd,       \* the SchedHandle::send each thread is in
    where,     \* where each task is
    home,      \* its home, None for AnySched
    handle,    \* the scheduler its handle is for
    cnt,       \* TaskState: tasks started and not ended
    done,      \* TaskState: messages in tasks_done
    pool,      \* the pool's owner
    ops,       \* how much owner and tasks may still do beside ending
    cut,       \* ghost: schedulers that went idle beside a message, see Sleep
    fails      \* the assertions that failed

loops == <<evloop, asyncs>>
tasks == <<where, home, handle, cnt, done, ops>>
queues == <<wq, known, sleepers>>
vars == <<evloop, sch, msgs, asyncs, wq, known, sleepers, snd, where, home,
          handle, cnt, done, pool, ops, cut, fails>>

(* The threads that send messages: schedulers, the owner of the pool, and   *)
(* one outside the pool that wakes blocked tasks.                           *)
Owner == "owner"
Outside == "outside"
Threads == Scheds \cup {Owner, Outside}
NoSend == [stage |-> "none"]
Free(p) == snd[p] = NoSend

Check(cond, site) == fails' = IF cond THEN fails ELSE fails \cup {site}
Live == {s \in Scheds : sch[s].pc # "unborn"}
Gone(s) == sch[s].pc = "gone"
NewTask == CHOOSE t \in Tasks : where[t] = "new"
Does == ops > 0 /\ ops' = ops - 1

(* A scheduler as its thread enters bootstrap: the idle callback is active; *)
(* and one that has found nothing to do and gone to sleep.                  *)
NewSched(remotes) ==
    [pc |-> "loop", sleepy |-> FALSE, no_sleep |-> FALSE, idle |-> TRUE,
     steal |-> FALSE, remotes |-> remotes, batch |-> 0, closing |-> FALSE,
     back |-> "loop", cur |-> None, ret |-> "work"]

Asleep(remotes) == [NewSched(remotes) EXCEPT !.sleepy = TRUE, !.idle = FALSE]

(* A pool at rest: the event loop it uses ("basic" or "uv"), its schedulers *)
(* in order, the order in which they went to sleep, the tasks that have not *)
(* started yet, those that are blocked and the scheduler these are pinned   *)
(* to (with a handle each for the way home and for the wake-up), and the    *)
(* bound on what owner and tasks do.  How a scheduler starts is part of     *)
(* spawn_sched, below.                                                      *)
Init ==
    /\ \E p \in Setups :
          LET started == Range(p.handles)
              remotes(s) == 2 + (IF s = p.home THEN 2 * Cardinality(p.blocked) ELSE 0)
              pinned == [t \in Tasks |-> IF t \in p.blocked THEN p.home ELSE None]
          IN  /\ evloop = p.evloop /\ ops = p.ops
              /\ where = [t \in Tasks |-> IF t \in p.tasks THEN "new"
                                          ELSE IF t \in p.blocked THEN "blocked"
                                          ELSE "dead"]
              /\ home = pinned /\ handle = pinned /\ cnt = Cardinality(p.blocked)
              /\ sch = [s \in Scheds |->
                          IF s \in started THEN Asleep(remotes(s))
                          ELSE [NewSched(0) EXCEPT !.pc = "unborn"]]
              /\ known = [s \in Scheds |-> started]
              /\ sleepers = p.sleepers
              /\ pool = [pc |-> "up", handles |-> p.handles, next |-> 1, todo |-> <<>>,
                         ret |-> None]
    /\ msgs = [s \in Scheds |-> <<>>] /\ asyncs = [s \in Scheds |-> <<>>]
    /\ wq = [s \in Scheds |-> <<>>]
    /\ snd = [p \in Threads |-> NoSend] /\ done = 0
    /\ cut = {} /\ fails = {}

-----------------------------------------------------------------------------
(* SchedHandle::send: push the message (two steps), fire the callback, and  *)
(* drop the handle when the sender is done with it.                         *)

(* A handle is named by what it is for; one of the sleeper list by whoever  *)
(* took it off the list.                                                    *)
Handle(kind, x) == <<kind, x>>

(* The message is by its sender until it is linked. *)
Send(p, to, kind, arg, h, drop) ==
    /\ msgs' = [msgs EXCEPT ![to] = Append(@, [kind |-> kind, arg |-> arg, by |-> p])]
    /\ snd' = [snd EXCEPT ![p] = [stage |-> "link", to |-> to, h |-> h, drop |-> drop]]

SendLink(p) ==
    /\ snd[p].stage = "link"
    /\ snd' = [snd EXCEPT ![p].stage = "fire"]
    /\ msgs' = [msgs EXCEPT ![snd[p].to] =
                  [i \in DOMAIN @ |-> IF @[i].by = p THEN [@[i] EXCEPT !.by = None]
                                      ELSE @[i]]]
    /\ UNCHANGED <<loops, sch, queues, tasks, pool, cut, fails>>

(* RemoteCallback::fire.  uv_async_send does nothing when the callback of   *)
(* the same handle is pending already.                                      *)
(* Mutant: not when anything is pending. *)
Fired_Once(as, h) == IF as # <<>> THEN as ELSE <<<<None, "run">>>>
Fired(as, h) ==
    IF evloop = "basic" THEN Append(as, <<None, "run">>)
    ELSE IF \E i \in DOMAIN as : as[i] = <<h, "run">> THEN as
    ELSE Append(as, <<h, "run">>)

(* The drop of a handle.  A uv handle is called once more and then closed.  *)
Dropped(as, h) ==
    IF evloop = "basic" THEN Append(as, <<None, "remove">>)
    ELSE IF \E i \in DOMAIN as : as[i] = <<h, "run">>
         THEN [i \in DOMAIN as |-> IF as[i] = <<h, "run">> THEN <<h, "exit">> ELSE as[i]]
         ELSE Append(as, <<h, "exit">>)

(* No one else uses a handle that is dropped, so the removal follows the    *)
(* fire at once.                                                            *)
SendFire(p) ==
    LET m == snd[p]
    IN  /\ m.stage = "fire"
        /\ asyncs' = [asyncs EXCEPT ![m.to] =
                        IF m.drop THEN Dropped(Fired(@, m.h), m.h) ELSE Fired(@, m.h)]
        /\ snd' = [snd EXCEPT ![p] = NoSend]
        /\ Check(~Gone(m.to), "fire")
        /\ UNCHANGED <<evloop, sch, msgs, queues, tasks, pool, cut>>

-----------------------------------------------------------------------------
(* The event loop of a scheduler.                                           *)

At(s, l) == sch[s].pc = l /\ Free(s)
Set(s, fields) == sch' = [sch EXCEPT ![s] = fields @@ @]

(* The head of the loop, where it starts and comes back to when nothing     *)
(* idles.                                                                   *)
AtHead(s) ==
    /\ Free(s)
    /\ \/ sch[s].pc = "loop"
       \/ sch[s].pc = "batch" /\ sch[s].batch = 0 /\ ~sch[s].idle

(* remote_work: the callbacks that were pending at the head of the loop,    *)
(* one after the other.  With none the thread waits (hold_and_wait).        *)
Remaining(s) == IF AtHead(s) THEN Len(asyncs[s]) ELSE sch[s].batch
Pending(s, kinds) ==
    /\ AtHead(s) \/ At(s, "batch")
    /\ Remaining(s) > 0 /\ Head(asyncs[s])[2] \in kinds
Callback(s) == Pending(s, {"run", "exit"})

(* The idle callback, when it is active, after the remote ones. *)
IdleTurn(s) ==
    /\ Free(s) /\ sch[s].idle
    /\ \/ sch[s].pc = "loop" /\ asyncs[s] = <<>>
       \/ sch[s].pc = "batch" /\ sch[s].batch = 0

RemoveRemote(s) ==
    /\ Pending(s, {"remove"})
    /\ asyncs' = [asyncs EXCEPT ![s] = Tail(@)]
    /\ Set(s, [pc |-> "batch", batch |-> Remaining(s) - 1, remotes |-> sch[s].remotes - 1])
    /\ UNCHANGED <<evloop, msgs, queues, snd, tasks, pool, cut, fails>>

(* bootstrap, after its event loop has ended. *)
Exit(s) ==
    /\ AtHead(s) /\ sch[s].remotes = 0 /\ ~sch[s].idle
    /\ Check(msgs[s] = <<>>, "bootstrap")
    /\ Set(s, [pc |-> "gone"])
    /\ UNCHANGED <<loops, msgs, queues, snd, tasks, pool, cut>>

-----------------------------------------------------------------------------
(* run_sched_once.  A callback first looks at the message queue, and then   *)
(* after every look for work: "best" when that has found some, which makes  *)
(* for another round, or "work" with nothing to find, where the message     *)
(* decides.  A steal may fail whatever the queues hold (deque::Abort).      *)

Looks(s) ==
    \/ Callback(s) \/ IdleTurn(s) \/ At(s, "best")
    \/ At(s, "work") /\ wq[s] = <<>>
Got(s, kinds) ==
    /\ Looks(s)
    /\ msgs[s] # <<>> /\ Head(msgs[s]).by = None /\ Head(msgs[s]).kind \in kinds

(* The scheduler takes the message and goes on with the fields given.  A    *)
(* callback resumes the idle callback; find_work, which has failed at       *)
(* "work", has reset steal_for_yield.                                       *)
Look(s, fields) ==
    /\ asyncs' = IF Callback(s) THEN [asyncs EXCEPT ![s] = Tail(@)] ELSE asyncs
    /\ Set(s, fields @@ [steal |-> sch[s].steal /\ sch[s].pc # "work"] @@
              IF Callback(s)
              THEN [batch |-> Remaining(s) - 1, back |-> "batch", idle |-> TRUE,
                    closing |-> Head(asyncs[s])[2] = "exit"]
              ELSE IF IdleTurn(s) THEN [back |-> "loop", closing |-> FALSE]
              ELSE [idle |-> TRUE])
    /\ UNCHANGED evloop
Popped(s) == msgs' = [msgs EXCEPT ![s] = Tail(@)]
Ends(s) == sch[s].pc = "work"
Unworked(s) == [pc |-> IF Ends(s) THEN "sleep" ELSE "work"]

(* No message, or one that is not linked yet: msgq::Inconsistent. *)
GetNothing(s) ==
    /\ Looks(s)
    /\ msgs[s] # <<>> => Head(msgs[s]).by # None
    /\ Look(s, Unworked(s))
    /\ cut' = cut \ {s}
    /\ UNCHANGED <<msgs, queues, snd, tasks, pool, fails>>

(* A new neighbour does not count as work: it can end the round although    *)
(* there are messages behind it, which cut records.                         *)
GetNewNeighbor(s) ==
    /\ Got(s, {"NewNeighbor"}) /\ Popped(s)
    /\ known' = [known EXCEPT ![s] = @ \cup {Head(msgs[s]).arg}]
    /\ Look(s, Unworked(s))
    /\ cut' = IF Ends(s) /\ Len(msgs[s]) > 1 THEN cut \cup {s} ELSE cut \ {s}
    /\ UNCHANGED <<wq, sleepers, snd, tasks, pool, fails>>

GetWake(s) ==
    /\ Got(s, {"Wake"}) /\ Popped(s)
    /\ Look(s, [pc |-> "work", sleepy |-> FALSE])
    /\ cut' = cut \ {s}
    /\ UNCHANGED <<queues, snd, tasks, pool, fails>>

GetShutdown(s) ==
    /\ Got(s, {"Shutdown"}) /\ Popped(s)
    /\ Look(s, IF sch[s].sleepy THEN [pc |-> "drain"]
               ELSE [pc |-> "work", no_sleep |-> TRUE])
    /\ cut' = cut \ {s}
    /\ UNCHANGED <<queues, snd, tasks, pool, fails>>

(* Shutdown of a sleepy scheduler: wake everyone on the sleeper list. *)
DrainSleepers(s) ==
    /\ At(s, "drain")
    /\ IF sleepers # <<>>
         THEN /\ sleepers' = Tail(sleepers)
              /\ Send(s, Head(sleepers), "Wake", None, Handle("sleep", s), TRUE)
              /\ UNCHANGED sch
         ELSE /\ Set(s, [pc |-> "work", no_sleep |-> TRUE, sleepy |-> FALSE])
              /\ UNCHANGED <<sleepers, msgs, snd>>
    /\ UNCHANGED <<loops, wq, known, tasks, pool, cut, fails>>

(* Let task t run; the scheduler goes on at ret when it gets back control.  *)
(* A task that starts counts itself.                                        *)
RunFields(t, ret) == [pc |-> "run", cur |-> t, ret |-> ret]
Started(t) ==
    /\ where' = [where EXCEPT ![t] = "running"]
    /\ cnt' = IF where[t] = "fresh" THEN cnt + 1 ELSE cnt

(* process_task finds a task that belongs elsewhere: send_task_home.        *)
Elsewhere(s, t) == home[t] \notin {None, s}
SendTaskHome(s, t) ==
    Send(s, home[t], "PinnedTask", t, Handle("home", t), TRUE)

(* The tasks that pool.spawn sends have no home, so that process_task lets  *)
(* them run; RunOnce bypasses it.                                           *)
GetTask(s) ==
    LET t == Head(msgs[s]).arg
    IN  /\ Got(s, {"TaskFromFriend", "RunOnce"}) /\ Popped(s)
        /\ Look(s, RunFields(t, "work")) /\ Started(t)
        /\ cut' = cut \ {s}
        /\ UNCHANGED <<queues, snd, home, handle, done, ops, pool, fails>>

(* A pinned task is given a new handle of its home. *)
GetPinnedTask(s) ==
    LET t == Head(msgs[s]).arg
    IN  /\ Got(s, {"PinnedTask"}) /\ Popped(s)
        /\ home' = [home EXCEPT ![t] = s]
        /\ Look(s, [remotes |-> sch[s].remotes + 1] @@ RunFields(t, "work")) /\ Started(t)
        /\ cut' = cut \ {s}
        /\ UNCHANGED <<queues, snd, handle, done, ops, pool, fails>>

(* do_work with the task that find_work took from the queue of x. *)
DoWork(s, x, t) ==
    /\ wq' = [wq EXCEPT ![x] = SelectSeq(@, LAMBDA u : u # t)]
    /\ IF Elsewhere(s, t)
         THEN /\ SendTaskHome(s, t)
              /\ Set(s, [pc |-> "best", steal |-> FALSE])
              /\ UNCHANGED <<where, cnt>>
         ELSE /\ Set(s, [steal |-> FALSE] @@ RunFields(t, "best"))
              /\ Started(t)
              /\ UNCHANGED <<msgs, snd>>
    /\ UNCHANGED <<loops, known, sleepers, home, handle, done, ops, pool, cut, fails>>

(* find_work: the own queue first, from its newest end ... *)
FindLocal(s) ==
    /\ At(s, "work") /\ wq[s] # <<>>
    /\ DoWork(s, s, Last(wq[s]))

(* ... else, or when a task has just yielded, a steal from any known queue  *)
(* (its own is one of them).                                                *)
TrySteals(s) ==
    /\ At(s, "work") /\ (sch[s].steal \/ wq[s] = <<>>)
    /\ \E x \in known[s] : wq[x] # <<>> /\ DoWork(s, x, Head(wq[x]))

(* The end of a round that did nothing: go on the sleeper list, once, and   *)
(* pause.  A uv handle that was dropped is closed after its last callback.  *)
Slept(s, new, idle) ==
    /\ At(s, "sleep")
    /\ sleepers' = IF new THEN Append(sleepers, s) ELSE sleepers
    /\ Set(s, [pc |-> sch[s].back, back |-> "loop", closing |-> FALSE,
               sleepy |-> sch[s].sleepy \/ new, idle |-> idle,
               remotes |-> sch[s].remotes + (IF new THEN 1 ELSE 0)
                             - (IF sch[s].closing THEN 1 ELSE 0)])
    /\ UNCHANGED <<loops, msgs, wq, known, snd, tasks, pool, cut, fails>>

(* Mutants: on the list whenever there is nothing to do; and no pause when  *)
(* the scheduler does not go on the list.                                   *)
Sleep_Again(s) == Slept(s, ~sch[s].no_sleep, FALSE)
Sleep_NoPause(s) ==
    LET new == ~sch[s].sleepy /\ ~sch[s].no_sleep IN Slept(s, new, ~new)
Sleep(s) == Slept(s, ~sch[s].sleepy /\ ~sch[s].no_sleep, FALSE)

-----------------------------------------------------------------------------
(* The running task.                                                        *)

Running(s) == sch[s].cur

(* A task that was resumed first bounces on its nasty_deschedule_lock,      *)
(* which reawaken_remotely holds while it sends the task.                   *)
(* Mutant: it does not. *)
Resumed_NoBounce(s) == At(s, "run")
Resumed(s) ==
    /\ At(s, "run")
    /\ snd[Outside] # NoSend => snd[Outside].h # Handle("task", Running(s))
Act(s) == Resumed(s) /\ Does

(* enqueue_task: queue t, stay active, and wake one sleeping scheduler. *)
EnqueueTask(s, t) ==
    /\ wq' = [wq EXCEPT ![s] = Append(@, t)]
    /\ IF sleepers = <<>> THEN UNCHANGED <<sleepers, msgs, snd>>
       ELSE /\ sleepers' = Tail(sleepers)
            /\ Send(s, Head(sleepers), "Wake", None, Handle("sleep", s), TRUE)

YieldNow(s) ==
    /\ Act(s)
    /\ Set(s, [pc |-> sch[s].ret, ret |-> "work", cur |-> None, steal |-> TRUE, idle |-> TRUE])
    /\ where' = [where EXCEPT ![Running(s)] = "ready"]
    /\ EnqueueTask(s, Running(s))
    /\ UNCHANGED <<loops, known, home, handle, cnt, done, pool, cut, fails>>

(* deschedule: the first time the task keeps a handle of this scheduler. *)
Deschedule(s) ==
    LET t == Running(s)
        first == handle[t] = None
    IN  /\ Act(s)
        /\ handle' = [handle EXCEPT ![t] = IF first THEN s ELSE @]
        /\ Set(s, [pc |-> sch[s].ret, ret |-> "work", cur |-> None,
                   remotes |-> sch[s].remotes + (IF first THEN 1 ELSE 0)])
        /\ where' = [where EXCEPT ![t] = "blocked"]
        /\ UNCHANGED <<loops, msgs, queues, snd, home, cnt, done, pool, cut, fails>>

(* ... and the closure that would publish the task may give it back. *)
DescheduleRefused(s) ==
    LET t == Running(s)
        first == handle[t] = None
    IN  /\ Act(s)
        /\ handle' = [handle EXCEPT ![t] = IF first THEN s ELSE @]
        /\ Set(s, [pc |-> sch[s].ret, ret |-> "work", cur |-> None, idle |-> TRUE,
                   remotes |-> sch[s].remotes + (IF first THEN 1 ELSE 0)])
        /\ where' = [where EXCEPT ![t] = "ready"]
        /\ EnqueueTask(s, t)
        /\ UNCHANGED <<loops, known, home, cnt, done, pool, cut, fails>>

(* run_task, by reawaken or spawn_sibling: switch to u and queue the        *)
(* running task, unless u has its home elsewhere.                           *)
RunTask(s, u) ==
    LET t == Running(s)
    IN  /\ Act(s) /\ where[u] \in {"blocked", "new"}
        /\ where[u] = "new" => u = NewTask
        /\ IF Elsewhere(s, u)
             THEN /\ SendTaskHome(s, u)
                  /\ where' = [where EXCEPT ![u] = "ready"]
                  /\ UNCHANGED <<sch, wq, sleepers, cnt>>
             ELSE /\ Set(s, [cur |-> u, idle |-> TRUE])
                  /\ where' = [where EXCEPT ![t] = "ready", ![u] = "running"]
                  /\ cnt' = IF where[u] = "new" THEN cnt + 1 ELSE cnt
                  /\ EnqueueTask(s, t)
        /\ UNCHANGED <<loops, known, home, handle, done, pool, cut, fails>>

(* terminate_current_task: count the task out and drop it with the handles  *)
(* it has.                                                                  *)
Terminate(s) ==
    LET t == Running(s)
        D(as, x, kind, owner) == IF owner = x THEN Dropped(as, Handle(kind, t)) ELSE as
    IN  /\ Resumed(s)
        /\ Set(s, [pc |-> sch[s].ret, ret |-> "work", cur |-> None])
        /\ where' = [where EXCEPT ![t] = "dead"]
        /\ cnt' = cnt - 1
        /\ done' = IF cnt = 1 THEN done + 1 ELSE done
        /\ asyncs' = [x \in Scheds |-> D(D(asyncs[x], x, "home", home[t]), x, "task", handle[t])]
        /\ home' = [home EXCEPT ![t] = None] /\ handle' = [handle EXCEPT ![t] = None]
        /\ UNCHANGED <<evloop, msgs, queues, snd, ops, pool, cut, fails>>

(* reawaken_remotely, by a thread outside the pool. *)
ReawakenRemotely(t) ==
    /\ Free(Outside) /\ where[t] = "blocked"
    /\ where' = [where EXCEPT ![t] = "ready"]
    /\ Send(Outside, handle[t], "RunOnce", t, Handle("task", t), FALSE)
    /\ UNCHANGED <<loops, sch, queues, home, handle, cnt, done, ops, pool, cut, fails>>

-----------------------------------------------------------------------------
(* SchedPool, used by its owner.                                            *)

Owns(l) == pool.pc = l /\ Free(Owner)

(* spawn, to the schedulers in turn; and a task pinned to the scheduler     *)
(* that spawn_sched has returned.                                           *)
Spawn(t) ==
    /\ Owns("up") /\ where[t] = "new" /\ t = NewTask /\ Does
    /\ where' = [where EXCEPT ![t] = "fresh"]
    /\ \/ LET s == pool.handles[pool.next]
          IN  /\ Send(Owner, s, "TaskFromFriend", t, Handle("pool", s), FALSE)
              /\ pool' = [pool EXCEPT !.next = (@ % Len(pool.handles)) + 1]
       \/ /\ pool.ret # None
          /\ Send(Owner, pool.ret, "PinnedTask", t, Handle("ret", pool.ret), FALSE)
          /\ UNCHANGED pool
    /\ UNCHANGED <<loops, sch, queues, home, handle, cnt, done, cut, fails>>

(* The owner keeps the handle that spawn_sched returned until it starts     *)
(* another scheduler or shuts down (while it has it, the scheduler "will    *)
(* not exit").                                                              *)
RetDropped ==
    asyncs' = IF pool.ret = None THEN asyncs
              ELSE [asyncs EXCEPT ![pool.ret] = Dropped(@, Handle("ret", pool.ret))]

(* spawn_sched: tell every scheduler of the new queue, then start x. *)
SpawnSched(x) ==
    /\ Owns("up") /\ sch[x].pc = "unborn" /\ Does
    /\ pool' = [pool EXCEPT !.pc = "neighbors", !.todo = pool.handles, !.ret = x]
    /\ RetDropped
    /\ UNCHANGED <<evloop, sch, msgs, queues, snd, where, home, handle, cnt, done, cut, fails>>

TellNext(l, kind, arg, drop) ==
    LET s == Head(pool.todo)
    IN  /\ Owns(l) /\ pool.todo # <<>>
        /\ pool' = [pool EXCEPT !.todo = Tail(@)]
        /\ Send(Owner, s, kind, arg, Handle("pool", s), drop)
        /\ UNCHANGED <<loops, sch, queues, tasks, cut, fails>>
TellNeighbor == TellNext("neighbors", "NewNeighbor", pool.ret, FALSE)

StartSched ==
    /\ Owns("neighbors") /\ pool.todo = <<>>
    /\ sch' = [sch EXCEPT ![pool.ret] = NewSched(2)]
    /\ known' = [known EXCEPT ![pool.ret] = Live \cup {pool.ret}]
    /\ pool' = [pool EXCEPT !.pc = "up", !.handles = Append(@, pool.ret)]
    /\ UNCHANGED <<loops, msgs, wq, sleepers, snd, tasks, cut, fails>>

Shutdown ==
    /\ Owns("up")
    /\ pool' = [pool EXCEPT !.pc = "wait", !.ret = None]
    /\ RetDropped
    /\ UNCHANGED <<evloop, sch, msgs, queues, snd, tasks, cut, fails>>

(* while active() { tasks_done.recv() } *)
AwaitTasks ==
    /\ Owns("wait")
    /\ IF cnt # 0 THEN done > 0 /\ done' = done - 1 /\ UNCHANGED pool
       ELSE pool' = [pool EXCEPT !.pc = "tell", !.todo = pool.handles, !.handles = <<>>] /\ UNCHANGED done
    /\ UNCHANGED <<loops, sch, msgs, queues, snd, where, home, handle, cnt, ops, cut, fails>>

TellShutdown == TellNext("tell", "Shutdown", None, TRUE)

(* Every thread is joined; the doc says that every task has exited then. *)
Join ==
    /\ Owns("tell") /\ pool.todo = <<>> /\ \A s \in Live : Gone(s)
    /\ pool' = [pool EXCEPT !.pc = "down"]
    /\ Check(\A t \in Tasks : where[t] \in {"new", "dead"}, "shutdown")
    /\ UNCHANGED <<loops, sch, msgs, queues, snd, tasks, cut>>

-----------------------------------------------------------------------------

SchedStep(s) ==
    \/ RemoveRemote(s) \/ Exit(s)
    \/ GetNothing(s) \/ GetNewNeighbor(s) \/ GetWake(s) \/ GetShutdown(s)
    \/ DrainSleepers(s) \/ GetTask(s) \/ GetPinnedTask(s)
    \/ FindLocal(s) \/ TrySteals(s) \/ Sleep(s)
    \/ YieldNow(s) \/ Deschedule(s) \/ DescheduleRefused(s) \/ Terminate(s)
    \/ \E u \in Tasks : RunTask(s, u)
SendStep(p) == SendLink(p) \/ SendFire(p)
OwnerStep ==
    \/ TellNeighbor \/ StartSched \/ AwaitTasks \/ TellShutdown \/ Join
OwnerCall ==
    \/ \E t \in Tasks : Spawn(t)
    \/ \E x \in Scheds : SpawnSched(x)
    \/ Shutdown
Down == pool.pc = "down" /\ UNCHANGED vars

System ==
    \/ \E s \in Scheds : SchedStep(s)
    \/ \E p \in Threads : SendStep(p)
    \/ \E t \in Tasks : ReawakenRemotely(t)
    \/ OwnerStep
Next == System \/ OwnerCall \/ Down

(* Some thread that can go on does (and a blocked task is woken from        *)
(* outside), and the owner's thread is not starved.  This is less than      *)
(* fairness to each thread, and enough: a scheduler with nothing to do      *)
(* stops, unless another one that drains the sleeper list wakes it again    *)
(* and again, until the owner has told it to shut down too.  Nothing makes  *)
(* the owner spawn or shut down.                                            *)
Spec ==
    /\ Init /\ [][Next]_vars /\ WF_vars(System)
    /\ WF_vars(OwnerStep \/ SendStep(Owner))

-----------------------------------------------------------------------------

PCs == {"unborn", "loop", "batch", "work", "best", "drain", "run",
        "sleep", "gone"}

(* The types of the state of schedulers, tasks and pool. *)
TypeOK ==
    /\ \A s \in Scheds :
          /\ sch[s].pc \in PCs /\ sch[s].cur \in Tasks \cup {None}
          /\ sch[s].remotes \in Nat /\ sch[s].batch \in 0..Len(asyncs[s])
          /\ wq[s] \in Seq(Tasks) /\ known[s] \in SUBSET Scheds
    /\ sleepers \in Seq(Scheds) /\ cnt \in 0..Cardinality(Tasks) /\ done \in Nat
    /\ where \in [Tasks -> {"new", "fresh", "ready", "running", "blocked", "dead"}]
    /\ home \in [Tasks -> Scheds \cup {None}] /\ handle \in [Tasks -> Scheds \cup {None}]

(* No assertion fails: a scheduler that leaves its event loop has an empty  *)
(* message queue (sched.rs:220), a message never goes to one that has left  *)
(* (the handle would name a callback that is gone, an unreachable!() of     *)
(* basic.rs), and shutdown returns when every task has exited.              *)
NoAssertionFails == fails = {}

(* With the types: a scheduler is sleepy exactly while one handle of its is *)
(* on the sleeper list or one Wake is on its way to it, until it is shut    *)
(* down.  So the list, whose push is asserted to succeed (sleeper_list.rs,  *)
(* 28), never holds more than one handle for each scheduler.                *)
Tokens(s) ==
    Len(SelectSeq(sleepers, LAMBDA x : x = s))
      + Len(SelectSeq(msgs[s], LAMBDA m : m.kind = "Wake"))
SleeperExact ==
    /\ TypeOK
    /\ \A s \in Scheds : IF sch[s].no_sleep THEN Tokens(s) <= 1
                         ELSE Tokens(s) = (IF sch[s].sleepy THEN 1 ELSE 0)

(* A scheduler with a message will look at its queue: it is awake, a        *)
(* callback is pending, or the sender is yet to fire one.                   *)
WillSee(s) ==
    msgs[s] # <<>> =>
        \/ sch[s].idle
        \/ \E i \in DOMAIN asyncs[s] : asyncs[s][i][2] # "remove"
        \/ \E p \in Threads : snd[p] # NoSend /\ snd[p].to = s

(* A scheduler that is sent a task or told to shut down "will guaranteed    *)
(* wake up and see its message at some point" (sched.rs:371).               *)
MessageSeen ==
    \A s \in Scheds :
        (\E i \in DOMAIN msgs[s] : msgs[s][i].kind # "NewNeighbor") => WillSee(s)

(* No work is left lying: a message is seen, unless a new neighbour has cut *)
(* the round short; the scheduler whose queue holds a task is awake; and a  *)
(* pinned task runs at home.                                                *)
Covered ==
    \A s \in Scheds :
        /\ s \in cut \/ WillSee(s)
        /\ wq[s] # <<>> => sch[s].idle
        /\ sch[s].pc = "run" => home[sch[s].cur] \in {None, s}

(* spawn_sched and shutdown return, unless a new neighbour has cut a round  *)
(* short: every task ends, every scheduler is told and leaves its loop.     *)
PoolStops == []<>(pool.pc \in {"up", "down"} \/ cut # {})
=============================================================================
