# The concurrent runtime of Rust, in TLA+

This directory models the part of the repository whose correctness depends on
interleavings: the channels of `std::comm`, the way tasks block and are woken,
the lock-free queues, the locks of `libsync`, the M:N scheduler of `libgreen`,
the way green tasks share the I/O of an event loop, and the timers of native
tasks. The modules are TLA+ specifications translated from the code; TLC checks
them on small instances, among them that each queue implements an abstract FIFO
queue, and TLAPS proves, for every value of the constants, the safety of the
oneshot, stream and bounded channels, of select, of the locks of `raw.rs` and
`lock.rs`, and of the homing of green tasks. Paths below are relative to
`src/src/`.

`PROJECT.json` is the index: components, runs, the source lines of every
definition (`map`), a mutation that breaks each property (`mutants`), findings,
hazards and theorems.

    tlc -config MCComm.cfg MCComm      # a run: module and configuration
    tlapm LocksProofs.tla              # proofs

## 1. The system

    user tasks
      |  Sender/Receiver, Select            Mutex, RWLock, Barrier, Once    I/O, timers
      v                                       v                               |
    comm: oneshot -> stream -> shared, sync   libsync: lock -> raw -> mutex, one
      |  deschedule / reawaken, BlockedTask   |
      v                                       v
    libnative task (one OS thread)     libgreen task
                                              |
                                       sched, sleeper_list, deque, message queue
                                              |
                                       event loop: basic or librustuv
                                              (homing, access; native: timer helper)

| Part | State | Operations | What is hard |
|------|-------|------------|--------------|
| Oneshot channel, `libstd/comm/oneshot.rs` | one atomic word (tag or blocked task), data slot, upgrade slot | send, recv, try_recv, upgrade, both drops, select | plain fields shared without a lock; two parties that may both want to wake the receiver; upgrade while the receiver sleeps |
| Stream channel, `stream.rs` | SPSC queue, `cnt`, `steals`, `to_wake`, `port_dropped` | send, upgrade, recv, try_recv, drops, select | a counter that lags the queue; sleeping against sending; write-off of steals; drop against send |
| Shared channel, `shared.rs` | the same over an MPSC queue, plus `channels`, `sender_drain`, `select_lock` | the same, clone, inherit_blocker | inconsistent queue, senders draining for a dead port, a blocked task inherited by a half-built packet |
| Bounded channel, `sync.rs` | a `State` under a mutex: buffer, queue of senders, blocker, cancellation | send, try_send, recv, try_recv, drops, select | capacity 0 handshakes, cancelled senders, who is woken |
| Select and blocking, `select.rs`, `rt/task.rs`, `libnative/task.rs`, `libgreen/task.rs` | handle list, shared wake-up word, `awoken` | wait, recv, deschedule, reawaken | one task with handles on many ports; wake-ups under way when select has returned |
| Deque, `libstd/sync/deque.rs` | `bottom`, `top`, `array`, pooled buffers | push, pop, steal, grow, shrink | the last item; stealers that sleep through a swap of the buffer |
| Mutex, `libsync/mutex.rs`, `mpsc_intrusive.rs` | word with two blocked bits, native lock, green counter and queue | lock, try_lock, unlock | hand-over between two kinds of tasks; queue nodes on stacks |
| Once, `libsync/one.rs` | `cnt`, `lock_cnt` and a mutex | doit | destroying the mutex after its last user |
| Raw locks, `libsync/raw.rs` | counts and wait queues of semaphores, condition variables, `read_count` | acquire, release, lock, read, write, downgrade, wait, signal, broadcast | a permit handed from a downgrading writer to a reader while writers return from condition variables |
| Locks with data, `libsync/lock.rs` | a poison flag; the barrier's count and generation | the same with tasks that fail inside; Barrier::wait | poison before release; two generations of a barrier at once |
| Queues, `libstd/sync/{spsc,mpsc,mpmc_bounded}_queue.rs` | nodes, links and node cache; slots with sequence numbers | push, pop, peek, drop | a node used again or freed while the other end looks at it; a reserved place that is not filled; laps of a ring |
| Scheduler and pool, `libgreen/*.rs`, `librustuv/async.rs` | message queues, work queues, sleeper list, remote callbacks, task count | the scheduler's round, spawn, spawn_sched, yield, block, wake, steal, go home, shutdown | nobody may sleep beside work; coalesced callbacks; messages to a scheduler that leaves |
| Homing and access, `librustuv/{homing,queue,access}.rs` | queue of an event loop, its deferred reference count, the access and who waits for it | go home, clone and drop of handles, the loop's callback, grant, hand-over | the loop may end only when no sender is inside; messages hidden by one that is not linked |
| Timer helper, `libnative/io/timer_helper.rs`, `timer_timerfd.rs`, `rt/bookkeeping.rs` | channel and pipe to the helper, its list, timerfds, count of tasks | new, sleep, oneshot, period, drop, the helper's loop, shutdown | a timer set again while it expires; descriptors that are used again; the end of the program |

Everything else in the repository is listed in section 7.

## 2. Conventions

* An action is one atomic instruction, one critical section or one access to a
  plain field; the names follow the functions of the code. Local variables that
  outlive a step are variables of the model and the `pc`-like variables (`spc`,
  `rpc`, `tpc`, `pc`) say between which two instructions a task is.
* Every `assert!`, `fail!()`, `unreachable!()` and `take_unwrap` on these paths is
  a `Check(cond, "file.rs:line")`, which collects the sites that fail in `fails`.
  `NoAssertionFails` says there is none. A site that does fail is exempt there by
  name and has a run of its own (section 5).
* Ghost variables are declared as such; no guard reads them.
* Memory is sequentially consistent. `oneshot.rs`, `stream.rs`, `shared.rs`,
  `deque.rs`, `mutex.rs` and `one.rs` use `SeqCst` throughout; the
  acquire/release and relaxed accesses of the queues under them (`spsc_queue.rs`,
  `mpsc_queue.rs`, `mpsc_intrusive.rs`, `mpmc_bounded_queue.rs`) and of
  `read_count` in `raw.rs` are treated as if they did.
* Messages, tasks and payloads are model values or small numbers.
* A definition whose name ends in `_Something` and whose comment begins with
  "Mutant" or "Mutation" is a plausible bug, used only to show that a property can fail.

## 3. The modules

**`Oneshot`** — `Packet` of `oneshot.rs`. `state` is the atomic word; a blocked
task in it is `"owned"` (recv) or `"shared"` (one of the handles of a select).
Each swap, load or compare-and-swap is an action (`SendSwap`, `UpgradeSwap`,
`AbortCas`, ...), and the plain accesses to `data` and `upgrade` that follow are
actions too, so that two halves inside the same field at once are visible. `GoUp`
stands for the port of the upgraded channel. `OtherPortReady` is the environment:
another port of the same select wakes the receiver. `held["up"]` is the blocked
task that an upgrade hands to the shared packet.

**`Stream`** — `Packet` of `stream.rs`. `queue`, `cnt`, `steals`, `toWake`,
`portDropped` are its fields. A send is gate, push, add (and take, wake); a
receive is pop, decrement, load, sub, sleep, pop again; `rmode` says for whom the
steps are made. `MAX_STEALS` is a constant so that the write-off of steals
(`bump`) happens within the bound. A stream is made by the second send on a
oneshot, which upgrades the packet and then sends on it (`try_send` of `mod.rs`);
a select that the upgrade ends reports the port as ready (`abort_selection(true)`,
`AbortUpgraded`), because "it's a small bounded windows of time until the data is
actually sent" (`stream.rs:399`). In that window the queue is empty, which is what
`Awaited` says; `Begun` has the `Sender` do nothing else before.

**`Shared`** — `Packet` of `shared.rs`. The queue is in order of reservation and
each entry says whether it is linked yet; a pop that meets an unlinked head is
the `Inconsistent` of `mpsc_queue.rs`. `Init` is the packet as `clone` builds it,
with `select_lock` held and a task that may have slept on the old port
(`inherit`). `DISCONNECTED` and `FUDGE` are constants with the order the code
relies on.

**`Sync`** — `State` of `sync.rs`. A critical section is an action and the
capacity is chosen in `Init`. A task that sleeps leaves the lock and takes it
again in an action of its own. Wake-ups, which the code performs after it has
released the lock, are part of the waker's action: the woken task has to take the
lock first in any case.

**`Select`** — `Select::wait2` of `select.rs` and `recv_opt` of `mod.rs` over
`deschedule` and `reawaken`. A port is reduced to what the channel modules
establish: an event and the taking of the handle left there are one step. `flag`
is the word that the handles of `BlockedTask::make_selectable` share. `Native`
chooses between the two ways to block.

**`Deque`** — `deque.rs`. `bufs` holds every buffer there was and `array` the
current one; `Freed` gives a replaced buffer back to the pool, where its slots may
hold anything. `deq` is the abstract deque, a ghost: `push` appends to it, every
take is compared with its ends.

**`MpscIntrusive`**, **`Mutex`**, **`Once`** — each extends the one before.
`MpscIntrusive` is the queue of `mpsc_intrusive.rs`, whose nodes are on the
stacks of green tasks. `Mutex` is `StaticMutex`: the word is a set of bits, and
`lock`, `try_lock` and `unlock` are taken apart at each atomic instruction. `Once`
is `doit` around it, with closures that fail (`DoitFails`): such a call unlocks
and is gone, and stays in the count, so that the next one in runs its closure and
the mutex is not destroyed in the end. `uses` picks, in `Init`, tasks that call `doit` or tasks
that use a mutex of their own.

**`Sched`** — a pool of green schedulers. `sch[s]` is the state of scheduler `s`
(`sleepy`, `no_sleep`, whether the idle callback is active, the number of remote
callbacks that keep its loop alive, the running task), `msgs` the message queues,
`asyncs` the remote callbacks that are fired or to be removed, `wq` the work
queues, `sleepers` the sleeper list. `SchedHandle::send` is push, link, fire.
`evloop` picks the event loop: `basic` counts every fire, `uv` coalesces fires of
one handle. The actions of a running task are `YieldNow`, `Deschedule`,
`DescheduleRefused`, `RunTask` (reawaken, spawn) and `Terminate`; those of the
owner `Spawn`, `SpawnSched` and `Shutdown` with their loops. The order of two
steps is merged where no other thread can tell: a callback with its first look at
the messages, and the removal of a handle with its last fire.

**`Raw`** — `raw.rs`. `kind` picks a semaphore, a mutex or a reader-writer lock.
A critical section of `Sem::with` or an atomic operation on `read_count` is an
action, `at[t]` says where task `t` is in its call, and `signalled` has the tasks
whose own channel holds the signal they sleep for. The order lock and the access
lock of a reader-writer lock are `count["order"]` and `count["access"]`; a plain
semaphore or mutex is the latter.

**`Locks`** — `lock.rs`, extends `Raw`. `FailInside` is a task that fails with the
lock held for writing, `torn` the ghost that remembers the data it left. It
unwinds in steps: `DropPoison` destroys the field `poison` and sets the flag,
`Drop` then destroys `inner` and lets the next task in; between the two the others
go on. A failing task may lock again in a destructor: `failed` is the field of its
`PoisonOnFail` that keeps such a guard from poisoning, and a second failure, when
the destructor finds the lock poisoned, aborts the process (`aborted`,
`rt/unwind.rs:449`). `barrier` turns the mutex into that of a `Barrier`.

**`Fifo`** — what a queue promises: places are reserved in order, items become
available, the first available one is taken once, a pop answers that there is
nothing only when the first place is empty or not yet available, a bounded push is
refused only when the places are taken or still being emptied. It is an abstract
specification, not a translation of code.

**`Spsc`**, **`Mpsc`**, **`Mpmc`** — the queues with their nodes or slots, one
access per step; a node that is freed is `Dead` and any use of it is a step that
`Fifo` does not have. Each has a refinement mapping to `Fifo` (`Abstract`,
`MAbstract`, `BAbstract`): the contents are the nodes from the one after the tail
(SPSC, MPSC), or the slots between the two positions (MPMC). `Spsc` keeps the
node cache: a consumer that frees or caches a node, a producer that looks for one
to use again, and the two counters, which wrap around at `WORD`.

**`Homing`** — one event loop of `librustuv` and the green tasks that come to it.
`messages` is the queue, `refcnt` and `refd` the count of handles the loop knows
of, `where` where each task is and `thread` what the thread it left still does for
it. A push reserves and links (`GoHome`, `Clone`, `DropHandle`, then
`LinkMessage`) and is signalled after that, except by `clone`. `guard`, `held` and
`turn` are the access.

**`Timers`** — the native timers of Linux. A task owns one timer at a time and
calls `Oneshot`, `Period`, `SleepTimer` and `DropTimer` on it; `Receive` and
`DropReceiver` are what it does with a receiver. `Expire` and `Ready` are the
kernel. The helper's loop is `EpollWait`, the events
one by one, then the requests. `EndTask`, `HelperStarts` and `Shutdown` are the
count of tasks of `bookkeeping.rs` and the end of the program. (The helper
decrements that count when it starts and, like every task, once more when it
ends; by then nobody reads it.)

How they fit: `Spsc`, `Mpsc` and `Mpmc` are shown to implement `Fifo`, whose
states are the queue of `Stream`, the reserved and linked entries of `Shared`,
`Sched` and `Homing`, and the sleeper list of `Sched`. `Locks` extends `Raw`, and
`Once` extends `Mutex` and `MpscIntrusive`. The remaining fits are by reading:
`Oneshot`, `Stream`, `Shared` and `Sync` establish that an event on a port takes
the handle that was left there exactly once, which is the port of `Select`;
`Deque` establishes that a work queue hands out every task once, from the right
end, which is the sequence `wq` of `Sched`; the critical sections of `Raw` are
those of a `Mutex`; `Select` takes `reawaken` as one step, which `Sched` takes
apart (`ReawakenRemotely`, `RunTask`). `Oneshot` leaves with `GoUp` and a held
task where `Stream` starts with `abortUpgraded` and `Shared` with `inherit`.

**`MC*`** instantiate the modules for TLC. The theorems are in
**`OneshotProofs`**, **`CommProofs`** (with `StreamProofs`, `SyncProofs` and
`SelectProofs`, which show that a step keeps the invariant of its module, and
`Counting`, the facts on finite sets they use), **`LocksProofs`** (with
`RawProofs`) and **`HomingProofs`**. `MCComm`, `MCQueues`, `MCLibsync` and `MCIo` each check several
components in one run: a variable that never changes (`part`, `queue`, `crate`,
...) says which one a behaviour is about, and the others rest.

## 4. The runs

| Run | Instance | Checks |
|-----|----------|--------|
| `comm` | a oneshot with two messages to choose from; a stream with 4 messages, an upgrade, `MAX_STEALS` 1, select; a bounded channel with 3 senders (one uses try_send), 3 messages, capacities 0, 1, 2; a select of a green task over 3 ports | oneshot: no assertion, `OneWaker`, `NoDataRace`, `ExactlyOnce`; the others: no assertion (`ChannelAssertions`), exact counter and covered sleeper (`StreamCovered`), order and completeness (`StreamDelivered`), every message in one place (`SyncConserved`), nobody sleeps beside what they wait for (`SyncCovered`), the selecting task held once and the reported port ready (`SelectHeld`); all calls return (`ChannelCallsReturn`) |
| `shared` | 3 senders, 2 messages, `MAX_STEALS` 0, all inherited blockers, select | no assertion, `SleeperCovered`, `Delivered`; calls return |
| `queues` | deque: 2 stealers, 4 pushes, buffers of 2, 4 and 8 slots, shrinking; SPSC: cache bounds 0, 1, 2, counters modulo 8, 5 pushes; MPSC: 3 pushers, 5 pushes; MPMC: 3 users, asked for 1 and 3 (capacities 2 and 4), 3 pushes and 3 pops | items leave the deque once and from the right end (`TakesEnds`), its slots hold the abstract deque (`Contents`); `SpscRefines`, `MpscRefines`, `MpmcRefines`: each step is one of `Fifo` or changes nothing of it |
| `libsync` | 3 green tasks and 1 native, 4 calls, of doit (its closure may fail) or of lock and try_lock; 3 tasks, 6 calls, 1 condition variable, on each kind of lock and on a barrier | no assertion, `Exclusion`, `OnceSafe`; `RawExclusion`, `NoneForgotten`, `PoisonSeen`, `BarrierTogether`; calls return (`CallsReturn`, `LocksReturn`) |
| `sched` | pools of one and two schedulers, one or two tasks, one of them pinned and blocked at the start in one pool, basic and uv loops | no assertion, exact sleeper list (`SleeperExact`), no work left lying (`Covered`); the pool stops (`PoolStops`) |
| `io` | homing: 2 tasks, 2 handles each, 3 steps; timers: 2 tasks, 2 calls | the loop is kept while there are handles (`LoopKept`), no sender inside when it ends (`SendersDone`), `AccessExclusive`; notifications on the newest channel (`NotifiesRightly`); the loop ends (`HomingFinishes`), timer calls and the program return (`TimersReturn`), a notification that is waited for comes, of a oneshot as of a period (`TimersFire`, delays above 0) |

The six remaining runs show the findings of section 5. Types are a conjunct of
another invariant. `StreamCovered` allows for a port that is reported as ready
ahead of the message of the send that upgraded it, and `ChannelCallsReturn` says
that this passes. In `comm` a receiver that try_send has left asleep counts as
finished, because it really is stuck (`sync_lost_wakeup`).

**Why the bounds are enough to be interesting.** *Oneshot* needs none: one
packet carries one message. *Stream* sends four messages over steals limited to
one, so the write-off happens with messages before, during and after it. In
*Shared* three senders are what draining for a dead port needs: one drains, one
pushes behind it, one is the last to leave. In *Sync* three senders fill every
buffer and leave one queued. *Select* has a port before and a port after the one
that fires. *Deque* grows twice and shrinks, and two stealers can hold stale
buffers at once. *Spsc* pushes more than the cache holds, so that nodes are
cached, reused and freed, and the counters wrap around; *Mpsc* has two pushers
that are between swap and link while a third is popped; *Mpmc* goes round a ring
of two more than once, with two users put off at the same slot. *Locks* needs
three tasks for a reader that waits while a writer downgrades and another writer
comes back from a condition variable; four tasks, two condition variables and
ten calls were checked with the inductive invariant. *Homing* has a task behind
a clone of another; three tasks with two handles each and three steps (5.4
million states) give the same result and take 18 minutes. *Timers* sets a timer
twice, of one task or of two, which is what a stale expiry needs. *Once* has two
green tasks queued behind a third, and a native one that competes with the head
of the queue; two native tasks and five calls (1.6 million states) give the same
result and take longer. In *Sched* `ops` limits what owner and tasks do besides
ending; two are enough for a task that yields and blocks, for spawn_sched and a
task pinned to what it returns, and, in the pool that starts with a pinned task,
one is enough for it to be stolen and sent home (two give the same result).

Symmetry is used only in `queues`, between stealers and between the users of the
MPMC queue, which has no liveness property.

**Fairness.** Every fairness condition is weak and is about a call that has been
started: a task that can take its next step gets to run, since native tasks are
OS threads and green ones are scheduled. Beyond that the receiving side needs
senders that do not live for ever without sending: `DropChan` is fair in the
channel modules, and `Event` in `Select`; in `Stream` the send that upgraded
the packet goes on, as it is inside a call. In `Sync` a queued sender waits for a
receiver that keeps receiving or leaves. In `Sched` the system as a whole is fair,
a blocked task is woken in the end, and the owner's thread is not starved; the
last is needed because a scheduler that drains the sleeper list for its shutdown
can wake another one over and over until the owner has told that one, too. In
`Locks` a task goes on with its call and drops its guard, and nothing is asked of
the calls themselves: a wait for a signal that nobody sends need not return. In
`Homing` the loop and the threads run, and for `HomingFinishes` tasks also let go
of what they hold; `HomingCompletes` does without that. In `Timers` threads run,
running timers expire, and for `TimersReturn` tasks drop their timers and end.

## 5. Findings

Each has a run in which TLC finds the violation.

* `sync_lost_wakeup` — `try_send` on a channel with a buffer enqueues its message
  without looking at `blocker` (`libstd/comm/sync.rs:226`). A receiver asleep in
  `recv` stays asleep beside the message, although "This receiver will be woken
  up when data is ready" (`mod.rs:649`).
* `stream_abort` — the last sender disconnects `cnt` before it takes the task out
  of `to_wake`. A select that another port ends in between meets the assertion of
  `abort_selection` that the word is empty (`stream.rs:416`, likewise
  `shared.rs:464`), for which the comment says "we know for sure that there is no
  task in to_wake".
* `select_native` — when a later port of a select refuses its handle, the native
  `deschedule` does not wait for a sender that has claimed the task already
  (`libnative/task.rs:213`). The late `reawaken` then ends a later receive beside
  an empty port, and `recv` reaches its `unreachable!()`. The green `deschedule`
  waits, and the run `comm` has no such behaviour.
* `sched_neighbor` — a round of a scheduler whose last message is `NewNeighbor`
  ends, and pauses the idle callback, with messages still in the queue
  (`libgreen/sched.rs:428`). On the uv loop the fires of the pool's handle
  coalesce, so that the scheduler sleeps beside a `Shutdown` for which no callback
  will come: the trace ends there. The new scheduler wakes it if it takes its own
  `Shutdown` when the other is already on the sleeper list; if it was earlier,
  nobody does and `SchedPool::shutdown` does not return. `sched` leaves out the one pool in which
  this is reached (uv, one scheduler, two operations), and the ghost `cut` marks
  the situation wherever else it arises.
* `homing_lost` — `clone` of a homing handle pushes its `Increment` and does not
  signal the loop (`librustuv/queue.rs:165`), since "there's no need to signal the
  event loop to process it at this time". While that push is between its two
  steps it hides a `Task` behind it; the callback that this task signalled ends at
  `Inconsistent` (`queue.rs:85`), and the task is not resumed until some other
  message is signalled. The handle is there "in order to ensure that a homing
  operation can always be completed" (`homing.rs:45`).
* `timer_zero` — `oneshot(0)` gives `timerfd_settime` an `it_value` of zero, which
  stops the timer (`libnative/io/timer_timerfd.rs:230`): the receiver that "will
  have a notification sent when `msecs` milliseconds has elapsed"
  (`libstd/io/timer.rs:93`) waits for ever. (`period(0)` does the same, and the run
  does not count it.)

Read in the code and the documentation, visible in the models, without a run of
their own:

* `oneshot.rs:110`: a failed send leaves `DATA` in the word; the send after it
  upgrades, finds `DATA` and not the hang-up, and reports success
  (`mod.rs:445` describes an unsuccessful send as one to a port that is gone).
* `sync.rs:258`: `try_recv` reports `Disconnected` while messages are buffered,
  against "there will never be any more data received" (`mod.rs:329`).
* `sync.rs:198`: without a buffer, a message handed to a receiver that sleeps in a
  select counts as sent, and the receiver may never take it (`mod.rs:569`
  guarantees that it "has indeed received the data"). `Conserved` of `Sync`
  makes the exception explicit.
* `one.rs:113` says "no leaks!" of the last call of `doit`; after a closure has
  failed nobody is the last, and the mutex is not destroyed (`OnceSafe`).
* `timer_helper.rs:80` waits for the helper without a loop. A condition variable
  may wake without a signal; in the model it does not, and the shutdown then
  always finds the helper gone.
* `deque.rs:68` says that `K` must be less than 2, and `K` is 4: the requirement is
  that it be at least 2, which is the assumption of `Deque`.

## 6. What is proved

All theorems are of the form `Spec => []P`, for every value of the constants that
satisfies the named assumptions. None of the properties is inductive; each proof
rests on an invariant that is, was checked with TLC first, and is shown to hold
initially and to be kept by every action, with one lemma or one step per action.

**The oneshot channel.** `OneshotProofs` proves, for every set `Values` and any
`None` outside it (the only assumption, `NoneAssumption`), about `Oneshot!Spec`:
`OneshotAssertions` (always `NoAssertionFails`), `OneshotWaker` (`OneWaker`),
`OneshotRaceFree` (`NoDataRace`), `OneshotExactlyOnce` (`ExactlyOnce`) and
`OneshotSelect`: a port that select reports as ready is ready.

None of these is inductive: that the data slot is full when the receiver takes it
follows from what the receiver saw in the word *earlier*, and that nobody raced it
from what the sender can no longer do. `IInv` records that knowledge: `SenderInv`
(after the sender's last swap, `Closed`, the word is `DISCONNECTED` for good;
where the sender is fixes the upgrade slot), `WakeInv` (where the handle of a
sleeping receiver is; one holder), `ReceiverInv` (what the receiver has seen is
still true of the slots) and `MessageInv` (what send has returned fixes where the
message is). `OneshotInit` proves it of a new packet, `OneshotStep` of every step,
with one step of the proof for each action; the theorems follow by PTL.

**The other channels and select.** `CommProofs` proves of `MCComm!CommSpec`, the
specification that the run `comm` checks, for any senders, capacities, numbers of
messages and ports and any `MAX_STEALS` (`CommAssumption`, the conjunction of the
assumptions of the three modules: finite sets, natural numbers, and a
`DISCONNECTED` below any count):

* `StreamSleepers` (`StreamCovered`) and `StreamDelivery` (`StreamDelivered`);
* `SyncSleepers` (`SyncCovered`) and `SyncConservation` (`SyncConserved`);
* `SelectHolds` (`SelectHeld`) and `ChannelsAssert` (`ChannelAssertions`, which
  exempts the assertion of `stream_abort`), both for green tasks: the hypothesis
  `Native = FALSE` is needed, as the run `select_native` shows.

*Stream.* The counter of a stream lags behind its queue, and what it means depends
on where both halves are. `StreamInv` has `Counts` and `Steals` (the counter, with
the push that is not counted yet and the steals, and what the receiver has on
record of them), `Handles` (who has the handle of a sleeping receiver, and which
sender may take it), `Ordered` and `Gated` (messages are numbered: the numbers in
the queue follow those received; what is refused was sent after the drop of the
port) and `Answers` (what a look told the receiver is still true). `Reported` is
kept on top of `StreamInv`: a port reported as ready is so, or awaits the message
of the send that upgraded it.

*Sync.* `SyncInv`: `CountInv` (the room in the buffer that a queued sender waits
for belongs to senders that are already woken), `QueueInv` and `BlockerInv` (who
stands in the queue, and whose handle the `State` holds), `ReceiverInv`,
`PlaceInv` (each message is in one place) and `AcceptInv` (without a buffer, a send
that succeeded was received).

*Select.* `SelectInv`: `HolderInv` (one holder of the sleeping task), `SlotInv` and
`PlaceInv` (in which ports its handles are, as far as it has blocked on them or
aborted them) and `EventInv` (a handle that was taken stands for an event).

`Counting` states the facts on finite sets that the proofs of `Sync` and `Select`
take as a hypothesis; `CommProofs` derives them from the library.

**The locks.** `LocksProofs` proves, for any finite set of tasks and any number of
condition variables, permits and calls (`RawAssumption`; `BarrierAssumption` that
the barrier was made for those tasks):

* `RawMutualExclusion`, `LocksMutualExclusion`: always `RawExclusion`, of `Raw`
  and of `Locks`: a writer is alone, readers exclude writers, and a semaphore
  admits as many as it has permits;
* `LocksForgetNone`: always `NoneForgotten`, a queue is as long as its count is
  negative, and who sleeps stands in the queue it is woken from;
* `LocksPoison`: always `PoisonSeen`; `LocksBarrier`: always `BarrierTogether`.

Exclusion of the reader-writer lock is not inductive: whether the access lock is
taken is known from the *count*, who has it from the *places*, and in between
the permit travels: with a signal to a sleeping task, with a downgrading writer
to the reader that waits for it, and with the last reader to leave. `RawInv`
therefore says where each permit is. `QueueInv` and `CondInv` tie each count to
its queue and each queue to the tasks that sleep; `OrderInv` has at most one
holder of the order lock, counting a task that was signalled and did not run yet;
`AccessInv` has at most one holder of the access lock when the readers do not
have it, and a first reader on its way in whenever the permit is handed over;
`CountInv` says whom `read_count` counts, and `PermitInv` where the permits of a
semaphore are. One lemma per action shows that it keeps `RawInv`, with one step
per conjunct that it can disturb (`RawProofs`, and `LocksProofs` for condition
variables). `Locks` adds steps that are steps of `Raw` or leave its variables
alone, and two invariants of its own:

* `PoisonInv`: half-written data is behind the flag, or in the hands of a task
  that has not destroyed its `PoisonOnFail` yet and still holds the lock for
  writing. With exclusion this gives `PoisonSeen`: whoever else is inside finds
  the flag set. It is exclusion, and not the order of two assignments in one
  step, that carries the proof;
* `BarrierInv`: a task in the loop of `wait` is of this generation, in which it is
  one of the `arrivals`, or of an earlier one, which all have come to.

**Homing.** `HomingProofs` proves of `Homing!HomingSpec`, for any finite set of
tasks and any numbers of handles and steps (`HomingAssumption`): `LoopIsKept`
(`LoopKept`), `SendersAreDone` (`SendersDone`) and `AccessIsExclusive`
(`AccessExclusive`). The loop hears of handles late, from messages. `CountInv`
therefore says of every prefix of the queue, and not only of the whole, what the
count will be when it has been read: positive before the end of the queue, and the
number of handles at the end. `ThreadInv` has a handle, or the lock, for every
thread inside a push, `TaskSent` and `TaskOnce` say which tasks the queue carries,
`GuardInv`, `TurnInv` and `NeedInv` who has the access and who waits for it.

**Only model-checked:** `Shared`, `Deque`, `Mutex`, `Once`, `Sched` and `Timers`,
the refinements of `Fifo`, and all liveness. Temporal reasoning with fairness,
`ENABLED`, and what recursive definitions compute are beyond the provers used.

## 7. What is not modelled

| Part | Why |
|------|-----|
| tasks pinned to a scheduler in `Homing` | `Sched` has pinned tasks; here all tasks may run anywhere |
| `timer_other.rs`, `timer_win32.rs` | the same requests over other system calls, with lists of deadlines |
| weak memory | section 2 |
| ports that are upgraded during a `select` | in `Select` a port stays what it is; the upgrade of a port in a select is in `Oneshot` and `Stream` |
| wake-ups of a condition variable without a signal | external; see `timer_helper.rs:80` in section 5 |
| handle list of `Select` | pointers of a list used by one task |
| futures, task pools, duplex streams, `Arc`, `librustuv/rc.rs` | sequential wrappers or single atomic instructions |
| special schedulers, stacks, contexts, coroutines | the former are only used by tests, the latter have no protocol |
| native and uv I/O, processes, threads, task-local storage, heaps | system calls and interfaces to the platform |
| collections, arenas, glob, semver and other library algorithms, `libworkcache` | sequential; some are candidates for a check against a reference definition |
| compiler, rustdoc, test runner | sequential translation, too large for a model of useful size |

The models cover the concurrent runtime, which is a small share of the
repository: most of its lines are the compiler, its libraries and their tests,
which are sequential.

## 8. What could follow

1. An abstract `Channel` that `Stream`, `Shared` and `Sync` implement, with the
   composition of `Oneshot` and what it is upgraded to.
2. Theorems: `Shared`, whose invariant extends that of `Stream`; `Mutex` and
   `Timers`; then the refinement of `Fifo` by `Mpmc`, whose slots are described by
   one formula each.
3. Checks of `glob` matching and `semver` ordering against reference definitions.
