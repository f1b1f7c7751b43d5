------------------------------- MODULE Timers -------------------------------
(***************************************************************************)
(* Timers of native tasks on Linux: libnative/io/timer_timerfd.rs, with    *)
(* the helper thread of timer_helper.rs and the count of tasks of          *)
(* libstd/rt/bookkeeping.rs that the end of the program waits for.         *)
(*                                                                         *)
(* A task has one Timer at a time, whose descriptor has the task's name; a *)
(* closed descriptor is used again.  A call of oneshot or period makes a   *)
(* channel, named by its number; the helper acknowledges the request and   *)
(* sends the notifications on it.  Durations are 0 or more: a running      *)
(* timer expires at any time.  The kernel (timerfd, epoll, the pipe and    *)
(* the condition variables) is external.                                   *)
(***************************************************************************)
EXTENDS Integers, Sequences, FiniteSets

CONSTANTS Clients,   \* the native tasks
          Delays,    \* the values of msecs: 0 and 1, for "later"
          MaxArms    \* bound: calls of oneshot, period and sleep, of all tasks

ASSUME TimersAssumption ==
    /\ IsFiniteSet(Clients) /\ "main" \notin Clients /\ "input" \notin Clients
    /\ Delays \subseteq {0, 1} /\ MaxArms \in Nat

VARIABLES
    requests,  \* the channel to the helper
    bytes,     \* in the pipe to the helper
    timerfd,   \* the descriptors: [running, repeats, ticks, channel]; the last is
               \* ghost: the channel that was in charge when it was set
    list,      \* helper: fd -> [channel, oneshot], a sorted vector in the code
    epoll,     \* helper: the descriptors in its epoll set
    events,    \* helper: what epoll_wait returned and is not handled
    helper,    \* where the helper is
    client,    \* client[c]: [pc, on_worker, channel, repeats, then]; channel and
               \* repeats are of its last call of oneshot or period
    acks,      \* the tasks whose request is acknowledged and that did not hear of it
    arms,      \* calls made
    open,      \* the channels <<task, number>> whose receiver is open
    notified,  \* those that have a notification
    count,     \* TASK_COUNT
    main,      \* where the end of the program is
    exitlock,  \* TIMER_HELPER_EXIT: its holder
    errors     \* the assertions that failed, and notifications that went wrong

timervars == <<requests, bytes, timerfd, list, epoll, events, helper, client, acks, arms, open,
               notified, count, main, exitlock, errors>>

Stopped == [running |-> FALSE, repeats |-> FALSE, ticks |-> FALSE, channel |-> 0]
NoList == [c \in {} |-> Stopped]
Check(ok, site) == errors' = IF ok THEN errors ELSE errors \cup {site}

TimersInit ==
    /\ requests = <<>> /\ bytes = 0
    /\ timerfd = [c \in Clients |-> Stopped] /\ list = NoList /\ epoll = {} /\ events = {}
    /\ helper = "none"
    /\ client = [c \in Clients |-> [pc |-> "start", on_worker |-> FALSE, channel |-> 0,
                                    repeats |-> FALSE, then |-> "idle"]]
    /\ acks = {} /\ arms = 0 /\ open = {} /\ notified = {}
    /\ count = Cardinality(Clients) /\ main = "run" /\ exitlock = "free" /\ errors = {}

Kernel == <<timerfd, bytes>>
Lists == <<list, epoll, events>>
Ends == <<count, main, exitlock>>
At(c, pc) == client[c].pc = pc
Goto(c, pc) == client' = [client EXCEPT ![c].pc = pc]
-----------------------------------------------------------------------------
(* The tasks.                                                               *)

(* Timer::new, and boot for the first one: the helper is spawned, and with  *)
(* it counted.                                                              *)
NewTimer(c) ==
    /\ At(c, "start") /\ arms < MaxArms /\ Goto(c, "idle")
    /\ IF helper = "none"
         THEN helper' = "start" /\ count' = count + 1
         ELSE UNCHANGED <<helper, count>>
    /\ UNCHANGED <<requests, Kernel, Lists, arms, acks, open, notified, main, exitlock, errors>>

(* timer_helper::send is a push on the channel and then a byte. *)
SendRequest(c, kind, repeats, ms, ch) ==
    requests' = Append(requests, [kind |-> kind, fd |-> c, channel |-> ch, repeats |-> repeats, ms |-> ms])

(* oneshot and period, up to the byte; the channel is new. *)
Arm(c, repeats) ==
    \E ms \in Delays :
      /\ At(c, "idle") /\ arms < MaxArms /\ arms' = arms + 1
      /\ SendRequest(c, "New", repeats, ms, client[c].channel + 1)
      /\ client' = [client EXCEPT ![c].pc = "signal", ![c].then = "arm", ![c].channel = @ + 1,
                                  ![c].repeats = repeats]
      /\ open' = open \cup {<<c, client[c].channel + 1>>}
      /\ UNCHANGED <<Kernel, Lists, helper, acks, notified, Ends, errors>>

Oneshot(c) == Arm(c, FALSE)
Period(c) == Arm(c, TRUE)

(* sleep and drop begin with remove, which asks the helper only if that has *)
(* the descriptor.                                                          *)
Remove(c, then) ==
    /\ At(c, "idle")
    /\ IF client[c].on_worker
         THEN /\ SendRequest(c, "Remove", FALSE, 0, client[c].channel)
              /\ client' = [client EXCEPT ![c].pc = "signal", ![c].then = then]
         ELSE client' = [client EXCEPT ![c].pc = then] /\ UNCHANGED requests
    /\ UNCHANGED <<Kernel, Lists, helper, acks, open, notified, Ends, errors>>

SleepTimer(c) == arms < MaxArms /\ arms' = arms + 1 /\ Remove(c, "sleep")
DropTimer(c) == Remove(c, "close") /\ UNCHANGED arms

SignalHelper(c) ==
    /\ At(c, "signal") /\ Goto(c, "ack") /\ bytes' = bytes + 1
    /\ UNCHANGED <<requests, timerfd, Lists, helper, arms, acks, open, notified, Ends, errors>>

(* rx.recv(); nothing is of interest about the older channels after that. *)
Acked(c) ==
    LET arm == client[c].then = "arm"
        older == {<<c, n>> : n \in 1..client[c].channel - 1}
    IN  /\ At(c, "ack") /\ c \in acks /\ acks' = acks \ {c}
        /\ client' = [client EXCEPT ![c].pc = IF arm THEN "idle" ELSE client[c].then,
                                    ![c].on_worker = arm, ![c].then = "idle"]
        /\ open' = open \ older /\ notified' = notified \ older
        /\ UNCHANGED <<requests, Kernel, Lists, helper, arms, Ends, errors>>

SleepEnds(c) ==
    /\ At(c, "sleep") /\ Goto(c, "idle")
    /\ UNCHANGED <<requests, Kernel, Lists, helper, arms, acks, open, notified, Ends, errors>>

(* The end of drop closes the descriptor, which leaves any epoll set; the   *)
(* next timer of the task may get the same one.                             *)
CloseTimer(c) ==
    /\ At(c, "close") /\ Goto(c, "start")
    /\ timerfd' = [timerfd EXCEPT ![c] = Stopped] /\ epoll' = epoll \ {c}
    /\ UNCHANGED <<requests, bytes, list, events, helper, arms, acks, open, notified, Ends, errors>>

Newest(c) == <<c, client[c].channel>>

(* The user receives a notification of a periodic timer, and waits for the  *)
(* next.                                                                    *)
Receive(c) ==
    /\ At(c, "idle") /\ client[c].repeats /\ Newest(c) \in open \cap notified
    /\ notified' = notified \ {Newest(c)}
    /\ UNCHANGED <<requests, Kernel, Lists, helper, client, acks, arms, open, Ends, errors>>

(* The user closes the receiver. *)
DropReceiver(c) ==
    /\ At(c, "idle") /\ Newest(c) \in open /\ open' = open \ {Newest(c)}
    /\ UNCHANGED <<requests, Kernel, Lists, helper, client, acks, arms, notified, Ends, errors>>

(* bookkeeping::decrement by a task: the last one signals the waiting main, *)
(* which holds the lock from its test of the count to its wait.             *)
EndTask(c) ==
    /\ At(c, "start") /\ Goto(c, "ended") /\ count' = count - 1
    /\ UNCHANGED <<requests, Kernel, Lists, helper, arms, acks, open, notified, main, exitlock, errors>>
-----------------------------------------------------------------------------
(* The kernel: a running descriptor expires. *)
Expire(c) ==
    /\ timerfd[c].running /\ ~timerfd[c].ticks
    /\ timerfd' = [timerfd EXCEPT ![c].ticks = TRUE, ![c].running = timerfd[c].repeats]
    /\ UNCHANGED <<requests, bytes, Lists, helper, client, arms, acks, open, notified, Ends, errors>>
-----------------------------------------------------------------------------
(* The helper.                                                              *)

HelperStarts ==
    /\ helper = "start" /\ helper' = "wait" /\ count' = count - 1
    /\ UNCHANGED <<requests, Kernel, Lists, client, arms, acks, open, notified, main, exitlock, errors>>

Ready == {c \in epoll : timerfd[c].ticks}

(* epoll_wait returns what is readable: descriptors in any order, and       *)
(* perhaps the pipe.                                                        *)
EpollWait ==
    /\ helper = "wait" /\ (bytes > 0 \/ Ready # {})
    /\ events' = Ready \cup (IF bytes > 0 THEN {"input"} ELSE {})
    /\ helper' = "events"
    /\ UNCHANGED <<requests, Kernel, list, epoll, client, arms, acks, open, notified, Ends, errors>>

ReadInput ==
    /\ helper = "events" /\ "input" \in events /\ events' = events \ {"input"}
    /\ bytes' = bytes - 1 /\ helper' = "input"
    /\ UNCHANGED <<requests, timerfd, list, epoll, client, arms, acks, open, notified, Ends, errors>>

(* A tick: it is read, and sent on the channel of the list; a oneshot, or   *)
(* one whose receiver is gone, leaves the list.  `errors` has the sends     *)
(* that are late: the call that replaced the channel has returned, or it is *)
(* not the channel that the descriptor was set for.                         *)
Tick(c) ==
    LET e == list[c]
        to == <<c, e.channel>>
        gone == e.oneshot \/ to \notin open
    IN  /\ helper \in {"events", "input"} /\ c \in events /\ events' = events \ {c}
        /\ timerfd' = [timerfd EXCEPT ![c].ticks = FALSE]
        /\ IF c \notin DOMAIN list
             THEN Check(FALSE, "fd not active") /\ UNCHANGED <<list, epoll, notified>>
             ELSE /\ list' = IF gone THEN [d \in DOMAIN list \ {c} |-> list[d]] ELSE list
                  /\ epoll' = IF gone THEN epoll \ {c} ELSE epoll
                  /\ notified' = IF to \in open THEN notified \cup {to} ELSE notified
                  /\ Check(/\ timerfd[c].ticks
                           /\ to = Newest(c) \/ client[c].pc \in {"signal", "ack"}
                           /\ e.channel = timerfd[c].channel, "late notification")
        /\ UNCHANGED <<requests, bytes, helper, client, arms, acks, open, Ends>>

(* The batch is handled: go for the messages, or wait again. *)
EventsDone ==
    /\ helper \in {"events", "input"} /\ events = {}
    /\ helper' = IF helper = "input" THEN "messages" ELSE "wait"
    /\ UNCHANGED <<requests, Kernel, Lists, client, arms, acks, open, notified, Ends, errors>>

(* NewTimer is acknowledged before anything else is done. *)
AckNew ==
    /\ helper = "messages" /\ requests # <<>>
    /\ Head(requests).kind = "New" /\ helper' = "new"
    /\ acks' = acks \cup {Head(requests).fd}
    /\ UNCHANGED <<requests, Kernel, Lists, client, arms, open, notified, Ends, errors>>

(* Mutation: a descriptor that is in the list keeps its channel. *)
InList_Kept(r) ==
    IF r.fd \in DOMAIN list THEN list
    ELSE [c \in DOMAIN list \cup {r.fd} |->
            IF c = r.fd THEN [channel |-> r.channel, oneshot |-> ~r.repeats] ELSE list[c]]
(* The list with the channel of a request in the place of the old one. *)
InList(r) ==
    [c \in DOMAIN list \cup {r.fd} |->
       IF c = r.fd THEN [channel |-> r.channel, oneshot |-> ~r.repeats] ELSE list[c]]

(* Mutation: it_interval is taken for it_value. *)
Setting_Interval(r) ==
    [running |-> r.ms > 0 /\ r.repeats, repeats |-> r.repeats, ticks |-> FALSE, channel |-> r.channel]
(* timerfd_settime: a value of 0 stops a timerfd. *)
Setting(r) ==
    [running |-> r.ms > 0, repeats |-> r.repeats, ticks |-> FALSE, channel |-> r.channel]

(* ... then the list, the epoll set and the descriptor are changed.         *)
SetNew ==
    LET r == Head(requests)
    IN  /\ helper = "new" /\ helper' = "messages" /\ requests' = Tail(requests)
        /\ list' = InList(r) /\ epoll' = epoll \cup {r.fd}
        /\ timerfd' = [timerfd EXCEPT ![r.fd] = Setting(r)]
        /\ Check(r.fd \in epoll <=> r.fd \in DOMAIN list, "epoll_ctl")
        /\ UNCHANGED <<bytes, events, client, arms, acks, open, notified, Ends>>

RemoveRequest ==
    LET r == Head(requests)
    IN  /\ helper = "messages" /\ requests # <<>> /\ r.kind = "Remove"
        /\ requests' = Tail(requests)
        /\ list' = [c \in DOMAIN list \ {r.fd} |-> list[c]]
        /\ epoll' = IF r.fd \in DOMAIN list THEN epoll \ {r.fd} ELSE epoll
        /\ acks' = acks \cup {r.fd}
        /\ Check(r.fd \in DOMAIN list => r.fd \in epoll, "epoll_ctl")
        /\ UNCHANGED <<Kernel, events, helper, client, arms, open, notified, Ends>>

ShutdownRequest ==
    /\ helper = "messages" /\ requests # <<>> /\ Head(requests).kind = "Shutdown"
    /\ requests' = Tail(requests) /\ helper' = "exit"
    /\ Check(list = NoList, "assert!(list.len() == 0)")
    /\ UNCHANGED <<Kernel, Lists, client, arms, acks, open, notified, Ends>>

NoRequest ==
    /\ helper = "messages" /\ requests = <<>> /\ helper' = "wait"
    /\ UNCHANGED <<requests, Kernel, Lists, client, arms, acks, open, notified, Ends, errors>>

(* After the helper's function: the signal under the lock, and the          *)
(* decrement of every task, which nobody waits for any more.                *)
HelperExits ==
    /\ helper = "exit" /\ exitlock = "free" /\ helper' = "gone"
    /\ main' = IF main = "waiting" THEN "woken" ELSE main
    /\ UNCHANGED <<requests, Kernel, Lists, client, arms, acks, open, notified, count, exitlock, errors>>
-----------------------------------------------------------------------------
(* The end of the program: wait_for_other_tasks, then shutdown.             *)

OtherTasks == count > 0

(* Mutation: the lock is taken after the request is sent. *)
Shutdown_LockLate ==
    /\ main = "run" /\ ~OtherTasks
    /\ IF helper = "none" THEN main' = "done" /\ UNCHANGED requests
       ELSE main' = "send" /\ SendRequest("main", "Shutdown", FALSE, 0, 0)
    /\ UNCHANGED <<Kernel, Lists, helper, client, arms, acks, open, notified, count, exitlock, errors>>

Shutdown ==
    /\ main = "run" /\ ~OtherTasks
    /\ IF helper = "none" THEN main' = "done" /\ UNCHANGED <<requests, exitlock>>
       ELSE /\ main' = "send" /\ exitlock' = "main"
            /\ SendRequest("main", "Shutdown", FALSE, 0, 0)
    /\ UNCHANGED <<Kernel, Lists, helper, client, arms, acks, open, notified, count, errors>>

ShutdownSignal ==
    /\ main = "send" /\ main' = "wait" /\ bytes' = bytes + 1
    /\ UNCHANGED <<requests, timerfd, Lists, helper, client, arms, acks, open, notified, count, exitlock,
                   errors>>

(* wait lets go of the lock as it goes to sleep. *)
ShutdownWait ==
    /\ main = "wait" /\ main' = "waiting" /\ exitlock' = "free"
    /\ UNCHANGED <<requests, Kernel, Lists, helper, client, arms, acks, open, notified, count, errors>>

ShutdownDone ==
    /\ main = "woken" /\ main' = "done"
    /\ Check(helper = "gone" /\ requests = <<>>, "helper still runs")
    /\ UNCHANGED <<requests, Kernel, Lists, helper, client, arms, acks, open, notified, count, exitlock>>
-----------------------------------------------------------------------------
HelperStep ==
    \/ HelperStarts \/ EpollWait \/ ReadInput \/ (\E c \in Clients : Tick(c)) \/ EventsDone
    \/ AckNew \/ SetNew \/ RemoveRequest \/ ShutdownRequest \/ NoRequest \/ HelperExits
CallStep(c) == SignalHelper(c) \/ Acked(c) \/ SleepEnds(c) \/ CloseTimer(c)
UserStep(c) ==
    \/ NewTimer(c) \/ Oneshot(c) \/ Period(c) \/ SleepTimer(c) \/ DropTimer(c)
    \/ Receive(c) \/ DropReceiver(c) \/ EndTask(c)
MainStep == Shutdown \/ ShutdownSignal \/ ShutdownWait \/ ShutdownDone

TimersOver == main = "done" /\ UNCHANGED timervars

TimersNext ==
    \/ HelperStep \/ MainStep \/ TimersOver
    \/ \E c \in Clients : CallStep(c) \/ UserStep(c) \/ Expire(c)

(* Threads are scheduled, and a running timer expires.  What a task does    *)
(* next is its own affair, except that it drops its timer and ends.         *)
TimersFairness ==
    /\ WF_timervars(HelperStep) /\ WF_timervars(MainStep)
    /\ \A c \in Clients : WF_timervars(CallStep(c)) /\ WF_timervars(Expire(c))

TimersSpec == TimersInit /\ [][TimersNext]_timervars /\ TimersFairness
ClientsEnd == \A c \in Clients : WF_timervars(DropTimer(c)) /\ WF_timervars(EndTask(c))
-----------------------------------------------------------------------------
(* No assertion of the helper fails, and every notification is sent on the  *)
(* channel of the call that set the descriptor, while that is the newest:   *)
(* "when oneshot() and period() return [...] the old port will never        *)
(* receive any more messages" (timer_timerfd.rs:221).  When the timer is    *)
(* with its task and not with the helper, the helper has nothing of it.     *)
NotifiesRightly ==
    /\ errors = {}
    /\ DOMAIN list = epoll \/ helper = "new"
    /\ \A c \in Clients :
         client[c].pc \in {"start", "sleep", "close", "ended"} =>
             c \notin DOMAIN list \cup epoll \cup events

(* Every call of a timer returns, and once the tasks have ended so does the *)
(* program: the helper hears of every request and of the shutdown.          *)
TimersReturn ==
    /\ \A c \in Clients : []<>(client[c].pc \in {"idle", "start", "ended"})
    /\ []<>((\A c \in Clients : At(c, "ended")) => main = "done")

(* The user has a receiver, of a timer that is not used again, and waits    *)
(* for a notification.                                                      *)
Waits(c) == At(c, "idle") /\ client[c].on_worker /\ Newest(c) \in open \ notified

(* No task waits for ever: a oneshot receiver that stays open gets its      *)
(* notification, and a periodic one gets "a continuous stream of            *)
(* notifications" (libstd/io/timer.rs:104).                                 *)
TimersFire == \A c \in Clients : []<>~Waits(c)

(* A oneshot receiver that stays open "will have a notification sent when   *)
(* `msecs` milliseconds has elapsed" (libstd/io/timer.rs:93), unless its    *)
(* timer is used again: no task waits for one for ever.                     *)
OneshotFires == \A c \in Clients : []<>~(Waits(c) /\ ~client[c].repeats)
=============================================================================
