------------------------------ MODULE Oneshot ------------------------------
(***************************************************************************)
(* The oneshot flavour of a channel, src/src/libstd/comm/oneshot.rs: one   *)
(* atomic word `state` that also stores the blocked task, one data slot    *)
(* and one upgrade slot, shared without a lock by a sender and a receiver. *)
(* Every atomic instruction is one action, and so is every access to the   *)
(* plain fields `data` and `upgrade` that follows one, so that races on    *)
(* those fields are visible.                                               *)
(*                                                                         *)
(* The receiver may block in recv, or in a select over several ports.  The *)
(* task a recv blocks with is "owned" by whoever takes it out of `state`;  *)
(* a select blocks with a "shared" handle that another port may have used  *)
(* already, and is then "stale": waking it does nothing.                   *)
(***************************************************************************)
EXTENDS Integers

CONSTANTS Values,   \* the messages
          None      \* the empty data slot

ASSUME NoneAssumption == None \notin Values

VARIABLES
    state,    \* the atomic word: a tag, or the handle of the blocked task
    data,     \* the data slot
    upgrade,  \* the upgrade slot; "GoUp" stands for GoUp(receiver)
    spc,      \* where the sender is
    after,    \* where the sender continues once it has woken a task
    prev,     \* upgrade(): the value of the slot to put back
    rpc,      \* where the receiver is
    held,     \* task handles taken out of `state`, by who holds them
    ready,    \* select told the receiver that this port will not block
    sret,     \* ghost: what send returned
    got,      \* ghost: number of messages handed to the receiver's caller
    burnt,    \* ghost: number of messages destroyed or given up
    fails     \* the assertions and unreachable!()s that were reached

packet == <<state, data, upgrade>>
sender == <<spc, after, prev, sret>>
vars == <<packet, sender, rpc, held, ready, got, burnt, fails>>

Handles == {"owned", "shared"}
Held == Handles \cup {"none", "stale"}
States == {"EMPTY", "DATA", "DISCONNECTED"} \cup Handles
Upgrades == {"NothingSent", "SendUsed", "GoUp"}
SenderPCs == {"idle", "send", "upStream", "upShared", "wake", "drop", "gone"}
ReceiverPCs == {"idle", "desched", "blocked", "load", "cas", "take", "disc",
                "selecting", "abort_load", "abort_cas", "can", "start",
                "abort", "drop_old", "destroy", "gone"}

(* Record that the assertion at `site` fails unless cond holds. *)
Check(cond, site) == fails' = IF cond THEN fails ELSE fails \cup {site}

(* The handle in the word, as whoever swaps it out finds it: the handle of  *)
(* a select that is over wakes nobody.                                      *)
Taken == IF state = "shared" /\ rpc # "selecting" THEN "stale" ELSE state

Init ==
    /\ state = "EMPTY" /\ data = None /\ upgrade = "NothingSent"
    /\ spc = "idle" /\ after = "idle" /\ prev = "NothingSent"
    /\ rpc = "idle" /\ held = [w \in {"sender", "up"} |-> "none"]
    /\ ready = FALSE
    /\ sret = "none" /\ got = 0 /\ burnt = 0
    /\ fails = {}

-----------------------------------------------------------------------------
(* The sender.  try_send uses the packet once (send), then upgrades it to a *)
(* stream; clone upgrades it to a shared channel.  Once the packet has been *)
(* upgraded its old inner half is dropped, which runs drop_chan.            *)

(* send, up to the swap; sent() is the test of the upgrade slot. *)
Send(v) ==
    /\ spc = "idle" /\ upgrade = "NothingSent"
    /\ Check(data = None, "oneshot.rs:99")
    /\ data' = v /\ upgrade' = "SendUsed" /\ spc' = "send"
    /\ UNCHANGED <<state, after, prev, sret, rpc, held, ready, got,
                   burnt>>

SendSwap ==
    /\ spc = "send"
    /\ state' = "DATA"
    /\ IF state = "DISCONNECTED"
         THEN /\ Check(data # None, "oneshot.rs:111")
              /\ data' = None /\ burnt' = burnt + 1 /\ sret' = "false"
         ELSE /\ Check(state # "DATA", "oneshot.rs:116")
              /\ sret' = "true" /\ UNCHANGED <<data, burnt>>
    /\ IF state \in Handles
         THEN spc' = "wake" /\ held' = [held EXCEPT !["sender"] = Taken]
         ELSE spc' = "idle" /\ UNCHANGED held
    /\ after' = "idle"
    /\ UNCHANGED <<upgrade, prev, rpc, ready, got>>

(* A second try_send ("upStream") or a clone ("upShared") up to the swap. *)
StartUpgrade(kind) ==
    /\ spc = "idle"
    /\ kind = "upStream" => upgrade # "NothingSent"
    /\ Check(upgrade # "GoUp", "oneshot.rs:208")
    /\ prev' = upgrade /\ upgrade' = "GoUp" /\ spc' = kind
    /\ UNCHANGED <<state, data, after, sret, rpc, held, ready, got,
                   burnt>>

(* try_send wakes the task itself, clone passes it to inherit_blocker. *)
UpgradeSwap ==
    /\ spc \in {"upStream", "upShared"}
    /\ state' = "DISCONNECTED"
    /\ upgrade' = IF state = "DISCONNECTED" THEN prev ELSE upgrade
    /\ IF state \in Handles
         THEN IF spc = "upStream"
                THEN spc' = "wake" /\ held' = [held EXCEPT !["sender"] = Taken]
                ELSE spc' = "drop" /\ held' = [held EXCEPT !["up"] = Taken]
         ELSE spc' = "drop" /\ UNCHANGED held
    /\ after' = "drop"
    /\ UNCHANGED <<data, prev, sret, rpc, ready, got, burnt, fails>>

(* Mutant: an exchange that leaves a stored DATA in place. *)
DropChan_KeepData ==
    /\ spc \in {"idle", "drop"} /\ state \notin Handles
    /\ state' = IF state = "DATA" THEN "DATA" ELSE "DISCONNECTED"
    /\ spc' = "gone" /\ after' = "gone"
    /\ UNCHANGED <<data, upgrade, prev, sret, rpc, held, ready, got,
                   burnt, fails>>

(* Mutant: a store that overwrites the blocked task. *)
DropChan_NoWake ==
    /\ spc \in {"idle", "drop"}
    /\ state' = "DISCONNECTED" /\ spc' = "gone" /\ after' = "gone"
    /\ UNCHANGED <<data, upgrade, prev, sret, rpc, held, ready, got,
                   burnt, fails>>

(* The sender is dropped, or has moved to the upgraded channel. *)
DropChan ==
    /\ spc \in {"idle", "drop"}
    /\ state' = "DISCONNECTED"
    /\ IF state \in Handles
         THEN spc' = "wake" /\ held' = [held EXCEPT !["sender"] = Taken]
         ELSE spc' = "gone" /\ UNCHANGED held
    /\ after' = "gone"
    /\ UNCHANGED <<data, upgrade, prev, sret, rpc, ready, got, burnt,
                   fails>>

(* wake() and reawaken() of the handle that w holds. *)
WakeHandle(w) ==
    /\ rpc' = IF held[w] = "owned" THEN "load"
              ELSE IF held[w] = "shared" THEN "abort_load"
              ELSE rpc
    /\ held' = [held EXCEPT ![w] = "none"]

Wake ==
    /\ spc = "wake"
    /\ WakeHandle("sender")
    /\ spc' = after
    /\ UNCHANGED <<packet, after, prev, sret, ready, got, burnt, fails>>

(* The shared packet that inherited the blocked task wakes it. *)
InheritorWakes ==
    /\ held["up"] # "none"
    /\ WakeHandle("up")
    /\ UNCHANGED <<packet, sender, ready, got, burnt, fails>>
-----------------------------------------------------------------------------
(* The receiver.                                                            *)

Recv ==
    /\ rpc = "idle"
    /\ rpc' = IF state = "EMPTY" THEN "desched" ELSE "load"
    /\ UNCHANGED <<packet, sender, held, ready, got, burnt, fails>>

(* The closure recv passes to deschedule. *)
Deschedule ==
    /\ rpc = "desched"
    /\ Check(state \notin Handles, "oneshot.rs:156")
    /\ IF state = "EMPTY" THEN state' = "owned" /\ rpc' = "blocked"
                          ELSE rpc' = "load" /\ UNCHANGED state
    /\ UNCHANGED <<data, upgrade, sender, held, ready, got, burnt>>

(* Mutant: an empty word does not keep try_recv from the data slot. *)
TryRecvLoad_Peek ==
    /\ rpc \in {"idle", "load"}
    /\ rpc' = IF state = "DATA" THEN "cas" ELSE "disc"
    /\ ready' = FALSE
    /\ UNCHANGED <<packet, sender, held, got, burnt, fails>>

(* try_recv, called directly ("idle") or at the end of recv ("load"), where *)
(* recv_opt takes an Empty result for unreachable.                          *)
TryRecvLoad ==
    /\ rpc \in {"idle", "load"}
    /\ Check(/\ state \notin Handles
             /\ rpc = "load" => state # "EMPTY", "oneshot.rs:197, mod.rs:752")
    /\ rpc' = IF state = "DATA" THEN "cas"
              ELSE IF state = "DISCONNECTED" THEN "disc"
              ELSE "idle"
    /\ ready' = FALSE
    /\ UNCHANGED <<packet, sender, held, got, burnt>>

TryRecvCas ==
    /\ rpc = "cas"
    /\ state' = IF state = "DATA" THEN "EMPTY" ELSE state
    /\ rpc' = "take"
    /\ UNCHANGED <<data, upgrade, sender, held, ready, got, burnt, fails>>

(* Mutant: the upgrade is processed before the data slot is looked at. *)
TryRecvDisconnected_UpgradeFirst ==
    /\ rpc = "disc" /\ upgrade = "GoUp"
    /\ upgrade' = "SendUsed" /\ rpc' = "drop_old"
    /\ UNCHANGED <<state, data, sender, held, ready, got, burnt, fails>>

TryRecvTake ==
    /\ rpc = "take"
    /\ Check(data # None, "oneshot.rs:178")
    /\ data' = None /\ got' = got + 1 /\ rpc' = "idle"
    /\ UNCHANGED <<state, upgrade, sender, held, ready, burnt>>

TryRecvDisconnected ==
    /\ rpc = "disc"
    /\ IF data # None
         THEN /\ data' = None /\ got' = got + 1 /\ rpc' = "idle"
              /\ UNCHANGED upgrade
         ELSE /\ upgrade' = "SendUsed"
              /\ rpc' = IF upgrade = "GoUp" THEN "drop_old" ELSE "idle"
              /\ UNCHANGED <<data, got>>
    /\ UNCHANGED <<state, sender, held, ready, burnt, fails>>

(* The receiver is dropped, or has moved to the upgraded port. *)
DropPort ==
    /\ rpc \in {"idle", "drop_old"}
    /\ Check(state \notin Handles, "oneshot.rs:252")
    /\ state' = "DISCONNECTED"
    /\ rpc' = IF state = "DATA" THEN "destroy" ELSE "gone"
    /\ UNCHANGED <<data, upgrade, sender, held, ready, got, burnt>>

DropPortTake ==
    /\ rpc = "destroy"
    /\ Check(data # None, "oneshot.rs:249")
    /\ data' = None /\ burnt' = burnt + 1 /\ rpc' = "gone"
    /\ UNCHANGED <<state, upgrade, sender, held, ready, got>>
-----------------------------------------------------------------------------
(* select: can_recv, start_selection and abort_selection.                   *)

CanRecv ==
    /\ rpc = "idle"
    /\ Check(state \notin Handles, "oneshot.rs:280")
    /\ ready' = (state = "DATA")
    /\ rpc' = IF state = "DISCONNECTED" THEN "can" ELSE "idle"
    /\ UNCHANGED <<packet, sender, held, got, burnt>>

StartSelection ==
    /\ rpc = "idle"
    /\ Check(state \notin Handles, "oneshot.rs:313")
    /\ state' = IF state = "EMPTY" THEN "shared" ELSE state
    /\ rpc' = IF state = "EMPTY" THEN "selecting"
              ELSE IF state = "DISCONNECTED" THEN "start"
              ELSE "idle"
    /\ ready' = (state = "DATA")
    /\ UNCHANGED <<data, upgrade, sender, held, got, burnt>>

(* Another port of the same select uses up the shared handle first. *)
OtherPortReady ==
    /\ rpc = "selecting"
    /\ rpc' = "abort_load"
    /\ held' = [w \in DOMAIN held |->
                    IF held[w] = "shared" THEN "stale" ELSE held[w]]
    /\ UNCHANGED <<packet, sender, ready, got, burnt, fails>>

(* abort_selection, the load. *)
AbortLoad ==
    /\ rpc = "abort_load"
    /\ Check(state # "EMPTY", "oneshot.rs:337")
    /\ rpc' = IF state = "DISCONNECTED" THEN "abort"
              ELSE IF state \in Handles THEN "abort_cas"
              ELSE "idle"
    /\ ready' = (state = "DATA")
    /\ UNCHANGED <<packet, sender, held, got, burnt>>

(* abort_selection, the exchange that takes the handle back. *)
AbortCas ==
    /\ rpc = "abort_cas"
    /\ Check(state # "EMPTY", "oneshot.rs:337")
    /\ state' = IF state \in Handles THEN "EMPTY" ELSE state
    /\ rpc' = IF state = "DISCONNECTED" THEN "abort" ELSE "idle"
    /\ ready' = (state = "DATA")
    /\ UNCHANGED <<data, upgrade, sender, held, got, burnt>>

(* The three operations treat a disconnected state alike: data first, then  *)
(* the upgrade, which moves the receiver to the new port; only              *)
(* abort_selection leaves SendUsed behind when there was no upgrade.        *)
SelectDisconnected ==
    /\ rpc \in {"can", "start", "abort"}
    /\ IF data = None /\ upgrade = "GoUp"
         THEN upgrade' = "SendUsed" /\ rpc' = "drop_old" /\ UNCHANGED ready
         ELSE /\ upgrade' = IF rpc = "abort" /\ data = None
                              THEN "SendUsed" ELSE upgrade
              /\ rpc' = "idle" /\ ready' = TRUE
    /\ UNCHANGED <<state, data, sender, held, got, burnt, fails>>
-----------------------------------------------------------------------------
SenderNext ==
    \/ \E v \in Values : Send(v)
    \/ SendSwap
    \/ \E kind \in {"upStream", "upShared"} : StartUpgrade(kind)
    \/ UpgradeSwap \/ DropChan \/ Wake \/ InheritorWakes

ReceiverNext ==
    \/ Recv \/ Deschedule \/ TryRecvLoad \/ TryRecvCas \/ TryRecvTake
    \/ TryRecvDisconnected \/ DropPort \/ DropPortTake
    \/ CanRecv \/ StartSelection \/ AbortLoad \/ AbortCas \/ SelectDisconnected

(* Both halves of the channel are gone: nothing more happens to the packet. *)
Finished == spc = "gone" /\ rpc = "gone" /\ UNCHANGED vars

Next == SenderNext \/ ReceiverNext \/ OtherPortReady \/ Finished

Spec == Init /\ [][Next]_vars

-----------------------------------------------------------------------------
(* Every variable has its type; a message is handed out, or destroyed, at   *)
(* most once.                                                               *)
TypeOK ==
    /\ state \in States /\ data \in Values \cup {None}
    /\ upgrade \in Upgrades /\ prev \in Upgrades
    /\ spc \in SenderPCs /\ after \in {"idle", "drop", "gone"}
    /\ rpc \in ReceiverPCs /\ held \in [{"sender", "up"} -> Held]
    /\ ready \in BOOLEAN
    /\ sret \in {"none", "true", "false"}
    /\ got \in 0..1 /\ burnt \in 0..1

(* With the types, no assertion, fail!, take_unwrap or unreachable!() of    *)
(* oneshot.rs is ever reached, nor the unreachable!() of recv_opt for an    *)
(* Empty result, in any interleaving of the two halves with each other and  *)
(* with the other ports of a select.  Packet's destructor finds             *)
(* DISCONNECTED (oneshot.rs:372), although a failed send stores DATA over   *)
(* the receiver's DISCONNECTED.                                             *)
NoAssertionFails ==
    /\ TypeOK /\ fails = {}
    /\ spc = "gone" /\ rpc = "gone" => state = "DISCONNECTED"

(* Wherever the receiver sleeps, exactly one party can still wake it: the   *)
(* word, a sender that has taken the handle and is about to wake it, or the *)
(* shared packet that inherited it.                                         *)
Wakers == {w \in {"sender", "up"} : held[w] \in Handles}
OneWaker ==
    rpc \in {"blocked", "selecting"} =>
        IF state \in Handles THEN Wakers = {}
        ELSE \E w \in {"sender", "up"} : Wakers = {w}

(* The plain fields are never touched by both halves at once: whenever the  *)
(* sender's next step writes `data` or `upgrade`, the receiver is not about *)
(* to access the same field.                                                *)
SenderUsesData ==
    \/ spc = "idle" /\ upgrade = "NothingSent"
    \/ spc = "send" /\ state = "DISCONNECTED"
SenderUsesUpgrade ==
    \/ spc = "idle"
    \/ spc \in {"upStream", "upShared"} /\ state = "DISCONNECTED"
NoDataRace ==
    /\ rpc \in {"take", "disc", "destroy", "can", "start", "abort"}
         => ~SenderUsesData
    /\ rpc \in {"disc", "can", "start", "abort"} => ~SenderUsesUpgrade

(* The message that was put in the slot is there, or was handed out once,   *)
(* or was destroyed once: never lost, never duplicated.  When send returned *)
(* false it was never received (mod.rs:446-448), and the receiver leaves    *)
(* for the upgraded port only after it has received the message.            *)
ExactlyOnce ==
    /\ got + burnt + (IF data = None THEN 0 ELSE 1)
         = (IF sret = "none" /\ spc # "send" THEN 0 ELSE 1)
    /\ sret = "false" => got = 0
    /\ rpc = "drop_old" => data = None /\ upgrade # "GoUp"

(* When select reports this port as ready, a receive on it does not find it *)
(* empty.                                                                   *)
SelectReady == ready /\ rpc = "idle" => state \in {"DATA", "DISCONNECTED"}
=============================================================================
