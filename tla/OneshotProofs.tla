--------------------------- MODULE OneshotProofs ---------------------------
(***************************************************************************)
(* Safety of the oneshot packet for any set of messages.  The inductive    *)
(* invariant adds to the checked properties what each half knows of the    *)
(* other from the word: after the sender's last swap (Closed) the word is  *)
(* DISCONNECTED for good and the slots belong to the receiver; before it,  *)
(* the receiver touches the data slot only between a DATA it has seen and  *)
(* the take.                                                               *)
(***************************************************************************)
EXTENDS Oneshot, TLAPS

Closed == \/ spc \in {"drop", "gone"}
          \/ spc = "wake" /\ after \in {"drop", "gone"}

(* Where the sender is determines the upgrade slot until it is closed. *)
SenderInv ==
    /\ Closed => state = "DISCONNECTED"
    /\ ~Closed /\ state = "DISCONNECTED" => rpc \in {"gone", "destroy"}
    /\ spc = "idle" => /\ upgrade \in {"NothingSent", "SendUsed"}
                       /\ upgrade = "NothingSent" <=> sret = "none"
    /\ spc = "wake" /\ after = "idle" => upgrade = "SendUsed" /\ sret # "none"
    /\ spc = "send" => upgrade = "SendUsed" /\ sret = "none" /\ data # None
    /\ spc \in {"upStream", "upShared"} =>
         /\ upgrade = "GoUp" /\ prev \in {"NothingSent", "SendUsed"}

(* Who may still wake the receiver, and what the word is while it sleeps. *)
WakeInv ==
    /\ state = "owned" => rpc = "blocked"
    /\ state = "shared" => rpc \in {"selecting", "abort_load", "abort_cas"}
    /\ \A w \in {"sender", "up"} :
         /\ held[w] = "owned" => rpc = "blocked"
         /\ held[w] = "shared" => rpc = "selecting"
         /\ held[w] \in Handles => state \notin Handles
    /\ held["sender"] # "none" => spc = "wake"
    /\ held["up"] # "none" => Closed
    /\ ~(held["sender"] \in Handles /\ held["up"] \in Handles)
    /\ rpc = "blocked" => \/ state = "owned"
                          \/ held["sender"] = "owned"
                          \/ held["up"] = "owned"
    /\ rpc = "selecting" => \/ state = "shared"
                            \/ held["sender"] = "shared"
                            \/ held["up"] = "shared"
    /\ rpc \in {"blocked", "load", "selecting", "abort_load", "abort_cas"}
         => state # "EMPTY"

(* What the receiver has seen in the word is still true of the slots. *)
ReceiverInv ==
    /\ rpc \in {"disc", "can", "start", "abort", "drop_old"} => Closed
    /\ rpc \in {"cas", "take", "destroy"} => data # None /\ sret = "true"
    /\ rpc = "cas" => state \in {"DATA", "DISCONNECTED"}
    /\ rpc = "take" => state \in {"EMPTY", "DISCONNECTED"}
    /\ state = "DATA" => sret # "none"
    /\ state = "DATA" /\ rpc # "gone" => data # None /\ sret = "true"
    /\ rpc = "destroy" => state = "DISCONNECTED"
    /\ rpc \in {"cas", "take", "disc"} => ready = FALSE
    /\ rpc = "drop_old" => data = None /\ upgrade # "GoUp"
    /\ ready = TRUE /\ rpc = "idle" => state \in {"DATA", "DISCONNECTED"}

(* Conservation of the message, by cases on what send has returned. *)
MessageInv ==
    /\ sret = "none" => got = 0 /\ burnt = 0
    /\ sret = "none" /\ spc # "send" => data = None
    /\ sret = "false" => got = 0 /\ burnt = 1 /\ data = None
    /\ sret = "true" /\ data # None => got = 0 /\ burnt = 0
    /\ sret = "true" /\ data = None => \/ got = 1 /\ burnt = 0
                                       \/ got = 0 /\ burnt = 1

IInv == TypeOK /\ fails = {} /\ SenderInv /\ WakeInv /\ ReceiverInv
        /\ MessageInv
-----------------------------------------------------------------------------
(* The inductive invariant holds of a new packet. *)
LEMMA OneshotInit == Init => IInv
<1> SUFFICES ASSUME Init PROVE IInv
  BY Zenon
<1>1. ready \in BOOLEAN
  BY Zenon DEF Init
<1>2. TypeOK /\ fails = {}
  BY SMTT(30), <1>1 DEF Init, TypeOK, States, Upgrades, SenderPCs,
         ReceiverPCs, Held, Handles
<1>3. SenderInv /\ WakeInv
  BY Zenon DEF Init, SenderInv, WakeInv, Closed, Handles
<1>4. ReceiverInv /\ MessageInv
  BY Zenon DEF Init, ReceiverInv, MessageInv, Closed
<1>5. QED
  BY Zenon, <1>2, <1>3, <1>4 DEF IInv

(* Every step of either half, and of select, preserves it. *)
LEMMA OneshotStep == IInv /\ [Next]_vars => IInv'
<1> SUFFICES ASSUME IInv, [Next]_vars PROVE IInv'
  BY Zenon
<1> USE NoneAssumption DEF IInv, TypeOK, SenderInv, WakeInv,
        ReceiverInv, MessageInv, Closed, States, Upgrades, SenderPCs,
        ReceiverPCs, Held, Handles, Check, packet, sender
<1>1. ASSUME NEW v \in Values, Send(v) PROVE IInv'
  BY SMTT(30), <1>1 DEF Send
<1>2. CASE SendSwap
  BY SMTT(30), <1>2 DEF SendSwap, Taken
<1>3. ASSUME NEW kind \in {"upStream", "upShared"}, StartUpgrade(kind) PROVE IInv'
  BY SMTT(30), <1>3 DEF StartUpgrade
<1>4. CASE UpgradeSwap
  BY SMTT(30), <1>4 DEF UpgradeSwap, Taken
<1>5. CASE DropChan
  BY SMTT(30), <1>5 DEF DropChan, Taken
<1>6. CASE Wake
  BY SMTT(30), <1>6 DEF Wake, WakeHandle
<1>7. CASE InheritorWakes
  BY SMTT(30), <1>7 DEF InheritorWakes, WakeHandle
<1>8. CASE Recv
  BY SMTT(30), <1>8 DEF Recv
<1>9. CASE Deschedule
  BY SMTT(30), <1>9 DEF Deschedule
<1>10. CASE TryRecvLoad
  <2>1. ready' \in BOOLEAN
    BY Zenon, <1>10, Zenon DEF TryRecvLoad
  <2>2. state \notin Handles /\ (rpc = "load" => state # "EMPTY")
    BY Zenon, <1>10 DEF TryRecvLoad
  <2>3. fails' = {}
    BY Zenon, <1>10, <2>2 DEF TryRecvLoad
  <2>4. /\ UNCHANGED <<state, data, upgrade, spc, after, prev, sret,
                       held, got, burnt>>
        /\ rpc' \in {"idle", "cas", "disc"}
    BY Zenon, <1>10 DEF TryRecvLoad
  <2>5. TypeOK' /\ fails' = {}
    BY SMTT(30), <2>1, <2>3, <2>4
  <2>6. SenderInv'
    BY Zenon, <1>10 DEF TryRecvLoad
  <2>7. WakeInv'
    BY Zenon, <1>10 DEF TryRecvLoad
  <2>8. ReceiverInv'
    BY Zenon, <1>10 DEF TryRecvLoad
  <2>9. MessageInv'
    BY Zenon, <1>10 DEF TryRecvLoad
  <2>10. QED
    BY Zenon, <2>5, <2>6, <2>7, <2>8, <2>9
<1>11. CASE TryRecvCas
  BY SMTT(30), <1>11 DEF TryRecvCas
<1>12. CASE TryRecvTake
  BY SMTT(30), <1>12 DEF TryRecvTake
<1>13. CASE TryRecvDisconnected
  BY SMTT(30), <1>13 DEF TryRecvDisconnected
<1>14. CASE DropPort
  BY SMTT(30), <1>14 DEF DropPort
<1>15. CASE DropPortTake
  BY SMTT(30), <1>15 DEF DropPortTake
<1>16. CASE CanRecv
  BY SMTT(30), <1>16 DEF CanRecv
<1>17. CASE StartSelection
  BY SMTT(30), <1>17 DEF StartSelection
<1>18. CASE AbortLoad
  BY SMTT(30), <1>18 DEF AbortLoad
<1>19. CASE AbortCas
  <2>1. TypeOK' /\ fails' = {}
    BY SMTT(30), <1>19 DEF AbortCas
  <2>2. SenderInv'
    BY Zenon, <1>19 DEF AbortCas
  <2>3. WakeInv'
    BY Zenon, <1>19 DEF AbortCas
  <2>4. ReceiverInv'
    BY Zenon, <1>19 DEF AbortCas
  <2>5. MessageInv'
    BY Zenon, <1>19 DEF AbortCas
  <2>6. QED
    BY Zenon, <2>1, <2>2, <2>3, <2>4, <2>5
<1>20. CASE SelectDisconnected
  <2>1. ready' \in BOOLEAN
    BY Zenon, <1>20, Zenon DEF SelectDisconnected
  <2>2. TypeOK' /\ fails' = {}
    BY SMTT(30), <1>20, <2>1 DEF SelectDisconnected
  <2>3. SenderInv'
    BY Zenon, <1>20 DEF SelectDisconnected
  <2>4. WakeInv'
    BY Zenon, <1>20 DEF SelectDisconnected
  <2>5. ReceiverInv'
    BY Zenon, <1>20 DEF SelectDisconnected
  <2>6. MessageInv'
    BY Zenon, <1>20 DEF SelectDisconnected
  <2>7. QED
    BY Zenon, <2>2, <2>3, <2>4, <2>5, <2>6
<1>21. CASE OtherPortReady
  BY SMTT(30), <1>21 DEF OtherPortReady
<1>22. CASE UNCHANGED vars
  BY SMTT(30), <1>22 DEF vars
<1>23. QED
  BY Zenon, <1>1, <1>2, <1>3, <1>4, <1>5, <1>6, <1>7, <1>8, <1>9, <1>10, <1>11, <1>12, <1>13, <1>14, <1>15, <1>16, <1>17, <1>18, <1>19, <1>20, <1>21, <1>22 DEF Next, SenderNext, ReceiverNext, Finished

(* For any set of messages, no assertion of oneshot.rs fails; the message   *)
(* is handed out or destroyed at most once (TypeOK).                        *)
THEOREM OneshotAssertions == Spec => []NoAssertionFails
<1>1. IInv => NoAssertionFails
  BY Zenon DEF IInv, SenderInv, ReceiverInv, Closed, NoAssertionFails
<1>2. QED
  BY <1>1, OneshotInit, OneshotStep, PTL DEF Spec

(* Exactly one party can wake a receiver that sleeps in recv or in select.  *)
THEOREM OneshotWaker == Spec => []OneWaker
<1>1. IInv => OneWaker
  BY Zenon DEF IInv, WakeInv, OneWaker, Wakers, Handles, TypeOK, Held
<1>2. QED
  BY <1>1, OneshotInit, OneshotStep, PTL DEF Spec

(* The two halves never race on the plain fields `data` and `upgrade`.      *)
THEOREM OneshotRaceFree == Spec => []NoDataRace
<1>1. IInv => NoDataRace
  BY Zenon DEF IInv, SenderInv, ReceiverInv, NoDataRace, SenderUsesData,
         SenderUsesUpgrade, Closed, TypeOK, MessageInv
<1>2. QED
  BY <1>1, OneshotInit, OneshotStep, PTL DEF Spec

(* The message is neither lost nor duplicated, by a receive, a failed send, *)
(* a drop or an upgrade.                                                    *)
THEOREM OneshotExactlyOnce == Spec => []ExactlyOnce
<1>1. IInv => ExactlyOnce
  BY SMTT(30) DEF IInv, MessageInv, SenderInv, ReceiverInv, Closed, TypeOK, ExactlyOnce
<1>2. QED
  BY <1>1, OneshotInit, OneshotStep, PTL DEF Spec

(* A port that select reports as ready is ready, for any set of messages.   *)
THEOREM OneshotSelect == Spec => []SelectReady
<1>1. IInv => SelectReady
  BY Zenon DEF IInv, TypeOK, ReceiverInv, SenderInv, Closed, SelectReady
<1>2. QED
  BY <1>1, OneshotInit, OneshotStep, PTL DEF Spec
=============================================================================
