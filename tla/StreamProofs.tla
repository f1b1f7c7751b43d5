---------------------------- MODULE StreamProofs ----------------------------
(***************************************************************************)
(* That StreamInv is an invariant of Stream, one lemma for each action, and*)
(* what it implies.  An action's lemma first says what the action does     *)
(* (step e), in each case of it, and then takes the conjuncts of the       *)
(* invariant in groups.                                                    *)
(***************************************************************************)
EXTENDS Stream, TLAPS

(* The constants, one by one. *)
Constants ==
    /\ MaxSends \in Nat /\ MAX_STEALS \in Nat /\ Selects \in BOOLEAN
    /\ DISCONNECTED \in Int /\ DISCONNECTED < -10

(* What the assumption on the constants comes to: DISCONNECTED is no        *)
(* count.                                                                   *)
LEMMA StreamConstants == ASSUME StreamAssumption PROVE Constants
BY SMTT(30) DEF StreamAssumption, Constants

-----------------------------------------------------------------------------
(* The queue. *)

(* The length of the queue. *)
LEMMA QueueLen ==
  ASSUME TypeOK
  PROVE  Len(queue) \in Nat /\ (queue = <<>> <=> Len(queue) = 0)
BY SMTT(30) DEF TypeOK

(* What the queue is without its head, and with one more message; what the  *)
(* user has received with one more.                                         *)
Popped ==
    /\ Len(queue) \in Nat \ {0} /\ Len(queue') = Len(queue) - 1
    /\ \A i \in 1..Len(queue') : i + 1 \in 1..Len(queue) /\ queue'[i] = queue[i + 1]
    /\ queue' = <<>> <=> Len(queue) = 1
    /\ 1 \in 1..Len(queue) /\ Head(queue) = queue[1]
    /\ Head(queue) \in Messages \cup {GoUp} /\ queue' \in Seq(Messages \cup {GoUp})
Pushed ==
    /\ Len(queue) \in Nat /\ Len(queue') = Len(queue) + 1 /\ queue' # <<>>
    /\ \A i \in 1..Len(queue) : queue'[i] = queue[i]
    /\ queue'[Len(queue) + 1] = smsg /\ queue' \in Seq(Messages \cup {GoUp})
HandedOut(v) ==
    /\ Len(received) \in Nat /\ Len(received') = Len(received) + 1
    /\ \A i \in 1..Len(received) : received'[i] = received[i]
    /\ received'[Len(received) + 1] = v /\ received' \in Seq(Messages)

(* Popping takes the head of the queue and moves the others up. *)
LEMMA QueueTail ==
  ASSUME TypeOK, queue # <<>>, queue' = Tail(queue)
  PROVE  Popped
PROOF
<1>1. queue \in Seq(Messages \cup {GoUp}) /\ Len(queue) \in Nat \ {0} /\ Head(queue) = queue[1]
  BY SMTT(30) DEF TypeOK
<1>2. /\ queue' \in Seq(Messages \cup {GoUp}) /\ Len(queue') = Len(queue) - 1
      /\ Head(queue) \in Messages \cup {GoUp}
      /\ \A i \in 1..(Len(queue) - 1) : queue'[i] = queue[i + 1]
  BY SMTT(30), <1>1
<1>3. queue' = <<>> <=> Len(queue') = 0
  BY SMTT(30), <1>2
<1>4. QED BY SMTT(30), <1>1, <1>2, <1>3 DEF Popped

(* Pushing leaves what is queued where it is. *)
LEMMA QueuePush ==
  ASSUME TypeOK, queue' = Append(queue, smsg)
  PROVE  Pushed
PROOF
<1>1. queue \in Seq(Messages \cup {GoUp}) /\ smsg \in Messages \cup {GoUp} /\ Len(queue) \in Nat
  BY SMTT(30) DEF TypeOK
<1>2. /\ queue' \in Seq(Messages \cup {GoUp})
      /\ Len(queue') = Len(queue) + 1
      /\ \A i \in 1..Len(queue) : queue'[i] = queue[i]
      /\ queue'[Len(queue) + 1] = smsg
  BY SMTT(30), <1>1
<1>3. queue' # <<>>
  BY SMTT(30), <1>1, <1>2
<1>4. QED BY Zenon, <1>1, <1>2, <1>3 DEF Pushed

(* A message handed to the user comes after those already received. *)
LEMMA ReceivedAppend ==
  ASSUME TypeOK, NEW v \in Messages, received' = Append(received, v)
  PROVE  HandedOut(v)
BY SMTT(30) DEF TypeOK, HandedOut
-----------------------------------------------------------------------------
(* The order of messages. *)

(* The order, when nothing of the messages changes. *)
LEMMA OrderedFrame ==
  ASSUME TypeOK, TypeOK', Ordered, UNCHANGED <<queue, received, nsent, smsg>>,
         portDropped => portDropped', Held' = Held, Held = 1 => got' = got,
         spc' = "push" <=> spc = "push",
         spc' = "idle" => spc = "idle" \/ smsg # GoUp
  PROVE  Ordered'
BY ZenonT(60) DEF TypeOK, Ordered, Unpushed, UpgradeQueued

(* A send that begins takes the next number, or is an upgrade. *)
LEMMA OrderedBegin ==
  ASSUME TypeOK, TypeOK', Ordered, UNCHANGED <<queue, received, portDropped>>, Held' = Held,
                                               got' = got,
         spc = "idle", spc' = "push" \/ portDropped,
         \/ smsg' = GoUp /\ nsent' = nsent
         \/ smsg' = nsent + 1 /\ nsent' = nsent + 1
  PROVE  Ordered'
PROOF
<1>1. \A i \in 1..Len(queue) : queue[i] # GoUp
  BY Zenon DEF Ordered
<1>2. UpgradeQueued = 0 /\ UpgradeQueued' = 0
  BY SMTT(30), <1>1, QueueLen DEF UpgradeQueued
<1>3. nsent \in Nat /\ Len(received) \in Nat /\ Len(queue) \in Nat /\ Held \in {0, 1}
  BY SMTT(30) DEF TypeOK, Held
<1>4. Unpushed = 0 /\ (spc' = "push" => Unpushed' = nsent' - nsent)
  BY SMTT(30), <1>3 DEF Unpushed, GoUp
<1>5. QED BY SMTT(30), <1>1, <1>2, <1>3, <1>4 DEF Ordered

(* The message a sender pushes is the next in order. *)
LEMMA OrderedPush ==
  ASSUME TypeOK, TypeOK', Ordered, UNCHANGED <<received, portDropped, nsent, smsg>>,
                                               Held' = Held, got' = got,
         spc = "push", spc' = "add", Pushed
  PROVE  Ordered'
PROOF
<1>1. \A i \in 1..Len(queue) : queue[i] # GoUp
  BY Zenon DEF Ordered
<1>2. UpgradeQueued = 0
  BY SMTT(30), <1>1, QueueLen DEF UpgradeQueued
<1>3. nsent \in Nat /\ Len(received) \in Nat /\ Len(queue) \in Nat /\ Held \in {0, 1}
  BY SMTT(30) DEF TypeOK, Held
<1>4. /\ Len(queue') = Len(queue) + 1 /\ queue' # <<>> /\ queue'[Len(queue) + 1] = smsg
      /\ \A i \in 1..Len(queue) : queue'[i] = queue[i]
  BY Zenon DEF Pushed
<1>5. /\ UpgradeQueued' = 1 - Unpushed /\ Unpushed' = 0 /\ Unpushed \in {0, 1}
      /\ Unpushed = 1 <=> smsg # GoUp
  BY SMTT(30), <1>3, <1>4 DEF Unpushed, UpgradeQueued
<1>6. \A i \in 1..Len(queue') : i \in 1..Len(queue) \/ i = Len(queue) + 1
  BY SMTT(30), <1>3, <1>4
<1>7. \A i \in 1..Len(queue') : queue'[i] = GoUp => i = Len(queue') /\ smsg' = GoUp
  BY Zenon, <1>1, <1>3, <1>4, <1>6
<1>8. ~portDropped => \A i \in 1..Len(queue') :
        queue'[i] # GoUp => queue'[i] = Len(received') + Held' + i
  <2>1. ~portDropped /\ smsg # GoUp => smsg = Len(received) + Held + Len(queue) + 1
    BY SMTT(30), <1>2, <1>3, <1>5 DEF Ordered
  <2>2. ~portDropped => \A i \in 1..Len(queue) : queue[i] = Len(received) + Held + i
    BY Zenon, <1>1 DEF Ordered
  <2>3. ASSUME ~portDropped, NEW i \in 1..Len(queue'), queue'[i] # GoUp
        PROVE  queue'[i] = Len(received) + Held + i
    <3>1. CASE i \in 1..Len(queue)
      BY Zenon, <1>4, <2>2, <2>3, <3>1
    <3>2. CASE i = Len(queue) + 1
      BY SMTT(30), <1>3, <1>4, <2>1, <2>3, <3>2
    <3>3. QED BY Zenon, <1>6, <3>1, <3>2
  <2>4. QED BY Zenon, <2>3
<1>9. ~portDropped => nsent = Len(received) + Held + Len(queue') - UpgradeQueued' + Unpushed'
  <2>1. ~portDropped => nsent = Len(received) + Held + Len(queue) - UpgradeQueued + Unpushed
    BY Zenon DEF Ordered
  <2>2. QED BY SMTT(30), <1>2, <1>3, <1>4, <1>5, <2>1
<1>10. /\ \A i \in 1..Len(received') : received'[i] = i
       /\ ~portDropped /\ Held' = 1 => got' = Len(received') + 1
  BY Zenon DEF Ordered
<1>11. QED BY Zenon, <1>7, <1>8, <1>9, <1>10 DEF Ordered

(* The head of the queue is taken out; it stays in hand, goes to the user,  *)
(* or is an upgrade.                                                        *)
LEMMA OrderedPop ==
  ASSUME TypeOK, TypeOK', Ordered, UNCHANGED <<portDropped, nsent, smsg, spc>>,
         Popped, Held = 0, ~portDropped,
         \/ queue[1] # GoUp /\ received' = received /\ got' = queue[1] /\ Held' = 1
         \/ queue[1] # GoUp /\ HandedOut(queue[1]) /\ Held' = 0
         \/ queue[1] = GoUp /\ received' = received /\ Held' = 0
  PROVE  Ordered'
PROOF
<1>1. /\ Len(queue) \in Nat \ {0} /\ Len(queue') = Len(queue) - 1
      /\ \A i \in 1..Len(queue') : queue'[i] = queue[i + 1] /\ i + 1 \in 1..Len(queue)
      /\ queue' = <<>> <=> Len(queue) = 1
      /\ 1 \in 1..Len(queue) /\ queue # <<>>
  BY Zenon, QueueLen DEF Popped
<1>2. nsent \in Nat /\ Len(received) \in Nat /\ Len(received') \in Nat
  BY SMTT(30) DEF TypeOK
<1>u. Unpushed' = Unpushed /\ Unpushed \in {0, 1}
  BY Zenon DEF Unpushed
<1>p. spc' = "push" /\ smsg' # GoUp => smsg' = nsent'
  BY Zenon DEF Ordered
<1>3. CASE queue[1] = GoUp
  <2>1. Len(queue) = 1 /\ queue' = <<>> /\ received' = received /\ Held' = 0
    BY Zenon, <1>1, <1>3 DEF Ordered
  <2>2. UpgradeQueued = 1 /\ UpgradeQueued' = 0
    BY Zenon, <1>1, <1>3, <2>1 DEF UpgradeQueued
  <2>3. \A i \in 1..Len(queue') : FALSE
    BY SMTT(30), <1>1, <2>1
  <2>4. nsent' = Len(received') + Held' + Len(queue') - UpgradeQueued' + Unpushed'
    BY SMTT(30), <1>1, <1>2, <1>u, <2>1, <2>2 DEF Ordered
  <2>5. \A i \in 1..Len(received') : received'[i] = i
    BY Zenon, <2>1 DEF Ordered
  <2>6. QED BY SMTT(30), <1>p, <2>1, <2>3, <2>4, <2>5 DEF Ordered
<1>4. CASE queue[1] # GoUp
  <2>1. UpgradeQueued' = UpgradeQueued /\ UpgradeQueued \in {0, 1}
    <3>1. CASE Len(queue) = 1
      BY Zenon, <1>1, <1>4, <3>1 DEF UpgradeQueued
    <3>2. CASE Len(queue) # 1
      <4>1. Len(queue') \in 1..Len(queue') /\ Len(queue') + 1 = Len(queue)
        BY SMTT(30), <1>1, <3>2
      <4>2. queue'[Len(queue')] = queue[Len(queue)]
        BY Zenon, <1>1, <4>1
      <4>3. QED BY Zenon, <1>1, <3>2, <4>2 DEF UpgradeQueued
    <3>3. QED BY Zenon, <3>1, <3>2
  <2>2. queue[1] = Len(received) + 1
    BY SMTT(30), <1>1, <1>2, <1>4 DEF Ordered
  <2>3. ASSUME NEW i \in 1..Len(queue'), queue'[i] = GoUp
        PROVE  i = Len(queue') /\ smsg' = GoUp /\ spc' \notin {"idle", "push"}
    <3>1. queue[i + 1] = GoUp /\ i + 1 \in 1..Len(queue)
      BY Zenon, <1>1, <2>3
    <3>2. i + 1 = Len(queue) /\ smsg = GoUp /\ spc \notin {"idle", "push"}
      BY Zenon, <3>1 DEF Ordered
    <3>3. QED BY SMTT(30), <1>1, <3>2
  <2>4. ASSUME NEW i \in 1..Len(queue'), queue'[i] # GoUp
        PROVE  queue'[i] = Len(received) + 1 + i
    <3>1. queue'[i] = queue[i + 1] /\ queue[i + 1] # GoUp /\ i + 1 \in 1..Len(queue)
      BY SMTT(30), <1>1, <2>4
    <3>2. queue[i + 1] = Len(received) + Held + (i + 1)
      BY Zenon, <3>1 DEF Ordered
    <3>3. QED BY SMTT(30), <1>1, <1>2, <3>1, <3>2
  <2>5. nsent = Len(received) + 1 + Len(queue') - UpgradeQueued' + Unpushed'
    <3>1. nsent = Len(received) + Held + Len(queue) - UpgradeQueued + Unpushed
      BY Zenon DEF Ordered
    <3>2. QED BY SMTT(30), <1>1, <1>2, <1>u, <2>1, <3>1
  <2>6. CASE received' = received /\ got' = queue[1] /\ Held' = 1
    <3>1. \A i \in 1..Len(received') : received'[i] = i
      BY Zenon, <2>6 DEF Ordered
    <3>2. QED BY Zenon, <1>2, <1>p, <2>2, <2>3, <2>4, <2>5, <2>6, <3>1 DEF Ordered
  <2>7. CASE HandedOut(queue[1]) /\ Held' = 0
    <3>1. /\ Len(received') = Len(received) + 1 /\ received'[Len(received) + 1] = queue[1]
          /\ \A i \in 1..Len(received) : received'[i] = received[i]
      BY Zenon, <2>7 DEF HandedOut
    <3>2. \A i \in 1..Len(received') : i \in 1..Len(received) \/ i = Len(received) + 1
      BY SMTT(30), <1>2, <3>1
    <3>3. \A i \in 1..Len(received') : received'[i] = i
      BY Zenon, <2>2, <3>1, <3>2 DEF Ordered
    <3>4. \A i \in 1..Len(queue') : queue'[i] # GoUp => queue'[i] = Len(received') + Held' + i
      BY SMTT(30), <1>2, <2>4, <2>7, <3>1
    <3>5. nsent' = Len(received') + Held' + Len(queue') - UpgradeQueued' + Unpushed'
      BY SMTT(30), <1>1, <1>2, <2>5, <2>7, <3>1
    <3>6. QED BY SMTT(30), <1>p, <2>3, <2>7, <3>3, <3>4, <3>5 DEF Ordered
  <2>8. QED BY Zenon, <1>4, <2>6, <2>7
<1>5. QED BY Zenon, <1>3, <1>4

(* An upgrade at the head is alone in the queue. *)
LEMMA UpgradeAlone ==
  ASSUME Ordered, Popped, queue[1] = GoUp
  PROVE  queue' = <<>> /\ Len(queue) = 1 /\ smsg = GoUp /\ spc \notin {"idle", "push"}
PROOF
<1>1. 1 \in 1..Len(queue) /\ (queue' = <<>> <=> Len(queue) = 1)
  BY Zenon DEF Popped
<1>2. QED BY Zenon, <1>1 DEF Ordered

(* The message in hand goes to the user. *)
LEMMA OrderedReturn ==
  ASSUME TypeOK, TypeOK', Ordered, UNCHANGED <<portDropped, nsent, smsg, spc, queue>>,
         ~portDropped, Held = 1, Held' = 0, HandedOut(got)
  PROVE  Ordered'
PROOF
<1>1. nsent \in Nat /\ Len(received) \in Nat /\ Len(queue) \in Nat
  BY SMTT(30) DEF TypeOK
<1>2. /\ Len(received') = Len(received) + 1 /\ received'[Len(received) + 1] = got
      /\ \A i \in 1..Len(received) : received'[i] = received[i]
  BY Zenon DEF HandedOut
<1>3. \A i \in 1..Len(received') : i \in 1..Len(received) \/ i = Len(received) + 1
  BY SMTT(30), <1>1, <1>2
<1>4. \A i \in 1..Len(received') : received'[i] = i
  BY Zenon, <1>2, <1>3 DEF Ordered
<1>5. UpgradeQueued' = UpgradeQueued /\ UpgradeQueued \in {0, 1} /\ Unpushed' = Unpushed
  BY Zenon DEF UpgradeQueued, Unpushed
<1>6. QED BY SMTT(30), <1>1, <1>2, <1>4, <1>5 DEF Ordered

(* A queue nobody will receive from loses its head. *)
LEMMA OrderedDrain ==
  ASSUME TypeOK, TypeOK', Ordered, UNCHANGED <<portDropped, smsg, received, nsent>>,
                                               portDropped,
         Popped, spc' = "push" <=> spc = "push",
         spc' = "idle" => spc = "idle" \/ smsg # GoUp
  PROVE  Ordered'
PROOF
<1>1. ASSUME NEW i \in 1..Len(queue'), queue'[i] = GoUp
      PROVE  i = Len(queue') /\ smsg' = GoUp /\ spc' \notin {"idle", "push"}
  <2>1. queue[i + 1] = GoUp /\ i + 1 \in 1..Len(queue)
    BY Zenon, <1>1 DEF Popped
  <2>2. i + 1 = Len(queue) /\ smsg = GoUp /\ spc \notin {"idle", "push"}
    BY Zenon, <2>1 DEF Ordered
  <2>3. QED BY SMTT(30), <2>2 DEF Popped
<1>2. QED BY Zenon, <1>1 DEF Ordered

(* What was handed out was sent. *)
LEMMA ReceivedBound ==
  ASSUME TypeOK', Ordered', ~portDropped'
  PROVE  Len(received') <= nsent'
PROOF
<1>1. /\ Len(received') \in Nat /\ Len(queue') \in Nat /\ nsent' \in Nat
      /\ queue' # <<>> => Len(queue') # 0
  BY SMTT(30) DEF TypeOK
<1>2. /\ Held' \in {0, 1} /\ Unpushed' \in {0, 1} /\ UpgradeQueued' \in {0, 1}
      /\ UpgradeQueued' <= Len(queue')
  BY SMTT(30), <1>1 DEF Held, Unpushed, UpgradeQueued
<1>3. nsent' = Len(received') + Held' + Len(queue') - UpgradeQueued' + Unpushed'
  BY Zenon DEF Ordered
<1>4. QED BY SMTT(60), <1>1, <1>2, <1>3
-----------------------------------------------------------------------------
(* send and upgrade look at port_dropped before they push. *)
LEMMA DoSendKeeps ==
  ASSUME StreamAssumption, StreamInv, DoSend
  PROVE  StreamInv'
PROOF
<1>a. Constants /\ TypeOK BY Zenon, StreamConstants DEF StreamInv
<1>n. Len(queue) \in Nat /\ (queue = <<>> <=> Len(queue) = 0) BY Zenon, <1>a, QueueLen
<1> USE <1>a, <1>n DEF StreamInv
<1>1. CASE nsent < MaxSends /\ nsent' = nsent + 1 /\ smsg' = nsent + 1 /\ portDropped
  <2>r. {nsent + 1} \ {GoUp} = {nsent + 1} /\ nsent + 1 # GoUp
    BY SMTT(30), <1>1 DEF TypeOK, GoUp
  <2>e. /\ spc = "idle"
        /\ spc' = "idle"
        /\ refused' = refused \cup {nsent + 1}
        /\ nsent' = nsent + 1
        /\ smsg' = nsent + 1
        /\ UNCHANGED <<queue, cnt, steals, toWake, portDropped, handle, rpc, rmode, got, amt,
                       dsteals, ready, received, hungup, fails>>
    BY Zenon, <1>1, <2>r DEF DoSend, packet, sender, receiver, unlocal, TypeOK
  <2>t. cnt' # DISCONNECTED => steals' \in 0..(MAX_STEALS + 1)
    BY Zenon, <1>1, <2>r, <2>e DEF TypeOK
  <2>1. TypeOK'
    BY SMTT(30), <1>1, <2>r, <2>e, <2>t DEF TypeOK, Messages, GoUp, Constants
  <2>2. NoAssertionFails' /\ Steals' /\ Answers'
    BY ZenonT(60), <1>1, <2>r, <2>e DEF NoAssertionFails, Steals, Answers, PortClosing, SenderLeft,
       Uncounted
  <2>3. CounterExact' /\ Counts' /\ Handles'
    BY SMTT(30), <1>1, <2>r, <2>e DEF CounterExact, Debt, Uncounted, Counts, SenderLeft,
       CountedAsleep, Upgraded, Handles
  <2>4. Ordered'
    BY ZenonT(60), <1>1, <2>r, <2>e, <2>1, OrderedBegin DEF Held
  <2>5. Gated'
    BY SMTT(30), <1>1, <2>r, <2>e DEF Gated, PortClosing, TypeOK
  <2>6. QED BY Zenon, <2>1, <2>2, <2>3, <2>4, <2>5 DEF StreamInv
<1>2. CASE nsent < MaxSends /\ nsent' = nsent + 1 /\ smsg' = nsent + 1 /\ ~portDropped
  <2>e. /\ spc = "idle"
        /\ spc' = "push"
        /\ nsent' = nsent + 1
        /\ smsg' = nsent + 1
        /\ UNCHANGED <<queue, cnt, steals, toWake, portDropped, handle, rpc, rmode, got, amt,
                       dsteals, ready, received, hungup, refused, fails>>
    BY Zenon, <1>2 DEF DoSend, packet, sender, receiver, unlocal
  <2>t. cnt' # DISCONNECTED => steals' \in 0..(MAX_STEALS + 1)
    BY Zenon, <1>2, <2>e DEF TypeOK
  <2>1. TypeOK'
    BY SMTT(30), <1>2, <2>e, <2>t DEF TypeOK, Messages, GoUp, Constants
  <2>2. NoAssertionFails' /\ Steals' /\ Answers'
    BY ZenonT(60), <1>2, <2>e DEF NoAssertionFails, Steals, Answers, PortClosing, SenderLeft,
       Uncounted
  <2>3. CounterExact' /\ Counts' /\ Handles'
    BY SMTT(30), <1>2, <2>e DEF CounterExact, Debt, Uncounted, Counts, SenderLeft,
       CountedAsleep,
       Upgraded, Handles
  <2>4. Ordered'
    BY ZenonT(60), <1>2, <2>e, <2>1, OrderedBegin DEF Held
  <2>5. Gated'
    BY SMTT(30), <1>2, <2>e DEF Gated, PortClosing, TypeOK
  <2>6. QED BY Zenon, <2>1, <2>2, <2>3, <2>4, <2>5 DEF StreamInv
<1>3. CASE smsg' = GoUp /\ nsent' = nsent /\ portDropped
  <2>r. refused \cup ({GoUp} \ {GoUp}) = refused
    BY Zenon, <1>3
  <2>e. /\ spc = "idle"
        /\ spc' = "drop"
        /\ smsg' = GoUp
        /\ UNCHANGED <<queue, cnt, steals, toWake, portDropped, nsent, handle, rpc, rmode, got,
                       amt, dsteals, ready, received, hungup, refused, fails>>
    BY ZenonT(30), <1>3, <2>r DEF DoSend, packet, sender, receiver, unlocal
  <2>t. cnt' # DISCONNECTED => steals' \in 0..(MAX_STEALS + 1)
    BY ZenonT(60), <1>3, <2>r, <2>e DEF TypeOK
  <2>1. TypeOK'
    BY SMTT(30), <1>3, <2>r, <2>e, <2>t DEF TypeOK
  <2>2. NoAssertionFails' /\ Steals' /\ Gated' /\ Answers'
    BY ZenonT(60), <1>3, <2>r, <2>e DEF NoAssertionFails, Steals, Gated, PortClosing, Answers,
       SenderLeft, Uncounted
  <2>3. CounterExact' /\ Counts' /\ Handles'
    BY SMTT(30), <1>3, <2>r, <2>e DEF CounterExact, Debt, Uncounted, Counts, SenderLeft,
       CountedAsleep, Upgraded, Handles
  <2>4. Ordered'
    BY Zenon, <1>3, <2>r, <2>e, <2>1, OrderedBegin DEF Held
  <2>5. QED BY Zenon, <2>1, <2>2, <2>3, <2>4 DEF StreamInv
<1>4. CASE smsg' = GoUp /\ nsent' = nsent /\ ~portDropped
  <2>e. /\ spc = "idle"
        /\ spc' = "push"
        /\ smsg' = GoUp
        /\ UNCHANGED <<queue, cnt, steals, toWake, portDropped, nsent, handle, rpc, rmode, got,
                       amt, dsteals, ready, received, hungup, refused, fails>>
    BY Zenon, <1>4 DEF DoSend, packet, sender, receiver, unlocal
  <2>t. cnt' # DISCONNECTED => steals' \in 0..(MAX_STEALS + 1)
    BY Zenon, <1>4, <2>e DEF TypeOK
  <2>1. TypeOK'
    BY SMTT(30), <1>4, <2>e, <2>t DEF TypeOK
  <2>2. NoAssertionFails' /\ Steals' /\ Gated' /\ Answers'
    BY ZenonT(60), <1>4, <2>e DEF NoAssertionFails, Steals, Gated, PortClosing, Answers, SenderLeft,
       Uncounted
  <2>3. CounterExact' /\ Counts' /\ Handles'
    BY SMTT(30), <1>4, <2>e DEF CounterExact, Debt, Uncounted, Counts, SenderLeft,
       CountedAsleep,
       Upgraded, Handles
  <2>4. Ordered'
    BY ZenonT(60), <1>4, <2>e, <2>1, OrderedBegin DEF Held
  <2>5. QED BY Zenon, <2>1, <2>2, <2>3, <2>4 DEF StreamInv
<1>5. QED BY Zenon, <1>1, <1>2, <1>3, <1>4 DEF DoSend

(* The queue has a message that the count does not have yet. *)
LEMMA SendPushKeeps ==
  ASSUME StreamAssumption, StreamInv, SendPush
  PROVE  StreamInv'
PROOF
<1>a. Constants /\ TypeOK BY Zenon, StreamConstants DEF StreamInv
<1>n. Len(queue) \in Nat /\ (queue = <<>> <=> Len(queue) = 0) BY Zenon, <1>a, QueueLen
<1> USE <1>a, <1>n DEF StreamInv
<1>e. /\ spc = "push"
      /\ spc' = "add"
      /\ queue' = Append(queue, smsg)
      /\ UNCHANGED <<cnt, steals, toWake, portDropped, nsent, smsg, handle, rpc, rmode, got,
                     amt, dsteals, ready, received, hungup, refused, fails>>
  BY Zenon DEF SendPush, packet, sender, receiver, unlocal
<1>p. Pushed
  BY Zenon, <1>e, QueuePush
<1>q. Len(queue') = Len(queue) + 1 /\ queue' # <<>>
  BY Zenon, <1>p DEF Pushed
<1>t. cnt' # DISCONNECTED => steals' \in 0..(MAX_STEALS + 1)
  BY Zenon, <1>e, <1>q DEF TypeOK
<1>1. TypeOK'
  BY SMTT(30), <1>e, <1>q, <1>p, <1>t DEF TypeOK, Pushed
<1>2. NoAssertionFails' /\ Steals' /\ Gated' /\ Answers'
  BY SMTT(30), <1>e, <1>q DEF NoAssertionFails, Steals, Gated, PortClosing, Answers, SenderLeft,
     Uncounted
<1>3. CounterExact' /\ Counts' /\ Handles'
  BY SMTT(30), <1>e, <1>q DEF CounterExact, Debt, Uncounted, Counts, SenderLeft, CountedAsleep,
     Upgraded, Handles
<1>4. Ordered'
  BY Zenon, <1>e, <1>q, <1>p, <1>1, OrderedPush DEF Held
<1>5. QED BY Zenon, <1>1, <1>2, <1>3, <1>4 DEF StreamInv

(* do_send adds to the count: it meets a sleeper at -1, or a port that is   *)
(* gone, whose last message it takes back.                                  *)
LEMMA SendAddKeeps ==
  ASSUME StreamAssumption, StreamInv, SendAdd
  PROVE  StreamInv'
PROOF
<1>a. Constants /\ TypeOK BY Zenon, StreamConstants DEF StreamInv
<1>n. Len(queue) \in Nat /\ (queue = <<>> <=> Len(queue) = 0) BY Zenon, <1>a, QueueLen
<1> USE <1>a, <1>n DEF StreamInv
<1>1. CASE cnt = DISCONNECTED /\ queue = <<>>
  <2>s. smsg = GoUp
    BY Zenon, <1>1 DEF SendAdd, Answers, Counts, SenderLeft
  <2>r. refused \cup ({smsg} \ {GoUp}) = refused
    BY Zenon, <1>1, <2>s
  <2>e. /\ spc = "add"
        /\ spc' = (IF smsg = GoUp THEN "drop" ELSE "idle")
        /\ UNCHANGED <<queue, cnt, steals, toWake, portDropped, nsent, smsg, handle, rpc,
                       rmode, got, amt, dsteals, ready, received, hungup, refused>>
    BY ZenonT(60), <1>1, <2>s, <2>r DEF SendAdd, Sent, Check, packet, sender, receiver,
       unlocal
  <2>f. fails' = fails
    BY SMTT(30), <1>1, <2>s, <2>r, <2>e DEF SendAdd, Sent, Check, Steals, Handles
  <2>t. cnt' # DISCONNECTED => steals' \in 0..(MAX_STEALS + 1)
    BY ZenonT(60), <1>1, <2>s, <2>r, <2>e, <2>f DEF TypeOK
  <2>1. TypeOK'
    BY SMTT(60), <1>1, <2>s, <2>r, <2>e, <2>f, <2>t DEF TypeOK
  <2>2. NoAssertionFails' /\ Steals' /\ Gated' /\ Answers'
    BY SMTT(30), <1>1, <2>s, <2>r, <2>e, <2>f DEF NoAssertionFails, Steals, Gated, PortClosing,
       Answers, SenderLeft, Uncounted
  <2>3. CounterExact' /\ Counts' /\ Handles'
    BY Zenon, <1>1, <2>s, <2>r, <2>e, <2>f DEF CounterExact, Debt, Uncounted, Counts,
       SenderLeft,
       CountedAsleep, Upgraded, Handles
  <2>4. Ordered'
    BY ZenonT(60), <1>1, <2>s, <2>r, <2>e, <2>f, <2>1, OrderedFrame DEF Held
  <2>5. QED BY Zenon, <2>1, <2>2, <2>3, <2>4 DEF StreamInv
<1>2. CASE cnt = DISCONNECTED /\ queue # <<>>
  <2>e. /\ spc = "add"
        /\ queue' = Tail(queue)
        /\ spc' = (IF smsg = GoUp THEN "drop" ELSE "idle")
        /\ UNCHANGED <<cnt, steals, toWake, portDropped, nsent, smsg, handle, rpc, rmode, got,
                       amt, dsteals, ready, received, hungup, refused>>
    BY Zenon, <1>2 DEF SendAdd, Sent, Check, packet, sender, receiver, unlocal
  <2>f. fails' = fails
    BY Zenon, <1>2, <2>e DEF SendAdd, Sent, Check, TypeOK, Constants, CounterExact, Debt,
       Uncounted, Counts, SenderLeft, CountedAsleep, Upgraded, Steals, Handles, PortClosing,
       Answers
  <2>p. Popped
    BY Zenon, <1>2, <2>e, <2>f, QueueTail
  <2>q. /\ Len(queue') = Len(queue) - 1 /\ Len(queue) >= 1
        /\ queue' = <<>> <=> Len(queue') = 0
        /\ Head(queue) = queue[1]
    BY SMTT(30), <2>p DEF Popped
  <2>t. cnt' # DISCONNECTED => steals' \in 0..(MAX_STEALS + 1)
    BY ZenonT(60), <1>2, <2>e, <2>f, <2>q DEF TypeOK
  <2>1. TypeOK'
    BY SMTT(30), <1>2, <2>e, <2>f, <2>q, <2>p, <2>t DEF TypeOK, Popped
  <2>2. NoAssertionFails' /\ Steals' /\ Gated' /\ Answers'
    BY SMTT(30), <1>2, <2>e, <2>f, <2>q DEF NoAssertionFails, Steals, Gated, PortClosing,
       Answers,
       SenderLeft, Uncounted
  <2>3. CounterExact' /\ Counts' /\ Handles'
    BY Zenon, <1>2, <2>e, <2>f, <2>q DEF CounterExact, Debt, Uncounted, Counts, SenderLeft,
       CountedAsleep, Upgraded, Handles
  <2>d. portDropped
    BY Zenon, <1>2, <2>e, <2>f, <2>q DEF Gated, PortClosing, SenderLeft, Counts, TypeOK,
       Constants
  <2>4. Ordered'
    BY Zenon, <1>2, <2>e, <2>f, <2>q, <2>p, <2>d, <2>1, OrderedDrain DEF Held
  <2>5. QED BY Zenon, <2>1, <2>2, <2>3, <2>4 DEF StreamInv
<1>3. CASE cnt # DISCONNECTED
  <2>e. /\ spc = "add"
        /\ cnt' = cnt + 1
        /\ spc' = (IF cnt = -1 THEN "take" ELSE IF smsg = GoUp THEN "drop" ELSE "idle")
        /\ UNCHANGED <<queue, steals, toWake, portDropped, nsent, smsg, handle, rpc, rmode,
                       got, amt, dsteals, ready, received, hungup, refused>>
    BY Zenon, <1>3 DEF SendAdd, Sent, Check, packet, sender, receiver, unlocal
  <2>f. fails' = fails
    BY Zenon, <1>3, <2>e DEF SendAdd, Sent, Check, Counts, SenderLeft, CountedAsleep, Upgraded,
       Uncounted, Constants
  <2>t. cnt' # DISCONNECTED => steals' \in 0..(MAX_STEALS + 1)
    BY ZenonT(60), <1>3, <2>e, <2>f DEF TypeOK
  <2>1. TypeOK'
    BY SMTT(30), <1>3, <2>e, <2>f, <2>t DEF TypeOK
  <2>2. NoAssertionFails' /\ Steals' /\ Gated'
    BY ZenonT(60), <1>3, <2>e, <2>f DEF NoAssertionFails, Steals, Gated, PortClosing
  <2>3. CounterExact'
    BY SMTT(60), <1>3, <2>e, <2>f DEF CounterExact, Debt, Uncounted, TypeOK, Constants
  <2>4. Counts'
    BY SMTT(60), <1>3, <2>e, <2>f DEF Counts, SenderLeft, CountedAsleep, Upgraded, Uncounted,
       TypeOK,
       Constants
  <2>5. Handles'
    BY SMTT(30), <1>3, <2>e, <2>f DEF Handles, TypeOK, Constants, Counts, SenderLeft,
       CountedAsleep,
       Upgraded, Uncounted
  <2>6. Ordered'
    BY Zenon, <1>3, <2>e, <2>f, <2>1, OrderedFrame DEF Held
  <2>7. Answers'
    BY Zenon, <1>3, <2>e, <2>f DEF Answers, PortClosing, Counts, SenderLeft, CountedAsleep,
       Upgraded, Uncounted
  <2>8. QED BY Zenon, <2>1, <2>2, <2>3, <2>4, <2>5, <2>6, <2>7 DEF StreamInv
<1>4. QED BY ZenonT(60), <1>1, <1>2, <1>3 DEF SendAdd, Sent, Check

(* take_to_wake: the handle goes from the packet to the sender. *)
LEMMA TakeToWakeKeeps ==
  ASSUME StreamAssumption, StreamInv, TakeToWake
  PROVE  StreamInv'
PROOF
<1>a. Constants /\ TypeOK BY Zenon, StreamConstants DEF StreamInv
<1>n. Len(queue) \in Nat /\ (queue = <<>> <=> Len(queue) = 0) BY Zenon, <1>a, QueueLen
<1> USE <1>a, <1>n DEF StreamInv
<1>e. /\ spc \in {"take", "dropTake"}
      /\ handle' = toWake
      /\ toWake' = "none"
      /\ spc' = (IF spc = "take" THEN "wake" ELSE "dropWake")
      /\ UNCHANGED <<queue, cnt, steals, portDropped, nsent, smsg, rpc, rmode, got, amt,
                     dsteals, ready, received, hungup, refused>>
  BY Zenon DEF TakeToWake, Check, packet, sender, receiver, unlocal
<1>f. fails' = fails
  BY Zenon, <1>e DEF TakeToWake, Check, Steals, Handles
<1>t. cnt' # DISCONNECTED => steals' \in 0..(MAX_STEALS + 1)
  BY ZenonT(60), <1>e, <1>f DEF TypeOK
<1>1. TypeOK'
  BY SMTT(30), <1>e, <1>f, <1>t DEF TypeOK
<1>2. NoAssertionFails' /\ Steals' /\ Gated' /\ Answers'
  BY SMTT(30), <1>e, <1>f DEF NoAssertionFails, Steals, Gated, PortClosing, Answers, SenderLeft,
     Uncounted
<1>3. CounterExact' /\ Counts'
  BY ZenonT(60), <1>e, <1>f DEF CounterExact, Debt, Uncounted, Counts, SenderLeft, CountedAsleep,
     Upgraded
<1>4. Handles'
  BY SMTT(30), <1>e, <1>f DEF Handles, TypeOK, Constants, Counts, SenderLeft, CountedAsleep,
     Upgraded,
     Uncounted
<1>5. Ordered'
  BY Zenon, <1>e, <1>f, <1>1, OrderedFrame DEF Held
<1>6. QED BY Zenon, <1>1, <1>2, <1>3, <1>4, <1>5 DEF StreamInv

(* The sender wakes the task it took, or keeps it for the shared packet. *)
LEMMA WakeKeeps ==
  ASSUME StreamAssumption, StreamInv, Wake
  PROVE  StreamInv'
PROOF
<1>a. Constants /\ TypeOK BY Zenon, StreamConstants DEF StreamInv
<1>n. Len(queue) \in Nat /\ (queue = <<>> <=> Len(queue) = 0) BY Zenon, <1>a, QueueLen
<1> USE <1>a, <1>n DEF StreamInv
<1>1. CASE spc = "wake" /\ smsg = GoUp
  <2>e. /\ spc \in {"wake", "dropWake"}
        /\ spc' = "drop"
        /\ UNCHANGED <<queue, cnt, steals, toWake, portDropped, nsent, smsg, handle, rpc,
                       rmode, got, amt, dsteals, ready, received, hungup, refused, fails>>
    BY Zenon, <1>1 DEF Wake, WakeHandle, packet, sender, receiver, unlocal
  <2>t. cnt' # DISCONNECTED => steals' \in 0..(MAX_STEALS + 1)
    BY ZenonT(60), <1>1, <2>e DEF TypeOK
  <2>1. TypeOK'
    BY SMTT(30), <1>1, <2>e, <2>t DEF TypeOK
  <2>2. NoAssertionFails' /\ Steals' /\ Gated' /\ Answers'
    BY ZenonT(60), <1>1, <2>e DEF NoAssertionFails, Steals, Gated, PortClosing, Answers, SenderLeft,
       Uncounted
  <2>3. CounterExact' /\ Counts' /\ Handles'
    BY SMTT(30), <1>1, <2>e DEF CounterExact, Debt, Uncounted, Counts, SenderLeft,
       CountedAsleep,
       Upgraded, Handles
  <2>4. Ordered'
    BY Zenon, <1>1, <2>e, <2>1, OrderedFrame DEF Held
  <2>5. QED BY Zenon, <2>1, <2>2, <2>3, <2>4 DEF StreamInv
<1>2. CASE ~(spc = "wake" /\ smsg = GoUp) /\ handle = "owned"
  <2>s. rpc = "blocked"
    BY Zenon, <1>2 DEF Handles
  <2>e. /\ spc \in {"wake", "dropWake"}
        /\ handle' = "none"
        /\ spc' = (IF spc = "wake" THEN "idle" ELSE "gone")
        /\ rpc' = "pop"
        /\ rmode' = "again"
        /\ UNCHANGED <<queue, cnt, steals, toWake, portDropped, nsent, smsg, got, amt, dsteals,
                       ready, received, hungup, refused, fails>>
    BY Zenon, <1>2, <2>s DEF Wake, WakeHandle, packet, sender, receiver, unlocal
  <2>b. rmode' \in {"try", "recv", "again", "select"}
    BY Zenon, <1>2, <2>s, <2>e
  <2>t. cnt' # DISCONNECTED => steals' \in 0..(MAX_STEALS + 1)
    BY Zenon, <1>2, <2>s, <2>e DEF TypeOK
  <2>1. TypeOK'
    BY ZenonT(60), <1>2, <2>s, <2>e, <2>b, <2>t DEF TypeOK
  <2>2. NoAssertionFails' /\ Gated'
    BY Zenon, <1>2, <2>s, <2>e DEF NoAssertionFails, Gated, PortClosing
  <2>3. CounterExact'
    BY ZenonT(60), <1>2, <2>s, <2>e DEF CounterExact, Debt, Uncounted, TypeOK, Constants, Counts,
       SenderLeft, CountedAsleep, Upgraded, Steals, Handles, PortClosing
  <2>4. Counts'
    BY SMTT(60), <1>2, <2>s, <2>e DEF Counts, SenderLeft, CountedAsleep, Upgraded, Uncounted,
       TypeOK,
       Constants, CounterExact, Debt, Steals, Handles
  <2>5. Steals'
    BY ZenonT(60), <1>2, <2>s, <2>e DEF Steals, Handles
  <2>6. Handles'
    BY Zenon, <1>2, <2>s, <2>e DEF Handles, CountedAsleep
  <2>7. Ordered'
    BY ZenonT(60), <1>2, <2>s, <2>e, <2>b, <2>1, OrderedFrame DEF Held
  <2>8. Answers'
    BY ZenonT(60), <1>2, <2>s, <2>e DEF Answers, Gated, TypeOK, Constants, CounterExact, Debt,
       Uncounted, Counts, SenderLeft, CountedAsleep, Upgraded, Steals, Handles, PortClosing
  <2>9. QED BY Zenon, <2>1, <2>2, <2>3, <2>4, <2>5, <2>6, <2>7, <2>8 DEF StreamInv
<1>3. CASE ~(spc = "wake" /\ smsg = GoUp) /\ handle = "shared" /\ rpc = "selecting"
  <2>e. /\ spc \in {"wake", "dropWake"}
        /\ handle' = "none"
        /\ spc' = (IF spc = "wake" THEN "idle" ELSE "gone")
        /\ rpc' = "abort"
        /\ UNCHANGED <<queue, cnt, steals, toWake, portDropped, nsent, smsg, rmode, got, amt,
                       dsteals, ready, received, hungup, refused, fails>>
    BY Zenon, <1>3 DEF Wake, WakeHandle, packet, sender, receiver, unlocal
  <2>t. cnt' # DISCONNECTED => steals' \in 0..(MAX_STEALS + 1)
    BY ZenonT(60), <1>3, <2>e DEF TypeOK
  <2>1. TypeOK'
    BY SMTT(30), <1>3, <2>e, <2>t DEF TypeOK
  <2>2. NoAssertionFails' /\ Steals' /\ Gated' /\ Answers'
    BY Zenon, <1>3, <2>e DEF NoAssertionFails, Steals, Gated, PortClosing, Answers, SenderLeft,
       Uncounted
  <2>3. CounterExact' /\ Counts' /\ Handles'
    BY Zenon, <1>3, <2>e DEF CounterExact, Debt, Uncounted, Counts, SenderLeft, CountedAsleep,
       Upgraded, Handles
  <2>4. Ordered'
    BY Zenon, <1>3, <2>e, <2>1, OrderedFrame DEF Held
  <2>5. QED BY Zenon, <2>1, <2>2, <2>3, <2>4 DEF StreamInv
<1>4. CASE /\ ~(spc = "wake" /\ smsg = GoUp) /\ handle # "owned"
           /\ ~(handle = "shared" /\ rpc = "selecting")
  <2>e. /\ spc \in {"wake", "dropWake"}
        /\ handle' = "none"
        /\ spc' = (IF spc = "wake" THEN "idle" ELSE "gone")
        /\ UNCHANGED <<queue, cnt, steals, toWake, portDropped, nsent, smsg, rpc, rmode, got,
                       amt, dsteals, ready, received, hungup, refused, fails>>
    BY Zenon, <1>4 DEF Wake, WakeHandle, packet, sender, receiver, unlocal
  <2>t. cnt' # DISCONNECTED => steals' \in 0..(MAX_STEALS + 1)
    BY ZenonT(60), <1>4, <2>e DEF TypeOK
  <2>1. TypeOK'
    BY SMTT(30), <1>4, <2>e, <2>t DEF TypeOK
  <2>2. Steals' /\ Gated' /\ Answers'
    BY ZenonT(60), <1>4, <2>e DEF Steals, Gated, PortClosing, Answers, SenderLeft, Uncounted
  <2>3. CounterExact' /\ Counts' /\ Handles'
    BY SMTT(30), <1>4, <2>e DEF CounterExact, Debt, Uncounted, Counts, SenderLeft,
       CountedAsleep,
       Upgraded, Handles
  <2>4. NoAssertionFails'
    BY ZenonT(60), <1>4, <2>e DEF NoAssertionFails, TypeOK, Constants, CounterExact, Debt, Uncounted,
       Counts, SenderLeft, CountedAsleep, Upgraded, Steals, Handles, PortClosing
  <2>5. Ordered'
    BY Zenon, <1>4, <2>e, <2>1, OrderedFrame DEF Held
  <2>6. QED BY Zenon, <2>1, <2>2, <2>3, <2>4, <2>5 DEF StreamInv
<1>5. QED BY Zenon, <1>1, <1>2, <1>3, <1>4 DEF Wake, WakeHandle

(* The shared packet wakes the task it inherited. *)
LEMMA InheritorWakesKeeps ==
  ASSUME StreamAssumption, StreamInv, InheritorWakes
  PROVE  StreamInv'
PROOF
<1>a. Constants /\ TypeOK BY Zenon, StreamConstants DEF StreamInv
<1>n. Len(queue) \in Nat /\ (queue = <<>> <=> Len(queue) = 0) BY Zenon, <1>a, QueueLen
<1> USE <1>a, <1>n DEF StreamInv
<1>1. CASE handle = "owned"
  <2>s. rpc = "blocked"
    BY Zenon, <1>1 DEF Handles
  <2>e. /\ spc \in {"drop", "gone"} /\ handle # "none"
        /\ handle' = "none"
        /\ rpc' = "pop"
        /\ rmode' = "again"
        /\ UNCHANGED <<queue, cnt, steals, toWake, portDropped, spc, nsent, smsg, got, amt,
                       dsteals, ready, received, hungup, refused, fails>>
    BY Zenon, <1>1, <2>s DEF InheritorWakes, WakeHandle, packet, sender, receiver, unlocal
  <2>b. rmode' \in {"try", "recv", "again", "select"}
    BY Zenon, <1>1, <2>s, <2>e
  <2>t. cnt' # DISCONNECTED => steals' \in 0..(MAX_STEALS + 1)
    BY Zenon, <1>1, <2>s, <2>e DEF TypeOK
  <2>1. TypeOK'
    BY ZenonT(60), <1>1, <2>s, <2>e, <2>b, <2>t DEF TypeOK
  <2>2. NoAssertionFails' /\ Gated'
    BY Zenon, <1>1, <2>s, <2>e DEF NoAssertionFails, Gated, PortClosing
  <2>3. CounterExact'
    BY ZenonT(60), <1>1, <2>s, <2>e DEF CounterExact, Debt, Uncounted, TypeOK, Constants, Counts,
       SenderLeft, CountedAsleep, Upgraded, Steals, Handles, PortClosing
  <2>4. Counts'
    BY SMTT(30), <1>1, <2>s, <2>e DEF Counts, SenderLeft, CountedAsleep, Upgraded, Uncounted,
       TypeOK,
       Constants, CounterExact, Debt, Steals, Handles
  <2>5. Steals'
    BY Zenon, <1>1, <2>s, <2>e DEF Steals, Handles
  <2>6. Handles'
    BY Zenon, <1>1, <2>s, <2>e DEF Handles, CountedAsleep
  <2>7. Ordered'
    BY Zenon, <1>1, <2>s, <2>e, <2>b, <2>1, OrderedFrame DEF Held
  <2>8. Answers'
    BY ZenonT(60), <1>1, <2>s, <2>e DEF Answers, Gated, TypeOK, Constants, CounterExact, Debt,
       Uncounted, Counts, SenderLeft, CountedAsleep, Upgraded, Steals, Handles, PortClosing
  <2>9. QED BY Zenon, <2>1, <2>2, <2>3, <2>4, <2>5, <2>6, <2>7, <2>8 DEF StreamInv
<1>2. CASE handle = "shared" /\ rpc = "selecting"
  <2>e. /\ spc \in {"drop", "gone"} /\ handle # "none"
        /\ handle' = "none"
        /\ rpc' = "abort"
        /\ UNCHANGED <<queue, cnt, steals, toWake, portDropped, spc, nsent, smsg, rmode, got,
                       amt, dsteals, ready, received, hungup, refused, fails>>
    BY Zenon, <1>2 DEF InheritorWakes, WakeHandle, packet, sender, receiver, unlocal
  <2>t. cnt' # DISCONNECTED => steals' \in 0..(MAX_STEALS + 1)
    BY ZenonT(60), <1>2, <2>e DEF TypeOK
  <2>1. TypeOK'
    BY SMTT(30), <1>2, <2>e, <2>t DEF TypeOK
  <2>2. NoAssertionFails' /\ Steals' /\ Gated' /\ Answers'
    BY Zenon, <1>2, <2>e DEF NoAssertionFails, Steals, Gated, PortClosing, Answers, SenderLeft,
       Uncounted
  <2>3. CounterExact' /\ Counts' /\ Handles'
    BY Zenon, <1>2, <2>e DEF CounterExact, Debt, Uncounted, Counts, SenderLeft, CountedAsleep,
       Upgraded, Handles
  <2>4. Ordered'
    BY Zenon, <1>2, <2>e, <2>1, OrderedFrame DEF Held
  <2>5. QED BY Zenon, <2>1, <2>2, <2>3, <2>4 DEF StreamInv
<1>3. CASE handle # "owned" /\ ~(handle = "shared" /\ rpc = "selecting")
  <2>e. /\ spc \in {"drop", "gone"} /\ handle # "none"
        /\ handle' = "none"
        /\ UNCHANGED <<queue, cnt, steals, toWake, portDropped, spc, nsent, smsg, rpc, rmode,
                       got, amt, dsteals, ready, received, hungup, refused, fails>>
    BY Zenon, <1>3 DEF InheritorWakes, WakeHandle, packet, sender, receiver, unlocal
  <2>t. cnt' # DISCONNECTED => steals' \in 0..(MAX_STEALS + 1)
    BY ZenonT(60), <1>3, <2>e DEF TypeOK
  <2>1. TypeOK'
    BY SMTT(30), <1>3, <2>e, <2>t DEF TypeOK
  <2>2. NoAssertionFails' /\ Steals' /\ Gated' /\ Answers'
    BY SMTT(60), <1>3, <2>e DEF NoAssertionFails, Steals, Gated, PortClosing, Answers,
       SenderLeft,
       Uncounted
  <2>3. CounterExact' /\ Counts' /\ Handles'
    BY SMTT(30), <1>3, <2>e DEF CounterExact, Debt, Uncounted, Counts, SenderLeft,
       CountedAsleep,
       Upgraded, Handles
  <2>4. Ordered'
    BY Zenon, <1>3, <2>e, <2>1, OrderedFrame DEF Held
  <2>5. QED BY Zenon, <2>1, <2>2, <2>3, <2>4 DEF StreamInv
<1>4. QED BY ZenonT(60), <1>1, <1>2, <1>3 DEF InheritorWakes, WakeHandle

(* drop_chan swaps DISCONNECTED in, and takes the handle of a receiver it   *)
(* finds asleep.                                                            *)
LEMMA DropChanKeeps ==
  ASSUME StreamAssumption, StreamInv, DropChan
  PROVE  StreamInv'
PROOF
<1>a. Constants /\ TypeOK BY Zenon, StreamConstants DEF StreamInv
<1>n. Len(queue) \in Nat /\ (queue = <<>> <=> Len(queue) = 0) BY Zenon, <1>a, QueueLen
<1> USE <1>a, <1>n DEF StreamInv
<1>e. /\ spc \in {"idle", "drop"}
      /\ cnt' = DISCONNECTED
      /\ spc' = (IF cnt = -1 THEN "dropTake" ELSE "gone")
      /\ UNCHANGED <<queue, steals, toWake, portDropped, nsent, smsg, handle, rpc, rmode, got,
                     amt, dsteals, ready, received, hungup, refused>>
  BY ZenonT(60) DEF DropChan, Check, packet, sender, receiver, unlocal
<1>f. fails' = fails
  BY SMTT(30), <1>e DEF DropChan, Check, TypeOK, Constants, CounterExact, Debt, Uncounted,
     Counts,
     SenderLeft, CountedAsleep, Upgraded, Steals, Handles, PortClosing
<1>t. cnt' # DISCONNECTED => steals' \in 0..(MAX_STEALS + 1)
  BY ZenonT(60), <1>e, <1>f DEF TypeOK
<1>1. TypeOK'
  BY SMTT(30), <1>e, <1>f, <1>t DEF TypeOK, Messages, GoUp, Constants
<1>2. Steals' /\ Gated' /\ Answers'
  BY ZenonT(60), <1>e, <1>f DEF Steals, Gated, PortClosing, Answers, SenderLeft, Uncounted
<1>3. CounterExact' /\ Counts'
  BY Zenon, <1>e, <1>f DEF CounterExact, Debt, Uncounted, Counts, SenderLeft, CountedAsleep,
     Upgraded
<1>4. NoAssertionFails'
  BY ZenonT(60), <1>e, <1>f DEF NoAssertionFails, TypeOK, Constants, CounterExact, Debt, Uncounted,
     Counts, SenderLeft, CountedAsleep, Upgraded, Steals, Handles, PortClosing
<1>5. Handles'
  BY SMTT(30), <1>e, <1>f DEF Handles, Steals, Counts, SenderLeft, CountedAsleep, Upgraded,
     Uncounted,
     TypeOK, Constants, CounterExact, Debt
<1>6. Ordered'
  BY Zenon, <1>e, <1>f, <1>1, OrderedFrame DEF Held
<1>7. QED BY Zenon, <1>1, <1>2, <1>3, <1>4, <1>5, <1>6 DEF StreamInv

(* recv and try_recv begin. *)
LEMMA RecvKeeps ==
  ASSUME StreamAssumption, StreamInv, Recv
  PROVE  StreamInv'
PROOF
<1>a. Constants /\ TypeOK BY Zenon, StreamConstants DEF StreamInv
<1>n. Len(queue) \in Nat /\ (queue = <<>> <=> Len(queue) = 0) BY Zenon, <1>a, QueueLen
<1> USE <1>a, <1>n DEF StreamInv
<1>e. /\ rpc = "idle"
      /\ rpc' = "pop"
      /\ rmode' \in {"try", "recv"}
      /\ ready' = FALSE
      /\ UNCHANGED <<queue, cnt, steals, toWake, portDropped, spc, nsent, smsg, handle, got,
                     amt, dsteals, received, hungup, refused, fails>>
  BY Zenon DEF Recv, packet, sender, receiver, unlocal
<1>b. rmode' \in {"try", "recv", "again", "select"} /\ ready' \in BOOLEAN
  BY Zenon, <1>e
<1>t. cnt' # DISCONNECTED => steals' \in 0..(MAX_STEALS + 1)
  BY ZenonT(60), <1>e DEF TypeOK
<1>1. TypeOK'
  BY SMTT(30), <1>e, <1>b, <1>t DEF TypeOK
<1>2. NoAssertionFails' /\ Steals' /\ Gated' /\ Answers'
  BY Zenon, <1>e DEF NoAssertionFails, Steals, Gated, PortClosing, Answers, SenderLeft,
     Uncounted
<1>3. CounterExact' /\ Counts' /\ Handles'
  BY Zenon, <1>e DEF CounterExact, Debt, Uncounted, Counts, SenderLeft, CountedAsleep, Upgraded,
     Handles
<1>4. Ordered'
  BY Zenon, <1>e, <1>b, <1>1, OrderedFrame DEF Held
<1>5. QED BY Zenon, <1>1, <1>2, <1>3, <1>4 DEF StreamInv

(* try_recv pops, and records a steal or goes to cancel them against the    *)
(* count.                                                                   *)
LEMMA TryRecvPopKeeps ==
  ASSUME StreamAssumption, StreamInv, TryRecvPop
  PROVE  StreamInv'
PROOF
<1>a. Constants /\ TypeOK BY Zenon, StreamConstants DEF StreamInv
<1>n. Len(queue) \in Nat /\ (queue = <<>> <=> Len(queue) = 0) BY Zenon, <1>a, QueueLen
<1> USE <1>a, <1>n DEF StreamInv
<1>1. CASE queue = <<>>
  <2>e. /\ rpc = "pop"
        /\ rpc' = "load"
        /\ UNCHANGED <<queue, cnt, steals, toWake, portDropped, spc, nsent, smsg, handle,
                       rmode, got, amt, dsteals, ready, received, hungup, refused, fails>>
    BY Zenon, <1>1 DEF TryRecvPop, Return, packet, sender, receiver, unlocal
  <2>t. cnt' # DISCONNECTED => steals' \in 0..(MAX_STEALS + 1)
    BY ZenonT(60), <1>1, <2>e DEF TypeOK
  <2>1. TypeOK'
    BY SMTT(30), <1>1, <2>e, <2>t DEF TypeOK
  <2>2. NoAssertionFails' /\ Steals' /\ Gated' /\ Answers'
    BY Zenon, <1>1, <2>e DEF NoAssertionFails, Steals, Gated, PortClosing, Answers, SenderLeft,
       Uncounted
  <2>3. CounterExact' /\ Handles'
    BY ZenonT(60), <1>1, <2>e DEF CounterExact, Debt, Uncounted, Handles, CountedAsleep
  <2>4. Counts'
    BY SMTT(30), <1>1, <2>e DEF Counts, SenderLeft, CountedAsleep, Upgraded, Uncounted, TypeOK,
       Constants, CounterExact, Debt, Steals
  <2>5. Ordered'
    BY Zenon, <1>1, <2>e, <2>1, OrderedFrame DEF Held
  <2>6. QED BY Zenon, <2>1, <2>2, <2>3, <2>4, <2>5 DEF StreamInv
<1>2. CASE queue # <<>> /\ steals > MAX_STEALS
  <2>e. /\ rpc = "pop"
        /\ rpc' = "swap"
        /\ queue' = Tail(queue)
        /\ got' = Head(queue)
        /\ UNCHANGED <<cnt, steals, toWake, portDropped, spc, nsent, smsg, handle, rmode, amt,
                       dsteals, ready, received, hungup, refused, fails>>
    BY Zenon, <1>2 DEF TryRecvPop, Return, packet, sender, receiver, unlocal
  <2>p. Popped
    BY Zenon, <1>2, <2>e, QueueTail
  <2>q. /\ Len(queue') = Len(queue) - 1 /\ Len(queue) >= 1
        /\ queue' = <<>> <=> Len(queue') = 0
        /\ Head(queue) = queue[1]
    BY SMTT(30), <2>p DEF Popped
  <2>t. cnt' # DISCONNECTED => steals' \in 0..(MAX_STEALS + 1)
    BY ZenonT(60), <1>2, <2>e, <2>q DEF TypeOK
  <2>1. TypeOK'
    BY SMTT(30), <1>2, <2>e, <2>q, <2>p, <2>t DEF TypeOK, Popped
  <2>2. NoAssertionFails' /\ Gated' /\ Answers'
    BY Zenon, <1>2, <2>e, <2>q DEF NoAssertionFails, Gated, PortClosing, Answers, SenderLeft,
       Uncounted
  <2>3. Counts' /\ Handles'
    BY ZenonT(60), <1>2, <2>e, <2>q DEF Counts, SenderLeft, CountedAsleep, Upgraded, Uncounted,
       Handles
  <2>4. CounterExact'
    BY SMTT(60), <1>2, <2>e, <2>q DEF CounterExact, Debt, Uncounted, TypeOK, Constants, Steals,
       Counts, SenderLeft, CountedAsleep, Upgraded
  <2>5. Steals'
    BY SMTT(30), <1>2, <2>e, <2>q DEF Steals, TypeOK, Constants
  <2>d. ~portDropped
    BY Zenon, <1>2, <2>e, <2>q DEF Gated, PortClosing
  <2>6. Ordered'
    BY Zenon, <1>2, <2>e, <2>q, <2>p, <2>d, <2>1, OrderedPop DEF Held
  <2>7. QED BY Zenon, <2>1, <2>2, <2>3, <2>4, <2>5, <2>6 DEF StreamInv
<1>3. CASE queue # <<>> /\ ~(steals > MAX_STEALS) /\ Head(queue) = GoUp
  <2>e. /\ rpc = "pop"
        /\ rpc' = "close"
        /\ queue' = Tail(queue)
        /\ steals' = (IF rmode = "again" THEN steals ELSE steals + 1)
        /\ got' = Head(queue)
        /\ UNCHANGED <<cnt, toWake, portDropped, spc, nsent, smsg, handle, rmode, amt, dsteals,
                       ready, received, hungup, refused, fails>>
    BY SMTT(30), <1>3 DEF TryRecvPop, Return, packet, sender, receiver, unlocal, TypeOK
  <2>p. Popped
    BY Zenon, <1>3, <2>e, QueueTail
  <2>q. /\ Len(queue') = Len(queue) - 1 /\ Len(queue) >= 1
        /\ queue' = <<>> <=> Len(queue') = 0
        /\ Head(queue) = queue[1]
    BY SMTT(30), <2>p DEF Popped
  <2>t. cnt' # DISCONNECTED => steals' \in 0..(MAX_STEALS + 1)
    BY SMTT(30), <1>3, <2>e, <2>q DEF TypeOK, Constants
  <2>1. TypeOK'
    BY SMTT(30), <1>3, <2>e, <2>q, <2>p, <2>t DEF TypeOK, Popped
  <2>2. NoAssertionFails' /\ Steals' /\ Gated' /\ Answers'
    BY Zenon, <1>3, <2>e, <2>q DEF NoAssertionFails, Steals, Gated, PortClosing, Answers,
       SenderLeft, Uncounted
  <2>3. CounterExact' /\ Handles'
    BY ZenonT(60), <1>3, <2>e, <2>q DEF CounterExact, Debt, Uncounted, Handles, CountedAsleep
  <2>4. Counts'
    BY SMTT(30), <1>3, <2>e, <2>q DEF Counts, SenderLeft, CountedAsleep, Upgraded, Uncounted,
       TypeOK,
       Constants, CounterExact, Debt, Steals
  <2>d. ~portDropped
    BY Zenon, <1>3, <2>e, <2>q DEF Gated, PortClosing
  <2>5. Ordered'
    BY Zenon, <1>3, <2>e, <2>q, <2>p, <2>d, <2>1, OrderedPop DEF Held
  <2>6. QED BY Zenon, <2>1, <2>2, <2>3, <2>4, <2>5 DEF StreamInv
<1>4. CASE queue # <<>> /\ ~(steals > MAX_STEALS) /\ Head(queue) # GoUp /\ rmode = "again"
  <2>e. /\ rpc = "pop"
        /\ rpc' = "idle"
        /\ queue' = Tail(queue)
        /\ steals' = steals
        /\ received' = Append(received, Head(queue))
        /\ got' = Head(queue)
        /\ UNCHANGED <<cnt, toWake, portDropped, spc, nsent, smsg, handle, rmode, amt, dsteals,
                       ready, hungup, refused, fails>>
    BY SMTT(30), <1>4 DEF TryRecvPop, Return, packet, sender, receiver, unlocal, TypeOK
  <2>p. Popped
    BY Zenon, <1>4, <2>e, QueueTail
  <2>q. /\ Len(queue') = Len(queue) - 1 /\ Len(queue) >= 1
        /\ queue' = <<>> <=> Len(queue') = 0
        /\ Head(queue) = queue[1]
    BY SMTT(30), <2>p DEF Popped
  <2>h. Head(queue) \in Messages
    BY Zenon, <1>4, <2>e, <2>q, <2>p DEF TypeOK, Popped
  <2>g. HandedOut(Head(queue))
    BY Zenon, <2>e, <2>h, ReceivedAppend
  <2>t. cnt' # DISCONNECTED => steals' \in 0..(MAX_STEALS + 1)
    BY ZenonT(60), <1>4, <2>e, <2>q DEF TypeOK
  <2>1. TypeOK'
    BY SMTT(30), <1>4, <2>e, <2>q, <2>p, <2>g, <2>t DEF TypeOK, Popped, HandedOut
  <2>2. NoAssertionFails' /\ Steals' /\ Answers'
    BY Zenon, <1>4, <2>e, <2>q DEF NoAssertionFails, Steals, Answers, PortClosing, SenderLeft,
       Uncounted
  <2>3. Counts' /\ Handles'
    BY ZenonT(60), <1>4, <2>e, <2>q DEF Counts, SenderLeft, CountedAsleep, Upgraded, Uncounted,
       Handles
  <2>4. CounterExact'
    BY SMTT(30), <1>4, <2>e, <2>q DEF CounterExact, Debt, Uncounted, TypeOK, Constants
  <2>d. ~portDropped
    BY Zenon, <1>4, <2>e, <2>q DEF Gated, PortClosing
  <2>5. Ordered'
    BY Zenon, <1>4, <2>e, <2>q, <2>p, <2>g, <2>d, <2>1, OrderedPop DEF Held
  <2>6. Gated'
    BY ZenonT(60), <1>4, <2>e, <2>q, <2>1, <2>5, ReceivedBound, <2>p, <2>g, <2>d DEF Gated,
       PortClosing,
       HandedOut
  <2>7. QED BY ZenonT(60), <2>1, <2>2, <2>3, <2>4, <2>5, <2>6 DEF StreamInv
<1>5. CASE queue # <<>> /\ ~(steals > MAX_STEALS) /\ Head(queue) # GoUp /\ rmode # "again"
  <2>e. /\ rpc = "pop"
        /\ rpc' = "idle"
        /\ queue' = Tail(queue)
        /\ steals' = steals + 1
        /\ received' = Append(received, Head(queue))
        /\ got' = Head(queue)
        /\ UNCHANGED <<cnt, toWake, portDropped, spc, nsent, smsg, handle, rmode, amt, dsteals,
                       ready, hungup, refused, fails>>
    BY Zenon, <1>5 DEF TryRecvPop, Return, packet, sender, receiver, unlocal
  <2>p. Popped
    BY Zenon, <1>5, <2>e, QueueTail
  <2>q. /\ Len(queue') = Len(queue) - 1 /\ Len(queue) >= 1
        /\ queue' = <<>> <=> Len(queue') = 0
        /\ Head(queue) = queue[1]
    BY SMTT(30), <2>p DEF Popped
  <2>h. Head(queue) \in Messages
    BY Zenon, <1>5, <2>e, <2>q, <2>p DEF TypeOK, Popped
  <2>g. HandedOut(Head(queue))
    BY Zenon, <2>e, <2>h, ReceivedAppend
  <2>x. Debt = 0 /\ Debt' = 0 /\ cnt' = cnt /\ steals' = steals + 1 /\ spc' = spc /\ rpc = "pop"
    BY ZenonT(60), <1>5, <2>e, <2>q DEF Debt
  <2>t. cnt' # DISCONNECTED => steals' \in 0..(MAX_STEALS + 1)
    BY SMTT(60), <1>5, <2>e, <2>q, <2>x DEF TypeOK, Constants
  <2>1. TypeOK'
    BY SMTT(30), <1>5, <2>e, <2>q, <2>x, <2>p, <2>g, <2>t DEF TypeOK, Popped, HandedOut
  <2>2. NoAssertionFails' /\ Steals' /\ Answers'
    BY Zenon, <1>5, <2>e, <2>q, <2>x DEF NoAssertionFails, Steals, Answers, PortClosing,
       SenderLeft, Uncounted
  <2>3. Counts' /\ Handles'
    BY ZenonT(60), <1>5, <2>e, <2>q, <2>x DEF Counts, SenderLeft, CountedAsleep, Upgraded, Uncounted,
       Handles
  <2>4. CounterExact'
    BY SMTT(30), <2>x, <2>q DEF CounterExact, Uncounted, TypeOK
  <2>d. ~portDropped
    BY Zenon, <1>5, <2>e, <2>q, <2>x DEF Gated, PortClosing
  <2>5. Ordered'
    BY Zenon, <1>5, <2>e, <2>q, <2>x, <2>p, <2>g, <2>d, <2>1, OrderedPop DEF Held
  <2>6. Gated'
    BY Zenon, <1>5, <2>e, <2>q, <2>x, <2>1, <2>5, ReceivedBound, <2>p, <2>g, <2>d DEF Gated,
       PortClosing, HandedOut
  <2>7. QED BY Zenon, <2>1, <2>2, <2>3, <2>4, <2>5, <2>6 DEF StreamInv
<1>6. QED BY Zenon, <1>1, <1>2, <1>3, <1>4, <1>5 DEF TryRecvPop, Return

(* try_recv on a disconnected channel looks at the queue once more before   *)
(* it reports so.                                                           *)
LEMMA TryRecvPopAgainKeeps ==
  ASSUME StreamAssumption, StreamInv, TryRecvPopAgain
  PROVE  StreamInv'
PROOF
<1>a. Constants /\ TypeOK BY Zenon, StreamConstants DEF StreamInv
<1>n. Len(queue) \in Nat /\ (queue = <<>> <=> Len(queue) = 0) BY Zenon, <1>a, QueueLen
<1> USE <1>a, <1>n DEF StreamInv
<1>1. CASE queue = <<>>
  <2>e. /\ rpc = "popAgain"
        /\ rpc' = "idle"
        /\ hungup' = TRUE
        /\ UNCHANGED <<queue, cnt, steals, toWake, portDropped, spc, nsent, smsg, handle,
                       rmode, got, amt, dsteals, ready, received, refused, fails>>
    BY Zenon, <1>1 DEF TryRecvPopAgain, Return, packet, sender, receiver, unlocal
  <2>t. cnt' # DISCONNECTED => steals' \in 0..(MAX_STEALS + 1)
    BY ZenonT(60), <1>1, <2>e DEF TypeOK
  <2>1. TypeOK'
    BY SMTT(30), <1>1, <2>e, <2>t DEF TypeOK
  <2>2. NoAssertionFails' /\ Steals' /\ Gated'
    BY Zenon, <1>1, <2>e DEF NoAssertionFails, Steals, Gated, PortClosing
  <2>3. CounterExact' /\ Counts' /\ Handles'
    BY ZenonT(60), <1>1, <2>e DEF CounterExact, Debt, Uncounted, Counts, SenderLeft, CountedAsleep,
       Upgraded, Handles
  <2>4. Ordered'
    BY Zenon, <1>1, <2>e, <2>1, OrderedFrame DEF Held
  <2>5. Answers'
    BY Zenon, <1>1, <2>e DEF Answers, PortClosing, Counts, SenderLeft, CountedAsleep, Upgraded,
       Uncounted
  <2>6. QED BY Zenon, <2>1, <2>2, <2>3, <2>4, <2>5 DEF StreamInv
<1>2. CASE queue # <<>> /\ Head(queue) = GoUp
  <2>e. /\ rpc = "popAgain"
        /\ rpc' = "close"
        /\ queue' = Tail(queue)
        /\ steals' = (IF rmode = "again" THEN steals - 1 ELSE steals)
        /\ UNCHANGED <<cnt, toWake, portDropped, spc, nsent, smsg, handle, rmode, got, amt,
                       dsteals, ready, received, hungup, refused, fails>>
    BY Zenon, <1>2 DEF TryRecvPopAgain, Return, packet, sender, receiver, unlocal
  <2>p. Popped
    BY Zenon, <1>2, <2>e, QueueTail
  <2>q. /\ Len(queue') = Len(queue) - 1 /\ Len(queue) >= 1
        /\ queue' = <<>> <=> Len(queue') = 0
        /\ Head(queue) = queue[1]
    BY SMTT(30), <2>p DEF Popped
  <2>t. cnt' # DISCONNECTED => steals' \in 0..(MAX_STEALS + 1)
    BY ZenonT(60), <1>2, <2>e, <2>q DEF TypeOK, Constants, Steals, Counts, SenderLeft, CountedAsleep,
       Upgraded, Uncounted
  <2>1. TypeOK'
    BY SMTT(30), <1>2, <2>e, <2>q, <2>p, <2>t DEF TypeOK, Popped
  <2>2. NoAssertionFails' /\ Steals' /\ Gated' /\ Answers'
    BY ZenonT(60), <1>2, <2>e, <2>q DEF NoAssertionFails, Steals, Gated, PortClosing, Answers,
       SenderLeft, Uncounted
  <2>3. CounterExact' /\ Counts' /\ Handles'
    BY ZenonT(60), <1>2, <2>e, <2>q DEF CounterExact, Debt, Uncounted, Counts, SenderLeft,
       CountedAsleep, Upgraded, Handles
  <2>d. ~portDropped
    BY Zenon, <1>2, <2>e, <2>q DEF Gated, PortClosing
  <2>4. Ordered'
    BY Zenon, <1>2, <2>e, <2>q, <2>p, <2>d, <2>1, OrderedPop DEF Held
  <2>5. QED BY Zenon, <2>1, <2>2, <2>3, <2>4 DEF StreamInv
<1>3. CASE queue # <<>> /\ Head(queue) # GoUp
  <2>e. /\ rpc = "popAgain"
        /\ rpc' = "idle"
        /\ queue' = Tail(queue)
        /\ steals' = (IF rmode = "again" THEN steals - 1 ELSE steals)
        /\ received' = Append(received, Head(queue))
        /\ UNCHANGED <<cnt, toWake, portDropped, spc, nsent, smsg, handle, rmode, got, amt,
                       dsteals, ready, hungup, refused, fails>>
    BY Zenon, <1>3 DEF TryRecvPopAgain, Return, packet, sender, receiver, unlocal
  <2>p. Popped
    BY Zenon, <1>3, <2>e, QueueTail
  <2>q. /\ Len(queue') = Len(queue) - 1 /\ Len(queue) >= 1
        /\ queue' = <<>> <=> Len(queue') = 0
        /\ Head(queue) = queue[1]
    BY SMTT(30), <2>p DEF Popped
  <2>h. Head(queue) \in Messages
    BY Zenon, <1>3, <2>e, <2>q, <2>p DEF TypeOK, Popped
  <2>g. HandedOut(Head(queue))
    BY Zenon, <2>e, <2>h, ReceivedAppend
  <2>t. cnt' # DISCONNECTED => steals' \in 0..(MAX_STEALS + 1)
    BY ZenonT(60), <1>3, <2>e, <2>q DEF TypeOK, Constants, Steals, Counts, SenderLeft, CountedAsleep,
       Upgraded, Uncounted
  <2>1. TypeOK'
    BY SMTT(30), <1>3, <2>e, <2>q, <2>p, <2>g, <2>t DEF TypeOK, Popped, HandedOut
  <2>2. NoAssertionFails' /\ Steals' /\ Answers'
    BY ZenonT(60), <1>3, <2>e, <2>q DEF NoAssertionFails, Steals, Answers, PortClosing, SenderLeft,
       Uncounted
  <2>3. Counts' /\ Handles'
    BY ZenonT(60), <1>3, <2>e, <2>q DEF Counts, SenderLeft, CountedAsleep, Upgraded, Uncounted,
       Handles
  <2>4. CounterExact'
    BY ZenonT(60), <1>3, <2>e, <2>q DEF CounterExact, Debt, Uncounted, TypeOK, Constants, Steals,
       Counts, SenderLeft, CountedAsleep, Upgraded
  <2>d. ~portDropped
    BY Zenon, <1>3, <2>e, <2>q DEF Gated, PortClosing
  <2>5. Ordered'
    BY Zenon, <1>3, <2>e, <2>q, <2>p, <2>g, <2>d, <2>1, OrderedPop DEF Held
  <2>6. Gated'
    BY Zenon, <1>3, <2>e, <2>q, <2>1, <2>5, ReceivedBound, <2>p, <2>g, <2>d DEF Gated,
       PortClosing,
       HandedOut
  <2>7. QED BY Zenon, <2>1, <2>2, <2>3, <2>4, <2>5, <2>6 DEF StreamInv
<1>4. QED BY Zenon, <1>1, <1>2, <1>3 DEF TryRecvPopAgain, Return

(* try_recv swaps the count out and cancels the steals against it. *)
LEMMA TryRecvSwapKeeps ==
  ASSUME StreamAssumption, StreamInv, TryRecvSwap
  PROVE  StreamInv'
PROOF
<1>a. Constants /\ TypeOK BY Zenon, StreamConstants DEF StreamInv
<1>n. Len(queue) \in Nat /\ (queue = <<>> <=> Len(queue) = 0) BY Zenon, <1>a, QueueLen
<1> USE <1>a, <1>n DEF StreamInv
<1>1. CASE cnt = DISCONNECTED /\ got = GoUp
  <2>s. rmode # "again"
    BY Zenon, <1>1 DEF TryRecvSwap, Steals
  <2>e. /\ rpc = "swap"
        /\ rpc' = "close"
        /\ steals' = steals + 1
        /\ UNCHANGED <<queue, cnt, toWake, portDropped, spc, nsent, smsg, handle, rmode, got,
                       amt, dsteals, ready, received, hungup, refused, fails>>
    BY Zenon, <1>1, <2>s DEF TryRecvSwap, Return, Check, packet, sender, receiver, unlocal
  <2>t. cnt' # DISCONNECTED => steals' \in 0..(MAX_STEALS + 1)
    BY ZenonT(60), <1>1, <2>s, <2>e DEF TypeOK
  <2>1. TypeOK'
    BY SMTT(30), <1>1, <2>s, <2>e, <2>t DEF TypeOK
  <2>2. NoAssertionFails' /\ Steals' /\ Gated' /\ Answers'
    BY Zenon, <1>1, <2>s, <2>e DEF NoAssertionFails, Steals, Gated, PortClosing, Answers,
       SenderLeft, Uncounted
  <2>3. CounterExact' /\ Counts' /\ Handles'
    BY ZenonT(60), <1>1, <2>s, <2>e DEF CounterExact, Debt, Uncounted, Counts, SenderLeft,
       CountedAsleep, Upgraded, Handles
  <2>4. Ordered'
    BY Zenon, <1>1, <2>s, <2>e, <2>1, OrderedFrame DEF Held
  <2>5. QED BY Zenon, <2>1, <2>2, <2>3, <2>4 DEF StreamInv
<1>2. CASE cnt = DISCONNECTED /\ got # GoUp
  <2>s. rmode # "again"
    BY Zenon, <1>2 DEF TryRecvSwap, Steals
  <2>e. /\ rpc = "swap"
        /\ rpc' = "idle"
        /\ steals' = steals + 1
        /\ received' = Append(received, got)
        /\ UNCHANGED <<queue, cnt, toWake, portDropped, spc, nsent, smsg, handle, rmode, got,
                       amt, dsteals, ready, hungup, refused, fails>>
    BY Zenon, <1>2, <2>s DEF TryRecvSwap, Return, Check, packet, sender, receiver, unlocal
  <2>h. got \in Messages
    BY Zenon, <1>2, <2>s, <2>e DEF TypeOK
  <2>g. HandedOut(got)
    BY Zenon, <2>e, <2>h, ReceivedAppend
  <2>t. cnt' # DISCONNECTED => steals' \in 0..(MAX_STEALS + 1)
    BY ZenonT(60), <1>2, <2>s, <2>e DEF TypeOK
  <2>1. TypeOK'
    BY SMTT(30), <1>2, <2>s, <2>e, <2>g, <2>t DEF TypeOK, HandedOut
  <2>2. NoAssertionFails' /\ Steals' /\ Answers'
    BY Zenon, <1>2, <2>s, <2>e DEF NoAssertionFails, Steals, Answers, PortClosing, SenderLeft,
       Uncounted
  <2>3. CounterExact' /\ Counts' /\ Handles'
    BY ZenonT(60), <1>2, <2>s, <2>e DEF CounterExact, Debt, Uncounted, Counts, SenderLeft,
       CountedAsleep, Upgraded, Handles
  <2>d. ~portDropped
    BY Zenon, <1>2, <2>s, <2>e DEF Gated, PortClosing
  <2>4. Ordered'
    BY Zenon, <1>2, <2>s, <2>e, <2>g, <2>d, <2>1, OrderedReturn DEF Held
  <2>5. Gated'
    BY Zenon, <1>2, <2>s, <2>e, <2>1, <2>4, ReceivedBound, <2>g, <2>d DEF Gated, PortClosing,
       HandedOut
  <2>6. QED BY Zenon, <2>1, <2>2, <2>3, <2>4, <2>5 DEF StreamInv
<1>3. CASE cnt # DISCONNECTED
  <2>s. cnt \in Int /\ steals \in Nat /\ cnt >= steals
    BY SMTT(30), <1>3 DEF TryRecvSwap, TypeOK, Constants, CounterExact, Debt
  <2>r. Min(cnt, steals) = steals /\ steals - steals = 0 /\ 0 >= 0
    BY SMTT(30), <1>3, <2>s DEF Min
  <2>e. /\ rpc = "swap"
        /\ rpc' = "bump"
        /\ cnt' = 0
        /\ steals' = 0
        /\ amt' = cnt - steals
        /\ UNCHANGED <<queue, toWake, portDropped, spc, nsent, smsg, handle, rmode, got,
                       dsteals, ready, received, hungup, refused>>
    BY Zenon, <1>3, <2>s, <2>r DEF TryRecvSwap, Return, Check, packet, sender, receiver, unlocal
  <2>f. fails' = fails
    BY ZenonT(60), <1>3, <2>s, <2>r, <2>e DEF TryRecvSwap, Return, Check, Steals, Handles
  <2>t. cnt' # DISCONNECTED => steals' \in 0..(MAX_STEALS + 1)
    BY SMTT(60), <1>3, <2>s, <2>r, <2>e, <2>f DEF TypeOK, Constants
  <2>1. TypeOK'
    BY SMTT(30), <1>3, <2>s, <2>r, <2>e, <2>f, <2>t DEF TypeOK
  <2>2. NoAssertionFails' /\ Steals' /\ Gated' /\ Answers'
    BY ZenonT(60), <1>3, <2>s, <2>r, <2>e, <2>f DEF NoAssertionFails, Steals, Gated, PortClosing,
       Answers, SenderLeft, Uncounted
  <2>3. CounterExact'
    BY SMTT(60), <1>3, <2>s, <2>r, <2>e, <2>f DEF CounterExact, Debt, Uncounted, TypeOK,
       Constants
  <2>4. Counts'
    BY SMTT(60), <1>3, <2>s, <2>r, <2>e, <2>f DEF Counts, SenderLeft, CountedAsleep, Upgraded,
       Uncounted, TypeOK, Constants, CounterExact, Debt
  <2>5. Handles'
    BY ZenonT(60), <1>3, <2>s, <2>r, <2>e, <2>f DEF Handles, CountedAsleep
  <2>6. Ordered'
    BY Zenon, <1>3, <2>s, <2>r, <2>e, <2>f, <2>1, OrderedFrame DEF Held
  <2>7. QED BY ZenonT(60), <2>1, <2>2, <2>3, <2>4, <2>5, <2>6 DEF StreamInv
<1>4. QED BY Zenon, <1>1, <1>2, <1>3 DEF TryRecvSwap, Return, Check

(* try_recv gives back what is left of the count. *)
LEMMA TryRecvBumpKeeps ==
  ASSUME StreamAssumption, StreamInv, TryRecvBump
  PROVE  StreamInv'
PROOF
<1>a. Constants /\ TypeOK BY Zenon, StreamConstants DEF StreamInv
<1>n. Len(queue) \in Nat /\ (queue = <<>> <=> Len(queue) = 0) BY Zenon, <1>a, QueueLen
<1> USE <1>a, <1>n DEF StreamInv
<1>1. CASE got = GoUp
  <2>s. rmode # "again" /\ steals = 0
    BY Zenon, <1>1 DEF TryRecvBump, Steals
  <2>e. /\ rpc = "bump"
        /\ rpc' = "close"
        /\ cnt' = (IF cnt = DISCONNECTED THEN cnt ELSE cnt + amt)
        /\ steals' = 1
        /\ UNCHANGED <<queue, toWake, portDropped, spc, nsent, smsg, handle, rmode, got, amt,
                       dsteals, ready, received, hungup, refused, fails>>
    BY SMTT(30), <1>1, <2>s DEF TryRecvBump, Return, Bump, packet, sender, receiver, unlocal
  <2>t. cnt' # DISCONNECTED => steals' \in 0..(MAX_STEALS + 1)
    BY SMTT(60), <1>1, <2>s, <2>e DEF TypeOK, Constants
  <2>1. TypeOK'
    BY SMTT(30), <1>1, <2>s, <2>e, <2>t DEF TypeOK
  <2>2. NoAssertionFails' /\ Steals' /\ Gated' /\ Answers'
    BY ZenonT(60), <1>1, <2>s, <2>e DEF NoAssertionFails, Steals, Gated, PortClosing, Answers,
       SenderLeft, Uncounted
  <2>3. CounterExact' /\ Handles'
    BY ZenonT(60), <1>1, <2>s, <2>e DEF CounterExact, Debt, Uncounted, Handles, CountedAsleep
  <2>4. Counts'
    BY SMTT(60), <1>1, <2>s, <2>e DEF Counts, SenderLeft, CountedAsleep, Upgraded, Uncounted,
       TypeOK,
       Constants, CounterExact, Debt, Steals
  <2>5. Ordered'
    BY Zenon, <1>1, <2>s, <2>e, <2>1, OrderedFrame DEF Held
  <2>6. QED BY Zenon, <2>1, <2>2, <2>3, <2>4, <2>5 DEF StreamInv
<1>2. CASE got # GoUp
  <2>s. rmode # "again" /\ steals = 0
    BY Zenon, <1>2 DEF TryRecvBump, Steals
  <2>e. /\ rpc = "bump"
        /\ rpc' = "idle"
        /\ cnt' = (IF cnt = DISCONNECTED THEN cnt ELSE cnt + amt)
        /\ steals' = 1
        /\ received' = Append(received, got)
        /\ UNCHANGED <<queue, toWake, portDropped, spc, nsent, smsg, handle, rmode, got, amt,
                       dsteals, ready, hungup, refused, fails>>
    BY SMTT(30), <1>2, <2>s DEF TryRecvBump, Return, Bump, packet, sender, receiver, unlocal
  <2>h. got \in Messages
    BY Zenon, <1>2, <2>s, <2>e DEF TypeOK
  <2>g. HandedOut(got)
    BY ZenonT(60), <2>e, <2>h, ReceivedAppend
  <2>t. cnt' # DISCONNECTED => steals' \in 0..(MAX_STEALS + 1)
    BY SMTT(60), <1>2, <2>s, <2>e DEF TypeOK, Constants
  <2>1. TypeOK'
    BY SMTT(30), <1>2, <2>s, <2>e, <2>g, <2>t DEF TypeOK, HandedOut
  <2>2. NoAssertionFails' /\ Steals' /\ Answers'
    BY ZenonT(60), <1>2, <2>s, <2>e DEF NoAssertionFails, Steals, Answers, PortClosing, SenderLeft,
       Uncounted
  <2>3. CounterExact'
    BY SMTT(60), <1>2, <2>s, <2>e DEF CounterExact, Debt, Uncounted, TypeOK, Constants, Steals
  <2>4. Counts'
    BY SMTT(60), <1>2, <2>s, <2>e DEF Counts, SenderLeft, CountedAsleep, Upgraded, Uncounted,
       TypeOK,
       Constants
  <2>5. Handles'
    BY Zenon, <1>2, <2>s, <2>e DEF Handles, CountedAsleep
  <2>d. ~portDropped
    BY Zenon, <1>2, <2>s, <2>e DEF Gated, PortClosing
  <2>6. Ordered'
    BY Zenon, <1>2, <2>s, <2>e, <2>g, <2>d, <2>1, OrderedReturn DEF Held
  <2>7. Gated'
    BY Zenon, <1>2, <2>s, <2>e, <2>1, <2>6, ReceivedBound, <2>g, <2>d DEF Gated, PortClosing,
       HandedOut
  <2>8. QED BY Zenon, <2>1, <2>2, <2>3, <2>4, <2>5, <2>6, <2>7 DEF StreamInv
<1>3. QED BY Zenon, <1>1, <1>2 DEF TryRecvBump, Return, Bump

(* try_recv found nothing: the count tells whether the sender is gone. *)
LEMMA TryRecvLoadKeeps ==
  ASSUME StreamAssumption, StreamInv, TryRecvLoad
  PROVE  StreamInv'
PROOF
<1>a. Constants /\ TypeOK BY Zenon, StreamConstants DEF StreamInv
<1>n. Len(queue) \in Nat /\ (queue = <<>> <=> Len(queue) = 0) BY Zenon, <1>a, QueueLen
<1> USE <1>a, <1>n DEF StreamInv
<1>e. /\ rpc = "load"
      /\ rpc' = (IF cnt = DISCONNECTED THEN "popAgain"
                 ELSE IF rmode = "recv" THEN "decrement" ELSE "idle")
      /\ UNCHANGED <<queue, cnt, steals, toWake, portDropped, spc, nsent, smsg, handle, rmode,
                     got, amt, dsteals, ready, received, hungup, refused>>
  BY Zenon DEF TryRecvLoad, Check, packet, sender, receiver, unlocal
<1>f. fails' = fails
  BY Zenon, <1>e DEF TryRecvLoad, Check, Counts, SenderLeft, CountedAsleep, Upgraded, Uncounted,
     Constants
<1>t. cnt' # DISCONNECTED => steals' \in 0..(MAX_STEALS + 1)
  BY ZenonT(60), <1>e, <1>f DEF TypeOK
<1>1. TypeOK'
  BY SMTT(30), <1>e, <1>f, <1>t DEF TypeOK
<1>2. NoAssertionFails' /\ Steals' /\ Gated' /\ Answers'
  BY Zenon, <1>e, <1>f DEF NoAssertionFails, Steals, Gated, PortClosing, Answers, SenderLeft,
     Uncounted
<1>3. Counts' /\ Handles'
  BY ZenonT(60), <1>e, <1>f DEF Counts, SenderLeft, CountedAsleep, Upgraded, Uncounted, Handles
<1>4. CounterExact'
  BY ZenonT(60), <1>e, <1>f DEF CounterExact, Debt, Uncounted, TypeOK, Constants, Steals, Counts,
     SenderLeft, CountedAsleep, Upgraded
<1>5. Ordered'
  BY ZenonT(60), <1>e, <1>f, <1>1, OrderedFrame DEF Held
<1>6. QED BY Zenon, <1>1, <1>2, <1>3, <1>4, <1>5 DEF StreamInv

(* decrement publishes the handle of the receiver. *)
LEMMA DecrementKeeps ==
  ASSUME StreamAssumption, StreamInv, Decrement
  PROVE  StreamInv'
PROOF
<1>a. Constants /\ TypeOK BY Zenon, StreamConstants DEF StreamInv
<1>n. Len(queue) \in Nat /\ (queue = <<>> <=> Len(queue) = 0) BY Zenon, <1>a, QueueLen
<1> USE <1>a, <1>n DEF StreamInv
<1>e. /\ rpc = "decrement"
      /\ rpc' = "sub"
      /\ toWake' = (IF rmode = "recv" THEN "owned" ELSE "shared")
      /\ UNCHANGED <<queue, cnt, steals, portDropped, spc, nsent, smsg, handle, rmode, got,
                     amt, dsteals, ready, received, hungup, refused>>
  BY ZenonT(60) DEF Decrement, Check, packet, sender, receiver, unlocal
<1>f. fails' = fails
  BY ZenonT(60), <1>e DEF Decrement, Check, TypeOK, Constants, CounterExact, Debt, Uncounted, Counts,
     SenderLeft, CountedAsleep, Upgraded, Steals, Handles, PortClosing
<1>t. cnt' # DISCONNECTED => steals' \in 0..(MAX_STEALS + 1)
  BY ZenonT(60), <1>e, <1>f DEF TypeOK
<1>1. TypeOK'
  BY SMTT(30), <1>e, <1>f, <1>t DEF TypeOK
<1>2. NoAssertionFails' /\ Steals' /\ Gated' /\ Answers'
  BY ZenonT(60), <1>e, <1>f DEF NoAssertionFails, Steals, Gated, PortClosing, Answers, SenderLeft,
     Uncounted
<1>3. CounterExact' /\ Counts'
  BY ZenonT(60), <1>e, <1>f DEF CounterExact, Debt, Uncounted, Counts, SenderLeft, CountedAsleep,
     Upgraded
<1>4. Handles'
  BY ZenonT(60), <1>e, <1>f DEF Handles, Steals, Counts, SenderLeft, CountedAsleep, Upgraded,
     Uncounted,
     TypeOK, Constants
<1>5. Ordered'
  BY Zenon, <1>e, <1>f, <1>1, OrderedFrame DEF Held
<1>6. QED BY Zenon, <1>1, <1>2, <1>3, <1>4, <1>5 DEF StreamInv

(* decrement takes one and the steals off the count, and finds out whether  *)
(* to sleep.                                                                *)
LEMMA DecrementSubKeeps ==
  ASSUME StreamAssumption, StreamInv, DecrementSub
  PROVE  StreamInv'
PROOF
<1>a. Constants /\ TypeOK BY Zenon, StreamConstants DEF StreamInv
<1>n. Len(queue) \in Nat /\ (queue = <<>> <=> Len(queue) = 0) BY Zenon, <1>a, QueueLen
<1> USE <1>a, <1>n DEF StreamInv
<1>1. CASE cnt = DISCONNECTED
  <2>e. /\ rpc = "sub"
        /\ rpc' = "unset"
        /\ steals' = 0
        /\ UNCHANGED <<queue, cnt, toWake, portDropped, spc, nsent, smsg, handle, rmode, got,
                       amt, dsteals, ready, received, hungup, refused>>
    BY Zenon, <1>1 DEF DecrementSub, Bump, Check, packet, sender, receiver, unlocal
  <2>f. fails' = fails
    BY ZenonT(60), <1>1, <2>e DEF DecrementSub, Bump, Check, Steals, Handles
  <2>t. cnt' # DISCONNECTED => steals' \in 0..(MAX_STEALS + 1)
    BY ZenonT(60), <1>1, <2>e, <2>f DEF TypeOK
  <2>1. TypeOK'
    BY SMTT(30), <1>1, <2>e, <2>f, <2>t DEF TypeOK
  <2>2. NoAssertionFails' /\ Steals' /\ Gated' /\ Answers'
    BY ZenonT(60), <1>1, <2>e, <2>f DEF NoAssertionFails, Steals, Gated, PortClosing, Answers,
       SenderLeft, Uncounted
  <2>3. CounterExact' /\ Counts' /\ Handles'
    BY ZenonT(60), <1>1, <2>e, <2>f DEF CounterExact, Debt, Uncounted, Counts, SenderLeft,
       CountedAsleep, Upgraded, Handles
  <2>4. Ordered'
    BY ZenonT(60), <1>1, <2>e, <2>f, <2>1, OrderedFrame DEF Held
  <2>5. QED BY Zenon, <2>1, <2>2, <2>3, <2>4 DEF StreamInv
<1>2. CASE cnt # DISCONNECTED /\ cnt - steals > 0
  <2>e. /\ rpc = "sub"
        /\ rpc' = "unset"
        /\ steals' = 0
        /\ cnt' = cnt - 1 - steals
        /\ UNCHANGED <<queue, toWake, portDropped, spc, nsent, smsg, handle, rmode, got, amt,
                       dsteals, ready, received, hungup, refused>>
    BY SMTT(30), <1>2 DEF DecrementSub, Bump, Check, packet, sender, receiver, unlocal, TypeOK
  <2>f. fails' = fails
    BY ZenonT(60), <1>2, <2>e DEF DecrementSub, Bump, Check, Counts, SenderLeft, CountedAsleep,
       Upgraded, Uncounted, Constants
  <2>t. cnt' # DISCONNECTED => steals' \in 0..(MAX_STEALS + 1)
    BY SMTT(60), <1>2, <2>e, <2>f DEF TypeOK, Constants
  <2>1. TypeOK'
    BY SMTT(30), <1>2, <2>e, <2>f, <2>t DEF TypeOK
  <2>2. NoAssertionFails' /\ Steals' /\ Gated' /\ Answers'
    BY ZenonT(60), <1>2, <2>e, <2>f DEF NoAssertionFails, Steals, Gated, PortClosing, Answers,
       SenderLeft, Uncounted
  <2>3. CounterExact'
    BY SMTT(60), <1>2, <2>e, <2>f DEF CounterExact, Debt, Uncounted, TypeOK, Constants
  <2>4. Counts'
    BY SMTT(60), <1>2, <2>e, <2>f DEF Counts, SenderLeft, CountedAsleep, Upgraded, Uncounted,
       TypeOK,
       Constants
  <2>5. Handles'
    BY ZenonT(60), <1>2, <2>e, <2>f DEF Handles, CountedAsleep
  <2>6. Ordered'
    BY ZenonT(60), <1>2, <2>e, <2>f, <2>1, OrderedFrame DEF Held
  <2>7. QED BY Zenon, <2>1, <2>2, <2>3, <2>4, <2>5, <2>6 DEF StreamInv
<1>3. CASE cnt # DISCONNECTED /\ ~(cnt - steals > 0)
  <2>e. /\ rpc = "sub"
        /\ rpc' = (IF rmode = "recv" THEN "blocked" ELSE "selecting")
        /\ steals' = 0
        /\ cnt' = cnt - 1 - steals
        /\ UNCHANGED <<queue, toWake, portDropped, spc, nsent, smsg, handle, rmode, got, amt,
                       dsteals, ready, received, hungup, refused>>
    BY SMTT(30), <1>3 DEF DecrementSub, Bump, Check, packet, sender, receiver, unlocal, TypeOK
  <2>f. fails' = fails
    BY ZenonT(60), <1>3, <2>e DEF DecrementSub, Bump, Check, Counts, SenderLeft, CountedAsleep,
       Upgraded, Uncounted, Constants
  <2>t. cnt' # DISCONNECTED => steals' \in 0..(MAX_STEALS + 1)
    BY SMTT(60), <1>3, <2>e, <2>f DEF TypeOK, Constants
  <2>1. TypeOK'
    BY SMTT(30), <1>3, <2>e, <2>f, <2>t DEF TypeOK
  <2>2. NoAssertionFails' /\ Steals' /\ Gated' /\ Answers'
    BY ZenonT(60), <1>3, <2>e, <2>f DEF NoAssertionFails, Steals, Gated, PortClosing, Answers,
       SenderLeft, Uncounted
  <2>3. CounterExact'
    BY SMTT(60), <1>3, <2>e, <2>f DEF CounterExact, Debt, Uncounted, TypeOK, Constants
  <2>4. Counts'
    BY SMTT(60), <1>3, <2>e, <2>f DEF Counts, SenderLeft, CountedAsleep, Upgraded, Uncounted,
       TypeOK,
       Constants, CounterExact, Debt
  <2>5. Handles'
    BY SMTT(60), <1>3, <2>e, <2>f DEF Handles, Steals, Counts, SenderLeft, CountedAsleep,
       Upgraded,
       Uncounted, TypeOK, Constants, CounterExact, Debt
  <2>6. Ordered'
    BY Zenon, <1>3, <2>e, <2>f, <2>1, OrderedFrame DEF Held
  <2>7. QED BY Zenon, <2>1, <2>2, <2>3, <2>4, <2>5, <2>6 DEF StreamInv
<1>4. QED BY ZenonT(60), <1>1, <1>2, <1>3 DEF DecrementSub, Bump, Check

(* decrement found a message or no sender: the handle is taken back. *)
LEMMA DecrementUnsetKeeps ==
  ASSUME StreamAssumption, StreamInv, DecrementUnset
  PROVE  StreamInv'
PROOF
<1>a. Constants /\ TypeOK BY Zenon, StreamConstants DEF StreamInv
<1>n. Len(queue) \in Nat /\ (queue = <<>> <=> Len(queue) = 0) BY Zenon, <1>a, QueueLen
<1> USE <1>a, <1>n DEF StreamInv
<1>1. CASE rmode = "recv"
  <2>e. /\ rpc = "unset"
        /\ rpc' = "pop"
        /\ toWake' = "none"
        /\ rmode' = "again"
        /\ UNCHANGED <<queue, cnt, steals, portDropped, spc, nsent, smsg, handle, got, amt,
                       dsteals, ready, received, hungup, refused, fails>>
    BY Zenon, <1>1 DEF DecrementUnset, packet, sender, receiver, unlocal
  <2>b. rmode' \in {"try", "recv", "again", "select"}
    BY Zenon, <1>1, <2>e
  <2>t. cnt' # DISCONNECTED => steals' \in 0..(MAX_STEALS + 1)
    BY ZenonT(60), <1>1, <2>e DEF TypeOK
  <2>1. TypeOK'
    BY SMTT(60), <1>1, <2>e, <2>b, <2>t DEF TypeOK
  <2>2. NoAssertionFails' /\ Steals' /\ Gated' /\ Answers'
    BY ZenonT(60), <1>1, <2>e DEF NoAssertionFails, Steals, Gated, PortClosing, Answers, SenderLeft,
       Uncounted
  <2>3. CounterExact' /\ Counts' /\ Handles'
    BY ZenonT(60), <1>1, <2>e DEF CounterExact, Debt, Uncounted, Counts, SenderLeft, CountedAsleep,
       Upgraded, Handles
  <2>4. Ordered'
    BY ZenonT(60), <1>1, <2>e, <2>b, <2>1, OrderedFrame DEF Held
  <2>5. QED BY Zenon, <2>1, <2>2, <2>3, <2>4 DEF StreamInv
<1>2. CASE rmode # "recv"
  <2>e. /\ rpc = "unset"
        /\ rpc' = "cancel"
        /\ toWake' = "none"
        /\ UNCHANGED <<queue, cnt, steals, portDropped, spc, nsent, smsg, handle, rmode, got,
                       amt, dsteals, ready, received, hungup, refused, fails>>
    BY Zenon, <1>2 DEF DecrementUnset, packet, sender, receiver, unlocal
  <2>t. cnt' # DISCONNECTED => steals' \in 0..(MAX_STEALS + 1)
    BY ZenonT(60), <1>2, <2>e DEF TypeOK
  <2>1. TypeOK'
    BY SMTT(30), <1>2, <2>e, <2>t DEF TypeOK
  <2>2. NoAssertionFails' /\ Steals' /\ Gated' /\ Answers'
    BY ZenonT(60), <1>2, <2>e DEF NoAssertionFails, Steals, Gated, PortClosing, Answers, SenderLeft,
       Uncounted
  <2>3. CounterExact' /\ Counts' /\ Handles'
    BY ZenonT(60), <1>2, <2>e DEF CounterExact, Debt, Uncounted, Counts, SenderLeft, CountedAsleep,
       Upgraded, Handles
  <2>4. Ordered'
    BY ZenonT(60), <1>2, <2>e, <2>1, OrderedFrame DEF Held
  <2>5. QED BY Zenon, <2>1, <2>2, <2>3, <2>4 DEF StreamInv
<1>3. QED BY ZenonT(60), <1>1, <1>2 DEF DecrementUnset

(* drop_port raises port_dropped. *)
LEMMA DropPortKeeps ==
  ASSUME StreamAssumption, StreamInv, DropPort
  PROVE  StreamInv'
PROOF
<1>a. Constants /\ TypeOK BY Zenon, StreamConstants DEF StreamInv
<1>n. Len(queue) \in Nat /\ (queue = <<>> <=> Len(queue) = 0) BY Zenon, <1>a, QueueLen
<1> USE <1>a, <1>n DEF StreamInv
<1>e. /\ rpc \in {"idle", "close"}
      /\ rpc' = "dropCas"
      /\ portDropped' = TRUE
      /\ dsteals' = steals
      /\ UNCHANGED <<queue, cnt, steals, toWake, spc, nsent, smsg, handle, rmode, got, amt,
                     ready, received, hungup, refused, fails>>
  BY Zenon DEF DropPort, packet, sender, receiver, unlocal
<1>t. cnt' # DISCONNECTED => steals' \in 0..(MAX_STEALS + 1)
  BY ZenonT(60), <1>e DEF TypeOK
<1>1. TypeOK'
  BY SMTT(30), <1>e, <1>t DEF TypeOK
<1>2. NoAssertionFails' /\ Steals' /\ Gated' /\ Answers'
  BY Zenon, <1>e DEF NoAssertionFails, Steals, Gated, PortClosing, Answers, SenderLeft,
     Uncounted
<1>3. CounterExact' /\ Handles'
  BY ZenonT(60), <1>e DEF CounterExact, Debt, Uncounted, Handles, CountedAsleep
<1>4. Counts'
  BY SMTT(30), <1>e DEF Counts, SenderLeft, CountedAsleep, Upgraded, Uncounted, TypeOK,
     Constants,
     CounterExact, Debt
<1>5. Ordered'
  BY Zenon, <1>e, <1>1, OrderedFrame DEF Held
<1>6. QED BY Zenon, <1>1, <1>2, <1>3, <1>4, <1>5 DEF StreamInv

(* drop_port disconnects when the count says that the queue is drained. *)
LEMMA DropPortCasKeeps ==
  ASSUME StreamAssumption, StreamInv, DropPortCas
  PROVE  StreamInv'
PROOF
<1>a. Constants /\ TypeOK BY Zenon, StreamConstants DEF StreamInv
<1>n. Len(queue) \in Nat /\ (queue = <<>> <=> Len(queue) = 0) BY Zenon, <1>a, QueueLen
<1> USE <1>a, <1>n DEF StreamInv
<1>1. CASE cnt = DISCONNECTED
  <2>e. /\ rpc = "dropCas"
        /\ rpc' = "gone"
        /\ UNCHANGED <<queue, cnt, steals, toWake, portDropped, spc, nsent, smsg, handle,
                       rmode, got, amt, dsteals, ready, received, hungup, refused, fails>>
    BY Zenon, <1>1 DEF DropPortCas, packet, sender, receiver, unlocal
  <2>t. cnt' # DISCONNECTED => steals' \in 0..(MAX_STEALS + 1)
    BY ZenonT(60), <1>1, <2>e DEF TypeOK
  <2>1. TypeOK'
    BY SMTT(30), <1>1, <2>e, <2>t DEF TypeOK
  <2>2. Steals' /\ Gated'
    BY ZenonT(60), <1>1, <2>e DEF Steals, Gated, PortClosing
  <2>3. CounterExact' /\ Counts' /\ Handles'
    BY ZenonT(60), <1>1, <2>e DEF CounterExact, Debt, Uncounted, Counts, SenderLeft, CountedAsleep,
       Upgraded, Handles
  <2>4. NoAssertionFails'
    BY ZenonT(60), <1>1, <2>e DEF NoAssertionFails, TypeOK, Constants, CounterExact, Debt, Uncounted,
       Counts, SenderLeft, CountedAsleep, Upgraded, Steals, Handles, PortClosing
  <2>5. Ordered'
    BY Zenon, <1>1, <2>e, <2>1, OrderedFrame DEF Held
  <2>6. Answers'
    BY ZenonT(60), <1>1, <2>e DEF Answers, PortClosing, Counts, SenderLeft, CountedAsleep, Upgraded,
       Uncounted
  <2>7. QED BY Zenon, <2>1, <2>2, <2>3, <2>4, <2>5, <2>6 DEF StreamInv
<1>2. CASE cnt # DISCONNECTED /\ cnt = dsteals
  <2>e. /\ rpc = "dropCas"
        /\ rpc' = "gone"
        /\ cnt' = DISCONNECTED
        /\ UNCHANGED <<queue, steals, toWake, portDropped, spc, nsent, smsg, handle, rmode,
                       got, amt, dsteals, ready, received, hungup, refused, fails>>
    BY Zenon, <1>2 DEF DropPortCas, packet, sender, receiver, unlocal
  <2>t. cnt' # DISCONNECTED => steals' \in 0..(MAX_STEALS + 1)
    BY ZenonT(60), <1>2, <2>e DEF TypeOK
  <2>1. TypeOK'
    BY SMTT(30), <1>2, <2>e, <2>t DEF TypeOK, Messages, GoUp, Constants
  <2>2. Steals' /\ Gated'
    BY ZenonT(60), <1>2, <2>e DEF Steals, Gated, PortClosing
  <2>3. CounterExact' /\ Counts' /\ Handles'
    BY ZenonT(60), <1>2, <2>e DEF CounterExact, Debt, Uncounted, Counts, SenderLeft, CountedAsleep,
       Upgraded, Handles
  <2>4. NoAssertionFails'
    BY ZenonT(60), <1>2, <2>e DEF NoAssertionFails, Counts, SenderLeft, CountedAsleep, Upgraded,
       Uncounted
  <2>5. Ordered'
    BY ZenonT(60), <1>2, <2>e, <2>1, OrderedFrame DEF Held
  <2>6. Answers'
    BY SMTT(60), <1>2, <2>e DEF Answers, PortClosing, Counts, SenderLeft, CountedAsleep,
       Upgraded,
       Uncounted, TypeOK, Constants
  <2>7. QED BY Zenon, <2>1, <2>2, <2>3, <2>4, <2>5, <2>6 DEF StreamInv
<1>3. CASE cnt # DISCONNECTED /\ cnt # dsteals
  <2>e. /\ rpc = "dropCas"
        /\ rpc' = "drain"
        /\ UNCHANGED <<queue, cnt, steals, toWake, portDropped, spc, nsent, smsg, handle,
                       rmode, got, amt, dsteals, ready, received, hungup, refused, fails>>
    BY Zenon, <1>3 DEF DropPortCas, packet, sender, receiver, unlocal
  <2>t. cnt' # DISCONNECTED => steals' \in 0..(MAX_STEALS + 1)
    BY ZenonT(60), <1>3, <2>e DEF TypeOK
  <2>1. TypeOK'
    BY SMTT(30), <1>3, <2>e, <2>t DEF TypeOK
  <2>2. NoAssertionFails' /\ Steals' /\ Gated' /\ Answers'
    BY ZenonT(60), <1>3, <2>e DEF NoAssertionFails, Steals, Gated, PortClosing, Answers, SenderLeft,
       Uncounted
  <2>3. CounterExact' /\ Counts'
    BY ZenonT(60), <1>3, <2>e DEF CounterExact, Debt, Uncounted, Counts, SenderLeft, CountedAsleep,
       Upgraded
  <2>4. Handles'
    BY ZenonT(60), <1>3, <2>e DEF Handles, TypeOK, Constants, Counts, SenderLeft, CountedAsleep,
       Upgraded, Uncounted
  <2>5. Ordered'
    BY Zenon, <1>3, <2>e, <2>1, OrderedFrame DEF Held
  <2>6. QED BY Zenon, <2>1, <2>2, <2>3, <2>4, <2>5 DEF StreamInv
<1>4. QED BY Zenon, <1>1, <1>2, <1>3 DEF DropPortCas

(* drop_port drains the queue and counts what it destroys. *)
LEMMA DropPortDrainKeeps ==
  ASSUME StreamAssumption, StreamInv, DropPortDrain
  PROVE  StreamInv'
PROOF
<1>a. Constants /\ TypeOK BY Zenon, StreamConstants DEF StreamInv
<1>n. Len(queue) \in Nat /\ (queue = <<>> <=> Len(queue) = 0) BY Zenon, <1>a, QueueLen
<1> USE <1>a, <1>n DEF StreamInv
<1>1. CASE queue = <<>>
  <2>e. /\ rpc = "drain"
        /\ rpc' = "dropCas"
        /\ UNCHANGED <<queue, cnt, steals, toWake, portDropped, spc, nsent, smsg, handle,
                       rmode, got, amt, dsteals, ready, received, hungup, refused, fails>>
    BY Zenon, <1>1 DEF DropPortDrain, packet, sender, receiver, unlocal
  <2>t. cnt' # DISCONNECTED => steals' \in 0..(MAX_STEALS + 1)
    BY ZenonT(60), <1>1, <2>e DEF TypeOK
  <2>1. TypeOK'
    BY SMTT(30), <1>1, <2>e, <2>t DEF TypeOK
  <2>2. NoAssertionFails' /\ Steals' /\ Gated' /\ Answers'
    BY ZenonT(60), <1>1, <2>e DEF NoAssertionFails, Steals, Gated, PortClosing, Answers, SenderLeft,
       Uncounted
  <2>3. CounterExact' /\ Counts' /\ Handles'
    BY ZenonT(60), <1>1, <2>e DEF CounterExact, Debt, Uncounted, Counts, SenderLeft, CountedAsleep,
       Upgraded, Handles
  <2>4. Ordered'
    BY Zenon, <1>1, <2>e, <2>1, OrderedFrame DEF Held
  <2>5. QED BY Zenon, <2>1, <2>2, <2>3, <2>4 DEF StreamInv
<1>2. CASE queue # <<>>
  <2>e. /\ rpc = "drain"
        /\ queue' = Tail(queue)
        /\ dsteals' = dsteals + 1
        /\ UNCHANGED <<cnt, steals, toWake, portDropped, spc, nsent, smsg, handle, rpc, rmode,
                       got, amt, ready, received, hungup, refused, fails>>
    BY Zenon, <1>2 DEF DropPortDrain, packet, sender, receiver, unlocal
  <2>p. Popped
    BY Zenon, <1>2, <2>e, QueueTail
  <2>q. /\ Len(queue') = Len(queue) - 1 /\ Len(queue) >= 1
        /\ queue' = <<>> <=> Len(queue') = 0
        /\ Head(queue) = queue[1]
    BY SMTT(30), <2>p DEF Popped
  <2>t. cnt' # DISCONNECTED => steals' \in 0..(MAX_STEALS + 1)
    BY ZenonT(60), <1>2, <2>e, <2>q DEF TypeOK
  <2>1. TypeOK'
    BY SMTT(60), <1>2, <2>e, <2>q, <2>p, <2>t DEF TypeOK, Popped
  <2>2. NoAssertionFails' /\ Steals' /\ Gated' /\ Answers'
    BY ZenonT(60), <1>2, <2>e, <2>q DEF NoAssertionFails, Steals, Gated, PortClosing, Answers,
       SenderLeft, Uncounted
  <2>3. CounterExact' /\ Handles'
    BY ZenonT(60), <1>2, <2>e, <2>q DEF CounterExact, Debt, Uncounted, Handles, CountedAsleep
  <2>4. Counts'
    BY SMTT(60), <1>2, <2>e, <2>q DEF Counts, SenderLeft, CountedAsleep, Upgraded, Uncounted,
       TypeOK,
       Constants
  <2>d. portDropped
    BY Zenon, <1>2, <2>e, <2>q DEF Gated, PortClosing
  <2>5. Ordered'
    BY Zenon, <1>2, <2>e, <2>q, <2>p, <2>d, <2>1, OrderedDrain DEF Held
  <2>6. QED BY Zenon, <2>1, <2>2, <2>3, <2>4, <2>5 DEF StreamInv
<1>3. QED BY ZenonT(60), <1>1, <1>2 DEF DropPortDrain

(* can_recv looks at the head of the queue. *)
LEMMA CanRecvKeeps ==
  ASSUME StreamAssumption, StreamInv, CanRecv
  PROVE  StreamInv'
PROOF
<1>a. Constants /\ TypeOK BY Zenon, StreamConstants DEF StreamInv
<1>n. Len(queue) \in Nat /\ (queue = <<>> <=> Len(queue) = 0) BY Zenon, <1>a, QueueLen
<1> USE <1>a, <1>n DEF StreamInv
<1>1. CASE queue # <<>> /\ Head(queue) = GoUp
  <2>e. /\ rpc = "idle"
        /\ ready' = FALSE
        /\ rpc' = "pop"
        /\ rmode' = "recv"
        /\ UNCHANGED <<queue, cnt, steals, toWake, portDropped, spc, nsent, smsg, handle, got,
                       amt, dsteals, received, hungup, refused, fails>>
    BY ZenonT(30), <1>1 DEF CanRecv, packet, sender, receiver, unlocal
  <2>b. ready' \in BOOLEAN /\ rmode' \in {"try", "recv", "again", "select"}
    BY Zenon, <1>1, <2>e
  <2>t. cnt' # DISCONNECTED => steals' \in 0..(MAX_STEALS + 1)
    BY ZenonT(60), <1>1, <2>e DEF TypeOK
  <2>1. TypeOK'
    BY SMTT(30), <1>1, <2>e, <2>b, <2>t DEF TypeOK
  <2>2. NoAssertionFails' /\ Steals' /\ Gated' /\ Answers'
    BY ZenonT(60), <1>1, <2>e DEF NoAssertionFails, Steals, Gated, PortClosing, Answers, SenderLeft,
       Uncounted
  <2>3. CounterExact' /\ Counts' /\ Handles'
    BY ZenonT(60), <1>1, <2>e DEF CounterExact, Debt, Uncounted, Counts, SenderLeft, CountedAsleep,
       Upgraded, Handles
  <2>4. Ordered'
    BY Zenon, <1>1, <2>e, <2>b, <2>1, OrderedFrame DEF Held
  <2>5. QED BY Zenon, <2>1, <2>2, <2>3, <2>4 DEF StreamInv
<1>2. CASE ~(queue # <<>> /\ Head(queue) = GoUp)
  <2>e. /\ rpc = "idle"
        /\ ready' = (queue # <<>>)
        /\ UNCHANGED <<queue, cnt, steals, toWake, portDropped, spc, nsent, smsg, handle, rpc,
                       rmode, got, amt, dsteals, received, hungup, refused, fails>>
    BY Zenon, <1>2 DEF CanRecv, packet, sender, receiver, unlocal
  <2>b. ready' \in BOOLEAN
    BY Zenon, <1>2, <2>e
  <2>t. cnt' # DISCONNECTED => steals' \in 0..(MAX_STEALS + 1)
    BY ZenonT(60), <1>2, <2>e DEF TypeOK
  <2>1. TypeOK'
    BY SMTT(30), <1>2, <2>e, <2>b, <2>t DEF TypeOK
  <2>2. NoAssertionFails' /\ Steals' /\ Gated'
    BY ZenonT(60), <1>2, <2>e DEF NoAssertionFails, Steals, Gated, PortClosing
  <2>3. CounterExact' /\ Counts' /\ Handles'
    BY ZenonT(60), <1>2, <2>e DEF CounterExact, Debt, Uncounted, Counts, SenderLeft, CountedAsleep,
       Upgraded, Handles
  <2>4. Ordered'
    BY Zenon, <1>2, <2>e, <2>b, <2>1, OrderedFrame DEF Held
  <2>5. Answers'
    BY ZenonT(60), <1>2, <2>e DEF Answers, PortClosing, SenderLeft, Uncounted, TypeOK
  <2>6. QED BY Zenon, <2>1, <2>2, <2>3, <2>4, <2>5 DEF StreamInv
<1>3. QED BY ZenonT(60), <1>1, <1>2 DEF CanRecv

(* start_selection begins. *)
LEMMA StartSelectionKeeps ==
  ASSUME StreamAssumption, StreamInv, StartSelection
  PROVE  StreamInv'
PROOF
<1>a. Constants /\ TypeOK BY Zenon, StreamConstants DEF StreamInv
<1>n. Len(queue) \in Nat /\ (queue = <<>> <=> Len(queue) = 0) BY Zenon, <1>a, QueueLen
<1> USE <1>a, <1>n DEF StreamInv
<1>e. /\ rpc = "idle"
      /\ rpc' = "decrement"
      /\ rmode' = "select"
      /\ ready' = FALSE
      /\ UNCHANGED <<queue, cnt, steals, toWake, portDropped, spc, nsent, smsg, handle, got,
                     amt, dsteals, received, hungup, refused, fails>>
  BY Zenon DEF StartSelection, packet, sender, receiver, unlocal
<1>b. rmode' \in {"try", "recv", "again", "select"} /\ ready' \in BOOLEAN
  BY Zenon, <1>e
<1>t. cnt' # DISCONNECTED => steals' \in 0..(MAX_STEALS + 1)
  BY ZenonT(60), <1>e DEF TypeOK
<1>1. TypeOK'
  BY SMTT(30), <1>e, <1>b, <1>t DEF TypeOK
<1>2. NoAssertionFails' /\ Steals' /\ Gated' /\ Answers'
  BY ZenonT(60), <1>e DEF NoAssertionFails, Steals, Gated, PortClosing, Answers, SenderLeft,
     Uncounted
<1>3. CounterExact' /\ Counts' /\ Handles'
  BY ZenonT(60), <1>e DEF CounterExact, Debt, Uncounted, Counts, SenderLeft, CountedAsleep, Upgraded,
     Handles
<1>4. Ordered'
  BY Zenon, <1>e, <1>b, <1>1, OrderedFrame DEF Held
<1>5. QED BY Zenon, <1>1, <1>2, <1>3, <1>4 DEF StreamInv

(* start_selection found a message: it looks whether that is an upgrade. *)
LEMMA StartCancelKeeps ==
  ASSUME StreamAssumption, StreamInv, StartCancel
  PROVE  StreamInv'
PROOF
<1>a. Constants /\ TypeOK BY Zenon, StreamConstants DEF StreamInv
<1>n. Len(queue) \in Nat /\ (queue = <<>> <=> Len(queue) = 0) BY Zenon, <1>a, QueueLen
<1> USE <1>a, <1>n DEF StreamInv
<1>1. CASE queue # <<>> /\ Head(queue) = GoUp
  <2>e. /\ rpc = "cancel"
        /\ queue' = Tail(queue)
        /\ rpc' = "undoUpgrade"
        /\ UNCHANGED <<cnt, steals, toWake, portDropped, spc, nsent, smsg, handle, rmode, got,
                       amt, dsteals, ready, received, hungup, refused, fails>>
    BY Zenon, <1>1 DEF StartCancel, packet, sender, receiver, unlocal
  <2>p. Popped
    BY Zenon, <1>1, <2>e, QueueTail
  <2>q. /\ Len(queue') = Len(queue) - 1 /\ Len(queue) >= 1
        /\ queue' = <<>> <=> Len(queue') = 0
        /\ Head(queue) = queue[1]
    BY SMTT(30), <2>p DEF Popped
  <2>u. queue' = <<>> /\ Len(queue) = 1 /\ smsg = GoUp /\ spc \notin {"idle", "push"}
    BY ZenonT(60), <1>1, <2>e, <2>q, <2>p, UpgradeAlone
  <2>t. cnt' # DISCONNECTED => steals' \in 0..(MAX_STEALS + 1)
    BY ZenonT(60), <1>1, <2>e, <2>q, <2>u DEF TypeOK
  <2>1. TypeOK'
    BY SMTT(60), <1>1, <2>e, <2>q, <2>u, <2>p, <2>t DEF TypeOK, Popped
  <2>2. NoAssertionFails' /\ Steals' /\ Gated' /\ Answers'
    BY ZenonT(60), <1>1, <2>e, <2>q, <2>u DEF NoAssertionFails, Steals, Gated, PortClosing, Answers,
       SenderLeft, Uncounted
  <2>3. CounterExact' /\ Handles'
    BY ZenonT(60), <1>1, <2>e, <2>q, <2>u DEF CounterExact, Debt, Uncounted, Handles, CountedAsleep
  <2>4. Counts'
    BY SMTT(60), <1>1, <2>e, <2>q, <2>u DEF Counts, SenderLeft, CountedAsleep, Upgraded,
       Uncounted,
       TypeOK, Constants, CounterExact, Debt, Steals
  <2>d. ~portDropped
    BY Zenon, <1>1, <2>e, <2>q, <2>u DEF Gated, PortClosing
  <2>5. Ordered'
    BY ZenonT(60), <1>1, <2>e, <2>q, <2>u, <2>p, <2>d, <2>1, OrderedPop DEF Held
  <2>6. QED BY Zenon, <2>1, <2>2, <2>3, <2>4, <2>5 DEF StreamInv
<1>2. CASE ~(queue # <<>> /\ Head(queue) = GoUp)
  <2>e. /\ rpc = "cancel"
        /\ rpc' = "undo"
        /\ UNCHANGED <<queue, cnt, steals, toWake, portDropped, spc, nsent, smsg, handle,
                       rmode, got, amt, dsteals, ready, received, hungup, refused, fails>>
    BY Zenon, <1>2 DEF StartCancel, packet, sender, receiver, unlocal
  <2>t. cnt' # DISCONNECTED => steals' \in 0..(MAX_STEALS + 1)
    BY ZenonT(60), <1>2, <2>e DEF TypeOK
  <2>1. TypeOK'
    BY SMTT(60), <1>2, <2>e, <2>t DEF TypeOK
  <2>2. NoAssertionFails' /\ Steals' /\ Gated' /\ Answers'
    BY ZenonT(60), <1>2, <2>e DEF NoAssertionFails, Steals, Gated, PortClosing, Answers, SenderLeft,
       Uncounted
  <2>3. CounterExact' /\ Counts' /\ Handles'
    BY ZenonT(60), <1>2, <2>e DEF CounterExact, Debt, Uncounted, Counts, SenderLeft, CountedAsleep,
       Upgraded, Handles
  <2>4. Ordered'
    BY Zenon, <1>2, <2>e, <2>1, OrderedFrame DEF Held
  <2>5. QED BY Zenon, <2>1, <2>2, <2>3, <2>4 DEF StreamInv
<1>3. QED BY ZenonT(60), <1>1, <1>2 DEF StartCancel

(* start_selection gives back the one it took off the count. *)
LEMMA StartUndoKeeps ==
  ASSUME StreamAssumption, StreamInv, StartUndo
  PROVE  StreamInv'
PROOF
<1>a. Constants /\ TypeOK BY Zenon, StreamConstants DEF StreamInv
<1>n. Len(queue) \in Nat /\ (queue = <<>> <=> Len(queue) = 0) BY Zenon, <1>a, QueueLen
<1> USE <1>a, <1>n DEF StreamInv
<1>1. CASE rpc = "undo"
  <2>e. /\ rpc \in {"undo", "undoUpgrade"}
        /\ cnt' = (IF cnt = DISCONNECTED THEN cnt ELSE cnt + 1)
        /\ rpc' = "idle"
        /\ ready' = TRUE
        /\ UNCHANGED <<queue, steals, toWake, portDropped, spc, nsent, smsg, handle, rmode,
                       got, amt, dsteals, received, hungup, refused>>
    BY ZenonT(60), <1>1 DEF StartUndo, Bump, Check, packet, sender, receiver, unlocal
  <2>f. fails' = fails
    BY ZenonT(60), <1>1, <2>e DEF StartUndo, Bump, Check, Counts, SenderLeft, CountedAsleep,
       Upgraded,
       Uncounted, Constants
  <2>b. ready' \in BOOLEAN
    BY Zenon, <1>1, <2>e, <2>f
  <2>t. cnt' # DISCONNECTED => steals' \in 0..(MAX_STEALS + 1)
    BY ZenonT(60), <1>1, <2>e, <2>f DEF TypeOK
  <2>1. TypeOK'
    BY SMTT(60), <1>1, <2>e, <2>f, <2>b, <2>t DEF TypeOK
  <2>2. NoAssertionFails' /\ Steals' /\ Gated'
    BY ZenonT(60), <1>1, <2>e, <2>f DEF NoAssertionFails, Steals, Gated, PortClosing
  <2>3. CounterExact'
    BY SMTT(60), <1>1, <2>e, <2>f DEF CounterExact, Debt, Uncounted, TypeOK, Constants
  <2>4. Counts'
    BY SMTT(60), <1>1, <2>e, <2>f DEF Counts, SenderLeft, CountedAsleep, Upgraded, Uncounted,
       TypeOK,
       Constants
  <2>5. Handles'
    BY ZenonT(60), <1>1, <2>e, <2>f DEF Handles, CountedAsleep
  <2>6. Ordered'
    BY ZenonT(60), <1>1, <2>e, <2>f, <2>b, <2>1, OrderedFrame DEF Held
  <2>7. Answers'
    BY SMTT(60), <1>1, <2>e, <2>f DEF Answers, Gated, TypeOK, Constants, CounterExact, Debt,
       Uncounted, Counts, SenderLeft, CountedAsleep, Upgraded, Steals, Handles, PortClosing
  <2>8. QED BY Zenon, <2>1, <2>2, <2>3, <2>4, <2>5, <2>6, <2>7 DEF StreamInv
<1>2. CASE rpc = "undoUpgrade"
  <2>e. /\ rpc \in {"undo", "undoUpgrade"}
        /\ cnt' = (IF cnt = DISCONNECTED THEN cnt ELSE cnt + 1)
        /\ rpc' = "close"
        /\ UNCHANGED <<queue, steals, toWake, portDropped, spc, nsent, smsg, handle, rmode,
                       got, amt, dsteals, ready, received, hungup, refused>>
    BY Zenon, <1>2 DEF StartUndo, Bump, Check, packet, sender, receiver, unlocal
  <2>f. fails' = fails
    BY ZenonT(60), <1>2, <2>e DEF StartUndo, Bump, Check, Counts, SenderLeft, CountedAsleep,
       Upgraded,
       Uncounted, Constants
  <2>t. cnt' # DISCONNECTED => steals' \in 0..(MAX_STEALS + 1)
    BY ZenonT(60), <1>2, <2>e, <2>f DEF TypeOK
  <2>1. TypeOK'
    BY SMTT(60), <1>2, <2>e, <2>f, <2>t DEF TypeOK
  <2>2. NoAssertionFails' /\ Steals' /\ Gated' /\ Answers'
    BY ZenonT(60), <1>2, <2>e, <2>f DEF NoAssertionFails, Steals, Gated, PortClosing, Answers,
       SenderLeft, Uncounted
  <2>3. CounterExact' /\ Handles'
    BY ZenonT(60), <1>2, <2>e, <2>f DEF CounterExact, Debt, Uncounted, Handles, CountedAsleep
  <2>4. Counts'
    BY SMTT(60), <1>2, <2>e, <2>f DEF Counts, SenderLeft, CountedAsleep, Upgraded, Uncounted,
       TypeOK,
       Constants
  <2>5. Ordered'
    BY ZenonT(60), <1>2, <2>e, <2>f, <2>1, OrderedFrame DEF Held
  <2>6. QED BY Zenon, <2>1, <2>2, <2>3, <2>4, <2>5 DEF StreamInv
<1>3. QED BY ZenonT(60), <1>1, <1>2 DEF StartUndo, Bump, Check

(* Another port of the select wakes the receiver. *)
LEMMA OtherPortReadyKeeps ==
  ASSUME StreamAssumption, StreamInv, OtherPortReady
  PROVE  StreamInv'
PROOF
<1>a. Constants /\ TypeOK BY Zenon, StreamConstants DEF StreamInv
<1>n. Len(queue) \in Nat /\ (queue = <<>> <=> Len(queue) = 0) BY Zenon, <1>a, QueueLen
<1> USE <1>a, <1>n DEF StreamInv
<1>e. /\ rpc = "selecting"
      /\ rpc' = "abort"
      /\ UNCHANGED <<queue, cnt, steals, toWake, portDropped, spc, nsent, smsg, handle, rmode,
                     got, amt, dsteals, ready, received, hungup, refused, fails>>
  BY Zenon DEF OtherPortReady, packet, sender, receiver, unlocal
<1>t. cnt' # DISCONNECTED => steals' \in 0..(MAX_STEALS + 1)
  BY ZenonT(60), <1>e DEF TypeOK
<1>1. TypeOK'
  BY SMTT(30), <1>e, <1>t DEF TypeOK
<1>2. NoAssertionFails' /\ Steals' /\ Gated' /\ Answers'
  BY ZenonT(60), <1>e DEF NoAssertionFails, Steals, Gated, PortClosing, Answers, SenderLeft,
     Uncounted
<1>3. CounterExact' /\ Counts' /\ Handles'
  BY ZenonT(60), <1>e DEF CounterExact, Debt, Uncounted, Counts, SenderLeft, CountedAsleep, Upgraded,
     Handles
<1>4. Ordered'
  BY ZenonT(60), <1>e, <1>1, OrderedFrame DEF Held
<1>5. QED BY Zenon, <1>1, <1>2, <1>3, <1>4 DEF StreamInv

(* abort_selection on a packet just upgraded from a oneshot. *)
LEMMA AbortUpgradedKeeps ==
  ASSUME StreamAssumption, StreamInv, AbortUpgraded
  PROVE  StreamInv'
PROOF
<1>a. Constants /\ TypeOK BY Zenon, StreamConstants DEF StreamInv
<1>n. Len(queue) \in Nat /\ (queue = <<>> <=> Len(queue) = 0) BY Zenon, <1>a, QueueLen
<1> USE <1>a, <1>n DEF StreamInv
<1>v. rpc = "abortUpgraded"
  BY Zenon DEF AbortUpgraded
<1>s. steals = 0
  BY ZenonT(60), <1>v DEF Steals
<1>r. toWake = "none"
  BY ZenonT(60), <1>v, <1>s DEF Handles, TypeOK
<1>e. /\ rpc = "abortUpgraded"
      /\ rpc' = "idle"
      /\ ready' = TRUE
      /\ UNCHANGED <<queue, cnt, steals, toWake, portDropped, spc, nsent, smsg, handle, rmode,
                     got, amt, dsteals, received, hungup, refused>>
  BY Zenon, <1>v, <1>s, <1>r DEF AbortUpgraded, Check, packet, sender, receiver, unlocal
<1>f. fails' = fails
  BY Zenon, <1>v, <1>s, <1>r, <1>e DEF AbortUpgraded, Check
<1>t. cnt' # DISCONNECTED => steals' \in 0..(MAX_STEALS + 1)
  BY ZenonT(60), <1>v, <1>s, <1>r, <1>e, <1>f DEF TypeOK
<1>1. TypeOK'
  BY SMTT(60), <1>v, <1>s, <1>r, <1>e, <1>f, <1>t DEF TypeOK
<1>2. NoAssertionFails' /\ Steals' /\ Gated' /\ Answers'
  BY ZenonT(60), <1>v, <1>s, <1>r, <1>e, <1>f DEF NoAssertionFails, Steals, Gated, PortClosing,
     Answers,
     SenderLeft, Uncounted
<1>3. CounterExact' /\ Counts' /\ Handles'
  BY ZenonT(60), <1>v, <1>s, <1>r, <1>e, <1>f DEF CounterExact, Debt, Uncounted, Counts, SenderLeft,
     CountedAsleep, Upgraded, Handles
<1>4. Ordered'
  BY ZenonT(60), <1>v, <1>s, <1>r, <1>e, <1>f, <1>1, OrderedFrame DEF Held
<1>5. QED BY Zenon, <1>1, <1>2, <1>3, <1>4 DEF StreamInv

(* abort_selection adds two to the count: one it took, and one for the      *)
(* steal it records later.                                                  *)
LEMMA AbortKeeps ==
  ASSUME StreamAssumption, StreamInv, Abort
  PROVE  StreamInv'
PROOF
<1>a. Constants /\ TypeOK BY Zenon, StreamConstants DEF StreamInv
<1>n. Len(queue) \in Nat /\ (queue = <<>> <=> Len(queue) = 0) BY Zenon, <1>a, QueueLen
<1> USE <1>a, <1>n DEF StreamInv
<1>1. CASE cnt = DISCONNECTED /\ toWake = "none"
  <2>e. /\ rpc = "abort"
        /\ rpc' = "peek"
        /\ UNCHANGED <<queue, cnt, steals, toWake, portDropped, spc, nsent, smsg, handle,
                       rmode, got, amt, dsteals, ready, received, hungup, refused, fails>>
    BY Zenon, <1>1 DEF Abort, Bump, Check, packet, sender, receiver, unlocal
  <2>t. cnt' # DISCONNECTED => steals' \in 0..(MAX_STEALS + 1)
    BY ZenonT(60), <1>1, <2>e DEF TypeOK
  <2>1. TypeOK'
    BY SMTT(60), <1>1, <2>e, <2>t DEF TypeOK
  <2>2. NoAssertionFails' /\ Steals' /\ Gated' /\ Answers'
    BY ZenonT(60), <1>1, <2>e DEF NoAssertionFails, Steals, Gated, PortClosing, Answers, SenderLeft,
       Uncounted
  <2>3. CounterExact' /\ Counts' /\ Handles'
    BY ZenonT(60), <1>1, <2>e DEF CounterExact, Debt, Uncounted, Counts, SenderLeft, CountedAsleep,
       Upgraded, Handles
  <2>4. Ordered'
    BY Zenon, <1>1, <2>e, <2>1, OrderedFrame DEF Held
  <2>5. QED BY Zenon, <2>1, <2>2, <2>3, <2>4 DEF StreamInv
<1>2. CASE cnt = DISCONNECTED /\ toWake # "none"
  <2>e. /\ rpc = "abort"
        /\ rpc' = "close"
        /\ fails' = fails \cup {"stream.rs:416"}
        /\ UNCHANGED <<queue, cnt, steals, toWake, portDropped, spc, nsent, smsg, handle,
                       rmode, got, amt, dsteals, ready, received, hungup, refused>>
    BY Zenon, <1>2 DEF Abort, Bump, Check, packet, sender, receiver, unlocal
  <2>t. cnt' # DISCONNECTED => steals' \in 0..(MAX_STEALS + 1)
    BY ZenonT(60), <1>2, <2>e DEF TypeOK
  <2>1. TypeOK'
    BY SMTT(60), <1>2, <2>e, <2>t DEF TypeOK
  <2>2. NoAssertionFails' /\ Steals' /\ Gated' /\ Answers'
    BY ZenonT(60), <1>2, <2>e DEF NoAssertionFails, Steals, Gated, PortClosing, Answers, SenderLeft,
       Uncounted
  <2>3. CounterExact' /\ Counts'
    BY ZenonT(60), <1>2, <2>e DEF CounterExact, Debt, Uncounted, Counts, SenderLeft, CountedAsleep,
       Upgraded
  <2>4. Handles'
    BY SMTT(60), <1>2, <2>e DEF Handles, CountedAsleep, Counts, Constants
  <2>5. Ordered'
    BY ZenonT(60), <1>2, <2>e, <2>1, OrderedFrame DEF Held
  <2>6. QED BY Zenon, <2>1, <2>2, <2>3, <2>4, <2>5 DEF StreamInv
<1>3. CASE cnt # DISCONNECTED
  <2>e. /\ rpc = "abort"
        /\ cnt' = cnt + 2
        /\ rpc' = (IF cnt < 0 THEN "trash" ELSE "spin")
        /\ UNCHANGED <<queue, steals, toWake, portDropped, spc, nsent, smsg, handle, rmode,
                       got, amt, dsteals, ready, received, hungup, refused>>
    BY ZenonT(60), <1>3 DEF Abort, Bump, Check, packet, sender, receiver, unlocal
  <2>f. fails' = fails
    BY SMTT(60), <1>3, <2>e DEF Abort, Bump, Check, Counts, SenderLeft, CountedAsleep, Upgraded,
       Uncounted, Constants
  <2>t. cnt' # DISCONNECTED => steals' \in 0..(MAX_STEALS + 1)
    BY ZenonT(60), <1>3, <2>e, <2>f DEF TypeOK
  <2>1. TypeOK'
    BY SMTT(60), <1>3, <2>e, <2>f, <2>t DEF TypeOK
  <2>2. NoAssertionFails' /\ Steals' /\ Gated' /\ Answers'
    BY ZenonT(60), <1>3, <2>e, <2>f DEF NoAssertionFails, Steals, Gated, PortClosing, Answers,
       SenderLeft, Uncounted
  <2>3. CounterExact'
    BY SMTT(60), <1>3, <2>e, <2>f DEF CounterExact, Debt, Uncounted, TypeOK, Constants
  <2>4. Counts'
    BY SMTT(60), <1>3, <2>e, <2>f DEF Counts, SenderLeft, CountedAsleep, Upgraded, Uncounted,
       TypeOK,
       Constants
  <2>5. Handles'
    BY SMTT(60), <1>3, <2>e, <2>f DEF Handles, TypeOK, Constants, Counts, SenderLeft,
       CountedAsleep,
       Upgraded, Uncounted
  <2>6. Ordered'
    BY ZenonT(60), <1>3, <2>e, <2>f, <2>1, OrderedFrame DEF Held
  <2>7. QED BY Zenon, <2>1, <2>2, <2>3, <2>4, <2>5, <2>6 DEF StreamInv
<1>4. QED BY ZenonT(60), <1>1, <1>2, <1>3 DEF Abort, Bump, Check

(* abort_selection takes the handle back that no sender took. *)
LEMMA AbortTrashKeeps ==
  ASSUME StreamAssumption, StreamInv, AbortTrash
  PROVE  StreamInv'
PROOF
<1>a. Constants /\ TypeOK BY Zenon, StreamConstants DEF StreamInv
<1>n. Len(queue) \in Nat /\ (queue = <<>> <=> Len(queue) = 0) BY Zenon, <1>a, QueueLen
<1> USE <1>a, <1>n DEF StreamInv
<1>e. /\ rpc = "trash"
      /\ toWake' = "none"
      /\ steals' = 1
      /\ rpc' = "idle"
      /\ ready' = FALSE
      /\ UNCHANGED <<queue, cnt, portDropped, spc, nsent, smsg, handle, rmode, got, amt,
                     dsteals, received, hungup, refused>>
  BY ZenonT(30) DEF AbortTrash, Check, packet, sender, receiver, unlocal
<1>f. fails' = fails
  BY ZenonT(60), <1>e DEF AbortTrash, Check, Steals, Handles
<1>b. ready' \in BOOLEAN
  BY ZenonT(60), <1>e, <1>f
<1>t. cnt' # DISCONNECTED => steals' \in 0..(MAX_STEALS + 1)
  BY SMTT(60), <1>e, <1>f DEF TypeOK, Constants
<1>1. TypeOK'
  BY SMTT(60), <1>e, <1>f, <1>b, <1>t DEF TypeOK
<1>2. NoAssertionFails' /\ Steals' /\ Gated' /\ Answers'
  BY ZenonT(60), <1>e, <1>f DEF NoAssertionFails, Steals, Gated, PortClosing, Answers, SenderLeft,
     Uncounted
<1>3. Counts' /\ Handles'
  BY ZenonT(60), <1>e, <1>f DEF Counts, SenderLeft, CountedAsleep, Upgraded, Uncounted, Handles
<1>4. CounterExact'
  BY SMTT(60), <1>e, <1>f DEF CounterExact, Debt, Uncounted, TypeOK, Constants, Steals
<1>5. Ordered'
  BY ZenonT(60), <1>e, <1>f, <1>b, <1>1, OrderedFrame DEF Held
<1>6. QED BY Zenon, <1>1, <1>2, <1>3, <1>4, <1>5 DEF StreamInv

(* abort_selection waits until the sender that counted has taken the        *)
(* handle.                                                                  *)
LEMMA AbortSpinKeeps ==
  ASSUME StreamAssumption, StreamInv, AbortSpin
  PROVE  StreamInv'
PROOF
<1>a. Constants /\ TypeOK BY Zenon, StreamConstants DEF StreamInv
<1>n. Len(queue) \in Nat /\ (queue = <<>> <=> Len(queue) = 0) BY Zenon, <1>a, QueueLen
<1> USE <1>a, <1>n DEF StreamInv
<1>e. /\ rpc = "spin" /\ toWake = "none"
      /\ steals' = 1
      /\ rpc' = "peek"
      /\ UNCHANGED <<queue, cnt, toWake, portDropped, spc, nsent, smsg, handle, rmode, got,
                     amt, dsteals, ready, received, hungup, refused>>
  BY Zenon DEF AbortSpin, Check, packet, sender, receiver, unlocal
<1>f. fails' = fails
  BY ZenonT(60), <1>e DEF AbortSpin, Check, Steals, Handles
<1>t. cnt' # DISCONNECTED => steals' \in 0..(MAX_STEALS + 1)
  BY SMTT(60), <1>e, <1>f DEF TypeOK, Constants
<1>1. TypeOK'
  BY SMTT(60), <1>e, <1>f, <1>t DEF TypeOK
<1>2. NoAssertionFails' /\ Steals' /\ Gated' /\ Answers'
  BY ZenonT(60), <1>e, <1>f DEF NoAssertionFails, Steals, Gated, PortClosing, Answers, SenderLeft,
     Uncounted
<1>3. Counts' /\ Handles'
  BY ZenonT(60), <1>e, <1>f DEF Counts, SenderLeft, CountedAsleep, Upgraded, Uncounted, Handles
<1>4. CounterExact'
  BY SMTT(60), <1>e, <1>f DEF CounterExact, Debt, Uncounted, TypeOK, Constants, Steals
<1>5. Ordered'
  BY Zenon, <1>e, <1>f, <1>1, OrderedFrame DEF Held
<1>6. QED BY Zenon, <1>1, <1>2, <1>3, <1>4, <1>5 DEF StreamInv

(* abort_selection looks whether it was an upgrade that woke the task. *)
LEMMA AbortPeekKeeps ==
  ASSUME StreamAssumption, StreamInv, AbortPeek
  PROVE  StreamInv'
PROOF
<1>a. Constants /\ TypeOK BY Zenon, StreamConstants DEF StreamInv
<1>n. Len(queue) \in Nat /\ (queue = <<>> <=> Len(queue) = 0) BY Zenon, <1>a, QueueLen
<1> USE <1>a, <1>n DEF StreamInv
<1>1. CASE queue # <<>> /\ Head(queue) = GoUp
  <2>e. /\ rpc = "peek"
        /\ queue' = Tail(queue)
        /\ rpc' = "close"
        /\ UNCHANGED <<cnt, steals, toWake, portDropped, spc, nsent, smsg, handle, rmode, got,
                       amt, dsteals, ready, received, hungup, refused, fails>>
    BY Zenon, <1>1 DEF AbortPeek, packet, sender, receiver, unlocal
  <2>p. Popped
    BY Zenon, <1>1, <2>e, QueueTail
  <2>q. /\ Len(queue') = Len(queue) - 1 /\ Len(queue) >= 1
        /\ queue' = <<>> <=> Len(queue') = 0
        /\ Head(queue) = queue[1]
    BY SMTT(30), <2>p DEF Popped
  <2>u. queue' = <<>> /\ Len(queue) = 1 /\ smsg = GoUp /\ spc \notin {"idle", "push"}
    BY Zenon, <1>1, <2>e, <2>q, <2>p, UpgradeAlone
  <2>t. cnt' # DISCONNECTED => steals' \in 0..(MAX_STEALS + 1)
    BY ZenonT(60), <1>1, <2>e, <2>q, <2>u DEF TypeOK
  <2>1. TypeOK'
    BY SMTT(60), <1>1, <2>e, <2>q, <2>u, <2>p, <2>t DEF TypeOK, Popped
  <2>2. NoAssertionFails' /\ Steals' /\ Gated' /\ Answers'
    BY ZenonT(60), <1>1, <2>e, <2>q, <2>u DEF NoAssertionFails, Steals, Gated, PortClosing, Answers,
       SenderLeft, Uncounted
  <2>3. CounterExact' /\ Handles'
    BY ZenonT(60), <1>1, <2>e, <2>q, <2>u DEF CounterExact, Debt, Uncounted, Handles, CountedAsleep
  <2>4. Counts'
    BY SMTT(60), <1>1, <2>e, <2>q, <2>u DEF Counts, SenderLeft, CountedAsleep, Upgraded,
       Uncounted,
       TypeOK, Constants, CounterExact, Debt
  <2>d. ~portDropped
    BY Zenon, <1>1, <2>e, <2>q, <2>u DEF Gated, PortClosing
  <2>5. Ordered'
    BY ZenonT(60), <1>1, <2>e, <2>q, <2>u, <2>p, <2>d, <2>1, OrderedPop DEF Held
  <2>6. QED BY Zenon, <2>1, <2>2, <2>3, <2>4, <2>5 DEF StreamInv
<1>2. CASE ~(queue # <<>> /\ Head(queue) = GoUp)
  <2>e. /\ rpc = "peek"
        /\ rpc' = "idle"
        /\ ready' = TRUE
        /\ UNCHANGED <<queue, cnt, steals, toWake, portDropped, spc, nsent, smsg, handle,
                       rmode, got, amt, dsteals, received, hungup, refused, fails>>
    BY Zenon, <1>2 DEF AbortPeek, packet, sender, receiver, unlocal
  <2>b. ready' \in BOOLEAN
    BY Zenon, <1>2, <2>e
  <2>t. cnt' # DISCONNECTED => steals' \in 0..(MAX_STEALS + 1)
    BY ZenonT(60), <1>2, <2>e DEF TypeOK
  <2>1. TypeOK'
    BY SMTT(60), <1>2, <2>e, <2>b, <2>t DEF TypeOK
  <2>2. NoAssertionFails' /\ Steals' /\ Gated'
    BY ZenonT(60), <1>2, <2>e DEF NoAssertionFails, Steals, Gated, PortClosing
  <2>3. CounterExact' /\ Counts' /\ Handles'
    BY ZenonT(60), <1>2, <2>e DEF CounterExact, Debt, Uncounted, Counts, SenderLeft, CountedAsleep,
       Upgraded, Handles
  <2>4. Ordered'
    BY ZenonT(60), <1>2, <2>e, <2>b, <2>1, OrderedFrame DEF Held
  <2>5. Answers'
    BY SMTT(60), <1>2, <2>e DEF Answers, PortClosing, Counts, SenderLeft, CountedAsleep,
       Upgraded,
       Uncounted, TypeOK, Constants, CounterExact, Debt
  <2>6. QED BY Zenon, <2>1, <2>2, <2>3, <2>4, <2>5 DEF StreamInv
<1>3. QED BY ZenonT(60), <1>1, <1>2 DEF AbortPeek
-----------------------------------------------------------------------------
(* A sequence that counts is the identity on its domain. *)
LEMMA CountingSequence ==
  ASSUME NEW s \in Seq(Int), NEW n \in Nat, Len(s) = n, \A i \in 1..n : s[i] = i
  PROVE  s = [i \in 1..n |-> i]
PROOF
<1>1. s = [i \in 1..Len(s) |-> s[i]]
  BY SMTT(30)
<1>2. QED BY Zenon, <1>1

(* What comes first and what comes second when two sequences are joined. *)
LEMMA Joined ==
  ASSUME NEW a \in Seq(Int), NEW b \in Seq(Int)
  PROVE  /\ a \o b \in Seq(Int) /\ Len(a \o b) = Len(a) + Len(b)
         /\ Len(a) \in Nat /\ Len(b) \in Nat
         /\ \A i \in 1..Len(a) : (a \o b)[i] = a[i]
         /\ \A i \in (Len(a) + 1)..(Len(a) + Len(b)) : (a \o b)[i] = b[i - Len(a)]
BY SMTT(30)

(* A sequence without its last element. *)
LEMMA Front ==
  ASSUME NEW s \in Seq(Int), s # <<>>
  PROVE  /\ SubSeq(s, 1, Len(s) - 1) \in Seq(Int)
         /\ Len(SubSeq(s, 1, Len(s) - 1)) = Len(s) - 1 /\ Len(s) \in Nat \ {0}
         /\ \A i \in 1..(Len(s) - 1) : SubSeq(s, 1, Len(s) - 1)[i] = s[i]
PROOF
<1>1. Len(s) \in Nat \ {0}
  BY SMTT(30)
<1>2. ASSUME NEW n \in Nat, n <= Len(s)
      PROVE  /\ SubSeq(s, 1, n) \in Seq(Int) /\ Len(SubSeq(s, 1, n)) = n
             /\ \A i \in 1..n : SubSeq(s, 1, n)[i] = s[i]
  BY SMTT(30), <1>2
<1>3. Len(s) - 1 \in Nat /\ Len(s) - 1 <= Len(s)
  BY SMTT(30), <1>1
<1>4. QED BY Zenon, <1>1, <1>2, <1>3

(* A channel starts with nothing sent, or as the upgrade of a oneshot that  *)
(* is about to abort its selection.                                         *)
LEMMA StreamInitially ==
  ASSUME StreamAssumption, Init PROVE StreamInv /\ Reported
PROOF
<1>1. Constants
  BY Zenon, StreamConstants
<1>2. /\ queue = <<>> /\ Len(queue) = 0 /\ cnt = 0 /\ steals = 0 /\ toWake = "none"
      /\ ~portDropped /\ spc = "idle" /\ nsent = 0 /\ smsg = GoUp /\ handle = "none"
      /\ rpc \in {"idle", "abortUpgraded"} /\ rmode = "try" /\ got = GoUp
      /\ ~ready /\ received = <<>> /\ Len(received) = 0 /\ ~hungup /\ refused = {} /\ fails = {}
  BY Zenon DEF Init
<1>3. TypeOK
  <2>1. queue \in Seq(Messages \cup {GoUp}) /\ received \in Seq(Messages)
    BY SMTT(30), <1>2
  <2>2. nsent \in 0..MaxSends /\ steals \in 0..(MAX_STEALS + 1)
    BY SMTT(30), <1>1, <1>2 DEF Constants
  <2>3. /\ amt = 0 /\ dsteals = 0 /\ portDropped \in BOOLEAN /\ ready \in BOOLEAN
        /\ hungup \in BOOLEAN
    BY Zenon DEF Init
  <2>4. steals \in Int /\ cnt \in Int /\ amt \in Int /\ dsteals \in Int
    BY SMTT(30), <1>2, <2>3
  <2>5. QED BY ZenonT(60), <1>2, <2>1, <2>2, <2>3, <2>4 DEF TypeOK
<1>4. NoAssertionFails /\ Steals /\ Handles
  BY ZenonT(60), <1>2 DEF NoAssertionFails, Steals, Handles, CountedAsleep
<1>5. Counts
  BY SMTT(30), <1>1, <1>2 DEF Counts, SenderLeft, CountedAsleep, Constants
<1>6. CounterExact
  BY SMTT(30), <1>1, <1>2 DEF CounterExact, Debt
<1>7. Ordered /\ Gated
  <2>1. Held = 0 /\ Unpushed = 0 /\ UpgradeQueued = 0
    BY Zenon, <1>2 DEF Held, Unpushed, UpgradeQueued
  <2>2. QED BY SMTT(30), <1>2, <2>1 DEF Ordered, Gated, PortClosing
<1>8. Answers
  BY Zenon, <1>2 DEF Answers, SenderLeft, PortClosing
<1>9. Reported
  BY Zenon, <1>2 DEF Reported, Awaited
<1>10. QED BY ZenonT(60), <1>3, <1>4, <1>5, <1>6, <1>7, <1>8, <1>9 DEF StreamInv

(* Nothing in the invariant is about a step. *)
LEMMA StreamStutters ==
  ASSUME StreamInv, UNCHANGED vars PROVE StreamInv'
PROOF
<1>1. /\ queue' = queue /\ cnt' = cnt /\ steals' = steals /\ toWake' = toWake
      /\ portDropped' = portDropped /\ spc' = spc /\ nsent' = nsent /\ smsg' = smsg
      /\ handle' = handle /\ refused' = refused /\ rpc' = rpc /\ rmode' = rmode /\ got' = got
      /\ amt' = amt /\ dsteals' = dsteals /\ ready' = ready /\ received' = received
      /\ hungup' = hungup /\ fails' = fails
  BY ZenonT(60) DEF vars, packet, sender, receiver
<1>2. TypeOK' /\ NoAssertionFails'
  BY SMTT(30), <1>1 DEF StreamInv, TypeOK, NoAssertionFails
<1>3. CounterExact' /\ Counts'
  BY ZenonT(60), <1>1 DEF StreamInv, CounterExact, Debt, Counts, SenderLeft, CountedAsleep,
     Upgraded, Uncounted
<1>4. Steals' /\ Handles'
  BY SMTT(60), <1>1 DEF StreamInv, Steals, Handles, CountedAsleep
<1>5. Ordered' /\ Gated'
  BY ZenonT(60), <1>1 DEF StreamInv, Ordered, Held, Unpushed, UpgradeQueued, Gated, PortClosing
<1>6. Answers'
  BY Zenon, <1>1 DEF StreamInv, Answers, SenderLeft, PortClosing, Uncounted
<1>7. QED BY Zenon, <1>2, <1>3, <1>4, <1>5, <1>6 DEF StreamInv

(* Every step of the sender, the receiver and another port of the select    *)
(* keeps the invariant.                                                     *)
LEMMA StreamInductive ==
  ASSUME StreamAssumption, StreamInv, [Next]_vars PROVE StreamInv'
PROOF
<1>1. CASE UNCHANGED vars
  BY Zenon, <1>1, StreamStutters
<1>2. CASE SenderNext
  BY Zenon, <1>2, DoSendKeeps, SendPushKeeps, SendAddKeeps, TakeToWakeKeeps, WakeKeeps,
     InheritorWakesKeeps, DropChanKeeps DEF SenderNext, SenderStep
<1>3. CASE ReceiverStep
  BY ZenonT(60), <1>3, TryRecvPopKeeps, TryRecvSwapKeeps, TryRecvBumpKeeps, TryRecvLoadKeeps,
     TryRecvPopAgainKeeps, DecrementKeeps, DecrementSubKeeps, DecrementUnsetKeeps, DropPortKeeps,
     DropPortCasKeeps, DropPortDrainKeeps, StartCancelKeeps, StartUndoKeeps, AbortUpgradedKeeps,
     AbortKeeps, AbortTrashKeeps, AbortSpinKeeps, AbortPeekKeeps DEF ReceiverStep
<1>4. CASE ReceiverNext
  BY Zenon, <1>3, <1>4, RecvKeeps, DropPortKeeps, CanRecvKeeps,
     StartSelectionKeeps DEF ReceiverNext
<1>5. CASE Finished
  BY Zenon, <1>5, StreamStutters DEF Finished
<1>6. CASE OtherPortReady
  BY Zenon, <1>6, OtherPortReadyKeeps
<1>7. QED BY Zenon, <1>1, <1>2, <1>4, <1>5, <1>6 DEF Next

(* Which steps end in a report, and what the sender does before its first   *)
(* message is out.                                                          *)

(* A receiver that is in a call was not reported as ready. *)
LEMMA NotReported ==
  ASSUME StreamInv, rpc \notin {"idle", "dropCas", "drain", "gone"}
  PROVE  ready = FALSE
BY Zenon DEF StreamInv, Answers, PortClosing, TypeOK

(* What was reported stays true when the sender takes a step. *)
LEMMA ReportOfSender ==
  ASSUME StreamAssumption, StreamInv, Reported, SenderNext PROVE Reported'
PROOF
<1>a. TypeOK /\ Counts /\ Gated /\ Handles BY Zenon DEF StreamInv
<1>1. CASE DoSend
  <2>1. UNCHANGED <<queue, cnt, rpc, ready>> /\ spc = "idle"
    BY Zenon, <1>1 DEF DoSend, packet, receiver
  <2>2. CASE rpc \in {"idle", "abortUpgraded"} /\ nsent = 0
    <3>1. ~portDropped /\ ~Begun
      BY SMTT(30), <1>a, <2>2 DEF Gated, PortClosing, Begun
    <3>2. nsent' = nsent + 1 /\ smsg' = nsent + 1 /\ spc' = "push"
      BY Zenon, <1>1, <3>1 DEF DoSend
    <3>3. nsent' = 1 /\ smsg' = 1
      BY SMTT(30), <2>2, <3>2
    <3>4. QED BY Zenon, <3>2, <3>3 DEF Reported, Awaited
  <2>3. CASE ~(rpc \in {"idle", "abortUpgraded"} /\ nsent = 0)
    BY Zenon, <2>1, <2>3 DEF Reported, Awaited
  <2>4. QED BY Zenon, <2>2, <2>3
<1>2. CASE SendPush
  <2>1. queue' = Append(queue, smsg)
    BY Zenon, <1>2 DEF SendPush
  <2>2. queue' # <<>>
    BY Zenon, <1>a, <2>1, QueuePush DEF Pushed
  <2>3. QED BY Zenon, <2>2 DEF Reported
<1>3. CASE SendAdd
  <2>1. UNCHANGED <<rpc, ready, nsent, smsg>> /\ spc = "add"
    BY Zenon, <1>3 DEF SendAdd, receiver
  <2>2. CASE cnt = DISCONNECTED
    BY Zenon, <1>3, <2>2 DEF SendAdd, Reported
  <2>3. CASE cnt # DISCONNECTED
    BY Zenon, <1>3, <2>1, <2>3 DEF SendAdd, Reported, Awaited
  <2>4. QED BY Zenon, <2>2, <2>3
<1>4. CASE TakeToWake
  BY Zenon, <1>4 DEF TakeToWake, receiver, Reported, Awaited
<1>5. CASE Wake \/ InheritorWakes
  <2>1. UNCHANGED <<queue, cnt, nsent, smsg, ready>>
    BY Zenon, <1>5 DEF Wake, InheritorWakes, packet
  <2>2. rpc' = rpc \/ rpc' \in {"pop", "abort"}
    BY Zenon, <1>5 DEF Wake, InheritorWakes, WakeHandle
  <2>3. spc \in {"wake", "dropWake", "drop", "gone"}
    BY Zenon, <1>5 DEF Wake, InheritorWakes
  <2>4. QED BY Zenon, <2>1, <2>2, <2>3 DEF Reported, Awaited
<1>6. CASE DropChan
  BY Zenon, <1>6 DEF DropChan, Reported
<1>7. QED BY Zenon, <1>1, <1>2, <1>3, <1>4, <1>5, <1>6 DEF SenderNext, SenderStep

(* ... when start_selection takes its announcement back. *)
LEMMA ReportOfUndo ==
  ASSUME StreamAssumption, StreamInv, StartUndo PROVE Reported'
PROOF
<1>a. Constants /\ TypeOK BY Zenon, StreamConstants DEF StreamInv
<1>n. Len(queue) \in Nat /\ (queue = <<>> <=> Len(queue) = 0) BY Zenon, <1>a, QueueLen
<1>1. CASE rpc = "undo"
  <2>e. queue' = queue /\ cnt' = (IF cnt = DISCONNECTED THEN cnt ELSE cnt + 1)
    BY ZenonT(60) DEF StartUndo, Bump
  <2>1. queue # <<>> \/ cnt = DISCONNECTED
    BY SMTT(60), <1>a, <1>n, <1>1 DEF StreamInv, TypeOK, Constants, CounterExact, Debt,
       Counts, CountedAsleep, Steals
  <2>2. QED BY Zenon, <2>e, <2>1 DEF Reported
<1>2. CASE rpc = "undoUpgrade"
  BY Zenon, <1>2 DEF StartUndo, Reported
<1>3. QED BY Zenon, <1>1, <1>2 DEF StartUndo

(* ... and when abort_selection has looked at the queue. *)
LEMMA ReportOfPeek ==
  ASSUME StreamAssumption, StreamInv, AbortPeek PROVE Reported'
PROOF
<1>a. Constants /\ TypeOK BY Zenon, StreamConstants DEF StreamInv
<1>n. Len(queue) \in Nat /\ (queue = <<>> <=> Len(queue) = 0) BY Zenon, <1>a, QueueLen
<1>1. CASE queue # <<>> /\ Head(queue) = GoUp
  BY Zenon, <1>1 DEF AbortPeek, Reported
<1>2. CASE ~(queue # <<>> /\ Head(queue) = GoUp)
  <2>e. UNCHANGED <<queue, cnt>> /\ rpc = "peek"
    BY ZenonT(60), <1>2 DEF AbortPeek
  <2>1. queue # <<>> \/ cnt = DISCONNECTED
    BY SMTT(60), <1>a, <1>n, <2>e DEF StreamInv, TypeOK, Constants, CounterExact, Debt, Counts,
       CountedAsleep
  <2>2. QED BY Zenon, <2>e, <2>1 DEF Reported
<1>3. QED BY Zenon, <1>1, <1>2

(* A receive returns to a port that is not reported as ready, and so does a *)
(* look that finds nothing.                                                 *)
LEMMA ReportOfReceiver ==
  ASSUME StreamAssumption, StreamInv, Reported, ReceiverNext PROVE Reported'
PROOF
<1>n. rpc \notin {"idle", "dropCas", "drain", "gone"} => ready = FALSE
  BY Zenon, NotReported
<1>1. CASE TryRecvPop \/ TryRecvSwap \/ TryRecvBump \/ TryRecvPopAgain \/ TryRecvLoad
  <2>1. rpc \in {"pop", "swap", "bump", "popAgain", "load"} /\ ready' = ready
    BY Zenon, <1>1 DEF TryRecvPop, TryRecvSwap, TryRecvBump, TryRecvPopAgain, TryRecvLoad
  <2>2. rpc' # "abortUpgraded"
    BY Zenon, <1>1 DEF TryRecvPop, TryRecvSwap, TryRecvBump, TryRecvPopAgain, TryRecvLoad, Return
  <2>3. QED BY Zenon, <1>n, <2>1, <2>2 DEF Reported
<1>2. CASE Decrement \/ DecrementSub \/ DecrementUnset \/ StartCancel \/ Abort \/ AbortSpin
  <2>1. rpc' \notin {"idle", "abortUpgraded"}
    BY ZenonT(60), <1>2 DEF Decrement, DecrementSub, DecrementUnset, StartCancel, Abort, AbortSpin
  <2>2. QED BY Zenon, <2>1 DEF Reported
<1>3. CASE DropPort \/ DropPortCas \/ DropPortDrain
  <2>1. rpc' \notin {"idle", "abortUpgraded"}
    BY Zenon, <1>3 DEF DropPort, DropPortCas, DropPortDrain
  <2>2. QED BY Zenon, <2>1 DEF Reported
<1>4. CASE Recv \/ StartSelection
  <2>1. rpc' \notin {"idle", "abortUpgraded"}
    BY Zenon, <1>4 DEF Recv, StartSelection
  <2>2. QED BY Zenon, <2>1 DEF Reported
<1>5. CASE CanRecv
  <2>1. queue' = queue /\ rpc' # "abortUpgraded"
    BY Zenon, <1>5 DEF CanRecv, packet
  <2>2. ready' => queue # <<>>
    BY Zenon, <1>5 DEF CanRecv
  <2>3. QED BY Zenon, <2>1, <2>2 DEF Reported
<1>6. CASE AbortTrash
  BY Zenon, <1>6 DEF AbortTrash, Reported
<1>7. CASE AbortUpgraded
  BY Zenon, <1>7 DEF AbortUpgraded, packet, sender, Reported, Awaited
<1>8. CASE StartUndo \/ AbortPeek
  BY Zenon, <1>8, ReportOfUndo, ReportOfPeek
<1>9. QED BY ZenonT(60), <1>1, <1>2, <1>3, <1>4, <1>5, <1>6, <1>7, <1>8 DEF ReceiverNext, ReceiverStep

(* Every step keeps the reports right. *)
LEMMA StreamReports ==
  ASSUME StreamAssumption, StreamInv, Reported, [Next]_vars PROVE Reported'
PROOF
<1>1. CASE UNCHANGED vars
  BY Zenon, <1>1 DEF vars, packet, sender, receiver, Reported, Awaited
<1>2. CASE Finished
  BY Zenon, <1>1, <1>2 DEF Finished
<1>3. CASE OtherPortReady
  BY Zenon, <1>3 DEF OtherPortReady, Reported
<1>4. QED BY Zenon, <1>1, <1>2, <1>3, ReportOfSender, ReportOfReceiver DEF Next

(* A receiver that sleeps is covered: from who holds its handle and what    *)
(* the count tells.                                                         *)
LEMMA StreamCovers ==
  ASSUME StreamAssumption, StreamInv, Reported PROVE SleeperCovered
PROOF
<1>1. Constants /\ Len(queue) \in Nat /\ (queue = <<>> <=> Len(queue) = 0)
  BY Zenon, StreamConstants, QueueLen DEF StreamInv
<1>2. ASSUME rpc \in {"blocked", "selecting"}, toWake # "none", spc \notin {"take", "dropTake"}
      PROVE  cnt \in {-1, -2} /\ (queue = <<>> \/ spc = "add")
  <2>1. cnt < 0 /\ cnt # DISCONNECTED /\ cnt \in Int
    BY ZenonT(60), <1>2 DEF StreamInv, Handles, CountedAsleep, TypeOK
  <2>2. cnt = Len(queue) - (IF spc = "add" THEN 1 ELSE 0) + steals - 1 /\ steals = 0
    BY ZenonT(60), <1>2, <2>1 DEF StreamInv, CounterExact, Debt, Steals
  <2>3. cnt >= -2
    BY ZenonT(60), <2>1 DEF StreamInv, Counts
  <2>4. cnt = -1 \/ cnt = -2
    BY SMTT(30), <2>1, <2>3
  <2>5. spc # "add" => Len(queue) = 0
    BY SMTT(30), <1>1, <2>1, <2>2
  <2>6. QED BY ZenonT(60), <1>1, <2>4, <2>5
<1>3. rpc \in {"blocked", "selecting"} /\ toWake = "none" => handle # "none"
  BY Zenon DEF StreamInv, Handles
<1>4. ready /\ rpc = "idle" => queue # <<>> \/ cnt = DISCONNECTED \/ Awaited
  BY Zenon DEF Reported
<1>5. QED BY Zenon, <1>2, <1>3, <1>4 DEF SleeperCovered

(* What is received, in hand and queued is the messages sent, in order. *)
LEMMA StreamDelivers ==
  ASSUME StreamAssumption, StreamInv PROVE Delivered
PROOF
<1> DEFINE held == IF rpc \in {"swap", "bump"} /\ got # GoUp THEN <<got>> ELSE <<>>
           data == IF queue # <<>> /\ queue[Len(queue)] = GoUp
                     THEN SubSeq(queue, 1, Len(queue) - 1) ELSE queue
           pushed == nsent - (IF spc = "push" /\ smsg # GoUp THEN 1 ELSE 0)
<1>1. /\ Constants /\ Len(queue) \in Nat /\ (queue = <<>> <=> Len(queue) = 0)
      /\ Len(received) \in Nat /\ received \in Seq(Messages) /\ nsent \in Nat
      /\ queue \in Seq(Messages \cup {GoUp}) /\ got \in Messages \cup {GoUp}
  BY SMTT(60), StreamConstants, QueueLen DEF StreamInv, TypeOK
<1>2. received \in Seq(Int) /\ queue \in Seq(Int) /\ got \in Int
  BY SMTT(30), <1>1 DEF Messages, GoUp, Constants
<1>3. received = [i \in 1..Len(received) |-> i]
  BY ZenonT(60), <1>1, <1>2, CountingSequence DEF StreamInv, Ordered
<1>4. ASSUME ~portDropped PROVE received \o held \o data = [i \in 1..pushed |-> i]
  <2>1. /\ held \in Seq(Int) /\ Len(held) = Held /\ Held \in {0, 1}
        /\ \A i \in 1..Len(held) : held[i] = Len(received) + i
    <3>1. CASE rpc \in {"swap", "bump"} /\ got # GoUp
      <4>1. Held = 1 /\ held = <<got>> /\ got = Len(received) + 1
        BY ZenonT(60), <1>4, <3>1 DEF StreamInv, Ordered, Held
      <4>2. <<got>> \in Seq(Int) /\ Len(<<got>>) = 1 /\ <<got>>[1] = got
        BY SMTT(30), <1>2
      <4>3. \A i \in 1..1 : i = 1
        BY SMTT(30)
      <4> HIDE DEF held
      <4>4. QED BY ZenonT(60), <4>1, <4>2, <4>3
    <3>2. CASE ~(rpc \in {"swap", "bump"} /\ got # GoUp)
      BY SMTT(30), <3>2 DEF Held
    <3>3. QED BY Zenon, <3>1, <3>2
  <2>2. /\ data \in Seq(Int) /\ Len(data) = Len(queue) - UpgradeQueued
        /\ \A i \in 1..Len(data) : data[i] = Len(received) + Held + i
    <3>1. CASE queue # <<>> /\ queue[Len(queue)] = GoUp
      <4>1. /\ data \in Seq(Int) /\ Len(data) = Len(queue) - 1
            /\ \A i \in 1..Len(data) : i \in 1..Len(queue) /\ i # Len(queue) /\ data[i] = queue[i]
        <5> DEFINE front == SubSeq(queue, 1, Len(queue) - 1)
        <5>1. /\ front \in Seq(Int) /\ Len(front) = Len(queue) - 1 /\ Len(queue) \in Nat \ {0}
              /\ \A i \in 1..(Len(queue) - 1) : front[i] = queue[i]
          BY Zenon, <1>2, <3>1, Front
        <5>2. data = front
          BY ZenonT(60), <3>1
        <5> HIDE DEF data, front
        <5>3. \A i \in 1..(Len(queue) - 1) : i \in 1..Len(queue) /\ i # Len(queue)
          BY SMTT(30), <5>1
        <5>4. QED BY Zenon, <5>1, <5>2, <5>3
      <4>2. UpgradeQueued = 1
        BY Zenon, <3>1 DEF UpgradeQueued
      <4>3. \A i \in 1..Len(data) : queue[i] # GoUp
        BY ZenonT(60), <4>1 DEF StreamInv, Ordered
      <4>4. QED BY ZenonT(60), <1>4, <4>1, <4>2, <4>3 DEF StreamInv, Ordered
    <3>2. CASE ~(queue # <<>> /\ queue[Len(queue)] = GoUp)
      <4>1. UpgradeQueued = 0 /\ data = queue
        BY ZenonT(60), <3>2 DEF UpgradeQueued
      <4>2. \A i \in 1..Len(queue) : queue[i] # GoUp
        BY SMTT(60), <1>1, <3>2 DEF StreamInv, Ordered
      <4>3. \A i \in 1..Len(queue) : queue[i] = Len(received) + Held + i
        BY ZenonT(60), <1>4, <4>2 DEF StreamInv, Ordered
      <4> HIDE DEF data
      <4>4. QED BY SMTT(30), <1>1, <1>2, <4>1, <4>3
    <3>3. QED BY Zenon, <3>1, <3>2
  <2>3. pushed = Len(received) + Held + Len(data) /\ pushed \in Nat
    <3>1. nsent = Len(received) + Held + Len(queue) - UpgradeQueued + Unpushed
      BY ZenonT(60), <1>4 DEF StreamInv, Ordered
    <3>2. pushed = nsent - Unpushed /\ Unpushed \in {0, 1}
      BY Zenon DEF Unpushed
    <3>3. Len(data) \in Nat /\ Len(data) = Len(queue) - UpgradeQueued /\ Held \in Nat
      BY SMTT(30), <2>1, <2>2
    <3>4. Len(received) \in Nat
      BY Zenon, <1>1
    <3> HIDE DEF pushed, data
    <3>5. nsent - Unpushed = Len(received) + Held + Len(data)
      BY SMTT(30), <3>1, <3>2, <3>3, <3>4
    <3>6. QED BY SMTT(30), <3>2, <3>3, <3>4, <3>5
  <2> HIDE DEF held, data, pushed
  <2>4. /\ received \o held \in Seq(Int) /\ Len(received \o held) = Len(received) + Held
        /\ \A i \in 1..(Len(received) + Held) : (received \o held)[i] = i
    <3>1. /\ received \o held \in Seq(Int) /\ Len(received \o held) = Len(received) + Len(held)
          /\ \A i \in 1..Len(received) : (received \o held)[i] = received[i]
          /\ \A i \in (Len(received) + 1)..(Len(received) + Len(held)) :
               (received \o held)[i] = held[i - Len(received)]
      BY ZenonT(60), <1>2, <2>1, Joined
    <3>2. \A i \in 1..Len(received) : received[i] = i
      BY Zenon DEF StreamInv, Ordered
    <3>3. ASSUME NEW i \in 1..(Len(received) + Held) PROVE (received \o held)[i] = i
      <4>1. CASE i \in 1..Len(received)
        BY ZenonT(60), <3>1, <3>2, <4>1
      <4>2. CASE i \notin 1..Len(received)
        <5>1. /\ i \in (Len(received) + 1)..(Len(received) + Len(held))
              /\ i - Len(received) \in 1..Len(held)
          BY SMTT(30), <1>1, <2>1, <4>2
        <5>2. QED BY SMTT(30), <1>1, <2>1, <3>1, <5>1
      <4>3. QED BY Zenon, <4>1, <4>2
    <3>4. QED BY Zenon, <2>1, <3>1, <3>3
  <2> DEFINE first == received \o held
  <2>5. /\ first \in Seq(Int) /\ Len(first) = Len(received) + Held /\ Len(first) \in Nat
        /\ \A i \in 1..Len(first) : first[i] = i
    BY SMTT(30), <1>1, <2>1, <2>4
  <2> HIDE DEF first
  <2>6. /\ first \o data \in Seq(Int) /\ Len(first \o data) = pushed
        /\ \A i \in 1..pushed : (first \o data)[i] = i
    <3>1. /\ first \o data \in Seq(Int) /\ Len(first \o data) = Len(first) + Len(data)
          /\ Len(data) \in Nat
          /\ \A i \in 1..Len(first) : (first \o data)[i] = first[i]
          /\ \A i \in (Len(first) + 1)..(Len(first) + Len(data)) :
               (first \o data)[i] = data[i - Len(first)]
      BY Zenon, <2>2, <2>5, Joined
    <3>2. pushed = Len(first) + Len(data)
      BY Zenon, <2>3, <2>5
    <3>3. ASSUME NEW i \in 1..pushed PROVE (first \o data)[i] = i
      <4>1. CASE i \in 1..Len(first)
        BY Zenon, <2>5, <3>1, <4>1
      <4>2. CASE i \notin 1..Len(first)
        <5>1. /\ i \in (Len(first) + 1)..(Len(first) + Len(data))
              /\ i - Len(first) \in 1..Len(data)
          BY SMTT(60), <2>5, <3>1, <3>2, <4>2
        <5>2. (first \o data)[i] = Len(first) + (i - Len(first))
          BY Zenon, <2>2, <2>5, <3>1, <5>1
        <5>3. QED BY SMTT(30), <2>5, <5>2
      <4>3. QED BY Zenon, <4>1, <4>2
    <3>4. QED BY Zenon, <3>1, <3>2, <3>3
  <2>7. first \o data = [i \in 1..pushed |-> i]
    BY Zenon, <2>3, <2>6, CountingSequence
  <2>8. QED BY Zenon, <2>7 DEF first
<1>5. \A i \in DOMAIN received : received[i] \notin refused
  <2>1. DOMAIN received = 1..Len(received)
    BY SMTT(30), <1>1
  <2>2. QED BY SMTT(60), <1>1, <2>1 DEF StreamInv, Ordered, Gated, TypeOK, Messages
<1>6. hungup => queue = <<>> /\ cnt = DISCONNECTED
  BY ZenonT(60) DEF StreamInv, Answers, Counts
<1>7. rpc = "gone" /\ spc = "idle" => queue = <<>>
  BY SMTT(30), <1>1 DEF StreamInv, Answers, SenderLeft, Uncounted
<1>8. QED BY ZenonT(60), <1>3, <1>4, <1>5, <1>6, <1>7 DEF Delivered

(* What the invariant says to the users of a channel. *)
LEMMA StreamInvSays ==
  ASSUME StreamAssumption, StreamInv, Reported
  PROVE  TypeOK /\ NoAssertionFails /\ CounterExact /\ SleeperCovered /\ Delivered
BY Zenon, StreamCovers, StreamDelivers DEF StreamInv
=============================================================================
