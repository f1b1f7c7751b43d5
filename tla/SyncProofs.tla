----------------------------- MODULE SyncProofs -----------------------------
(***************************************************************************)
(* The inductive invariant of the bounded channel (Sync; comm/sync.rs) is  *)
(* kept by every call of a sender and of the receiver, for any set of      *)
(* senders, any bounds and any number of messages. SyncInv says more than  *)
(* the checked properties: who is in the queue and whose handle the State  *)
(* holds, that the room a queued sender waits for belongs to senders       *)
(* already woken, and that each message is in one place. CommProofs turns  *)
(* it into theorems about the channels.                                    *)
(***************************************************************************)
EXTENDS Sync, Counting, TLAPS

(* What the lemmas take for granted: the constants, and how finite sets are *)
(* counted.                                                                 *)
Given == SyncAssumption /\ CountingFacts

(* The constants, one by one. *)
Constants ==
    /\ IsFiniteSet(Senders) /\ Senders # {} /\ TrySenders \subseteq Senders
    /\ Caps \subseteq Nat /\ MaxSends \in Nat
    /\ "none" \notin Senders /\ "recv" \notin Senders /\ "select" \notin Senders

(* What the assumption on the constants says, with the names apart. *)
LEMMA SyncConstants == ASSUME Given PROVE Constants
PROOF
<1>1. {"none", "recv", "select"} \cap Senders = {}
  BY Zenon DEF Given, SyncAssumption
<1>2. QED BY Zenon, <1>1 DEF Given, SyncAssumption, Constants

(* Finite sets: the parts of one, ... *)
LEMMA FiniteSubsets ==
  ASSUME Given, NEW S, IsFiniteSet(S), NEW T \in SUBSET S
  PROVE  /\ IsFiniteSet(T) /\ Cardinality(T) \in Nat /\ Cardinality(S) \in Nat
         /\ Cardinality(T) <= Cardinality(S) /\ (Cardinality(T) = 0 <=> T = {})
  BY Zenon DEF Given, CountingFacts

(* ... one with an element more, ... *)
LEMMA FiniteAdd ==
  ASSUME Given, NEW S, IsFiniteSet(S), NEW x
  PROVE  Cardinality(S \cup {x}) = IF x \in S THEN Cardinality(S) ELSE Cardinality(S) + 1
  BY Zenon DEF Given, CountingFacts

(* ... and with one less. *)
LEMMA FiniteRemove ==
  ASSUME Given, NEW S, IsFiniteSet(S), NEW x
  PROVE  Cardinality(S \ {x}) = IF x \in S THEN Cardinality(S) - 1 ELSE Cardinality(S)
  BY Zenon DEF Given, CountingFacts

(* A sequence with an element appended. *)
LEMMA AppendFacts ==
  ASSUME NEW S, NEW q \in Seq(S), NEW x \in S
  PROVE  /\ Append(q, x) \in Seq(S) /\ Len(Append(q, x)) = Len(q) + 1
         /\ \A i \in 1..Len(q) : Append(q, x)[i] = q[i]
         /\ Append(q, x)[Len(q) + 1] = x
         /\ Len(q) \in Nat /\ (q = <<>> <=> Len(q) = 0) /\ Append(q, x) # <<>>
  BY SMTT(30)

(* The empty sequence with an element appended. *)
LEMMA AppendToEmpty == \A x : Append(<<>>, x) = <<x>>
  BY SMTT(30)

(* Which elements are in it, and that they stay distinct. *)
LEMMA AppendMembers ==
  ASSUME NEW S, NEW q \in Seq(S), NEW x \in S, NEW r, r = Append(q, x)
  PROVE  /\ \A y \in S : (\E i \in 1..Len(r) : r[i] = y) <=> (\E i \in 1..Len(q) : q[i] = y) \/ y = x
         /\ (\A i \in 1..Len(q) : q[i] # x) /\ (\A i, j \in 1..Len(q) : q[i] = q[j] => i = j)
              => \A i, j \in 1..Len(r) : r[i] = r[j] => i = j
PROOF
<1>1. /\ Len(r) = Len(q) + 1 /\ Len(q) \in Nat /\ r[Len(q) + 1] = x
      /\ \A i \in 1..Len(q) : r[i] = q[i]
  BY SMTT(30), AppendFacts
<1>2. \A i \in 1..Len(r) : i \in 1..Len(q) \/ i = Len(q) + 1
  BY SMTT(30), <1>1
<1>3. 1..Len(q) \subseteq 1..Len(r) /\ Len(q) + 1 \in 1..Len(r)
  BY SMTT(30), <1>1
<1>4. \A y \in S : (\E i \in 1..Len(r) : r[i] = y) <=> (\E i \in 1..Len(q) : q[i] = y) \/ y = x
  BY Zenon, <1>1, <1>2, <1>3
<1>5. (\A i \in 1..Len(q) : q[i] # x) /\ (\A i, j \in 1..Len(q) : q[i] = q[j] => i = j)
         => \A i, j \in 1..Len(r) : r[i] = r[j] => i = j
  <2> SUFFICES ASSUME \A i \in 1..Len(q) : q[i] # x, \A i, j \in 1..Len(q) : q[i] = q[j] => i = j,
                      NEW i \in 1..Len(r), NEW j \in 1..Len(r), r[i] = r[j]
               PROVE  i = j
    BY Zenon
  <2>1. CASE i \in 1..Len(q) /\ j \in 1..Len(q)
    BY Zenon, <1>1, <2>1
  <2>2. CASE i = Len(q) + 1 \/ j = Len(q) + 1
    BY Zenon, <1>1, <1>2, <2>2
  <2>3. QED BY Zenon, <1>2, <2>1, <2>2
<1>6. QED BY Zenon, <1>4, <1>5

(* A sequence without its head. *)
LEMMA TailFacts ==
  ASSUME NEW S, NEW q \in Seq(S), q # <<>>
  PROVE  /\ Tail(q) \in Seq(S) /\ Len(Tail(q)) = Len(q) - 1 /\ Head(q) = q[1] /\ Head(q) \in S
         /\ \A i \in 1..Len(Tail(q)) : Tail(q)[i] = q[i + 1]
         /\ Len(q) \in Nat \ {0} /\ (Tail(q) = <<>> <=> Len(q) = 1)
PROOF
<1>1. Len(q) \in Nat \ {0} /\ Head(q) = q[1]
  BY SMTT(30)
<1>2. /\ Tail(q) \in Seq(S) /\ Len(Tail(q)) = Len(q) - 1 /\ Head(q) \in S
      /\ \A i \in 1..Len(Tail(q)) : Tail(q)[i] = q[i + 1]
  BY SMTT(30), <1>1
<1>3. Tail(q) = <<>> <=> Len(Tail(q)) = 0
  BY SMTT(60), <1>2
<1>4. QED BY SMTT(30), <1>1, <1>2, <1>3

(* While messages are left to send no sender has sent them all. *)
LEMMA SentBound ==
  ASSUME Given, TypeOK, NEW s \in Senders, Cardinality(Sent) < MaxSends
  PROVE  nsent[s] < MaxSends
PROOF
<1>1. nsent[s] \in 0..MaxSends /\ MaxSends \in Nat /\ nsent[s] \in Nat
  BY SMTT(30), SyncConstants DEF TypeOK, Constants
<1>2. IsFiniteSet(Messages)
  BY Zenon, <1>1, SyncConstants DEF Given, CountingFacts, Messages, Constants
<1>3. IsFiniteSet(Sent) /\ Cardinality(Sent) \in Nat
  BY Zenon, <1>2, FiniteSubsets DEF Sent
<1>4. {s} \X (1..nsent[s]) \subseteq Sent
  BY SMTT(30), <1>1 DEF Sent, Messages
<1>5. nsent[s] <= Cardinality(Sent)
  BY Zenon, <1>1, <1>3, <1>4 DEF Given, CountingFacts
<1>6. QED BY SMTT(30), <1>1, <1>3, <1>5

(* The message that a send begins, or tries again, is new or in its         *)
(* sender's hands, and nowhere else.                                        *)
LEMMA SendingMessage ==
  ASSUME Given, TypeOK, PlaceInv, NEW s \in Senders, Sending(s)
  PROVE  /\ spc[s] \in {"idle", "retry"} /\ nsent' \in [Senders -> 0..MaxSends]
         /\ Msg(s)' \in Messages /\ nsent'[s] \in 1..MaxSends
         /\ \A t \in Senders : t # s => nsent'[t] = nsent[t]
         /\ \A m \in Messages : m \in Sent' <=> m \in Sent \/ m = Msg(s)'
         /\ ~InBuf(Msg(s)') /\ ~Got(Msg(s)')
         /\ Msg(s)' \notin back /\ Msg(s)' \notin destroyed
         /\ spc[s] = "retry" => nsent' = nsent
PROOF
<1>k. Constants
  BY Zenon, SyncConstants
<1> USE <1>k DEF Constants, TypeOK
<1>0. Msg(s)' = <<s, nsent'[s]>>
  BY Zenon DEF Msg
<1>1. CASE spc[s] = "idle" /\ Cardinality(Sent) < MaxSends /\ nsent' = [nsent EXCEPT ![s] = @ + 1]
  <2>1. nsent[s] < MaxSends
    BY Zenon, <1>1, SentBound
  <2>2. /\ nsent' \in [Senders -> 0..MaxSends] /\ nsent'[s] = nsent[s] + 1 /\ nsent'[s] \in 1..MaxSends
        /\ \A t \in Senders : t # s => nsent'[t] = nsent[t]
    BY SMTT(60), <1>1, <2>1
  <2>3. Msg(s)' \in Messages /\ Msg(s)' \notin Sent
    BY SMTT(30), <1>0, <2>2 DEF Messages, Sent
  <2>4. \A m \in Messages : m \in Sent' <=> m \in Sent \/ m = Msg(s)'
    <3> TAKE m \in Messages
    <3>1. PICK t \in Senders, n \in 1..MaxSends : m = <<t, n>>
      BY SMTT(30) DEF Messages
    <3>2. (m \in Sent <=> n <= nsent[t]) /\ (m \in Sent' <=> n <= nsent'[t])
      BY Zenon, <3>1 DEF Messages, Sent
    <3>3. nsent[t] \in Nat
      BY SMTT(30)
    <3>4. CASE t = s
      BY SMTT(30), <1>0, <2>2, <3>1, <3>2, <3>3, <3>4
    <3>5. CASE t # s
      BY SMTT(60), <1>0, <2>2, <3>1, <3>2, <3>5
    <3>6. QED BY Zenon, <3>4, <3>5
  <2>5. QED BY Zenon, <1>1, <2>2, <2>3, <2>4 DEF PlaceInv
<1>2. CASE spc[s] = "retry" /\ nsent' = nsent
  <2>1. nsent[s] \in 1..MaxSends
    BY SMTT(30), <1>2 DEF PlaceInv
  <2>2. Msg(s)' \in Messages /\ Msg(s)' \in Sent
    BY SMTT(30), <1>0, <1>2, <2>1 DEF Messages, Sent
  <2>3. \A m \in Messages : m \in Sent' <=> m \in Sent
    BY Zenon, <1>2 DEF Sent
  <2>4. InHand(Msg(s)')
    BY Zenon, <1>0, <1>2 DEF InHand, Msg
  <2>5. QED BY Zenon, <1>2, <2>1, <2>2, <2>3, <2>4 DEF PlaceInv, OnePlace
<1>3. QED BY Zenon, <1>1, <1>2 DEF Sending

(* Afterwards the hands hold what they held, and this message while its     *)
(* sender sleeps or is to try again.                                        *)
LEMMA SendingHands ==
  ASSUME Given, TypeOK, PlaceInv, NEW s \in Senders, Sending(s), NEW v,
         v \notin {"retry"}, spc' = [spc EXCEPT ![s] = v]
  PROVE  \A m \in Messages :
           InHand(m)' <=> (InHand(m) /\ m # Msg(s)') \/ (v = "queued" /\ m = Msg(s)')
PROOF
<1>1. /\ spc[s] \in {"idle", "retry"} /\ (spc[s] = "retry" => nsent' = nsent)
      /\ \A t \in Senders : t # s => nsent'[t] = nsent[t]
  BY Zenon, SendingMessage
<1>2. \A t \in Senders : spc'[t] = IF t = s THEN v ELSE spc[t]
  BY Zenon DEF TypeOK
<1> TAKE m \in Messages
<1>3. ASSUME InHand(m)' PROVE (InHand(m) /\ m # Msg(s)') \/ (v = "queued" /\ m = Msg(s)')
  <2>1. PICK t \in Senders : spc'[t] \in {"queued", "retry"} /\ m = <<t, nsent'[t]>>
    BY Zenon, <1>3 DEF InHand, Msg
  <2>2. CASE t = s
    BY Zenon, <1>2, <2>1, <2>2 DEF Msg
  <2>3. CASE t # s
    <3>1. spc[t] \in {"queued", "retry"} /\ m = <<t, nsent[t]>> /\ m # <<s, nsent'[s]>>
      BY Zenon, <1>1, <1>2, <2>1, <2>3
    <3>2. QED BY Zenon, <3>1 DEF InHand, Msg
  <2>4. QED BY Zenon, <2>2, <2>3
<1>4. ASSUME InHand(m), m # Msg(s)' PROVE InHand(m)'
  <2>1. PICK t \in Senders : spc[t] \in {"queued", "retry"} /\ m = <<t, nsent[t]>>
    BY Zenon, <1>4 DEF InHand, Msg
  <2>2. t # s
    BY Zenon, <1>1, <1>4, <2>1 DEF Msg
  <2>3. QED BY Zenon, <1>1, <1>2, <2>1, <2>2 DEF InHand, Msg
<1>5. ASSUME v = "queued", m = Msg(s)' PROVE InHand(m)'
  BY Zenon, <1>2, <1>5 DEF InHand, Msg
<1>6. QED BY Zenon, <1>3, <1>4, <1>5

(* A send that puts its message in one place keeps each message in one      *)
(* place, whether it is queued, given back or enqueued.                     *)
LEMMA PlacesAfterSend ==
  ASSUME Given, TypeOK, PlaceInv, NEW s \in Senders, Sending(s), NEW v \in {"idle", "queued", "handoff"},
         spc' = [spc EXCEPT ![s] = v], UNCHANGED <<received, destroyed>>,
         \/ v = "queued" /\ buf' = buf /\ back' = back
         \/ v # "queued" /\ buf' = buf /\ back' = back \cup {Msg(s)'}
         \/ v # "queued" /\ buf' = Append(buf, Msg(s)') /\ back' = back
  PROVE  PlaceInv'
PROOF
<1> DEFINE M == Msg(s)'
<1>1. /\ M \in Messages /\ nsent'[s] > 0 /\ Messages' = Messages
      /\ \A t \in Senders : t # s => nsent'[t] = nsent[t]
      /\ \A m \in Messages : m \in Sent' <=> m \in Sent \/ m = M
      /\ ~InBuf(M) /\ ~Got(M) /\ M \notin back /\ M \notin destroyed
  BY SMTT(30), SendingMessage, SyncConstants DEF Messages, Constants
<1>2. \A m \in Messages : InHand(m)' <=> (InHand(m) /\ m # M) \/ (v = "queued" /\ m = M)
  BY Zenon, SendingHands
<1>3. \A t \in Senders : spc'[t] \in {"queued", "retry"} => nsent'[t] > 0
  BY Zenon, <1>1 DEF PlaceInv, TypeOK
<1>4. \A m \in Messages : Got(m)' <=> Got(m)
  BY Zenon DEF Got
<1>5. \A i, j \in 1..Len(received') : received'[i] = received'[j] => i = j
  BY Zenon DEF PlaceInv
<1> HIDE DEF M
<1>6. CASE buf' = buf
  <2>1. \A m \in Messages : InBuf(m)' <=> InBuf(m)
    BY Zenon, <1>6 DEF InBuf
  <2>2. \A i, j \in 1..Len(buf') : buf'[i] = buf'[j] => i = j
    BY Zenon, <1>6 DEF PlaceInv
  <2>3. CASE v = "queued" /\ back' = back
    <3>1. \A m \in Messages : /\ m \in Sent' => OnePlace(m)'
                              /\ m \notin Sent' => ~(InBuf(m)' \/ Got(m)' \/ InHand(m)'
                                                           \/ m \in back' \/ m \in destroyed')
      BY Zenon, <1>1, <1>2, <1>4, <2>1, <2>3 DEF PlaceInv, OnePlace
    <3>2. QED BY Zenon, <1>1, <1>3, <1>5, <2>2, <3>1 DEF PlaceInv
  <2>4. CASE v # "queued" /\ back' = back \cup {M}
    <3>1. \A m \in Messages : m \in back' <=> m \in back \/ m = M
      BY Zenon, <2>4
    <3>2. \A m \in Messages : /\ m \in Sent' => OnePlace(m)'
                              /\ m \notin Sent' => ~(InBuf(m)' \/ Got(m)' \/ InHand(m)'
                                                           \/ m \in back' \/ m \in destroyed')
      BY ZenonT(60), <1>1, <1>2, <1>4, <2>1, <2>4, <3>1 DEF PlaceInv, OnePlace
    <3>3. QED BY Zenon, <1>1, <1>3, <1>5, <2>2, <3>2 DEF PlaceInv
  <2>5. CASE buf' = Append(buf, M)
    BY SMTT(30), <1>1, <1>6, <2>5, AppendFacts DEF TypeOK
  <2>6. QED BY Zenon, <2>3, <2>4, <2>5 DEF M
<1>7. CASE v # "queued" /\ buf' = Append(buf, M) /\ back' = back
  <2>1. /\ Len(buf') = Len(buf) + 1 /\ Len(buf) \in Nat
        /\ (\A i \in 1..Len(buf) : buf'[i] = buf[i]) /\ buf'[Len(buf) + 1] = M
    BY SMTT(30), <1>1, <1>7, AppendFacts DEF TypeOK
  <2>2. \A m \in Messages : InBuf(m)' <=> InBuf(m) \/ m = M
    BY SMTT(30), <2>1 DEF InBuf
  <2>3. \A i, j \in 1..Len(buf') : buf'[i] = buf'[j] => i = j
    BY SMTT(30), <1>1, <2>1 DEF PlaceInv, InBuf
  <2>4. \A m \in Messages : /\ m \in Sent' => OnePlace(m)'
                            /\ m \notin Sent' => ~(InBuf(m)' \/ Got(m)' \/ InHand(m)'
                                                         \/ m \in back' \/ m \in destroyed')
    BY Zenon, <1>1, <1>2, <1>4, <1>7, <2>2 DEF PlaceInv, OnePlace
  <2>5. QED BY Zenon, <1>1, <1>3, <1>5, <2>3, <2>4 DEF PlaceInv
<1>8. QED BY Zenon, <1>6, <1>7 DEF M

(* A step that moves no message keeps each in its place. *)
LEMMA PlacesKept ==
  ASSUME Given, TypeOK, PlaceInv, UNCHANGED <<buf, received, nsent, back, destroyed>>,
         \A t \in Senders : spc'[t] \in {"queued", "retry"} <=> spc[t] \in {"queued", "retry"}
  PROVE  PlaceInv'
PROOF
<1>1. Messages' = Messages /\ Sent' = Sent
  BY Zenon DEF Messages, Sent
<1>2. \A m \in Messages : /\ InHand(m)' <=> InHand(m)
                          /\ InBuf(m)' <=> InBuf(m)
                          /\ Got(m)' <=> Got(m)
  BY Zenon DEF InHand, Msg, InBuf, Got
<1>3. \A m \in Messages : OnePlace(m)' <=> OnePlace(m)
  BY Zenon, <1>2 DEF OnePlace
<1>4. QED BY ZenonT(60), <1>1, <1>2, <1>3 DEF PlaceInv

(* recv and try_recv move the oldest message of the buffer to the receiver. *)
LEMMA PlacesAfterTake ==
  ASSUME Given, TypeOK, PlaceInv, Dequeue, buf # <<>>, UNCHANGED <<nsent, back, destroyed>>,
         \A t \in Senders : spc'[t] \in {"queued", "retry"} <=> spc[t] \in {"queued", "retry"}
  PROVE  /\ PlaceInv' /\ Head(buf) \in Messages
         /\ buf' \in Seq(Messages) /\ received' \in Seq(Messages)
         /\ Len(buf') = Len(buf) - 1 /\ Len(buf) \in Nat \ {0}
         /\ \A m \in Messages : Got(m)' <=> Got(m) \/ m = Head(buf)
PROOF
<1> DEFINE M == Head(buf)
<1>1. Messages' = Messages /\ Sent' = Sent
  BY Zenon DEF Messages, Sent
<1>2. \A m \in Messages : InHand(m)' <=> InHand(m)
  BY Zenon DEF InHand, Msg
<1>3. /\ M \in Messages /\ M = buf[1] /\ Len(buf') = Len(buf) - 1 /\ Len(buf) \in Nat \ {0}
      /\ \A i \in 1..Len(buf') : buf'[i] = buf[i + 1]
      /\ buf' \in Seq(Messages)
  BY SMTT(30), TailFacts DEF TypeOK, Dequeue
<1>4. /\ Len(received') = Len(received) + 1 /\ Len(received) \in Nat
      /\ (\A i \in 1..Len(received) : received'[i] = received[i]) /\ received'[Len(received) + 1] = M
      /\ received' \in Seq(Messages)
  BY SMTT(30), <1>3, AppendFacts DEF TypeOK, Dequeue
<1> HIDE DEF M
<1>5. \A m \in Messages : InBuf(m)' <=> InBuf(m) /\ m # M
  <2> TAKE m \in Messages
  <2>1. ASSUME InBuf(m)' PROVE InBuf(m) /\ m # M
    <3>1. PICK i \in 1..Len(buf') : buf'[i] = m
      BY Zenon, <2>1 DEF InBuf
    <3>2. i + 1 \in 1..Len(buf) /\ buf[i + 1] = m /\ 1 \in 1..Len(buf) /\ i + 1 # 1
      BY SMTT(30), <1>3, <3>1
    <3>3. QED BY Zenon, <1>3, <3>2 DEF InBuf, PlaceInv
  <2>2. ASSUME InBuf(m), m # M PROVE InBuf(m)'
    <3>1. PICK i \in 1..Len(buf) : buf[i] = m
      BY Zenon, <2>2 DEF InBuf
    <3>2. i # 1 /\ i - 1 \in 1..Len(buf') /\ buf'[i - 1] = buf[(i - 1) + 1] /\ (i - 1) + 1 = i
      BY SMTT(30), <1>3, <2>2, <3>1
    <3>3. QED BY Zenon, <3>1, <3>2 DEF InBuf
  <2>3. QED BY Zenon, <2>1, <2>2
<1>6. \A m \in Messages : Got(m)' <=> Got(m) \/ m = M
  BY SMTT(30), <1>4 DEF Got
<1>7. InBuf(M)
  BY SMTT(30), <1>3 DEF InBuf
<1>8. \A i, j \in 1..Len(buf') : buf'[i] = buf'[j] => i = j
  <2> TAKE i, j \in 1..Len(buf')
  <2>1. i + 1 \in 1..Len(buf) /\ j + 1 \in 1..Len(buf) /\ buf'[i] = buf[i + 1] /\ buf'[j] = buf[j + 1]
    BY SMTT(30), <1>3
  <2>2. buf[i + 1] = buf[j + 1] => i + 1 = j + 1
    BY Zenon, <2>1 DEF PlaceInv
  <2>3. QED BY SMTT(30), <2>1, <2>2, <1>3
<1>9. \A i, j \in 1..Len(received') : received'[i] = received'[j] => i = j
  <2>1. ~Got(M)
    BY Zenon, <1>3, <1>7 DEF PlaceInv, OnePlace
  <2>2. QED BY SMTT(30), <1>4, <2>1 DEF Got, PlaceInv
<1>10. \A m \in Messages : /\ m \in Sent' => OnePlace(m)'
                           /\ m \notin Sent' => ~(InBuf(m)' \/ Got(m)' \/ InHand(m)'
                                                        \/ m \in back' \/ m \in destroyed')
  BY ZenonT(60), <1>1, <1>2, <1>3, <1>5, <1>6, <1>7 DEF PlaceInv, OnePlace
<1>11. \A t \in Senders : spc'[t] \in {"queued", "retry"} => nsent'[t] > 0
  BY Zenon DEF PlaceInv
<1>12. PlaceInv'
  BY Zenon, <1>1, <1>8, <1>9, <1>10, <1>11 DEF PlaceInv
<1>13. QED BY Zenon, <1>3, <1>4, <1>6, <1>12 DEF M

(* The count of handles stands while nobody comes or goes. *)
LEMMA LiveKept ==
  ASSUME Given, TypeOK, \A t \in Senders : Live(t)' <=> Live(t)
  PROVE  Cardinality({t \in Senders : Live(t)})' = Cardinality({t \in Senders : Live(t)})
PROOF
<1>1. {t \in Senders : Live(t)}' = {t \in Senders : Live(t)}
  BY Zenon
<1>2. QED BY Zenon, <1>1

(* The senders woken to try again can be counted. *)
LEMMA RetryCount ==
  ASSUME Given, NEW f
  PROVE  LET R == {t \in Senders : f[t] = "retry"} IN
         IsFiniteSet(R) /\ Cardinality(R) \in Nat
PROOF
<1> DEFINE R == {t \in Senders : f[t] = "retry"}
<1>1. IsFiniteSet(R) /\ Cardinality(R) \in Nat
  BY Zenon, FiniteSubsets, SyncConstants DEF Constants
<1>2. QED BY Zenon, <1>1

(* A sender that tries again is one less of them. *)
LEMMA RetryLess ==
  ASSUME Given, TypeOK, NEW s \in Senders, NEW v, v # "retry", spc' = [spc EXCEPT ![s] = v]
  PROVE  Cardinality({t \in Senders : spc[t] = "retry"})'
           = Cardinality({t \in Senders : spc[t] = "retry"}) - (IF spc[s] = "retry" THEN 1 ELSE 0)
PROOF
<1> DEFINE R == {t \in Senders : spc[t] = "retry"}
<1>1. IsFiniteSet(R) /\ Cardinality(R) \in Nat
  BY Zenon, RetryCount
<1>2. R' = R \ {s} /\ (s \in R <=> spc[s] = "retry")
  BY Zenon DEF TypeOK
<1>3. Cardinality(R') = Cardinality(R) - (IF spc[s] = "retry" THEN 1 ELSE 0)
  BY SMTT(30), <1>1, <1>2, FiniteRemove
<1>4. QED BY Zenon, <1>3

(* A step that leaves the queue, the buffer and who sleeps alone keeps what *)
(* is said of them.                                                         *)
LEMMA QueueKept ==
  ASSUME QueueInv, UNCHANGED <<queue, buf, cap>>,
         \A t \in Senders : (spc'[t] = "queued" <=> spc[t] = "queued") /\ (spc'[t] = "retry" <=> spc[t] = "retry")
  PROVE  QueueInv'
PROOF
<1>1. {t \in Senders : spc[t] = "retry"}' = {t \in Senders : spc[t] = "retry"}
  BY Zenon
<1>2. Cardinality({t \in Senders : spc[t] = "retry"})' = Cardinality({t \in Senders : spc[t] = "retry"})
  BY Zenon, <1>1
<1>3. BufCap' = BufCap
  BY Zenon DEF BufCap
<1>4. QED BY ZenonT(60), <1>2, <1>3 DEF QueueInv

(* send finds the buffer full and goes to sleep (sync.rs:174-177). *)
LEMMA SendQueuesKeeps ==
  ASSUME Given, SyncInv, NEW s \in Senders, SendQueues(s)
  PROVE  SyncInv'
PROOF
<1>k. Constants
  BY Zenon, SyncConstants
<1> USE <1>k DEF Constants, SyncInv
<1>a. /\ Sending(s) /\ ~disconnected /\ Full /\ queue' = Append(queue, s)
      /\ spc' = [spc EXCEPT ![s] = "queued"]
      /\ UNCHANGED <<cap, selects, channels, disconnected, blocker, buf, canceled, rpc, ready,
                     received, accepted, back, destroyed, asleep, fails>>
  BY Zenon DEF SendQueues, setup, ghosts
<1>b. /\ spc[s] \in {"idle", "retry"} /\ nsent' \in [Senders -> 0..MaxSends]
      /\ \A t \in Senders : t # s => nsent'[t] = nsent[t]
  BY Zenon, <1>a, SendingMessage
<1>c. \A t \in Senders : spc'[t] = IF t = s THEN "queued" ELSE spc[t]
  BY Zenon, <1>a DEF TypeOK
<1>d. /\ Len(queue') = Len(queue) + 1 /\ Len(queue) \in Nat /\ queue' \in Seq(Senders)
      /\ (\A i \in 1..Len(queue) : queue'[i] = queue[i]) /\ queue'[Len(queue) + 1] = s
  BY SMTT(30), <1>a, AppendFacts DEF TypeOK
<1>e. \A t \in Senders : t # s => Msg(t)' = Msg(t)
  BY Zenon, <1>b DEF Msg
<1>f. queue \in Seq(Senders)
  BY Zenon DEF TypeOK
<1>1. TypeOK'
  BY ZenonT(60), <1>a, <1>b, <1>d DEF TypeOK, Messages
<1>2. CountInv'
  <2>1. \A t \in Senders : Live(t)' <=> Live(t)
    BY Zenon, <1>b, <1>c DEF Live
  <2>2. QED BY SMTT(30), <1>a, <1>c, <2>1, LiveKept DEF CountInv
<1>3. QueueInv'
  <2>1. \A t \in Senders : spc'[t] = "queued" <=> \E i \in 1..Len(queue') : queue'[i] = t
    <3>1. \A t \in Senders : (\E i \in 1..Len(queue') : queue'[i] = t)
                            <=> (\E i \in 1..Len(queue) : queue[i] = t) \/ t = s
      <4>1. queue' = Append(queue, s)
        BY Zenon, <1>a
      <4>2. QED BY SMTT(30), <4>1, <1>f, AppendMembers
    <3>2. QED BY Zenon, <1>b, <1>c, <3>1 DEF QueueInv
  <2>2. \A i, j \in 1..Len(queue') : queue'[i] = queue'[j] => i = j
    <3>1. \A i \in 1..Len(queue) : queue[i] # s
      BY Zenon, <1>b DEF QueueInv
    <3>2. \A i, j \in 1..Len(queue) : queue[i] = queue[j] => i = j
      BY Zenon DEF QueueInv
    <3>3. queue' = Append(queue, s)
      BY Zenon, <1>a
    <3>4. QED BY SMTT(30), <1>f, <3>1, <3>2, <3>3, AppendMembers
  <2>3. Len(buf') <= BufCap' /\ Len(buf') + Cardinality({t \in Senders : spc'[t] = "retry"}) >= BufCap'
    <3>1. BufCap' = BufCap /\ BufCap \in Nat
      BY Zenon, <1>a DEF BufCap, TypeOK
    <3>2. Cardinality({t \in Senders : spc'[t] = "retry"}) \in Nat
      BY Zenon, RetryCount
    <3>3. QED BY SMTT(30), <1>a, <3>1, <3>2 DEF Full
  <2>4. QED BY Zenon, <2>1, <2>2, <2>3 DEF QueueInv
<1>4. BlockerInv'
  BY SMTT(30), <1>a, <1>b, <1>c, <1>e DEF BlockerInv
<1>5. ReceiverInv'
  BY Zenon, <1>a DEF ReceiverInv, HasData
<1>6. PlaceInv'
  BY Zenon, <1>a, PlacesAfterSend
<1>7. AcceptInv' /\ fails' = {}
  BY SMTT(30), <1>a, <1>c, <1>e DEF AcceptInv, Got
<1>8. QED BY Zenon, <1>1, <1>2, <1>3, <1>4, <1>5, <1>6, <1>7

(* A message is given back to its sender at once. *)
LEMMA GivenBackKeeps ==
  ASSUME Given, SyncInv, NEW s \in Senders, Sending(s), spc[s] = "retry" => disconnected,
         spc' = [spc EXCEPT ![s] = "idle"], back' = back \cup {Msg(s)'},
         UNCHANGED <<cap, selects, channels, disconnected, queue, blocker, buf, canceled, rpc, ready,
                     received, accepted, destroyed, asleep, fails>>
  PROVE  SyncInv'
PROOF
<1>k. Constants
  BY Zenon, SyncConstants
<1> USE <1>k DEF Constants, SyncInv
<1>b. /\ spc[s] \in {"idle", "retry"} /\ nsent' \in [Senders -> 0..MaxSends] /\ Msg(s)' \in Messages
      /\ \A t \in Senders : t # s => nsent'[t] = nsent[t]
  BY Zenon, SendingMessage
<1>c. \A t \in Senders : spc'[t] = IF t = s THEN "idle" ELSE spc[t]
  BY Zenon DEF TypeOK
<1>e. \A t \in Senders : t # s => Msg(t)' = Msg(t)
  BY Zenon, <1>b DEF Msg
<1>1. TypeOK'
  <2>1. back' \subseteq Messages
    BY Zenon, <1>b DEF TypeOK
  <2>2. QED BY ZenonT(60), <1>b, <2>1 DEF TypeOK, Messages
<1>2. CountInv'
  <2>1. \A t \in Senders : Live(t)' <=> Live(t)
    BY Zenon, <1>b, <1>c DEF Live
  <2>2. QED BY SMTT(30), <1>c, <2>1, LiveKept DEF CountInv
<1>3. QueueInv'
  <2>1. \A t \in Senders : spc'[t] = "queued" <=> spc[t] = "queued"
    BY SMTT(30), <1>b, <1>c
  <2>2. queue # <<>> => Cardinality({t \in Senders : spc[t] = "retry"})'
                          = Cardinality({t \in Senders : spc[t] = "retry"})
    <3>1. queue # <<>> => spc[s] # "retry"
      BY Zenon DEF BlockerInv
    <3>2. Cardinality({t \in Senders : spc[t] = "retry"}) \in Nat
      BY Zenon, RetryCount
    <3>3. Cardinality({t \in Senders : spc[t] = "retry"})'
            = Cardinality({t \in Senders : spc[t] = "retry"}) - (IF spc[s] = "retry" THEN 1 ELSE 0)
      BY Zenon, RetryLess
    <3>4. QED BY SMTT(30), <3>1, <3>2, <3>3
  <2>3. QED BY Zenon, <2>1, <2>2 DEF QueueInv, BufCap
<1>4. BlockerInv'
  BY SMTT(30), <1>b, <1>c, <1>e DEF BlockerInv
<1>5. ReceiverInv'
  BY Zenon DEF ReceiverInv, HasData
<1>6. PlaceInv'
  BY Zenon, PlacesAfterSend
<1>7. AcceptInv' /\ fails' = {}
  BY SMTT(30), <1>c, <1>e DEF AcceptInv, Got
<1>8. QED BY Zenon, <1>1, <1>2, <1>3, <1>4, <1>5, <1>6, <1>7

(* send finds the port gone. *)
LEMMA SendDisconnectedKeeps ==
  ASSUME Given, SyncInv, NEW s \in Senders, SendDisconnected(s)
  PROVE  SyncInv'
  BY Zenon, GivenBackKeeps DEF SendDisconnected, setup, state

(* try_send finds the port gone, the buffer full or no receiver waiting. *)
LEMMA TrySendRefusedKeeps ==
  ASSUME Given, SyncInv, NEW s \in Senders, TrySendRefused(s)
  PROVE  SyncInv'
PROOF
<1>1. ~disconnected /\ ~Full => blocker \notin Senders
  BY Zenon, SyncConstants DEF SyncInv, BlockerInv, Full, BufCap, Constants
<1>2. fails' = fails
  BY Zenon, <1>1 DEF TrySendRefused, Check
<1>3. spc[s] = "idle" /\ spc' = [spc EXCEPT ![s] = "idle"]
  BY Zenon DEF TrySendRefused, SyncInv, TypeOK
<1>4. QED BY Zenon, <1>2, <1>3, GivenBackKeeps DEF TrySendRefused, setup, state

(* With room in the buffer no sender is the blocker, and the message fits. *)
LEMMA NotFull ==
  ASSUME Given, SyncInv, ~Full
  PROVE  /\ blocker \notin Senders /\ canceled = "none" /\ (cap = 0 => buf = <<>>)
         /\ (\A t \in Senders : spc[t] # "handoff") /\ Len(buf) + 1 <= BufCap
         /\ BufCap \in Nat /\ Len(buf) \in Nat
PROOF
<1>1. BufCap \in Nat /\ Len(buf) \in Nat /\ cap \in Nat
  BY SMTT(30), SyncConstants DEF BufCap, TypeOK, SyncInv, Constants
<1>2. Len(buf) + 1 <= BufCap
  BY SMTT(30), <1>1 DEF Full, SyncInv, QueueInv
<1>3. cap = 0 => Len(buf) = 0
  BY SMTT(30), <1>1, <1>2 DEF BufCap
<1>4. cap = 0 => buf = <<>>
  BY SMTT(30), <1>3 DEF TypeOK, SyncInv
<1>5. blocker \notin Senders
  BY SMTT(30), <1>4 DEF BlockerInv, SyncInv
<1>6. QED BY Zenon, <1>1, <1>2, <1>4, <1>5 DEF BlockerInv, SyncInv

(* A message enters the buffer and its sender goes on; a receiver that      *)
(* slept is woken, or with a buffer and try_send is not.                    *)
LEMMA AcceptedKeeps ==
  ASSUME Given, SyncInv, NEW s \in Senders, Sending(s), ~disconnected, ~Full,
         spc' = [spc EXCEPT ![s] = "idle"], buf' = Append(buf, Msg(s)'),
         accepted' = accepted \cup {Msg(s)'},
         UNCHANGED <<cap, selects, channels, disconnected, queue, canceled, ready, received, back,
                     destroyed, fails>>,
         \/ /\ blocker' = "none" /\ WakeReceiver(blocker) /\ (cap = 0 => blocker # "none")
            /\ asleep' = asleep
         \/ /\ cap > 0 /\ blocker' = blocker /\ rpc' = rpc
            /\ asleep' = (asleep \/ rpc \in {"blocked", "selecting"})
  PROVE  SyncInv'
PROOF
<1>k. Constants
  BY Zenon, SyncConstants
<1> USE <1>k DEF Constants, SyncInv
<1>b. /\ spc[s] \in {"idle", "retry"} /\ nsent' \in [Senders -> 0..MaxSends] /\ Msg(s)' \in Messages
      /\ \A t \in Senders : t # s => nsent'[t] = nsent[t]
  BY Zenon, SendingMessage
<1>c. \A t \in Senders : spc'[t] = IF t = s THEN "idle" ELSE spc[t]
  BY Zenon DEF TypeOK
<1>d. /\ buf' \in Seq(Messages) /\ Len(buf') = Len(buf) + 1 /\ buf' # <<>>
      /\ (buf = <<>> => buf' = <<Msg(s)'>>)
  <2>1. buf \in Seq(Messages)
    BY Zenon DEF TypeOK
  <2>2. buf' \in Seq(Messages) /\ Len(buf') = Len(buf) + 1 /\ buf' # <<>>
    BY SMTT(30), <1>b, <2>1, AppendFacts
  <2>3. QED BY Zenon, <2>2, AppendToEmpty
<1>e. \A t \in Senders : t # s => Msg(t)' = Msg(t)
  BY Zenon, <1>b DEF Msg
<1>f. /\ blocker \notin Senders /\ canceled = "none" /\ (cap = 0 => buf = <<>>)
      /\ (\A t \in Senders : spc[t] # "handoff") /\ Len(buf) + 1 <= BufCap
      /\ BufCap \in Nat /\ Len(buf) \in Nat /\ (\A t \in Senders : spc[t] # "canceled")
      /\ rpc # "gone"
  BY Zenon, NotFull DEF BlockerInv
<1>g. /\ blocker' = "none" \/ blocker' = blocker
      /\ rpc' \in {"idle", "blocked", "woken", "selecting", "aborting", "gone"} /\ asleep' \in BOOLEAN
  BY Zenon DEF WakeReceiver, TypeOK
<1>1. TypeOK'
  <2>1. accepted' \subseteq Messages
    BY Zenon, <1>b DEF TypeOK
  <2>2. blocker' \in Senders \cup {"none", "recv", "select"}
    BY Zenon, <1>g DEF TypeOK
  <2>3. spc' \in [Senders -> {"unborn", "idle", "queued", "retry", "handoff",
                             "acked", "canceled", "last", "gone"}]
    BY Zenon DEF TypeOK
  <2>4. QED BY Zenon, <1>b, <1>d, <1>g, <2>1, <2>2, <2>3 DEF TypeOK, Messages
<1>2. CountInv'
  <2>1. \A t \in Senders : Live(t)' <=> Live(t)
    BY Zenon, <1>b, <1>c DEF Live
  <2>2. QED BY SMTT(30), <1>c, <2>1, LiveKept DEF CountInv
<1>3. QueueInv'
  <2>1. \A t \in Senders : spc'[t] = "queued" <=> spc[t] = "queued"
    BY SMTT(30), <1>b, <1>c
  <2>2. /\ Cardinality({t \in Senders : spc[t] = "retry"}) \in Nat
        /\ Cardinality({t \in Senders : spc[t] = "retry"})'
             >= Cardinality({t \in Senders : spc[t] = "retry"}) - 1
    <3>2. Cardinality({t \in Senders : spc[t] = "retry"}) \in Nat
      BY Zenon, RetryCount
    <3>3. Cardinality({t \in Senders : spc[t] = "retry"})'
            = Cardinality({t \in Senders : spc[t] = "retry"}) - (IF spc[s] = "retry" THEN 1 ELSE 0)
      BY Zenon, RetryLess
    <3>4. QED BY SMTT(30), <3>2, <3>3
  <2>3. Cardinality({t \in Senders : spc[t] = "retry"})' \in Nat
    BY Zenon, RetryCount
  <2>4. BufCap' = BufCap
    BY Zenon DEF BufCap
  <2>5. (queue # <<>> => Len(buf) + Cardinality({t \in Senders : spc[t] = "retry"}) >= BufCap)'
    BY SMTT(30), <1>d, <1>f, <2>2, <2>3, <2>4 DEF QueueInv
  <2>6. (Len(buf) <= BufCap)'
    BY Zenon, <1>d, <1>f, <2>4
  <2>7. QED BY Zenon, <2>1, <2>5, <2>6 DEF QueueInv
<1>h. /\ rpc' \in {"blocked", "selecting"} => rpc' = rpc /\ blocker' = blocker /\ cap > 0 /\ asleep'
      /\ rpc' # "gone" /\ (rpc' = "woken" => blocker' = "none") /\ (rpc' = "blocked" <=> blocker' = "recv")
      /\ (blocker' = "select" => rpc' \in {"selecting", "aborting"})
      /\ (rpc' = "selecting" => blocker' = "select")
      /\ (~selects => rpc' \notin {"selecting", "aborting"})
      /\ (cap = 0 /\ ~selects => rpc' = "woken")
  <2>1. CASE /\ blocker' = "none" /\ WakeReceiver(blocker) /\ (cap = 0 => blocker # "none")
             /\ asleep' = asleep
    BY Zenon, <1>f, <2>1 DEF WakeReceiver, BlockerInv, ReceiverInv, TypeOK
  <2>2. CASE /\ cap > 0 /\ blocker' = blocker /\ rpc' = rpc
             /\ asleep' = (asleep \/ rpc \in {"blocked", "selecting"})
    <3>1. rpc' \in {"blocked", "selecting"} => asleep'
      BY Zenon, <2>2
    <3>2. cap # 0
      BY SMTT(30), <2>2 DEF TypeOK
    <3>3. QED BY Zenon, <1>f, <2>2, <3>1, <3>2 DEF BlockerInv, ReceiverInv
  <2>3. QED BY Zenon, <2>1, <2>2
<1>4. BlockerInv'
  BY SMTT(30), <1>c, <1>f, <1>g, <1>h DEF BlockerInv
<1>5. ReceiverInv'
  BY Zenon, <1>d, <1>h DEF ReceiverInv, HasData
<1>6. PlaceInv'
  BY Zenon, PlacesAfterSend
<1>7. AcceptInv' /\ fails' = {}
  <2>1. \A t \in Senders : spc'[t] = "acked" => Got(Msg(t))'
    BY SMTT(30), <1>c, <1>e DEF AcceptInv, Got
  <2>2. ASSUME cap = 0, ~selects, NEW m \in accepted' PROVE Got(m)' \/ (buf' = <<m>> /\ rpc' = "woken")
    <3>1. CASE m \in accepted
      BY SMTT(30), <1>d, <1>f, <2>2, <3>1 DEF AcceptInv, Got
    <3>2. CASE m = Msg(s)'
      BY Zenon, <1>d, <1>f, <1>h, <2>2, <3>2
    <3>3. QED BY Zenon, <3>1, <3>2
  <2>3. QED BY Zenon, <2>1, <2>2 DEF AcceptInv
<1>8. QED BY Zenon, <1>1, <1>2, <1>3, <1>4, <1>5, <1>6, <1>7

(* With no buffer and nobody waiting the sender sleeps as the blocker       *)
(* beside its message.                                                      *)
LEMMA HandoffKeeps ==
  ASSUME Given, SyncInv, NEW s \in Senders, Sending(s), ~disconnected, ~Full, cap = 0, blocker = "none",
         spc' = [spc EXCEPT ![s] = "handoff"], buf' = Append(buf, Msg(s)'), canceled' = s, blocker' = s,
         UNCHANGED <<cap, selects, channels, disconnected, queue, rpc, ready, received, accepted, back,
                     destroyed, asleep, fails>>
  PROVE  SyncInv'
PROOF
<1>k. Constants
  BY Zenon, SyncConstants
<1> USE <1>k DEF Constants, SyncInv
<1>b. /\ spc[s] \in {"idle", "retry"} /\ nsent' \in [Senders -> 0..MaxSends] /\ Msg(s)' \in Messages
      /\ \A t \in Senders : t # s => nsent'[t] = nsent[t]
  BY Zenon, SendingMessage
<1>c. \A t \in Senders : spc'[t] = IF t = s THEN "handoff" ELSE spc[t]
  BY Zenon DEF TypeOK
<1>e. \A t \in Senders : t # s => Msg(t)' = Msg(t)
  BY Zenon, <1>b DEF Msg
<1>f. /\ buf = <<>> /\ (\A t \in Senders : spc[t] # "handoff" /\ spc[t] # "canceled")
      /\ rpc \notin {"gone", "woken", "blocked", "selecting"}
  BY Zenon, NotFull DEF BlockerInv, ReceiverInv, HasData
<1>d. /\ buf' = <<Msg(s)'>> /\ buf' \in Seq(Messages) /\ Len(buf') = 1 /\ buf' # <<>>
  <2>1. buf' = <<Msg(s)'>>
    BY Zenon, <1>f, AppendToEmpty
  <2>2. QED BY SMTT(30), <1>b, <2>1
<1>1. TypeOK'
  <2>3. spc' \in [Senders -> {"unborn", "idle", "queued", "retry", "handoff",
                             "acked", "canceled", "last", "gone"}]
    BY Zenon DEF TypeOK
  <2>4. QED BY Zenon, <1>b, <1>d, <2>3 DEF TypeOK, Messages
<1>2. CountInv'
  <2>1. \A t \in Senders : Live(t)' <=> Live(t)
    BY Zenon, <1>b, <1>c DEF Live
  <2>2. QED BY SMTT(30), <1>c, <2>1, LiveKept DEF CountInv
<1>3. QueueInv'
  <2>1. \A t \in Senders : spc'[t] = "queued" <=> spc[t] = "queued"
    BY SMTT(30), <1>b, <1>c
  <2>2. Cardinality({t \in Senders : spc[t] = "retry"})' \in Nat
    BY Zenon, RetryCount
  <2>3. BufCap' = 1
    BY Zenon DEF BufCap
  <2>4. (queue # <<>> => Len(buf) + Cardinality({t \in Senders : spc[t] = "retry"}) >= BufCap)'
    BY SMTT(30), <1>d, <2>2, <2>3
  <2>5. (Len(buf) <= BufCap)'
    BY SMTT(30), <1>d, <2>3
  <2>6. QED BY ZenonT(60), <2>1, <2>4, <2>5 DEF QueueInv
<1>4. BlockerInv'
  BY SMTT(30), <1>c, <1>d, <1>f DEF BlockerInv
<1>5. ReceiverInv'
  BY Zenon, <1>d, <1>f DEF ReceiverInv, HasData
<1>6. PlaceInv'
  BY Zenon, PlacesAfterSend
<1>7. AcceptInv' /\ fails' = {}
  BY SMTT(30), <1>c, <1>e, <1>f DEF AcceptInv, Got
<1>8. QED BY Zenon, <1>1, <1>2, <1>3, <1>4, <1>5, <1>6, <1>7

(* send finds room (sync.rs:179-201). *)
LEMMA SendEnqueuesKeeps ==
  ASSUME Given, SyncInv, NEW s \in Senders, SendEnqueues(s)
  PROVE  SyncInv'
PROOF
<1>1. blocker \notin Senders /\ canceled = "none"
  BY Zenon, NotFull DEF SendEnqueues
<1>2. fails' = fails
  BY Zenon, <1>1 DEF SendEnqueues, Check
<1>3. CASE cap = 0 /\ blocker = "none"
  BY Zenon, <1>2, <1>3, HandoffKeeps DEF SendEnqueues, setup
<1>4. CASE ~(cap = 0 /\ blocker = "none")
  BY Zenon, <1>2, <1>4, AcceptedKeeps DEF SendEnqueues, setup
<1>5. QED BY Zenon, <1>3, <1>4

(* try_send finds room (sync.rs:210-229). *)
LEMMA TrySendAcceptedKeeps ==
  ASSUME Given, SyncInv, NEW s \in Senders, TrySendAccepted(s)
  PROVE  SyncInv'
PROOF
<1>1. /\ spc' = [spc EXCEPT ![s] = "idle"] /\ Sending(s) /\ ~disconnected /\ ~Full
      /\ buf' = Append(buf, Msg(s)') /\ accepted' = accepted \cup {Msg(s)'} /\ cap \in Nat
      /\ UNCHANGED <<cap, selects, channels, disconnected, queue, canceled, ready, received, back,
                     destroyed, fails>>
  BY Zenon, SyncConstants DEF TrySendAccepted, SyncInv, TypeOK, setup, Constants
<1>2. CASE cap = 0
  <2>1. blocker # "none" /\ blocker' = "none" /\ WakeReceiver(blocker)
    BY Zenon, <1>2 DEF TrySendAccepted
  <2>2. asleep \in BOOLEAN /\ ~(cap > 0)
    BY SMTT(30), <1>2 DEF SyncInv, TypeOK
  <2>3. asleep' = (asleep \/ (cap > 0 /\ rpc \in {"blocked", "selecting"}))
    BY Zenon DEF TrySendAccepted
  <2>4. asleep' = asleep
    BY Zenon, <2>2, <2>3
  <2>5. QED BY Zenon, <1>1, <2>1, <2>4, AcceptedKeeps
<1>3. CASE cap # 0
  <2>1. blocker' = blocker /\ rpc' = rpc
    BY Zenon, <1>3 DEF TrySendAccepted
  <2>2. cap > 0
    BY SMTT(30), <1>1, <1>3
  <2>3. asleep' = (asleep \/ (cap > 0 /\ rpc \in {"blocked", "selecting"}))
    BY Zenon DEF TrySendAccepted
  <2>4. asleep' = (asleep \/ rpc \in {"blocked", "selecting"})
    BY Zenon, <2>2, <2>3
  <2>5. QED BY Zenon, <1>1, <2>1, <2>2, <2>4, AcceptedKeeps
<1>4. QED BY ZenonT(60), <1>2, <1>3

(* A sender that was acknowledged returns. *)
LEMMA AckedKeeps ==
  ASSUME Given, SyncInv, NEW s \in Senders, spc[s] = "acked", SendAcked(s)
  PROVE  SyncInv'
PROOF
<1>k. Constants
  BY Zenon, SyncConstants
<1> USE <1>k DEF Constants, SyncInv
<1>a. /\ spc' = [spc EXCEPT ![s] = "idle"] /\ accepted' = accepted \cup {Msg(s)}
      /\ UNCHANGED <<cap, selects, channels, disconnected, queue, blocker, buf, canceled, nsent, rpc, ready,
                     received, back, destroyed, asleep, fails>>
  BY Zenon DEF SendAcked, setup
<1>c. \A t \in Senders : spc'[t] = IF t = s THEN "idle" ELSE spc[t]
  BY Zenon, <1>a DEF TypeOK
<1>d. Got(Msg(s)) /\ Msg(s) \in Messages
  <2>1. Got(Msg(s))
    BY Zenon DEF AcceptInv
  <2>2. PICK i \in 1..Len(received) : received[i] = Msg(s)
    BY Zenon, <2>1 DEF Got
  <2>3. received[i] \in Messages
    BY SMTT(60), <2>2 DEF TypeOK
  <2>4. QED BY ZenonT(60), <2>1, <2>2, <2>3
<1>1. TypeOK'
  <2>1. accepted' \subseteq Messages
    BY Zenon, <1>a, <1>d DEF TypeOK
  <2>2. spc' \in [Senders -> {"unborn", "idle", "queued", "retry", "handoff",
                             "acked", "canceled", "last", "gone"}]
    BY Zenon, <1>a DEF TypeOK
  <2>3. QED BY ZenonT(30), <1>a, <2>1, <2>2 DEF TypeOK
<1>2. CountInv'
  <2>1. \A t \in Senders : Live(t)' <=> Live(t)
    BY Zenon, <1>c DEF Live
  <2>2. QED BY SMTT(30), <1>a, <1>c, <2>1, LiveKept DEF CountInv
<1>3. QueueInv'
  <2>1. \A t \in Senders : (spc'[t] = "queued" <=> spc[t] = "queued") /\ (spc'[t] = "retry" <=> spc[t] = "retry")
    BY Zenon, <1>c
  <2>2. QED BY Zenon, <1>a, <2>1, QueueKept
<1>4. BlockerInv'
  BY SMTT(30), <1>a, <1>c DEF BlockerInv, Msg
<1>5. ReceiverInv'
  BY Zenon, <1>a DEF ReceiverInv, HasData
<1>6. PlaceInv'
  BY SMTT(30), <1>a, <1>c, PlacesKept
<1>7. AcceptInv' /\ fails' = {}
  BY Zenon, <1>a, <1>c, <1>d DEF AcceptInv, Got, Msg
<1>8. QED BY Zenon, <1>1, <1>2, <1>3, <1>4, <1>5, <1>6, <1>7

(* A sender that was canceled takes its message back out of the buffer. *)
LEMMA CanceledKeeps ==
  ASSUME Given, SyncInv, NEW s \in Senders, spc[s] = "canceled", SendAcked(s)
  PROVE  SyncInv'
PROOF
<1>k. Constants
  BY Zenon, SyncConstants
<1> USE <1>k DEF Constants, SyncInv
<1> DEFINE M == Msg(s)
<1>b. /\ buf = <<M>> /\ rpc = "gone" /\ disconnected /\ blocker = "none" /\ queue = <<>>
      /\ \A t \in Senders : spc[t] = "canceled" => t = s
  BY SMTT(30) DEF BlockerInv, Msg
<1>a. /\ spc' = [spc EXCEPT ![s] = "idle"] /\ back' = back \cup {M} /\ buf' = <<>> /\ fails' = fails
      /\ UNCHANGED <<cap, selects, channels, disconnected, queue, blocker, accepted, canceled, nsent, rpc, ready,
                     received, destroyed, asleep>>
  BY SMTT(30), <1>b DEF SendAcked, setup, Check
<1>c. \A t \in Senders : spc'[t] = IF t = s THEN "idle" ELSE spc[t]
  BY Zenon, <1>a DEF TypeOK
<1>d. M \in Messages /\ Len(buf) = 1 /\ buf[1] = M
  <2>1. Len(buf) = 1 /\ buf[1] = M
    BY Zenon, <1>b
  <2>2. buf \in Seq(Messages) /\ 1 \in 1..Len(buf)
    BY SMTT(30), <2>1 DEF TypeOK
  <2>3. buf[1] \in Messages
    BY SMTT(30), <2>2
  <2>4. QED BY Zenon, <2>1, <2>3
<1> HIDE DEF M
<1>1. TypeOK'
  <2>1. back' \subseteq Messages /\ buf' \in Seq(Messages)
    BY SMTT(30), <1>a, <1>d DEF TypeOK
  <2>2. spc' \in [Senders -> {"unborn", "idle", "queued", "retry", "handoff",
                             "acked", "canceled", "last", "gone"}]
    BY Zenon, <1>a DEF TypeOK
  <2>3. QED BY SMTT(60), <1>a, <2>1, <2>2 DEF TypeOK, Messages
<1>2. CountInv'
  <2>1. \A t \in Senders : Live(t)' <=> Live(t)
    BY Zenon, <1>c DEF Live
  <2>2. QED BY SMTT(30), <1>a, <1>c, <2>1, LiveKept DEF CountInv
<1>3. QueueInv'
  <2>1. \A t \in Senders : (spc'[t] = "queued" <=> spc[t] = "queued")
    BY Zenon, <1>c
  <2>2. BufCap' \in Nat /\ Len(buf') = 0
    BY ZenonT(60), <1>a DEF BufCap, TypeOK
  <2>3. QED BY SMTT(30), <1>a, <1>b, <2>1, <2>2 DEF QueueInv
<1>4. BlockerInv'
  BY SMTT(30), <1>a, <1>b, <1>c DEF BlockerInv
<1>5. ReceiverInv'
  BY Zenon, <1>a, <1>b DEF ReceiverInv, HasData
<1>6. PlaceInv'
  <2>1. Messages' = Messages /\ Sent' = Sent
    BY Zenon, <1>a DEF Messages, Sent
  <2>2. \A m \in Messages : InHand(m)' <=> InHand(m)
    <3>1. \A t \in Senders : spc'[t] \in {"queued", "retry"} <=> spc[t] \in {"queued", "retry"}
      BY Zenon, <1>c
    <3>2. QED BY Zenon, <1>a, <3>1 DEF InHand, Msg
  <2>3. \A m \in Messages : Got(m)' <=> Got(m)
    BY Zenon, <1>a DEF Got
  <2>4. \A m \in Messages : ~InBuf(m)' /\ (InBuf(m) <=> m = M)
    BY SMTT(30), <1>a, <1>d DEF InBuf
  <2>5. \A m \in Messages : m \in back' <=> m \in back \/ m = M
    BY Zenon, <1>a
  <2>6. \A m \in Messages : /\ m \in Sent' => OnePlace(m)'
                            /\ m \notin Sent' => ~(InBuf(m)' \/ Got(m)' \/ InHand(m)'
                                                         \/ m \in back' \/ m \in destroyed')
    BY ZenonT(60), <1>a, <1>d, <2>1, <2>2, <2>3, <2>4, <2>5 DEF PlaceInv, OnePlace
  <2>7. \A t \in Senders : spc'[t] \in {"queued", "retry"} => nsent'[t] > 0
    BY SMTT(30), <1>a, <1>c DEF PlaceInv
  <2>8. \A i, j \in 1..Len(buf') : buf'[i] = buf'[j] => i = j
    BY SMTT(30), <1>a
  <2>9. QED BY ZenonT(60), <1>a, <2>1, <2>6, <2>7, <2>8 DEF PlaceInv
<1>7. AcceptInv' /\ fails' = {}
  <2>1. \A t \in Senders : spc'[t] = "acked" => Got(Msg(t))'
    <3>1. \A t \in Senders : (spc'[t] = "acked" => spc[t] = "acked") /\ Msg(t)' = Msg(t)
      BY SMTT(30), <1>a, <1>c DEF Msg
    <3>2. received' = received
      BY Zenon, <1>a
    <3>3. QED BY Zenon, <3>1, <3>2 DEF AcceptInv, Got
  <2>2. \A m \in accepted : Got(m)' <=> Got(m)
    BY Zenon, <1>a DEF Got
  <2>3. QED BY Zenon, <1>a, <1>b, <2>1, <2>2 DEF AcceptInv
<1>8. QED BY Zenon, <1>1, <1>2, <1>3, <1>4, <1>5, <1>6, <1>7

(* The end of a send with no buffer. *)
LEMMA SendAckedKeeps ==
  ASSUME Given, SyncInv, NEW s \in Senders, SendAcked(s)
  PROVE  SyncInv'
  BY Zenon, AckedKeeps, CanceledKeeps DEF SendAcked

(* The handles can be counted, and there is one if anyone holds one. *)
LEMMA LiveCount ==
  ASSUME Given, NEW f
  PROVE  LET L == {t \in Senders : f[t] \in {"idle", "queued", "retry", "handoff", "acked", "canceled"}} IN
         /\ IsFiniteSet(L) /\ Cardinality(L) \in 0..Cardinality(Senders) /\ Cardinality(Senders) \in Nat
         /\ \A t \in L : Cardinality(L) > 0
PROOF
<1> DEFINE L == {t \in Senders : f[t] \in {"idle", "queued", "retry", "handoff", "acked", "canceled"}}
<1>1. IsFiniteSet(L) /\ Cardinality(L) <= Cardinality(Senders)
  BY Zenon, FiniteSubsets, SyncConstants DEF Constants
<1>2. Cardinality(L) \in Nat /\ Cardinality(Senders) \in Nat
  BY Zenon, <1>1, FiniteSubsets, SyncConstants DEF Constants
<1>3. \A t \in L : Cardinality(L) # 0
  BY Zenon, <1>1, FiniteSubsets
<1>4. QED BY SMTT(30), <1>1, <1>2, <1>3

(* The same of channels. *)
LEMMA Counted ==
  ASSUME Given, CountInv
  PROVE  /\ channels = Cardinality({t \in Senders : Live(t)}) /\ IsFiniteSet({t \in Senders : Live(t)})
         /\ channels \in 0..Cardinality(Senders) /\ Cardinality(Senders) \in Nat
         /\ \A t \in Senders : Live(t) => channels > 0
PROOF
<1>1. channels = Cardinality({t \in Senders : Live(t)})
  BY Zenon DEF CountInv
<1>2. QED BY Zenon, <1>1, LiveCount DEF Live

(* A handle is cloned. *)
LEMMA CloneChanKeeps ==
  ASSUME Given, SyncInv, NEW s \in Senders, NEW u \in Senders, CloneChan(s, u)
  PROVE  SyncInv'
PROOF
<1>k. Constants
  BY Zenon, SyncConstants
<1> USE <1>k DEF Constants, SyncInv
<1>a. /\ spc[s] = "idle" /\ spc[u] = "unborn" /\ channels' = channels + 1 /\ spc' = [spc EXCEPT ![u] = "idle"]
      /\ UNCHANGED <<cap, selects, disconnected, queue, blocker, buf, canceled, nsent, rpc, ready,
                     received, accepted, back, destroyed, asleep, fails>>
  BY Zenon DEF CloneChan, setup, state, ghosts
<1>c. \A t \in Senders : spc'[t] = IF t = u THEN "idle" ELSE spc[t]
  BY Zenon, <1>a DEF TypeOK
<1>d. channels > 0
  BY Zenon, <1>a, Counted DEF Live
<1>2. CountInv' /\ channels' \in 0..Cardinality(Senders)
  <2> DEFINE L == {t \in Senders : Live(t)}
  <2>1. L' = L \cup {u} /\ u \notin L
    BY ZenonT(60), <1>a, <1>c DEF Live
  <2>2. channels = Cardinality(L) /\ IsFiniteSet(L) /\ channels \in Nat
    BY SMTT(30), Counted
  <2>3. Cardinality(L') = Cardinality(L) + 1
    BY Zenon, <2>1, <2>2, FiniteAdd
  <2>4. channels' = Cardinality(L')
    BY Zenon, <1>a, <2>2, <2>3
  <2>5. Cardinality(L') \in 0..Cardinality(Senders)
    BY Zenon, LiveCount DEF Live
  <2>6. \A t \in Senders : spc'[t] # "last"
    BY SMTT(30), <1>c, <1>d DEF CountInv
  <2>7. QED BY Zenon, <2>4, <2>5, <2>6 DEF CountInv
<1>1. TypeOK'
  <2>1. spc' \in [Senders -> {"unborn", "idle", "queued", "retry", "handoff",
                             "acked", "canceled", "last", "gone"}]
    BY Zenon, <1>a DEF TypeOK
  <2>2. channels' \in 0..Cardinality(Senders)
    BY Zenon, <1>2
  <2>3. QED BY ZenonT(60), <1>a, <2>1, <2>2 DEF TypeOK, Messages
<1>3. QueueInv'
  BY Zenon, <1>a, <1>c, QueueKept
<1>4. BlockerInv'
  BY SMTT(30), <1>a, <1>c, <1>d DEF BlockerInv, Msg
<1>5. ReceiverInv'
  BY Zenon, <1>a DEF ReceiverInv, HasData
<1>6. PlaceInv'
  BY Zenon, <1>a, <1>c, PlacesKept
<1>7. AcceptInv' /\ fails' = {}
  BY ZenonT(60), <1>a, <1>c DEF AcceptInv, Got, Msg
<1>8. QED BY Zenon, <1>1, <1>2, <1>3, <1>4, <1>5, <1>6, <1>7

(* A handle is dropped: the decrement (sync.rs:306-311). *)
LEMMA DropChanKeeps ==
  ASSUME Given, SyncInv, NEW s \in Senders, DropChan(s)
  PROVE  SyncInv'
PROOF
<1>k. Constants
  BY Zenon, SyncConstants
<1> USE <1>k DEF Constants, SyncInv
<1>a. /\ spc[s] = "idle" /\ channels' = channels - 1
      /\ UNCHANGED <<cap, selects, disconnected, queue, blocker, buf, canceled, nsent, rpc, ready,
                     received, accepted, back, destroyed, asleep, fails>>
  BY Zenon DEF DropChan, setup, state, ghosts
<1> DEFINE v == IF channels = 1 THEN "last" ELSE "gone"
<1>b. spc' = [spc EXCEPT ![s] = v] /\ v \in {"last", "gone"} /\ (v = "last" => channels = 1)
  BY Zenon DEF DropChan
<1> HIDE DEF v
<1>c. \A t \in Senders : spc'[t] = IF t = s THEN v ELSE spc[t]
  BY Zenon, <1>b DEF TypeOK
<1>d. channels > 0
  BY Zenon, <1>a, Counted DEF Live
<1>2. CountInv' /\ channels' \in 0..Cardinality(Senders)
  <2> DEFINE L == {t \in Senders : Live(t)}
  <2>1. L' = L \ {s} /\ s \in L
    BY ZenonT(60), <1>a, <1>b, <1>c DEF Live
  <2>2. channels = Cardinality(L) /\ IsFiniteSet(L) /\ channels \in Nat
    BY SMTT(30), Counted
  <2>3. Cardinality(L') = Cardinality(L) - 1
    BY ZenonT(60), <2>1, <2>2, FiniteRemove
  <2>4. channels' = Cardinality(L')
    BY Zenon, <1>a, <2>2, <2>3
  <2>5. Cardinality(L') \in 0..Cardinality(Senders)
    BY Zenon, LiveCount DEF Live
  <2>6. \A t \in Senders : spc'[t] = "last" => channels' = 0
    BY SMTT(30), <1>a, <1>b, <1>c, <1>d DEF CountInv
  <2>7. QED BY Zenon, <2>4, <2>5, <2>6 DEF CountInv
<1>1. TypeOK'
  <2>1. spc' \in [Senders -> {"unborn", "idle", "queued", "retry", "handoff",
                             "acked", "canceled", "last", "gone"}]
    BY Zenon, <1>b DEF TypeOK
  <2>2. channels' \in 0..Cardinality(Senders)
    BY Zenon, <1>2
  <2>3. QED BY SMTT(60), <1>a, <2>1, <2>2 DEF TypeOK, Messages
<1>3. QueueInv'
  BY Zenon, <1>a, <1>b, <1>c, QueueKept
<1>4. BlockerInv'
  BY SMTT(30), <1>a, <1>b, <1>c, <1>d DEF BlockerInv, Msg
<1>5. ReceiverInv'
  BY Zenon, <1>a DEF ReceiverInv, HasData
<1>6. PlaceInv'
  BY Zenon, <1>a, <1>b, <1>c, PlacesKept
<1>7. AcceptInv' /\ fails' = {}
  BY ZenonT(60), <1>a, <1>b, <1>c DEF AcceptInv, Got, Msg
<1>8. QED BY Zenon, <1>1, <1>2, <1>3, <1>4, <1>5, <1>6, <1>7

(* The last handle is dropped and disconnects the channel                   *)
(* (sync.rs:313-322).                                                       *)
LEMMA DropChanLastKeeps ==
  ASSUME Given, SyncInv, NEW s \in Senders, DropChanLast(s)
  PROVE  SyncInv'
PROOF
<1>k. Constants
  BY Zenon, SyncConstants
<1> USE <1>k DEF Constants, SyncInv
<1>a. /\ spc[s] = "last" /\ disconnected' = TRUE /\ spc' = [spc EXCEPT ![s] = "gone"]
      /\ UNCHANGED <<cap, selects, channels, queue, buf, canceled, nsent, ready,
                     received, accepted, back, destroyed, asleep>>
  BY Zenon DEF DropChanLast, setup, ghosts
<1>c. \A t \in Senders : spc'[t] = IF t = s THEN "gone" ELSE spc[t]
  BY Zenon, <1>a DEF TypeOK
<1>d. channels = 0 /\ \A t \in Senders : ~Live(t)
  <2>1. channels = 0
    BY Zenon, <1>a DEF CountInv
  <2>2. QED BY SMTT(30), <2>1, Counted
<1>e. queue = <<>> /\ blocker \notin Senders /\ \A t \in Senders : spc[t] \notin {"queued", "handoff", "canceled", "acked"}
  <2>1. \A t \in Senders : spc[t] \notin {"queued", "handoff", "canceled", "acked"}
    BY Zenon, <1>d DEF Live
  <2>2. blocker \notin Senders
    BY ZenonT(60), <2>1 DEF BlockerInv
  <2>3. \A i \in 1..Len(queue) : queue[i] \in Senders /\ FALSE
    BY SMTT(30), <2>1 DEF QueueInv, TypeOK
  <2>4. queue = <<>>
    BY SMTT(30), <2>3 DEF TypeOK
  <2>5. QED BY Zenon, <2>1, <2>2, <2>4
<1>f. /\ fails' = fails /\ blocker' = "none" /\ (rpc' = "gone" <=> rpc = "gone")
      /\ rpc' \notin {"blocked", "selecting"} /\ (~selects => rpc' # "aborting")
      /\ rpc' \in {"idle", "woken", "aborting", "gone"}
  <2>1. CASE disconnected
    BY ZenonT(60), <2>1 DEF DropChanLast, BlockerInv, ReceiverInv, TypeOK
  <2>2. CASE ~disconnected
    <3>1. /\ fails' = fails /\ blocker' = "none"
          /\ rpc' = IF blocker = "recv" THEN "woken"
                   ELSE IF blocker = "select" /\ rpc = "selecting" THEN "aborting" ELSE rpc
      BY Zenon, <1>e, <2>2 DEF DropChanLast, WakeReceiver, Check
    <3>2. QED BY Zenon, <3>1 DEF BlockerInv, ReceiverInv, TypeOK
  <2>3. QED BY Zenon, <2>1, <2>2
<1>1. TypeOK'
  <2>1. spc' \in [Senders -> {"unborn", "idle", "queued", "retry", "handoff",
                             "acked", "canceled", "last", "gone"}]
    BY Zenon, <1>a DEF TypeOK
  <2>2. QED BY ZenonT(60), <1>a, <1>f, <2>1 DEF TypeOK, Messages
<1>2. CountInv'
  <2>1. \A t \in Senders : Live(t)' <=> Live(t)
    BY SMTT(30), <1>a, <1>c DEF Live
  <2>2. QED BY Zenon, <1>a, <1>c, <2>1, LiveKept DEF CountInv
<1>3. QueueInv'
  BY SMTT(30), <1>a, <1>c, QueueKept
<1>4. BlockerInv'
  BY SMTT(30), <1>a, <1>c, <1>d, <1>e, <1>f DEF BlockerInv
<1>5. ReceiverInv'
  BY Zenon, <1>a, <1>f DEF ReceiverInv, HasData
<1>6. PlaceInv'
  BY SMTT(30), <1>a, <1>c, PlacesKept
<1>7. AcceptInv' /\ fails' = {}
  <2>1. \A t \in Senders : spc'[t] # "acked"
    BY Zenon, <1>c, <1>e
  <2>2. \A m \in accepted : Got(m)' <=> Got(m)
    BY Zenon, <1>a DEF Got
  <2>3. rpc = "woken" => rpc' = "woken"
    BY Zenon, <1>a, <1>f DEF DropChanLast, WakeReceiver, BlockerInv
  <2>4. QED BY Zenon, <1>a, <1>f, <2>1, <2>2, <2>3 DEF AcceptInv
<1>8. QED BY Zenon, <1>1, <1>2, <1>3, <1>4, <1>5, <1>6, <1>7

(* A step of the receiver that moves no message and wakes nobody has only   *)
(* the blocker and its own position to account for.                         *)
LEMMA ReceiverFrame ==
  ASSUME Given, SyncInv,
         UNCHANGED <<cap, selects, channels, disconnected, queue, buf, canceled, spc, nsent,
                     received, accepted, back, destroyed, asleep, fails>>,
         rpc' \in {"idle", "blocked", "woken", "selecting", "aborting", "gone"},
         ready' \in BOOLEAN, blocker' \in Senders \cup {"none", "recv", "select"},
         rpc = "woken" => rpc' = "woken" \/ buf = <<>>, BlockerInv', ReceiverInv'
  PROVE  SyncInv'
PROOF
<1> USE DEF SyncInv
<1>1. TypeOK'
  BY Zenon DEF TypeOK, Messages
<1>2. CountInv'
  <2>1. \A t \in Senders : Live(t)' <=> Live(t)
    BY Zenon DEF Live
  <2>2. QED BY Zenon, <2>1, LiveKept DEF CountInv
<1>3. QueueInv'
  BY Zenon, QueueKept
<1>4. PlaceInv'
  BY Zenon, PlacesKept
<1>5. AcceptInv'
  <2>1. \A m : Got(m)' <=> Got(m)
    BY Zenon DEF Got
  <2>2. \A t \in Senders : Msg(t)' = Msg(t)
    BY Zenon DEF Msg
  <2>3. \A m : buf = <<m>> => buf # <<>>
    BY SMTT(30)
  <2>4. QED BY Zenon, <2>1, <2>2, <2>3 DEF AcceptInv
<1>6. QED BY Zenon, <1>1, <1>2, <1>3, <1>4, <1>5

(* recv finds nothing and sleeps. *)
LEMMA RecvBlocksKeeps ==
  ASSUME Given, SyncInv, RecvBlocks
  PROVE  SyncInv'
PROOF
<1>k. Constants
  BY Zenon, SyncConstants
<1> USE <1>k DEF Constants, SyncInv
<1>a. /\ rpc = "idle" /\ ~disconnected /\ buf = <<>>
      /\ blocker' = "recv" /\ rpc' = "blocked" /\ ready' = FALSE
      /\ UNCHANGED <<cap, selects, channels, disconnected, queue, buf, canceled, spc, nsent,
                     received, accepted, back, destroyed, asleep>>
  BY Zenon DEF RecvBlocks, setup, ghosts
<1>b. blocker = "none"
  <2>1. \A m : buf # <<m>>
    BY Zenon, <1>a
  <2>2. QED BY Zenon, <1>a, <2>1 DEF BlockerInv, TypeOK
<1>c. fails' = fails
  BY Zenon, <1>b DEF RecvBlocks, Check
<1>4. BlockerInv'
  BY Zenon, <1>a, <1>b DEF BlockerInv
<1>5. ReceiverInv'
  BY Zenon, <1>a DEF ReceiverInv
<1>6. QED BY Zenon, <1>a, <1>c, <1>4, <1>5, ReceiverFrame

(* select asks whether there is something. *)
LEMMA CanRecvKeeps ==
  ASSUME Given, SyncInv, CanRecv
  PROVE  SyncInv'
PROOF
<1>k. Constants
  BY Zenon, SyncConstants
<1> USE <1>k DEF Constants, SyncInv
<1>a. /\ selects /\ rpc = "idle" /\ ready' = HasData
      /\ UNCHANGED <<cap, selects, channels, disconnected, queue, blocker, buf, canceled, spc, nsent, rpc,
                     received, accepted, back, destroyed, asleep, fails>>
  BY Zenon DEF CanRecv, setup, state, ghosts
<1>b. /\ HasData \in BOOLEAN /\ (HasData' <=> HasData) /\ blocker \in Senders \cup {"none", "recv", "select"}
      /\ \A t \in Senders : Msg(t)' = Msg(t)
  BY Zenon, <1>a DEF HasData, TypeOK, Msg
<1>4. BlockerInv'
  BY Zenon, <1>a, <1>b DEF BlockerInv, Msg
<1>5. ReceiverInv'
  BY Zenon, <1>a, <1>b DEF ReceiverInv
<1>6. QED BY Zenon, <1>a, <1>b, <1>4, <1>5, ReceiverFrame

(* select leaves its handle, or finds something. *)
LEMMA StartSelectionKeeps ==
  ASSUME Given, SyncInv, StartSelection
  PROVE  SyncInv'
PROOF
<1>k. Constants
  BY Zenon, SyncConstants
<1> USE <1>k DEF Constants, SyncInv
<1>a. /\ selects /\ rpc = "idle"
      /\ UNCHANGED <<cap, selects, channels, disconnected, queue, buf, canceled, spc, nsent,
                     received, accepted, back, destroyed, asleep>>
  BY Zenon DEF StartSelection, setup, ghosts
<1>b. /\ (HasData' <=> HasData) /\ blocker \in Senders \cup {"none", "recv", "select"}
      /\ \A t \in Senders : Msg(t)' = Msg(t)
  BY Zenon, <1>a DEF HasData, TypeOK, Msg
<1>1. CASE HasData
  <2>1. ready' = TRUE /\ UNCHANGED <<blocker, rpc, fails>>
    BY Zenon, <1>1 DEF StartSelection
  <2>2. BlockerInv'
    BY Zenon, <1>a, <1>b, <2>1 DEF BlockerInv, Msg
  <2>3. ReceiverInv'
    BY Zenon, <1>a, <1>b, <1>1, <2>1 DEF ReceiverInv
  <2>4. QED BY Zenon, <1>a, <1>b, <2>1, <2>2, <2>3, ReceiverFrame
<1>2. CASE ~HasData
  <2>1. ~disconnected /\ buf = <<>> /\ \A m : buf # <<m>>
    BY SMTT(30), <1>2 DEF HasData
  <2>2. blocker = "none"
    BY ZenonT(60), <1>a, <2>1 DEF BlockerInv, TypeOK
  <2>3. blocker' = "select" /\ rpc' = "selecting" /\ ready' = FALSE /\ fails' = fails
    BY Zenon, <1>2, <2>2 DEF StartSelection, Check
  <2>4. BlockerInv'
    BY ZenonT(60), <1>a, <2>1, <2>2, <2>3 DEF BlockerInv
  <2>5. ReceiverInv'
    BY Zenon, <1>a, <2>1, <2>3 DEF ReceiverInv
  <2>6. QED BY Zenon, <1>a, <2>3, <2>4, <2>5, ReceiverFrame
<1>3. QED BY Zenon, <1>1, <1>2

(* Another port wakes the select. *)
LEMMA OtherPortReadyKeeps ==
  ASSUME Given, SyncInv, OtherPortReady
  PROVE  SyncInv'
PROOF
<1>k. Constants
  BY Zenon, SyncConstants
<1> USE <1>k DEF Constants, SyncInv
<1>a. /\ rpc = "selecting" /\ rpc' = "aborting"
      /\ UNCHANGED <<cap, selects, channels, disconnected, queue, blocker, buf, canceled, spc, nsent, ready,
                     received, accepted, back, destroyed, asleep, fails>>
  BY Zenon DEF OtherPortReady, setup, state, ghosts
<1>b. (HasData' <=> HasData) /\ blocker = "select" /\ ready \in BOOLEAN
  BY ZenonT(60), <1>a DEF HasData, TypeOK, BlockerInv
<1>4. BlockerInv'
  BY Zenon, <1>a, <1>b DEF BlockerInv
<1>5. ReceiverInv'
  BY Zenon, <1>a, <1>b DEF ReceiverInv
<1>6. QED BY Zenon, <1>a, <1>b, <1>4, <1>5, ReceiverFrame

(* select takes its handle back. *)
LEMMA AbortSelectionKeeps ==
  ASSUME Given, SyncInv, AbortSelection
  PROVE  SyncInv'
PROOF
<1>k. Constants
  BY Zenon, SyncConstants
<1> USE <1>k DEF Constants, SyncInv
<1>a. /\ rpc = "aborting" /\ rpc' = "idle" /\ ready' = (blocker # "select")
      /\ blocker' = IF blocker = "select" THEN "none" ELSE blocker
      /\ UNCHANGED <<cap, selects, channels, disconnected, queue, buf, canceled, spc, nsent,
                     received, accepted, back, destroyed, asleep, fails>>
  BY Zenon DEF AbortSelection, setup, ghosts
<1>b. /\ (HasData' <=> HasData) /\ blocker' \in Senders \cup {"none", "recv", "select"}
      /\ \A t \in Senders : Msg(t)' = Msg(t)
  BY Zenon, <1>a DEF HasData, TypeOK, Msg
<1>4. BlockerInv'
  BY Zenon, <1>a, <1>b DEF BlockerInv, Msg
<1>5. ReceiverInv'
  BY Zenon, <1>a, <1>b DEF ReceiverInv
<1>6. QED BY Zenon, <1>a, <1>b, <1>4, <1>5, ReceiverFrame

(* The queue without its head holds the others, each once. *)
LEMMA QueueTail ==
  ASSUME queue \in Seq(Senders), queue # <<>>, queue' = Tail(queue),
         \A i, j \in 1..Len(queue) : queue[i] = queue[j] => i = j
  PROVE  /\ \A y \in Senders : (\E i \in 1..Len(queue') : queue'[i] = y)
                <=> (\E i \in 1..Len(queue) : queue[i] = y) /\ y # Head(queue)
         /\ \A i, j \in 1..Len(queue') : queue'[i] = queue'[j] => i = j
PROOF
<1>1. /\ Len(queue') = Len(queue) - 1 /\ Len(queue) \in Nat \ {0} /\ Head(queue) = queue[1]
      /\ \A i \in 1..Len(queue') : queue'[i] = queue[i + 1]
  BY ZenonT(60), TailFacts
<1>2. \A i \in 1..Len(queue') : i + 1 \in 1..Len(queue) /\ i + 1 # 1
  BY SMTT(30), <1>1
<1>3. \A i \in 1..Len(queue) : i = 1 \/ (i - 1 \in 1..Len(queue') /\ (i - 1) + 1 = i)
  BY SMTT(30), <1>1
<1>4. 1 \in 1..Len(queue)
  BY SMTT(30), <1>1
<1>5. ASSUME NEW y \in Senders
      PROVE  (\E i \in 1..Len(queue') : queue'[i] = y) <=> (\E i \in 1..Len(queue) : queue[i] = y) /\ y # Head(queue)
  <2>1. ASSUME NEW i \in 1..Len(queue'), queue'[i] = y
        PROVE  (\E j \in 1..Len(queue) : queue[j] = y) /\ y # Head(queue)
    BY Zenon, <1>1, <1>2, <1>4, <2>1
  <2>2. ASSUME NEW i \in 1..Len(queue), queue[i] = y, y # Head(queue)
        PROVE  \E j \in 1..Len(queue') : queue'[j] = y
    BY ZenonT(60), <1>1, <1>3, <2>2
  <2>3. QED BY Zenon, <2>1, <2>2
<1>6. \A i, j \in 1..Len(queue') : queue'[i] = queue'[j] => i = j
  <2> SUFFICES ASSUME NEW i \in 1..Len(queue'), NEW j \in 1..Len(queue'), queue'[i] = queue'[j]
               PROVE  i = j
    BY Zenon
  <2>1. i + 1 = j + 1
    BY ZenonT(60), <1>1, <1>2
  <2>2. QED BY SMTT(30), <2>1
<1>7. QED BY Zenon, <1>5, <1>6

(* A queued sender that is woken is one more to try again. *)
LEMMA RetryMore ==
  ASSUME Given, TypeOK, NEW s \in Senders, spc[s] # "retry", spc'[s] = "retry",
         \A t \in Senders : t # s => (spc'[t] = "retry" <=> spc[t] = "retry")
  PROVE  Cardinality({t \in Senders : spc[t] = "retry"})'
           = Cardinality({t \in Senders : spc[t] = "retry"}) + 1
PROOF
<1> DEFINE R == {t \in Senders : spc[t] = "retry"}
<1>1. IsFiniteSet(R) /\ Cardinality(R) \in Nat
  BY Zenon, RetryCount
<1>2. R' = R \cup {s} /\ s \notin R
  BY SMTT(30)
<1>3. Cardinality(R') = Cardinality(R) + 1
  BY Zenon, <1>1, <1>2, FiniteAdd
<1>4. QED BY Zenon, <1>3

(* A message is taken: the first queued sender is woken and, with no buffer *)
(* and unless the receiver had waited, the blocked one is acknowledged      *)
(* (sync.rs:244-298).                                                       *)
LEMMA TakeKeeps ==
  ASSUME Given, SyncInv, rpc \in {"idle", "woken"}, buf # <<>>, Dequeue, WakeupSenders(rpc = "woken"),
         rpc' = "idle", ready' = FALSE,
         UNCHANGED <<cap, selects, channels, disconnected, nsent, accepted, back, destroyed, asleep>>
  PROVE  SyncInv'
PROOF
<1>k. Constants
  BY Zenon, SyncConstants
<1> USE <1>k DEF Constants, SyncInv
<1>a. blocker \in Senders \cup {"none"} /\ (rpc = "woken" => blocker = "none")
      /\ (blocker \in Senders => cap = 0 /\ rpc # "woken")
  BY Zenon DEF BlockerInv, TypeOK
<1>b. /\ blocker' = "none" /\ canceled' = "none" /\ fails' = fails
      /\ queue' = (IF queue = <<>> THEN <<>> ELSE Tail(queue))
      /\ spc' = [t \in Senders |-> IF queue # <<>> /\ t = Head(queue) THEN "retry"
                                   ELSE IF t = blocker THEN "acked" ELSE spc[t]]
  BY Zenon, <1>a DEF WakeupSenders, Check, BlockerInv
<1>c. \A t \in Senders : spc'[t] = IF queue # <<>> /\ t = Head(queue) THEN "retry"
                                   ELSE IF t = blocker THEN "acked" ELSE spc[t]
  BY Zenon, <1>b
<1>d. queue # <<>> => Head(queue) \in Senders /\ spc[Head(queue)] = "queued" /\ Head(queue) = queue[1]
  <2>1. queue # <<>> => Head(queue) \in Senders /\ Head(queue) = queue[1] /\ Len(queue) \in Nat \ {0}
    BY Zenon, TailFacts DEF TypeOK
  <2>2. QED BY SMTT(30), <2>1 DEF QueueInv
<1>e. /\ blocker \in Senders => spc[blocker] = "handoff"
      /\ \A t \in Senders : spc[t] = "handoff" => t = blocker
  BY Zenon DEF BlockerInv
<1>f. \A t \in Senders : /\ spc'[t] \in {"queued", "retry"} <=> spc[t] \in {"queued", "retry"}
                         /\ Live(t)' <=> Live(t)
                         /\ spc'[t] \notin {"handoff", "canceled"}
                         /\ spc'[t] = "acked" => spc[t] = "acked" \/ t = blocker
                         /\ spc'[t] = "last" => spc[t] = "last"
                         /\ spc'[t] = "queued" <=> spc[t] = "queued" /\ ~(queue # <<>> /\ t = Head(queue))
  <2>1. \A t \in Senders : spc[t] # "canceled"
    BY Zenon DEF BlockerInv
  <2>2. QED BY SMTT(30), <1>c, <1>d, <1>e, <2>1 DEF Live
<1>g. /\ PlaceInv' /\ Head(buf) \in Messages
      /\ buf' \in Seq(Messages) /\ received' \in Seq(Messages)
      /\ Len(buf') = Len(buf) - 1 /\ Len(buf) \in Nat \ {0}
      /\ \A m \in Messages : Got(m)' <=> Got(m) \/ m = Head(buf)
  BY Zenon, <1>f, PlacesAfterTake
<1>1. TypeOK'
  <2>1. spc' \in [Senders -> {"unborn", "idle", "queued", "retry", "handoff",
                              "acked", "canceled", "last", "gone"}]
    BY Zenon, <1>b DEF TypeOK
  <2>2. queue' \in Seq(Senders)
    BY Zenon, <1>b, TailFacts DEF TypeOK
  <2>3. QED BY ZenonT(60), <1>b, <1>g, <2>1, <2>2 DEF TypeOK, Messages
<1>2. CountInv'
  BY Zenon, <1>f, LiveKept DEF CountInv
<1>3. QueueInv'
  <2>0. BufCap' = BufCap /\ BufCap \in Nat /\ Len(buf') <= BufCap'
    BY SMTT(30), <1>g DEF BufCap, TypeOK, QueueInv
  <2>1. CASE queue = <<>>
    <3>1. queue' = <<>> /\ \A t \in Senders : spc[t] # "queued"
      BY SMTT(30), <1>b, <2>1 DEF QueueInv
    <3>2. \A t \in Senders : spc'[t] # "queued"
      BY Zenon, <1>f, <3>1
    <3>3. QED BY SMTT(30), <2>0, <3>1, <3>2 DEF QueueInv
  <2>2. CASE queue # <<>>
    <3>1. queue \in Seq(Senders) /\ queue' = Tail(queue)
      BY Zenon, <1>b, <2>2 DEF TypeOK
    <3>2. /\ \A t \in Senders : (\E i \in 1..Len(queue') : queue'[i] = t)
                <=> (\E i \in 1..Len(queue) : queue[i] = t) /\ t # Head(queue)
          /\ \A i, j \in 1..Len(queue') : queue'[i] = queue'[j] => i = j
      <4>1. \A i, j \in 1..Len(queue) : queue[i] = queue[j] => i = j
        BY Zenon DEF QueueInv
      <4>2. QED BY Zenon, <2>2, <3>1, <4>1, QueueTail
    <3>3. \A t \in Senders : spc'[t] = "queued" <=> \E i \in 1..Len(queue') : queue'[i] = t
      BY Zenon, <1>f, <2>2, <3>2 DEF QueueInv
    <3>4. Cardinality({t \in Senders : spc[t] = "retry"})'
             = Cardinality({t \in Senders : spc[t] = "retry"}) + 1
      <4>1. Head(queue) \in Senders /\ spc[Head(queue)] # "retry" /\ spc'[Head(queue)] = "retry"
        BY Zenon, <1>c, <1>d, <2>2
      <4>2. \A t \in Senders : t # Head(queue) => (spc'[t] = "retry" <=> spc[t] = "retry")
        BY Zenon, <1>c, <1>e
      <4>3. QED BY Zenon, <4>1, <4>2, RetryMore
    <3>5. Cardinality({t \in Senders : spc[t] = "retry"}) \in Nat
      BY ZenonT(60), RetryCount
    <3>6. Len(buf') + Cardinality({t \in Senders : spc[t] = "retry"})' >= BufCap'
      BY SMTT(30), <1>g, <2>0, <2>2, <3>4, <3>5 DEF QueueInv
    <3>7. QED BY ZenonT(60), <2>0, <3>2, <3>3, <3>6 DEF QueueInv
  <2>3. QED BY ZenonT(60), <2>1, <2>2
<1>4. BlockerInv'
  BY ZenonT(60), <1>b, <1>f DEF BlockerInv
<1>5. ReceiverInv'
  BY Zenon DEF ReceiverInv
<1>6. AcceptInv'
  <2>1. \A t \in Senders : Msg(t)' = Msg(t)
    BY Zenon DEF Msg
  <2>2. blocker \in Senders => Head(buf) = Msg(blocker) /\ Msg(blocker) \in Messages
    <3>1. blocker \in Senders => buf = <<Msg(blocker)>>
      BY Zenon DEF BlockerInv
    <3>2. QED BY SMTT(30), <1>g, <3>1
  <2>3. \A t \in Senders : spc[t] = "acked" => Msg(t) \in Messages /\ Got(Msg(t))
    <3>1. \A m : Got(m) => m \in Messages
      BY SMTT(30) DEF Got, TypeOK
    <3>2. QED BY ZenonT(60), <3>1 DEF AcceptInv
  <2>4. \A t \in Senders : spc'[t] = "acked" => Got(Msg(t))'
    BY SMTT(30), <1>f, <1>g, <2>1, <2>2, <2>3
  <2>5. \A m \in accepted : m \in Messages /\ (buf = <<m>> => m = Head(buf))
    BY SMTT(30) DEF TypeOK
  <2>6. cap = 0 /\ ~selects => \A m \in accepted : Got(m)'
    BY Zenon, <1>g, <2>5 DEF AcceptInv
  <2>7. QED BY Zenon, <2>1, <2>4, <2>6 DEF AcceptInv
<1>7. QED BY ZenonT(60), <1>b, <1>g, <1>1, <1>2, <1>3, <1>4, <1>5, <1>6

(* A receive returns without a message. *)
LEMMA NothingTaken ==
  ASSUME Given, SyncInv, rpc \in {"idle", "woken"}, rpc' = "idle", ready' = FALSE,
         rpc = "woken" => buf = <<>>,
         UNCHANGED <<cap, selects, channels, disconnected, queue, blocker, buf, canceled, spc, nsent,
                     received, accepted, back, destroyed, asleep, fails>>
  PROVE  SyncInv'
PROOF
<1>k. Constants
  BY Zenon, SyncConstants
<1> USE <1>k DEF Constants, SyncInv
<1>1. blocker \in Senders \cup {"none", "recv", "select"} /\ \A t \in Senders : Msg(t)' = Msg(t)
  BY Zenon DEF TypeOK, Msg
<1>2. BlockerInv'
  BY Zenon, <1>1 DEF BlockerInv, Msg
<1>3. ReceiverInv'
  BY Zenon DEF ReceiverInv
<1>4. QED BY Zenon, <1>1, <1>2, <1>3, ReceiverFrame

(* recv, with a message or at the end of the channel. *)
LEMMA RecvTakesKeeps ==
  ASSUME Given, SyncInv, RecvTakes
  PROVE  SyncInv'
PROOF
<1>1. /\ rpc \in {"idle", "woken"} /\ (rpc = "idle" => disconnected \/ buf # <<>>)
      /\ rpc' = "idle" /\ ready' = FALSE
      /\ UNCHANGED <<cap, selects, channels, disconnected, nsent, accepted, back, destroyed, asleep>>
  BY Zenon DEF RecvTakes, setup
<1>2. CASE buf # <<>>
  <2>1. Dequeue /\ WakeupSenders(rpc = "woken")
    BY Zenon, <1>2 DEF RecvTakes
  <2>2. QED BY Zenon, <1>1, <1>2, <2>1, TakeKeeps
<1>3. CASE buf = <<>>
  <2>1. disconnected
    BY Zenon, <1>1, <1>3 DEF SyncInv, ReceiverInv, HasData
  <2>2. fails' = fails /\ UNCHANGED <<received, buf, queue, spc, blocker, canceled>>
    BY Zenon, <1>3, <2>1 DEF RecvTakes, Check
  <2>3. QED BY Zenon, <1>1, <1>3, <2>2, NothingTaken
<1>4. QED BY Zenon, <1>2, <1>3

(* try_recv. *)
LEMMA TryRecvKeeps ==
  ASSUME Given, SyncInv, TryRecv
  PROVE  SyncInv'
PROOF
<1>1. /\ rpc = "idle" /\ rpc' = "idle" /\ ready' = FALSE
      /\ UNCHANGED <<cap, selects, channels, disconnected, nsent, accepted, back, destroyed, asleep>>
  BY Zenon DEF TryRecv, setup
<1>2. CASE ~disconnected /\ buf # <<>>
  <2>1. Dequeue /\ WakeupSenders(FALSE)
    BY Zenon, <1>2 DEF TryRecv
  <2>2. WakeupSenders(rpc = "woken")
    BY Zenon, <1>1, <2>1 DEF WakeupSenders
  <2>3. QED BY Zenon, <1>1, <1>2, <2>1, <2>2, TakeKeeps
<1>3. CASE ~(~disconnected /\ buf # <<>>)
  <2>1. UNCHANGED <<received, buf, queue, spc, blocker, canceled, fails>>
    BY Zenon, <1>3 DEF TryRecv
  <2>2. QED BY Zenon, <1>1, <2>1, NothingTaken
<1>4. QED BY Zenon, <1>2, <1>3

(* drop_port on an open channel: it wakes every sender, and destroys what   *)
(* is buffered or, with no buffer, cancels the blocked sender               *)
(* (sync.rs:324-362).                                                       *)
LEMMA PortClosesKeeps ==
  ASSUME Given, SyncInv, DropPort, ~disconnected
  PROVE  SyncInv'
PROOF
<1>k. Constants
  BY Zenon, SyncConstants
<1> USE <1>k DEF Constants, SyncInv
<1>a. /\ rpc = "idle" /\ rpc' = "gone" /\ disconnected' = TRUE /\ queue' = <<>> /\ blocker' = "none"
      /\ canceled' = (IF blocker \in Senders THEN "none" ELSE canceled)
      /\ destroyed' = (IF cap = 0 THEN destroyed ELSE destroyed \cup {buf[i] : i \in DOMAIN buf})
      /\ buf' = (IF cap = 0 THEN buf ELSE <<>>)
      /\ spc' = [t \in Senders |-> IF t = blocker THEN "canceled"
                                   ELSE IF spc[t] = "queued" THEN "retry" ELSE spc[t]]
      /\ UNCHANGED <<cap, selects, channels, nsent, ready, received, accepted, back, asleep>>
  BY Zenon DEF DropPort, setup
<1>b. /\ blocker \in Senders \cup {"none"} /\ canceled' = "none"
      /\ blocker \in Senders => cap = 0 /\ buf = <<Msg(blocker)>> /\ canceled = blocker
  BY ZenonT(60), <1>a DEF BlockerInv, TypeOK
<1>c. fails' = fails
  BY Zenon, <1>b DEF DropPort, Check
<1>d. \A t \in Senders : /\ spc'[t] = IF t = blocker THEN "canceled"
                                      ELSE IF spc[t] = "queued" THEN "retry" ELSE spc[t]
                         /\ t = blocker <=> spc[t] = "handoff"
                         /\ spc[t] # "canceled"
  BY Zenon, <1>a DEF BlockerInv
<1>e. \A t \in Senders : /\ spc'[t] \in {"queued", "retry"} <=> spc[t] \in {"queued", "retry"}
                         /\ Live(t)' <=> Live(t)
                         /\ spc'[t] \notin {"queued", "handoff"}
                         /\ spc'[t] = "canceled" => t = blocker
                         /\ spc'[t] = "acked" => spc[t] = "acked"
                         /\ spc'[t] = "last" => spc[t] = "last"
                         /\ Msg(t)' = Msg(t)
  BY Zenon, <1>a, <1>d DEF Live, Msg
<1>1. TypeOK'
  <2>1. spc' \in [Senders -> {"unborn", "idle", "queued", "retry", "handoff",
                              "acked", "canceled", "last", "gone"}]
    BY ZenonT(60), <1>a DEF TypeOK
  <2>2. destroyed' \subseteq Messages /\ buf' \in Seq(Messages) /\ queue' \in Seq(Senders)
    BY SMTT(30), <1>a DEF TypeOK
  <2>3. QED BY ZenonT(60), <1>a, <1>b, <2>1, <2>2 DEF TypeOK, Messages
<1>2. CountInv'
  BY ZenonT(60), <1>a, <1>e, LiveKept DEF CountInv
<1>3. QueueInv'
  <2>1. BufCap' = BufCap /\ BufCap \in Nat
    BY ZenonT(60), <1>a DEF BufCap, TypeOK
  <2>2. Len(buf') <= BufCap'
    BY SMTT(30), <1>a, <2>1 DEF QueueInv
  <2>3. queue' = <<>>
    BY Zenon, <1>a
  <2>4. QED BY SMTT(30), <1>e, <2>2, <2>3 DEF QueueInv
<1>4. BlockerInv'
  <2>1. \A t \in Senders : spc'[t] = "canceled" => buf' = <<Msg(t)'>>
    BY Zenon, <1>a, <1>b, <1>e
  <2>2. QED BY ZenonT(60), <1>a, <1>b, <1>e, <2>1 DEF BlockerInv
<1>5. ReceiverInv'
  BY Zenon, <1>a DEF ReceiverInv
<1>6. PlaceInv'
  <2>1. CASE cap = 0
    BY ZenonT(60), <1>a, <1>e, <2>1, PlacesKept
  <2>2. CASE cap # 0
    <3>1. Messages' = Messages /\ Sent' = Sent
      BY Zenon, <1>a DEF Messages, Sent
    <3>2. \A m \in Messages : (InHand(m)' <=> InHand(m)) /\ (Got(m)' <=> Got(m))
      BY Zenon, <1>a, <1>e DEF InHand, Got
    <3>3. buf' = <<>> /\ destroyed' = destroyed \cup {buf[i] : i \in 1..Len(buf)}
      <4>1. DOMAIN buf = 1..Len(buf)
        BY SMTT(30) DEF TypeOK
      <4>2. QED BY ZenonT(60), <1>a, <2>2, <4>1
    <3>4. \A m \in Messages : ~InBuf(m)' /\ (m \in destroyed' <=> m \in destroyed \/ InBuf(m))
      BY SMTT(30), <3>3 DEF InBuf
    <3>5. \A m \in Messages : /\ m \in Sent' => OnePlace(m)'
                              /\ m \notin Sent' => ~(InBuf(m)' \/ Got(m)' \/ InHand(m)'
                                                           \/ m \in back' \/ m \in destroyed')
      BY ZenonT(60), <1>a, <3>1, <3>2, <3>4 DEF PlaceInv, OnePlace
    <3>6. \A t \in Senders : spc'[t] \in {"queued", "retry"} => nsent'[t] > 0
      BY ZenonT(60), <1>a, <1>e DEF PlaceInv
    <3>7. \A i, j \in 1..Len(buf') : buf'[i] = buf'[j] => i = j
      <4>1. Len(buf') = 0
        BY Zenon, <3>3
      <4>2. QED BY SMTT(30), <4>1
    <3>8. QED BY ZenonT(60), <1>a, <3>1, <3>5, <3>6, <3>7 DEF PlaceInv
  <2>3. QED BY Zenon, <2>1, <2>2
<1>7. AcceptInv'
  <2>1. \A m : Got(m)' <=> Got(m)
    BY Zenon, <1>a DEF Got
  <2>2. cap = 0 /\ ~selects => \A m \in accepted : Got(m)
    BY Zenon, <1>a DEF AcceptInv
  <2>3. QED BY Zenon, <1>a, <1>e, <2>1, <2>2 DEF AcceptInv
<1>8. QED BY Zenon, <1>c, <1>1, <1>2, <1>3, <1>4, <1>5, <1>6, <1>7

(* drop_port. *)
LEMMA DropPortKeeps ==
  ASSUME Given, SyncInv, DropPort
  PROVE  SyncInv'
PROOF
<1>k. Constants
  BY Zenon, SyncConstants
<1> USE <1>k DEF Constants, SyncInv
<1>1. CASE disconnected
  <2>1. /\ rpc = "idle" /\ rpc' = "gone" /\ disconnected' = TRUE
        /\ UNCHANGED <<cap, selects, channels, queue, blocker, buf, canceled, spc, nsent, ready,
                       received, accepted, back, destroyed, asleep, fails>>
    BY Zenon, <1>1 DEF DropPort, setup
  <2>2. disconnected' = disconnected /\ ready \in BOOLEAN
    BY Zenon, <1>1, <2>1 DEF TypeOK
  <2>3. blocker = "none" /\ \A t \in Senders : spc[t] # "canceled"
    BY Zenon, <1>1, <2>1 DEF BlockerInv
  <2>4. BlockerInv'
    BY ZenonT(60), <1>1, <2>1, <2>2, <2>3 DEF BlockerInv
  <2>5. ReceiverInv'
    BY Zenon, <2>1 DEF ReceiverInv
  <2>6. QED BY Zenon, <2>1, <2>2, <2>3, <2>4, <2>5, ReceiverFrame
<1>2. CASE ~disconnected
  BY Zenon, <1>2, PortClosesKeeps
<1>3. QED BY Zenon, <1>1, <1>2

(* sync_channel sets the invariant up ... *)
LEMMA SyncInitially ==
  ASSUME Given, Init
  PROVE  SyncInv
PROOF
<1>k. Constants
  BY Zenon, SyncConstants
<1> USE <1>k DEF Constants, Init, SyncInv
<1>a. First \in Senders
  BY Zenon DEF First
<1>b. \A t \in Senders : spc[t] = IF t = First THEN "idle" ELSE "unborn"
  BY Zenon
<1>c. {t \in Senders : Live(t)} = {First}
  BY Zenon, <1>a, <1>b DEF Live
<1>d. Cardinality({First}) = 1 /\ Cardinality(Senders) \in Nat /\ 1 <= Cardinality(Senders)
  <2>1. Cardinality({First}) = 1
    BY Zenon DEF Given, CountingFacts
  <2>2. QED BY Zenon, <1>a, <2>1, FiniteSubsets
<1>1. TypeOK
  <2>1. spc \in [Senders -> {"unborn", "idle", "queued", "retry", "handoff",
                             "acked", "canceled", "last", "gone"}]
    BY Zenon
  <2>2. channels \in 0..Cardinality(Senders)
    BY SMTT(30), <1>d
  <2>3. nsent \in [Senders -> 0..MaxSends]
    BY SMTT(30)
  <2>4. queue \in Seq(Senders) /\ buf \in Seq(Messages) /\ received \in Seq(Messages)
    BY SMTT(30)
  <2>5. /\ cap \in Caps /\ selects \in BOOLEAN /\ disconnected \in BOOLEAN
        /\ blocker \in Senders \cup {"none", "recv", "select"} /\ canceled \in Senders \cup {"none"}
        /\ rpc \in {"idle", "blocked", "woken", "selecting", "aborting", "gone"}
        /\ ready \in BOOLEAN /\ accepted \subseteq Messages /\ back \subseteq Messages
        /\ destroyed \subseteq Messages /\ asleep \in BOOLEAN
    BY Zenon
  <2>6. QED BY ZenonT(60), <2>1, <2>2, <2>3, <2>4, <2>5 DEF TypeOK
<1>2. CountInv
  BY ZenonT(60), <1>b, <1>c, <1>d DEF CountInv
<1>3. QueueInv
  <2>1. BufCap \in Nat
    BY Zenon DEF BufCap
  <2>2. QED BY SMTT(30), <1>b, <2>1 DEF QueueInv
<1>4. BlockerInv
  BY Zenon, <1>b DEF BlockerInv
<1>5. ReceiverInv
  BY ZenonT(60) DEF ReceiverInv
<1>6. PlaceInv
  <2>1. \A m \in Messages : m \notin Sent /\ ~InBuf(m) /\ ~Got(m)
    BY SMTT(30) DEF Sent, Messages, InBuf, Got
  <2>2. \A m \in Messages : ~InHand(m)
    BY Zenon, <1>b DEF InHand
  <2>3. QED BY SMTT(60), <1>b, <2>1, <2>2 DEF PlaceInv
<1>7. AcceptInv
  BY Zenon, <1>b DEF AcceptInv
<1>8. QED BY Zenon, <1>1, <1>2, <1>3, <1>4, <1>5, <1>6, <1>7

(* ... what is not about this channel keeps it ... *)
LEMMA SyncStutters ==
  ASSUME Given, SyncInv, UNCHANGED vars
  PROVE  SyncInv'
PROOF
<1> USE DEF SyncInv, vars, setup, state, ghosts
<1>1. TypeOK'
  BY SMTT(30) DEF TypeOK, Messages
<1>2. CountInv'
  BY Zenon DEF CountInv, Live
<1>3. QueueInv'
  BY Zenon, QueueKept
<1>4. BlockerInv' /\ ReceiverInv'
  BY Zenon DEF BlockerInv, ReceiverInv, HasData, Msg
<1>5. PlaceInv'
  BY Zenon, PlacesKept
<1>6. AcceptInv'
  BY Zenon DEF AcceptInv, Got, Msg
<1>7. QED BY ZenonT(60), <1>1, <1>2, <1>3, <1>4, <1>5, <1>6

(* ... and so does every step. *)
LEMMA SyncInductive ==
  ASSUME Given, SyncInv, [Next]_vars
  PROVE  SyncInv'
PROOF
<1>1. ASSUME NEW s \in Senders, SenderNext(s)
      PROVE  SyncInv'
  BY Zenon, <1>1, SendQueuesKeeps, SendDisconnectedKeeps, SendEnqueuesKeeps, SendAckedKeeps,
     TrySendRefusedKeeps, TrySendAcceptedKeeps, CloneChanKeeps, DropChanKeeps, DropChanLastKeeps
     DEF SenderNext
<1>2. CASE ReceiverNext
  BY Zenon, <1>2, RecvBlocksKeeps, RecvTakesKeeps, TryRecvKeeps, DropPortKeeps, CanRecvKeeps,
     StartSelectionKeeps, AbortSelectionKeeps DEF ReceiverNext
<1>3. CASE Finished \/ UNCHANGED vars
  BY Zenon, <1>3, SyncStutters DEF Finished
<1>4. CASE OtherPortReady
  BY Zenon, <1>4, OtherPortReadyKeeps
<1>5. QED BY Zenon, <1>1, <1>2, <1>3, <1>4 DEF Next

(* In a sequence of distinct messages one occurs once or not at all. *)
LEMMA OccursOnce ==
  ASSUME Given, NEW q \in Seq(Messages), NEW m, \A i, j \in 1..Len(q) : q[i] = q[j] => i = j
  PROVE  Occurs(m, q) = IF \E i \in 1..Len(q) : q[i] = m THEN 1 ELSE 0
PROOF
<1> DEFINE D == {i \in DOMAIN q : q[i] = m}
<1>1. D = {i \in 1..Len(q) : q[i] = m}
  BY SMTT(30)
<1>2. CASE \E i \in 1..Len(q) : q[i] = m
  <2>1. PICK i \in 1..Len(q) : q[i] = m
    BY Zenon, <1>2
  <2>2. D = {i}
    BY Zenon, <1>1, <2>1
  <2>3. Cardinality({i}) = 1
    BY Zenon DEF Given, CountingFacts
  <2>4. QED BY Zenon, <1>2, <2>2, <2>3 DEF Occurs
<1>3. CASE ~\E i \in 1..Len(q) : q[i] = m
  <2>1. D = {}
    BY Zenon, <1>1, <1>3
  <2>2. Cardinality({}) = 0
    BY Zenon DEF Given, CountingFacts
  <2>3. QED BY Zenon, <1>3, <2>1, <2>2 DEF Occurs
<1>4. QED BY Zenon, <1>2, <1>3

(* The invariant says what the checked properties say: no assertion of      *)
(* sync.rs fails, no message is lost or duplicated, and nobody sleeps       *)
(* beside what they wait for.                                               *)
LEMMA SyncInvSays ==
  ASSUME Given, SyncInv
  PROVE  TypeOK /\ NoAssertionFails /\ Conserved /\ SleepersCovered
PROOF
<1>k. Constants
  BY Zenon, SyncConstants
<1> USE <1>k DEF Constants, SyncInv
<1>1. NoAssertionFails
  <2> SUFFICES ASSUME rpc = "gone", \A s \in Senders : spc[s] \in {"gone", "unborn"}
               PROVE  channels = 0 /\ queue = <<>> /\ canceled = "none"
    BY Zenon DEF NoAssertionFails
  <2>1. {s \in Senders : Live(s)} = {}
    BY Zenon DEF Live
  <2>2. Cardinality({}) = 0
    BY Zenon DEF Given, CountingFacts
  <2>3. channels = 0
    BY ZenonT(60), <2>1, <2>2 DEF CountInv
  <2>4. QED BY Zenon, <2>3 DEF BlockerInv
<1>2. \A m : (Occurs(m, buf) = IF InBuf(m) THEN 1 ELSE 0) /\ (Occurs(m, received) = IF Got(m) THEN 1 ELSE 0)
  BY ZenonT(60), OccursOnce DEF InBuf, Got, PlaceInv, TypeOK
<1>3. Conserved
  <2>1. ASSUME NEW s \in Senders, NEW n \in 1..nsent[s]
        PROVE  LET m == <<s, n>>
                   One(b) == IF b THEN 1 ELSE 0 IN
               Occurs(m, buf) + Occurs(m, received) + One(InHand(m))
                 + One(m \in back) + One(m \in destroyed) = 1
    <3> DEFINE m == <<s, n>>
    <3>1. nsent[s] \in 0..MaxSends /\ MaxSends \in Nat
      BY ZenonT(60) DEF TypeOK
    <3>2. m \in Messages /\ m \in Sent
      BY SMTT(30), <3>1 DEF Messages, Sent
    <3>3. OnePlace(m)
      BY Zenon, <3>2 DEF PlaceInv
    <3> HIDE DEF m
    <3>4. /\ InBuf(m) \in BOOLEAN /\ Got(m) \in BOOLEAN /\ InHand(m) \in BOOLEAN
          /\ Occurs(m, buf) = IF InBuf(m) THEN 1 ELSE 0
          /\ Occurs(m, received) = IF Got(m) THEN 1 ELSE 0
      BY Zenon, <1>2 DEF InBuf, Got, InHand
    <3>5. QED BY SMTT(30), <3>3, <3>4 DEF OnePlace, m
  <2>2. \A s \in Senders : spc[s] = "canceled" => buf = <<Msg(s)>>
    BY Zenon DEF BlockerInv
  <2>3. cap = 0 /\ ~selects => \A m \in accepted :
          Occurs(m, received) = 1 \/ (buf = <<m>> /\ rpc = "woken")
    BY ZenonT(60), <1>2 DEF AcceptInv
  <2>4. QED BY ZenonT(60), <2>1, <2>2, <2>3 DEF Conserved
<1>4. SleepersCovered
  BY Zenon DEF SleepersCovered, QueueInv, BlockerInv, ReceiverInv
<1>5. QED BY ZenonT(60), <1>1, <1>3, <1>4
=============================================================================
