---------------------------- MODULE LocksProofs -----------------------------
(***************************************************************************)
(* The theorems about Raw and Locks: mutual exclusion of the mutex and of  *)
(* the reader-writer lock, the limit of the semaphore, that nobody who     *)
(* sleeps is forgotten, poisoning, and the barrier, for any number of      *)
(* tasks, condition variables and permits.                                 *)
(***************************************************************************)
EXTENDS Locks, RawProofs

(* What the condition variables of Raw do to its invariant: wait, signal    *)
(* and broadcast.                                                           *)

(* The conjuncts of CondInv, with the types. *)
LEMMA CondFacts ==
  ASSUME RawTypeOK, CondInv
  PROVE  /\ \A c \in Condvars : blocked[c] \in Seq(Users) /\ Len(blocked[c]) \in Nat
         /\ \A u \in Users : waking[u] \in Seq(Users) /\ Len(waking[u]) \in Nat
         /\ \A c \in Condvars : \A i \in 1..Len(blocked[c]) : blocked[c][i] \in OnCond
         /\ \A u \in Users : \A i \in 1..Len(waking[u]) : waking[u][i] \in OnCond
  BY SMTT(30) DEF RawTypeOK, CondInv, CondAsleep

(* Wait gives up the lock and stands in the queue of the condition variable. *)
LEMMA WaitKeeps ==
  ASSUME RawInv, NEW t \in Users, NEW c \in Condvars, Wait(t, c), nuse' \in Nat
  PROVE  RawInv'
PROOF
<1> USE DEF RawInv
<1>1. /\ at[t] = "writing" /\ at' = [at EXCEPT ![t] = "cond"] /\ SemRelease("access")
      /\ kind # "semaphore" /\ blocked' = [blocked EXCEPT ![c] = Append(@, t)]
      /\ UNCHANGED <<kind, read_count, waking, permits>>
  BY Zenon DEF Wait, Move
<1>2. blocked' \in [Condvars -> Seq(Users)] /\ blocked'[c] = Append(blocked[c], t)
      /\ \A d \in Condvars : d # c => blocked'[d] = blocked[d]
  <2>1. Append(blocked[c], t) \in Seq(Users)
    BY Zenon, CondFacts, AppendFacts
  <2>2. QED BY Zenon, <1>1, <2>1 DEF RawTypeOK
<1>3. RawTypeOK' /\ QueueInv' /\ SignalInv' /\ OnCond' = OnCond \cup {t}
  BY ZenonT(60), <1>1, <1>2, ReleaseStep DEF RawTypeOK, Places, SleepPlaces, Sems
<1>4. PlaceInv' /\ PermitInv'
  BY Zenon, <1>1 DEF PlaceInv, PermitInv, RawTypeOK
<1>5. CountInv'
  BY Zenon, <1>1, CountFrame DEF Counted, RawTypeOK
<1>6. OrderInv' /\ AccessInv'
  BY ZenonT(60), <1>1, ReleaseOther, ReleaseAccess
<1>7. CondInv'
  <2> DEFINE n == Len(blocked[c]) + 1
  <2>1. t \notin OnCond
    BY Zenon, <1>1 DEF OnCond
  <2>2. /\ Len(blocked'[c]) = n /\ blocked'[c][n] = t /\ n \in 1..Len(blocked'[c])
        /\ \A i \in 1..Len(blocked[c]) : blocked'[c][i] = blocked[c][i]
    BY SMTT(30), <1>2, CondFacts, AppendFacts
  <2> HIDE DEF n
  <2>3. ASSUME NEW d \in Condvars, NEW i \in 1..Len(blocked[d])
        PROVE  i \in 1..Len(blocked'[d]) /\ blocked'[d][i] = blocked[d][i]
    <3>1. CASE d = c BY SMTT(30), <3>1, <2>2, CondFacts DEF n
    <3>2. CASE d # c BY ZenonT(60), <3>2, <1>2
    <3>3. QED BY ZenonT(60), <3>1, <3>2
  <2>4. ASSUME NEW d \in Condvars, NEW i \in 1..Len(blocked'[d])
        PROVE  \/ /\ i \in 1..Len(blocked[d]) /\ blocked'[d][i] = blocked[d][i]
                  /\ blocked[d][i] \in OnCond
               \/ d = c /\ i = n /\ blocked'[d][i] = t
    <3>1. CASE d = c BY SMTT(30), <3>1, <2>2, CondFacts DEF n
    <3>2. CASE d # c BY ZenonT(60), <3>2, <1>2, CondFacts
    <3>3. QED BY ZenonT(60), <3>1, <3>2
  <2>5. CondAsleep'
    <3>1. (\A d \in Condvars : \A i \in 1..Len(blocked[d]) : blocked[d][i] \in OnCond)'
      BY ZenonT(60), <1>3, <2>4
    <3>2. (\A u \in Users : \A i \in 1..Len(waking[u]) : waking[u][i] \in OnCond)'
      BY ZenonT(60), <1>1, <1>3, CondFacts
    <3>3. (\A u \in Users : at[u] # "bcast" => Len(waking[u]) = 0)'
      BY ZenonT(60), <1>1 DEF CondInv, CondAsleep, RawTypeOK
    <3>4. QED BY ZenonT(60), <3>1, <3>2, <3>3 DEF CondAsleep
  <2>6. BlockedOnce'
    <3>1. SUFFICES ASSUME NEW d \in Condvars, NEW e \in Condvars,
                          NEW i \in 1..Len(blocked'[d]), NEW j \in 1..Len(blocked'[e]),
                          blocked'[d][i] = blocked'[e][j]
          PROVE  d = e /\ i = j
      BY Zenon DEF BlockedOnce
    <3>2. \/ /\ i \in 1..Len(blocked[d]) /\ blocked'[d][i] = blocked[d][i]
             /\ blocked[d][i] \in OnCond
          \/ d = c /\ i = n /\ blocked'[d][i] = t
      BY Zenon, <2>4
    <3>3. \/ /\ j \in 1..Len(blocked[e]) /\ blocked'[e][j] = blocked[e][j]
             /\ blocked[e][j] \in OnCond
          \/ e = c /\ j = n /\ blocked'[e][j] = t
      BY ZenonT(60), <2>4
    <3>4. QED BY SMTT(60), <3>1, <3>2, <3>3, <2>1 DEF CondInv, BlockedOnce
  <2>7. WakingOnce'
    BY SMTT(30), <1>1 DEF CondInv, WakingOnce
  <2>8. NotInBoth'
    <3>1. SUFFICES ASSUME NEW d \in Condvars, NEW u \in Users,
                          NEW i \in 1..Len(blocked'[d]), NEW j \in 1..Len(waking[u])
          PROVE  blocked'[d][i] # waking[u][j]
      BY SMTT(60), <1>1 DEF NotInBoth
    <3>2. waking[u][j] \in OnCond
      BY Zenon, CondFacts
    <3>3. QED BY SMTT(30), <3>2, <2>1, <2>4 DEF CondInv, NotInBoth
  <2>9. CondFound'
    BY SMTT(30), <1>1, <1>3, <2>2, <2>3 DEF CondInv, CondFound
  <2>10. QED BY ZenonT(60), <2>5, <2>6, <2>7, <2>8, <2>9 DEF CondInv
<1>8. QED BY ZenonT(60), <1>3, <1>4, <1>5, <1>6, <1>7

(* A sleeper on a condition variable is signalled. *)
LEMMA SignalOne ==
  ASSUME RawInv, NEW h \in OnCond, signalled' = signalled \cup {h},
         UNCHANGED <<kind, count, waiters>>,
         \A u \in Users : at'[u] # at[u] =>
           at[u] = "bcast" /\ at'[u] = "writing" /\ kind # "semaphore"
  PROVE  /\ SignalInv' /\ QueueInv' /\ OrderInv' /\ AccessInv' /\ OnCond' = OnCond \ {h}
         /\ Counted' = Counted /\ (kind = "semaphore" => Holders' = Holders)
PROOF
<1> USE DEF RawInv
<1>1. h \in Users /\ at[h] = "cond" /\ h \notin signalled
  BY Zenon DEF OnCond
<1>2. SignalInv'
  BY ZenonT(60), <1>1 DEF SignalInv, RawTypeOK
<1>3. \A s \in Sems : Sleeping(s)' = Sleeping(s)
  BY Zenon, <1>1 DEF Sleeping, SleepPlaces
<1>4. QueueInv'
  BY ZenonT(60), <1>3, QueueFrame
<1>5. OrderHolders' = OrderHolders
  BY Zenon, <1>1 DEF OrderHolders
<1>6. AccessHolders' = AccessHolders /\ Readers' = Readers /\ FirstReaders' = FirstReaders
  BY Zenon, <1>1 DEF AccessHolders, Readers, FirstReaders
<1>7. OrderInv'
  BY Zenon, <1>5 DEF OrderInv
<1>8. AccessInv'
  <2>1. /\ AccessHolders \subseteq Users
        /\ \A u \in Users : at[u] = "asleep_r" => at'[u] = at[u]
        /\ \A u \in Users : at'[u] = "hand" => at[u] = "hand"
    BY Zenon DEF AccessHolders
  <2>2. QED BY ZenonT(60), <1>6, <2>1 DEF AccessInv
<1>9. OnCond' = OnCond \ {h}
  BY Zenon, <1>1 DEF OnCond
<1>10. Counted' = Counted /\ (kind = "semaphore" => Holders' = Holders)
  BY ZenonT(60), <1>1 DEF Counted, Holders
<1>11. QED BY ZenonT(60), <1>2, <1>4, <1>7, <1>8, <1>9, <1>10

(* Signal takes the first of that queue. *)
LEMMA SignalKeeps ==
  ASSUME RawInv, NEW t \in Users, NEW c \in Condvars, Signal(t, c)
  PROVE  RawInv'
PROOF
<1> USE DEF RawInv
<1> DEFINE h == blocked[c][1]
           k(d, i) == IF d = c THEN i + 1 ELSE i
<1>1. /\ kind # "semaphore" /\ blocked[c] # <<>> /\ signalled' = signalled \cup {Head(blocked[c])}
      /\ blocked' = [blocked EXCEPT ![c] = Tail(@)]
      /\ UNCHANGED <<kind, count, waiters, read_count, at, waking, permits, nuse>>
  BY Zenon DEF Signal
<1>2. blocked[c] \in Seq(Users) /\ Len(blocked[c]) > 0 /\ 1 \in 1..Len(blocked[c])
  BY SMTT(30), <1>1, CondFacts
<1>3. /\ Tail(blocked[c]) \in Seq(Users) /\ Len(Tail(blocked[c])) = Len(blocked[c]) - 1
      /\ Head(blocked[c]) = h /\ h \in Users
      /\ \A i \in 1..(Len(blocked[c]) - 1) : Tail(blocked[c])[i] = blocked[c][i + 1]
  BY ZenonT(60), <1>2, TailFacts
<1>4. h \in OnCond /\ signalled' = signalled \cup {h}
  BY ZenonT(60), <1>1, <1>2, <1>3, CondFacts
<1>5. /\ blocked' \in [Condvars -> Seq(Users)] /\ blocked'[c] = Tail(blocked[c])
      /\ \A d \in Condvars : d # c => blocked'[d] = blocked[d]
  BY ZenonT(60), <1>1, <1>3 DEF RawTypeOK
<1>6. /\ SignalInv' /\ QueueInv' /\ OrderInv' /\ AccessInv' /\ OnCond' = OnCond \ {h}
      /\ Counted' = Counted
  <2>1. UNCHANGED <<kind, count, waiters>> /\ \A u \in Users : at'[u] = at[u]
    BY ZenonT(60), <1>1
  <2> HIDE DEF h
  <2>2. QED BY ZenonT(60), <1>4, <2>1, SignalOne
<1>7. RawTypeOK' /\ PlaceInv' /\ PermitInv' /\ CountInv'
  <2>1. signalled' \in SUBSET Users
    BY ZenonT(60), <1>3, <1>4 DEF RawTypeOK
  <2>2. CountInv'
    BY ZenonT(60), <1>1, <1>6, CountFrame
  <2>3. RawTypeOK'
    BY ZenonT(60), <1>1, <1>5, <2>1 DEF RawTypeOK
  <2>4. QED BY ZenonT(60), <1>1, <2>2, <2>3 DEF PlaceInv, PermitInv
<1>8. ASSUME NEW d \in Condvars, NEW i \in 1..Len(blocked'[d])
      PROVE  k(d, i) \in 1..Len(blocked[d]) /\ blocked'[d][i] = blocked[d][k(d, i)]
             /\ blocked'[d][i] # h
  <2>1. k(d, i) \in 1..Len(blocked[d]) /\ blocked'[d][i] = blocked[d][k(d, i)]
    <3>1. CASE d = c BY SMTT(30), <3>1, <1>2, <1>3, <1>5
    <3>2. CASE d # c BY ZenonT(60), <3>2, <1>5
    <3>3. QED BY ZenonT(60), <3>1, <3>2
  <2>2. d = c => k(d, i) # 1
    BY SMTT(30), CondFacts
  <2>3. QED BY SMTT(30), <2>1, <2>2, <1>2 DEF CondInv, BlockedOnce
<1>9. ASSUME NEW d \in Condvars, NEW i \in 1..Len(blocked[d]), blocked[d][i] # h
      PROVE  \E j \in 1..Len(blocked'[d]) : blocked'[d][j] = blocked[d][i]
  <2>1. CASE d = c
    <3>1. i - 1 \in 1..(Len(blocked[c]) - 1) /\ (i - 1) + 1 = i
      BY SMTT(30), <2>1, <1>2, <1>9
    <3>2. blocked'[c][i - 1] = blocked[c][i]
      BY ZenonT(60), <3>1, <1>3, <1>5
    <3>3. QED BY ZenonT(60), <2>1, <3>1, <3>2, <1>3, <1>5
  <2>2. CASE d # c BY Zenon, <2>2, <1>5
  <2>3. QED BY ZenonT(60), <2>1, <2>2
<1>10. CondInv'
  <2> HIDE DEF h
  <2>1. CondAsleep'
    <3>1. (\A d \in Condvars : \A i \in 1..Len(blocked[d]) : blocked[d][i] \in OnCond)'
      <4>1. SUFFICES ASSUME NEW d \in Condvars, NEW i \in 1..Len(blocked'[d])
            PROVE  blocked'[d][i] \in OnCond'
        BY Zenon
      <4>2. k(d, i) \in 1..Len(blocked[d]) /\ blocked'[d][i] = blocked[d][k(d, i)]
            /\ blocked'[d][i] # h
        BY Zenon, <1>8
      <4> HIDE DEF k
      <4>3. QED BY ZenonT(60), <4>2, <1>6, CondFacts
    <3>2. (\A u \in Users : \A i \in 1..Len(waking[u]) : waking[u][i] \in OnCond)'
      BY ZenonT(60), <1>1, <1>2, <1>6, CondFacts DEF CondInv, NotInBoth, h
    <3>3. (\A u \in Users : at[u] # "bcast" => Len(waking[u]) = 0)'
      BY ZenonT(60), <1>1 DEF CondInv, CondAsleep
    <3>4. QED BY ZenonT(60), <3>1, <3>2, <3>3 DEF CondAsleep
  <2>2. BlockedOnce'
    <3>1. SUFFICES ASSUME NEW d \in Condvars, NEW e \in Condvars,
                          NEW i \in 1..Len(blocked'[d]), NEW j \in 1..Len(blocked'[e]),
                          blocked'[d][i] = blocked'[e][j]
          PROVE  d = e /\ i = j
      BY Zenon DEF BlockedOnce
    <3>2. d = e /\ k(d, i) = k(e, j)
      <4>1. /\ k(d, i) \in 1..Len(blocked[d]) /\ k(e, j) \in 1..Len(blocked[e])
            /\ blocked[d][k(d, i)] = blocked[e][k(e, j)]
        BY ZenonT(60), <3>1, <1>8
      <4> HIDE DEF k
      <4>2. QED BY Zenon, <4>1 DEF CondInv, BlockedOnce
    <3>3. QED BY SMTT(30), <3>2
  <2>3. WakingOnce'
    BY SMTT(30), <1>1 DEF CondInv, WakingOnce
  <2>4. NotInBoth'
    <3>1. SUFFICES ASSUME NEW d \in Condvars, NEW u \in Users,
                          NEW i \in 1..Len(blocked'[d]), NEW j \in 1..Len(waking[u])
          PROVE  blocked'[d][i] # waking[u][j]
      BY SMTT(30), <1>1 DEF NotInBoth
    <3>2. QED BY SMTT(60), <1>8 DEF CondInv, NotInBoth
  <2>5. CondFound'
    <3>1. SUFFICES ASSUME NEW u \in OnCond'
          PROVE  \/ \E d \in Condvars : \E i \in 1..Len(blocked'[d]) : blocked'[d][i] = u
                 \/ \E v \in Users : \E i \in 1..Len(waking[v]) : waking[v][i] = u
      BY Zenon, <1>1 DEF CondFound
    <3>2. u \in OnCond /\ u # h
      BY Zenon, <1>6
    <3>3. QED BY SMTT(30), <3>2, <1>9 DEF CondInv, CondFound
  <2>6. QED BY ZenonT(60), <2>1, <2>2, <2>3, <2>4, <2>5 DEF CondInv
<1>11. QED BY ZenonT(60), <1>6, <1>7, <1>10
-----------------------------------------------------------------------------
(* Broadcast takes all of that queue ... *)
LEMMA BroadcastKeeps ==
  ASSUME RawInv, NEW t \in Users, NEW c \in Condvars, Broadcast(t, c)
  PROVE  RawInv'
PROOF
<1> USE DEF RawInv
<1>1. /\ kind # "semaphore" /\ at[t] = "writing" /\ at' = [at EXCEPT ![t] = "bcast"]
      /\ waking' = [waking EXCEPT ![t] = blocked[c]]
      /\ blocked' = [blocked EXCEPT ![c] = <<>>]
      /\ UNCHANGED <<kind, sems, read_count, permits, nuse>>
  BY Zenon DEF Broadcast, Move
<1>2. UNCHANGED <<count, waiters, signalled>>
  BY Zenon, <1>1 DEF sems
<1>3. at' \in [Users -> Places] /\ QueueInv' /\ SignalInv' /\ OnCond' = OnCond
  BY Zenon, <1>1, PlainMove DEF Places, SleepPlaces
<1>4. /\ blocked' \in [Condvars -> Seq(Users)] /\ waking' \in [Users -> Seq(Users)]
      /\ blocked'[c] = <<>> /\ \A d \in Condvars : d # c => blocked'[d] = blocked[d]
      /\ waking'[t] = blocked[c] /\ \A u \in Users : u # t => waking'[u] = waking[u]
  <2>1. <<>> \in Seq(Users) /\ blocked[c] \in Seq(Users)
    BY SMTT(30), CondFacts
  <2>2. QED BY ZenonT(60), <1>1, <2>1 DEF RawTypeOK
<1>5. RawTypeOK' /\ PlaceInv' /\ PermitInv'
  BY ZenonT(60), <1>1, <1>2, <1>3, <1>4 DEF RawTypeOK, PlaceInv, PermitInv
<1>6. CountInv'
  BY ZenonT(60), <1>1, CountFrame DEF Counted, RawTypeOK
<1>7. OrderInv'
  <2>1. OrderHolders' = OrderHolders
    BY ZenonT(60), <1>1, <1>2 DEF OrderHolders, RawTypeOK
  <2>2. QED BY ZenonT(60), <1>1, <1>2, <2>1 DEF OrderInv
<1>8. AccessInv'
  <2>1. /\ AccessHolders' = AccessHolders /\ AccessHolders \subseteq Users
        /\ Readers' = Readers /\ FirstReaders' = FirstReaders
        /\ \A u \in Users : at[u] = "asleep_r" => at'[u] = at[u]
        /\ \A u \in Users : at'[u] = "hand" => at[u] = "hand"
    BY ZenonT(60), <1>1, <1>2 DEF AccessHolders, Readers, FirstReaders, RawTypeOK
  <2>2. QED BY ZenonT(60), <1>1, <1>2, <2>1 DEF AccessInv
<1>9. CondInv'
  <2>1. Len(waking[t]) = 0 /\ Len(blocked'[c]) = 0
    BY ZenonT(60), <1>1, <1>4 DEF CondInv, CondAsleep
  <2>2. ASSUME NEW d \in Condvars, NEW i \in 1..Len(blocked'[d])
        PROVE  d # c /\ blocked'[d] = blocked[d] /\ i \in 1..Len(blocked[d])
    BY SMTT(30), <1>4, <2>1
  <2>3. ASSUME NEW u \in Users, NEW i \in 1..Len(waking'[u])
        PROVE  \/ u = t /\ waking'[u] = blocked[c] /\ i \in 1..Len(blocked[c])
               \/ u # t /\ waking'[u] = waking[u] /\ i \in 1..Len(waking[u])
    BY ZenonT(60), <1>4
  <2>4. CondAsleep'
    <3>1. (\A d \in Condvars : \A i \in 1..Len(blocked[d]) : blocked[d][i] \in OnCond)'
      BY ZenonT(60), <1>3, <2>2, CondFacts
    <3>2. (\A u \in Users : \A i \in 1..Len(waking[u]) : waking[u][i] \in OnCond)'
      BY ZenonT(60), <1>3, <2>3, CondFacts
    <3>3. (\A u \in Users : at[u] # "bcast" => Len(waking[u]) = 0)'
      BY ZenonT(60), <1>1, <1>4 DEF CondInv, CondAsleep, RawTypeOK
    <3>4. QED BY Zenon, <3>1, <3>2, <3>3 DEF CondAsleep
  <2>5. BlockedOnce'
    BY SMTT(30), <2>2 DEF CondInv, BlockedOnce
  <2>6. WakingOnce'
    <3>1. SUFFICES ASSUME NEW u \in Users, NEW v \in Users,
                          NEW i \in 1..Len(waking'[u]), NEW j \in 1..Len(waking'[v]),
                          waking'[u][i] = waking'[v][j]
          PROVE  u = v /\ i = j
      BY Zenon DEF WakingOnce
    <3>2. CASE u = t /\ v = t
      BY SMTT(30), <3>1, <3>2, <2>3 DEF CondInv, BlockedOnce
    <3>3. CASE u # t /\ v # t
      BY SMTT(30), <3>1, <3>3, <2>3 DEF CondInv, WakingOnce
    <3>4. CASE (u = t) # (v = t)
      BY SMTT(30), <3>1, <3>4, <2>3 DEF CondInv, NotInBoth
    <3>5. QED BY ZenonT(60), <3>2, <3>3, <3>4
  <2>7. NotInBoth'
    <3>1. SUFFICES ASSUME NEW d \in Condvars, NEW u \in Users,
                          NEW i \in 1..Len(blocked'[d]), NEW j \in 1..Len(waking'[u])
          PROVE  blocked'[d][i] # waking'[u][j]
      BY Zenon DEF NotInBoth
    <3>2. CASE u = t
      BY SMTT(30), <3>2, <2>2, <2>3 DEF CondInv, BlockedOnce
    <3>3. CASE u # t
      BY SMTT(30), <3>3, <2>2, <2>3 DEF CondInv, NotInBoth
    <3>4. QED BY ZenonT(60), <3>2, <3>3
  <2>8. CondFound'
    <3>1. SUFFICES ASSUME NEW w \in OnCond
          PROVE  \/ \E d \in Condvars : \E i \in 1..Len(blocked'[d]) : blocked'[d][i] = w
                 \/ \E v \in Users : \E i \in 1..Len(waking'[v]) : waking'[v][i] = w
      BY Zenon, <1>3 DEF CondFound
    <3>2. CASE \E d \in Condvars : \E i \in 1..Len(blocked[d]) : blocked[d][i] = w
      <4>1. PICK d \in Condvars : \E i \in 1..Len(blocked[d]) : blocked[d][i] = w
        BY ZenonT(60), <3>2
      <4>2. CASE d = c BY SMTT(30), <4>1, <4>2, <1>4
      <4>3. CASE d # c BY SMTT(30), <4>1, <4>3, <1>4
      <4>4. QED BY ZenonT(60), <4>2, <4>3
    <3>3. CASE \E v \in Users : \E i \in 1..Len(waking[v]) : waking[v][i] = w
      <4>1. PICK v \in Users : \E i \in 1..Len(waking[v]) : waking[v][i] = w
        BY Zenon, <3>3
      <4>2. v # t
        BY SMTT(30), <4>1, <2>1
      <4>3. QED BY ZenonT(60), <4>1, <4>2, <1>4
    <3>4. QED BY ZenonT(60), <3>2, <3>3 DEF CondInv, CondFound
  <2>9. QED BY Zenon, <2>4, <2>5, <2>6, <2>7, <2>8 DEF CondInv
<1>10. QED BY ZenonT(60), <1>3, <1>5, <1>6, <1>7, <1>8, <1>9

(* ... and wakes them one after the other. *)
LEMMA BroadcastOneKeeps ==
  ASSUME RawInv, NEW t \in Users, BroadcastOne(t)
  PROVE  RawInv'
PROOF
<1> USE DEF RawInv
<1> DEFINE h == waking[t][1]
           k(u, i) == IF u = t THEN i + 1 ELSE i
<1>1. /\ at[t] = "bcast" /\ waking[t] # <<>> /\ signalled' = signalled \cup {Head(waking[t])}
      /\ waking' = [waking EXCEPT ![t] = Tail(@)]
      /\ at' = [at EXCEPT ![t] = IF Len(waking[t]) = 1 THEN "writing" ELSE "bcast"]
      /\ UNCHANGED <<kind, count, waiters, blocked, read_count, permits, nuse>>
  BY Zenon DEF BroadcastOne
<1>2. /\ waking[t] \in Seq(Users) /\ Len(waking[t]) > 0 /\ 1 \in 1..Len(waking[t])
      /\ kind # "semaphore"
  BY SMTT(30), <1>1, CondFacts DEF PermitInv
<1>3. /\ Tail(waking[t]) \in Seq(Users) /\ Len(Tail(waking[t])) = Len(waking[t]) - 1
      /\ Head(waking[t]) = h /\ h \in Users
      /\ \A i \in 1..(Len(waking[t]) - 1) : Tail(waking[t])[i] = waking[t][i + 1]
  BY ZenonT(60), <1>2, TailFacts
<1>4. h \in OnCond /\ signalled' = signalled \cup {h}
  BY ZenonT(60), <1>1, <1>2, <1>3, CondFacts
<1>5. /\ waking' \in [Users -> Seq(Users)] /\ waking'[t] = Tail(waking[t])
      /\ \A u \in Users : u # t => waking'[u] = waking[u]
  BY ZenonT(60), <1>1, <1>3 DEF RawTypeOK
<1>6. /\ SignalInv' /\ QueueInv' /\ OrderInv' /\ AccessInv' /\ OnCond' = OnCond \ {h}
      /\ Counted' = Counted
  <2>1. \A u \in Users : at'[u] # at[u] =>
          at[u] = "bcast" /\ at'[u] = "writing" /\ kind # "semaphore"
    <3>1. \/ at' = [at EXCEPT ![t] = "writing"]
          \/ at' = [at EXCEPT ![t] = "bcast"]
      BY Zenon, <1>1
    <3>2. at[t] = "bcast" /\ at \in [Users -> Places]
      BY Zenon, <1>1 DEF RawTypeOK
    <3>3. QED BY ZenonT(60), <3>1, <3>2, <1>2
  <2> HIDE DEF h
  <2>2. QED BY ZenonT(60), <1>1, <1>4, <2>1, SignalOne
<1>7. RawTypeOK' /\ PlaceInv' /\ PermitInv' /\ CountInv'
  <2>1. signalled' \in SUBSET Users /\ at' \in [Users -> Places]
    BY ZenonT(60), <1>1, <1>3, <1>4 DEF RawTypeOK, Places
  <2>2. CountInv'
    BY ZenonT(60), <1>1, <1>6, CountFrame
  <2>3. RawTypeOK'
    BY ZenonT(60), <1>1, <1>5, <2>1 DEF RawTypeOK
  <2>4. QED BY ZenonT(60), <1>1, <1>2, <2>2, <2>3 DEF PlaceInv, PermitInv, RawTypeOK
<1>8. ASSUME NEW u \in Users, NEW i \in 1..Len(waking'[u])
      PROVE  k(u, i) \in 1..Len(waking[u]) /\ waking'[u][i] = waking[u][k(u, i)]
             /\ waking'[u][i] # h
  <2>1. k(u, i) \in 1..Len(waking[u]) /\ waking'[u][i] = waking[u][k(u, i)]
    <3>1. CASE u = t BY SMTT(60), <3>1, <1>2, <1>3, <1>5
    <3>2. CASE u # t BY ZenonT(60), <3>2, <1>5
    <3>3. QED BY ZenonT(60), <3>1, <3>2
  <2>2. u = t => k(u, i) # 1
    BY SMTT(30), CondFacts
  <2>3. QED BY SMTT(30), <2>1, <2>2, <1>2 DEF CondInv, WakingOnce
<1>9. ASSUME NEW u \in Users, NEW i \in 1..Len(waking[u]), waking[u][i] # h
      PROVE  \E j \in 1..Len(waking'[u]) : waking'[u][j] = waking[u][i]
  <2>1. CASE u = t
    <3>1. i - 1 \in 1..(Len(waking[t]) - 1) /\ (i - 1) + 1 = i
      BY SMTT(30), <2>1, <1>2, <1>9
    <3>2. waking'[t][i - 1] = waking[t][i]
      BY ZenonT(60), <3>1, <1>3, <1>5
    <3>3. QED BY ZenonT(60), <2>1, <3>1, <3>2, <1>3, <1>5
  <2>2. CASE u # t BY ZenonT(60), <2>2, <1>5
  <2>3. QED BY ZenonT(60), <2>1, <2>2
<1>10. CondInv'
  <2> HIDE DEF h
  <2>1. CondAsleep'
    <3>1. (\A u \in Users : \A i \in 1..Len(waking[u]) : waking[u][i] \in OnCond)'
      <4>1. SUFFICES ASSUME NEW u \in Users, NEW i \in 1..Len(waking'[u])
            PROVE  waking'[u][i] \in OnCond'
        BY Zenon
      <4>2. k(u, i) \in 1..Len(waking[u]) /\ waking'[u][i] = waking[u][k(u, i)]
            /\ waking'[u][i] # h
        BY ZenonT(60), <1>8
      <4> HIDE DEF k
      <4>3. QED BY ZenonT(60), <4>2, <1>6, CondFacts
    <3>2. (\A d \in Condvars : \A i \in 1..Len(blocked[d]) : blocked[d][i] \in OnCond)'
      BY SMTT(30), <1>1, <1>2, <1>6, CondFacts DEF CondInv, NotInBoth, h
    <3>3. (\A u \in Users : at[u] # "bcast" => Len(waking[u]) = 0)'
      <4>1. Len(waking[t]) = 1 => Len(waking'[t]) = 0
        BY SMTT(30), <1>2, <1>3, <1>5
      <4>2. QED BY ZenonT(60), <1>1, <1>5, <4>1 DEF CondInv, CondAsleep, RawTypeOK
    <3>4. QED BY ZenonT(60), <3>1, <3>2, <3>3 DEF CondAsleep
  <2>2. WakingOnce'
    <3>1. SUFFICES ASSUME NEW u \in Users, NEW v \in Users,
                          NEW i \in 1..Len(waking'[u]), NEW j \in 1..Len(waking'[v]),
                          waking'[u][i] = waking'[v][j]
          PROVE  u = v /\ i = j
      BY Zenon DEF WakingOnce
    <3>2. u = v /\ k(u, i) = k(v, j)
      <4>1. /\ k(u, i) \in 1..Len(waking[u]) /\ k(v, j) \in 1..Len(waking[v])
            /\ waking[u][k(u, i)] = waking[v][k(v, j)]
        BY ZenonT(60), <3>1, <1>8
      <4> HIDE DEF k
      <4>2. QED BY Zenon, <4>1 DEF CondInv, WakingOnce
    <3>3. QED BY SMTT(30), <3>2
  <2>3. BlockedOnce'
    BY SMTT(30), <1>1 DEF CondInv, BlockedOnce
  <2>4. NotInBoth'
    <3>1. SUFFICES ASSUME NEW d \in Condvars, NEW u \in Users,
                          NEW i \in 1..Len(blocked[d]), NEW j \in 1..Len(waking'[u])
          PROVE  blocked[d][i] # waking'[u][j]
      <4>1. blocked' = blocked BY ZenonT(60), <1>1
      <4>2. QED BY SMTT(30), <4>1 DEF NotInBoth
    <3>2. QED BY SMTT(60), <1>8 DEF CondInv, NotInBoth
  <2>5. CondFound'
    <3>1. SUFFICES ASSUME NEW w \in OnCond'
          PROVE  \/ \E d \in Condvars : \E i \in 1..Len(blocked[d]) : blocked[d][i] = w
                 \/ \E v \in Users : \E i \in 1..Len(waking'[v]) : waking'[v][i] = w
      BY ZenonT(60), <1>1 DEF CondFound
    <3>2. w \in OnCond /\ w # h
      BY Zenon, <1>6
    <3>3. QED BY SMTT(30), <3>2, <1>9 DEF CondInv, CondFound
  <2>6. QED BY ZenonT(60), <2>1, <2>2, <2>3, <2>4, <2>5 DEF CondInv
<1>11. QED BY ZenonT(60), <1>6, <1>7, <1>10

-----------------------------------------------------------------------------
(* All the calls together, and the theorems.                               *)

(* Every step of a task keeps the invariant. *)
LEMMA InCallKeeps ==
  ASSUME RawInv, NEW t \in Users, InCall(t)
  PROVE  RawInv'
PROOF
<1>1. CASE \/ Woken(t, "order_r", "add") \/ Woken(t, "order_w", "acc_w")
           \/ Woken(t, "asleep_r", "leave_r")
           \/ Woken(t, "asleep_w", IF kind = "rwlock" THEN "leave_w" ELSE "writing")
  BY Zenon, <1>1, WokenKeeps
<1>2. CASE LeaveOrder(t, "leave_r", "reading") \/ LeaveOrder(t, "leave_w", "writing")
  <2>1. CASE LeaveOrder(t, "leave_r", "reading") BY Zenon, <2>1, LeaveOrderKeeps
  <2>2. CASE LeaveOrder(t, "leave_w", "writing") BY Zenon, <2>2, LeaveOrderKeeps
  <2>3. QED BY ZenonT(60), <1>2, <2>1, <2>2
<1>3. CASE ReadAdd(t) \/ AccessRead(t) \/ AccessWrite(t)
  BY ZenonT(60), <1>3, ReadAddKeeps, AccessReadKeeps, AccessWriteKeeps
<1>4. CASE DropLast(t) \/ HandOff(t) \/ Reacquire(t) \/ BroadcastOne(t)
  BY ZenonT(60), <1>4, DropLastKeeps, HandOffKeeps, ReacquireKeeps, BroadcastOneKeeps
<1>5. QED BY Zenon, <1>1, <1>2, <1>3, <1>4 DEF InCall

(* What a task does with its guard. *)
LEMMA WithGuardKeeps ==
  ASSUME RawInv, NEW t \in Users, WithGuard(t)
  PROVE  RawInv'
PROOF
<1>1. CASE Downgrade(t)
  BY ZenonT(60), <1>1, DowngradeKeeps
<1>2. ASSUME NEW c \in Condvars, WaitCall(t, c) PROVE RawInv'
  BY SMTT(60), <1>2, WaitKeeps DEF WaitCall, RawInv, RawTypeOK
<1>3. ASSUME NEW c \in Condvars, Signal(t, c) \/ Broadcast(t, c) PROVE RawInv'
  BY Zenon, <1>3, SignalKeeps, BroadcastKeeps
<1>4. QED BY ZenonT(60), <1>1, <1>2, <1>3 DEF WithGuard

(* A new call. *)
LEMMA RawCallKeeps ==
  ASSUME RawInv, NEW t \in Users, RawCall(t)
  PROVE  RawInv'
  BY Zenon, CallKeeps, GiveKeeps DEF RawCall

(* A step that changes nothing. *)
LEMMA RawStutter ==
  ASSUME RawInv, UNCHANGED rawvars
  PROVE  RawInv'
PROOF
<1>1. UNCHANGED <<kind, count, waiters, signalled, blocked, read_count, at, waking, permits, nuse>>
  BY Zenon DEF rawvars, sems
<1>2. /\ \A s \in Sems : Sleeping(s)' = Sleeping(s)
      /\ OnCond' = OnCond /\ OrderHolders' = OrderHolders /\ AccessHolders' = AccessHolders
      /\ Readers' = Readers /\ FirstReaders' = FirstReaders
      /\ Counted' = Counted /\ Holders' = Holders
  BY Zenon, <1>1 DEF Sleeping, OnCond, OrderHolders, AccessHolders, Readers, FirstReaders, Counted, Holders
<1>3. RawTypeOK' /\ PlaceInv' /\ SignalInv'
  BY Zenon, <1>1 DEF RawInv, RawTypeOK, PlaceInv, SignalInv
<1>4. QueueInv' /\ CondInv'
  BY ZenonT(60), <1>1, <1>2, QueueFrame, CondFrame DEF RawInv
<1>5. OrderInv' /\ AccessInv' /\ CountInv' /\ PermitInv'
  BY ZenonT(60), <1>1, <1>2 DEF RawInv, OrderInv, AccessInv, CountInv, PermitInv
<1>6. QED BY ZenonT(60), <1>3, <1>4, <1>5 DEF RawInv

(* The initial states. *)
LEMMA RawStart == RawInit => RawInv
PROOF
<1> SUFFICES ASSUME RawInit PROVE RawInv
  BY Zenon
<1> USE DEF RawInit
<1>1. <<>> \in Seq(Users) /\ Len(<<>>) = 0
  BY SMTT(30)
<1>2. RawTypeOK
  BY SMTT(30), <1>1, RawAssumption DEF RawTypeOK, Places, Sems
<1>3. /\ \A s \in Sems : Sleeping(s) = {}
      /\ OnCond = {} /\ OrderHolders = {} /\ AccessHolders = {} /\ Readers = {}
      /\ Counted = {} /\ Holders = {}
  BY Zenon DEF Sleeping, SleepPlaces, OnCond, OrderHolders, AccessHolders, Readers, Counted, Holders
<1>4. PlaceInv /\ SignalInv
  BY Zenon DEF PlaceInv, SignalInv
<1>5. QueueInv
  BY SMTT(30), <1>1, <1>3, RawAssumption DEF QueueInv, QueueOK
<1>6. CondInv
  BY SMTT(30), <1>1, <1>3 DEF CondInv, CondAsleep, BlockedOnce, WakingOnce, NotInBoth, CondFound
<1>7. OrderInv /\ AccessInv
  BY SMTT(30), <1>3 DEF OrderInv, AccessInv, Sems
<1>8. CountInv /\ PermitInv
  BY SMTT(30), <1>3, RawAssumption, FS_EmptySet DEF CountInv, PermitInv, Sems
<1>9. QED BY ZenonT(60), <1>2, <1>4, <1>5, <1>6, <1>7, <1>8 DEF RawInv

(* What the invariant is for. *)
LEMMA RawExcludes == RawInv => RawExclusion
PROOF
<1> SUFFICES ASSUME RawInv PROVE RawExclusion
  BY Zenon
<1>1. ASSUME kind # "semaphore", NEW t \in Writers PROVE Writers = {t} /\ Readers = {}
  <2>1. t \in AccessHolders /\ at[t] # "asleep_r" /\ Writers \subseteq AccessHolders
    BY Zenon DEF Writers, AccessHolders
  <2>2. QED BY ZenonT(60), <1>1, <2>1 DEF RawInv, AccessInv
<1>2. ASSUME kind = "semaphore" PROVE Cardinality(Writers) <= permits
  <2>1. Writers \subseteq Holders
    BY Zenon, <1>2 DEF Writers, Holders, RawInv, PermitInv
  <2>2. IsFiniteSet(Holders) /\ Cardinality(Holders) \in Nat
    BY ZenonT(60), RawAssumption, FS_Subset, FS_CardinalityType DEF Holders
  <2>3. Cardinality(Writers) <= Cardinality(Holders) /\ Cardinality(Writers) \in Nat
    BY ZenonT(60), <2>1, <2>2, FS_Subset, FS_CardinalityType
  <2>4. count["access"] \in Int
    BY Zenon DEF RawInv, RawTypeOK, Sems
  <2>5. QED BY SMTT(30), <1>2, <2>2, <2>3, <2>4 DEF RawInv, PermitInv
<1>3. QED BY Zenon, <1>1, <1>2 DEF RawExclusion

(* What the invariant says of the queues. *)
LEMMA RawForgetsNone == RawInv => NoneForgotten
PROOF
<1> SUFFICES ASSUME RawInv PROVE NoneForgotten
  BY Zenon
<1>1. \A s \in Sems : DOMAIN waiters[s] = 1..Len(waiters[s])
  BY SMTT(30) DEF RawInv, RawTypeOK
<1>2. /\ \A c \in Condvars : DOMAIN blocked[c] = 1..Len(blocked[c])
      /\ \A u \in Users : DOMAIN waking[u] = 1..Len(waking[u])
  BY SMTT(30) DEF RawInv, RawTypeOK
<1>3. \A s \in Sems : Len(waiters[s]) = IF count[s] < 0 THEN -count[s] ELSE 0
  BY Zenon DEF RawInv, QueueInv, QueueOK
<1>4. ASSUME NEW t \in Users \ signalled, at[t] \in {"order_r", "order_w"}
      PROVE  \E i \in DOMAIN waiters["order"] : waiters["order"][i] = t
  BY ZenonT(60), <1>1, <1>4 DEF RawInv, QueueInv, QueueOK, Sleeping, SleepPlaces, Sems
<1>5. ASSUME NEW t \in Users \ signalled, at[t] \in {"asleep_r", "asleep_w"}
      PROVE  \E i \in DOMAIN waiters["access"] : waiters["access"][i] = t
  BY ZenonT(60), <1>1, <1>5 DEF RawInv, QueueInv, QueueOK, Sleeping, SleepPlaces, Sems
<1>6. ASSUME NEW t \in Users \ signalled, at[t] = "cond"
      PROVE  \/ \E c \in Condvars : \E i \in DOMAIN blocked[c] : blocked[c][i] = t
             \/ \E u \in Users : \E i \in DOMAIN waking[u] : waking[u][i] = t
  <2>1. t \in OnCond
    BY Zenon, <1>6 DEF OnCond
  <2>2. QED BY ZenonT(60), <1>2, <2>1 DEF RawInv, CondInv, CondFound
<1>7. RawTypeOK
  BY Zenon DEF RawInv
<1>8. QED BY ZenonT(60), <1>3, <1>4, <1>5, <1>6, <1>7 DEF NoneForgotten

(* A step of lock.rs is one of raw.rs, or leaves its state alone. *)
LEMMA LocksKeep ==
  ASSUME RawInv, LocksNext
  PROVE  RawInv'
PROOF
<1>1. ASSUME NEW t \in Users, Start(t) PROVE RawInv'
  BY Zenon, <1>1, RawCallKeeps DEF Start
<1>2. ASSUME NEW t \in Users, Go(t) \/ Work(t) PROVE RawInv'
  BY ZenonT(60), <1>2, InCallKeeps, WithGuardKeeps DEF Go, Work
<1>3. ASSUME NEW t \in Users, Drop(t) \/ LeaveBarrier(t) PROVE RawInv'
  BY ZenonT(60), <1>3, DropWriterKeeps, DropReaderKeeps DEF Drop, LeaveBarrier
<1>4. ASSUME NEW t \in Users, FailInside(t) \/ FailReading(t) \/ CheckFails(t) \/ DropPoison(t)
      PROVE  RawInv'
  BY ZenonT(60), <1>4, RawStutter DEF FailInside, FailReading, CheckFails, DropPoison
<1>5. ASSUME NEW t \in Users, ArriveLast(t) PROVE RawInv'
  <2>1. CASE UNCHANGED rawvars BY ZenonT(60), <2>1, RawStutter
  <2>2. CASE Broadcast(t, 0) BY ZenonT(60), <2>2, BroadcastKeeps DEF Broadcast
  <2>3. QED BY ZenonT(60), <1>5, <2>1, <2>2 DEF ArriveLast
<1>6. ASSUME NEW t \in Users, Arrive(t) PROVE RawInv'
  <2>1. Wait(t, 0) /\ nuse' \in Nat
    BY Zenon, <1>6 DEF Arrive, RawInv, RawTypeOK
  <2>2. QED BY ZenonT(60), <2>1, WaitKeeps DEF Wait
<1>7. CASE LocksOver
  BY Zenon, <1>7, RawStutter DEF LocksOver, lockvars
<1>8. QED BY ZenonT(60), <1>1, <1>2, <1>3, <1>4, <1>5, <1>6, <1>7 DEF LocksNext, LocksStep, Proceed

(* What Raw promises, of the semaphore, the mutex and the reader-writer     *)
(* lock of raw.rs by themselves: a writer is alone, also with the           *)
(* hand-over of a downgrade and the reacquire after a wait.                 *)
THEOREM RawMutualExclusion == RawSpec => []RawExclusion
PROOF
<1>1. RawInv /\ [RawNext]_rawvars => RawInv'
  <2>1. SUFFICES ASSUME RawInv, [RawNext]_rawvars PROVE RawInv'
    BY Zenon
  <2>2. CASE UNCHANGED rawvars BY ZenonT(60), <2>1, <2>2, RawStutter
  <2>3. CASE RawNext
    BY ZenonT(60), <2>1, <2>3, RawCallKeeps, InCallKeeps, WithGuardKeeps, DropWriterKeeps, DropReaderKeeps
       DEF RawNext
  <2>4. QED BY <2>1, <2>2, <2>3
<1>2. QED BY <1>1, RawStart, RawExcludes, PTL DEF RawSpec

(* The invariant of Raw always holds of Locks, too. *)
LEMMA LocksInvariant == LocksSpec => []RawInv
PROOF
<1>1. LocksInit => RawInv
  BY ZenonT(60), RawStart DEF LocksInit
<1>2. RawInv /\ [LocksNext]_lockvars => RawInv'
  <2>1. SUFFICES ASSUME RawInv, [LocksNext]_lockvars PROVE RawInv'
    BY Zenon
  <2>2. CASE UNCHANGED lockvars
    <3>1. UNCHANGED rawvars BY Zenon, <2>2 DEF lockvars
    <3>2. QED BY ZenonT(60), <2>1, <3>1, RawStutter
  <2>3. CASE LocksNext BY ZenonT(60), <2>1, <2>3, LocksKeep
  <2>4. QED BY <2>1, <2>2, <2>3
<1>3. QED BY <1>1, <1>2, PTL DEF LocksSpec

(* Mutual exclusion with lock.rs on top, whose tasks fail, poison and wait  *)
(* at barriers: any number of tasks, condition variables and permits.       *)
THEOREM LocksMutualExclusion == LocksSpec => []RawExclusion
  BY LocksInvariant, RawExcludes, PTL

(* A queue of a Sem is as long as its count says, and who sleeps on a lock  *)
(* or a condition variable, or is being woken by a broadcast, is in its     *)
(* queue.                                                                   *)
THEOREM LocksForgetNone == LocksSpec => []NoneForgotten
  BY LocksInvariant, RawForgetsNone, PTL

-----------------------------------------------------------------------------
(* Poisoning.                                                               *)

(* A step moves one task only. *)
LEMMA OneMoves ==
  ASSUME RawTypeOK, NEW t \in Users,
         RawCall(t) \/ InCall(t) \/ WithGuard(t) \/ DropWriter(t) \/ DropReader(t)
  PROVE  kind' = kind /\ \A u \in Users : u # t => at'[u] = at[u]
PROOF
<1>1. at \in [Users -> Places]
  BY Zenon DEF RawTypeOK
<1> DEFINE Moved == kind' = kind /\ (at' = at \/ \E p : at' = [at EXCEPT ![t] = p])
<1>2. CASE RawCall(t)
  <2>1. Moved
    BY ZenonT(60), <1>2 DEF RawCall, LockCall, Give, ReadCall, WriteCall, Acquire
  <2>2. QED BY ZenonT(60), <1>1, <2>1
<1>3. CASE InCall(t)
  <2>1. Moved
    BY ZenonT(60), <1>3 DEF InCall, Woken, ReadAdd, AccessRead, AccessWrite, LeaveOrder, DropLast,
       HandOff, Reacquire, BroadcastOne, Acquire, Move
  <2>2. QED BY Zenon, <1>1, <2>1
<1>4. CASE WithGuard(t)
  <2>1. Moved
    BY ZenonT(60), <1>4 DEF WithGuard, Downgrade, WaitCall, Wait, Signal, Broadcast, Move
  <2>2. QED BY Zenon, <1>1, <2>1
<1>5. CASE DropWriter(t) \/ DropReader(t)
  <2>1. Moved
    BY Zenon, <1>5 DEF DropWriter, DropReader, Move
  <2>2. QED BY Zenon, <1>1, <2>1
<1>6. QED BY ZenonT(60), <1>2, <1>3, <1>4, <1>5

(* A task that is inside a call has no guard yet, or gives up the last one  *)
(* of a reader.                                                             *)
LEMMA InCallMoves ==
  ASSUME RawTypeOK, NEW t \in Users, InCall(t)
  PROVE  /\ at[t] \notin {"idle", "writing", "reading"}
         /\ at[t] = "last" => at'[t] = "idle"
PROOF
<1>1. at \in [Users -> Places]
  BY Zenon DEF RawTypeOK
<1>2. at[t] \notin {"idle", "writing", "reading"}
  BY ZenonT(60) DEF InCall, Woken, ReadAdd, AccessRead, AccessWrite, LeaveOrder, DropLast,
     HandOff, Reacquire, BroadcastOne, Move
<1>3. ASSUME at[t] = "last" PROVE at'[t] = "idle"
  <2>1. DropLast(t)
    BY ZenonT(60), <1>3 DEF InCall, Woken, ReadAdd, AccessRead, AccessWrite, LeaveOrder,
       HandOff, Reacquire, BroadcastOne, Move
  <2>2. QED BY ZenonT(60), <1>1, <2>1 DEF DropLast, Move
<1>4. QED BY Zenon, <1>2, <1>3

(* What the steps of one task t may do to PoisonInv where poisoned, torn    *)
(* and failing stay: t owed nothing, and does not come back as a writer     *)
(* that has failed.                                                         *)
LEMMA PoisonFrame ==
  ASSUME PoisonInv, NEW t \in Users, kind' = kind, barrier' = barrier,
         \A u \in Users : u # t => at'[u] = at[u],
         UNCHANGED <<poisoned, torn, failing>>,
         \A u \in Users : u # t => (u \in failed' <=> u \in failed),
         \A u \in Users : u # t => (u \in unpoisoned' <=> u \in unpoisoned),
         failed' \subseteq failing, unpoisoned' \subseteq failing,
         ~Owes(t),
         t \in failing \ failed' => t \notin failed /\ (at[t] \in {"idle", "reading", "last"}
                                     => at'[t] \in {"idle", "reading", "last"})
  PROVE  PoisonInv'
PROOF
<1>1. ASSUME NEW u \in Users, Owes(u) PROVE Owes(u)'
  <2>1. u # t
    BY Zenon, <1>1
  <2>2. u \in failing /\ u \notin failed /\ u \notin unpoisoned /\ at[u] = "writing"
    BY Zenon, <1>1 DEF Owes
  <2>3. u \in failing' /\ u \notin failed' /\ u \notin unpoisoned' /\ at'[u] = "writing"
    BY ZenonT(60), <2>1, <2>2
  <2>4. QED BY Zenon, <2>3 DEF Owes
<1>2. ASSUME NEW u \in failing' \ failed' PROVE torn' \/ at'[u] \in {"idle", "reading", "last"}
  <2>0. u \in failing /\ u \notin failed' /\ u \in Users
    BY Zenon, <1>2 DEF PoisonInv
  <2>1. u \notin failed
    <3>1. CASE u = t BY ZenonT(60), <2>0, <3>1
    <3>2. CASE u # t BY ZenonT(60), <2>0, <3>2
    <3>3. QED BY ZenonT(60), <3>1, <3>2
  <2>2. torn \/ at[u] \in {"idle", "reading", "last"}
    BY ZenonT(60), <2>0, <2>1 DEF PoisonInv
  <2>3. CASE u = t BY ZenonT(60), <2>0, <2>2, <2>3
  <2>4. CASE u # t BY ZenonT(60), <2>0, <2>2, <2>4
  <2>5. QED BY ZenonT(60), <2>3, <2>4
<1>3. QED BY ZenonT(60), <1>1, <1>2 DEF PoisonInv

(* Every step of lock.rs keeps PoisonInv.                                   *)
LEMMA PoisonKept ==
  ASSUME RawTypeOK, PoisonInv, LocksNext
  PROVE  PoisonInv'
PROOF
<1>1. ASSUME NEW t \in Users, Start(t) PROVE PoisonInv'
  <2>1. /\ RawCall(t) /\ UNCHANGED <<barrier, poisoned, failing, unpoisoned, torn>>
        /\ failed' = IF t \in failing THEN failed \cup {t} ELSE failed
    BY Zenon, <1>1 DEF Start
  <2>2. at[t] = "idle"
    BY Zenon, <2>1 DEF RawCall, LockCall, Give, ReadCall, WriteCall, Use
  <2>3. ~Owes(t)
    BY Zenon, <2>2 DEF Owes
  <2>4. t \notin failing \ failed' /\ \A u \in Users : u # t => (u \in failed' <=> u \in failed)
    BY Zenon, <2>1
  <2>5. kind' = kind /\ \A u \in Users : u # t => at'[u] = at[u]
    BY ZenonT(60), <2>1, OneMoves
  <2>6. failed' \subseteq failing /\ unpoisoned' \subseteq failing
    BY Zenon, <2>1 DEF PoisonInv
  <2>7. QED BY ZenonT(60), <2>1, <2>3, <2>4, <2>5, <2>6, PoisonFrame
<1>2. ASSUME NEW t \in Users, Go(t) PROVE PoisonInv'
  <2>1. InCall(t) /\ UNCHANGED <<barrier, poisoned, failing, failed, unpoisoned, torn>>
    BY Zenon, <1>2 DEF Go, poison
  <2>2. /\ at[t] \notin {"idle", "writing", "reading"}
        /\ at[t] = "last" => at'[t] = "idle"
    BY ZenonT(60), <2>1, InCallMoves
  <2>3. ~Owes(t)
    BY Zenon, <2>2 DEF Owes
  <2>5. kind' = kind /\ \A u \in Users : u # t => at'[u] = at[u]
    BY ZenonT(60), <2>1, OneMoves
  <2>6. QED BY ZenonT(60), <2>1, <2>2, <2>3, <2>5, PoisonFrame DEF PoisonInv
<1>3. ASSUME NEW t \in Users, Work(t) PROVE PoisonInv'
  <2>1. WithGuard(t) /\ UNCHANGED <<barrier, poisoned, failing, failed, unpoisoned, torn>>
        /\ t \notin failing \ failed
    BY ZenonT(60), <1>3 DEF Work, Plain, poison, Runs
  <2>3. ~Owes(t)
    BY ZenonT(60), <2>1 DEF Owes
  <2>5. kind' = kind /\ \A u \in Users : u # t => at'[u] = at[u]
    BY ZenonT(60), <2>1, OneMoves
  <2>6. QED BY ZenonT(60), <2>1, <2>3, <2>5, PoisonFrame DEF PoisonInv
<1>4. ASSUME NEW t \in Users, Drop(t) PROVE PoisonInv'
  <2>1. /\ DropWriter(t) \/ DropReader(t)
        /\ UNCHANGED <<barrier, poisoned, failing, failed, torn>>
        /\ unpoisoned' = unpoisoned \ {t}
    BY ZenonT(60), <1>4 DEF Drop, Plain
  <2>2. ~Owes(t)
    BY ZenonT(60), <1>4 DEF Drop, Owes, DropWriter, DropReader, Move
  <2>3. at'[t] \in {"idle", "reading", "last"}
    BY Zenon, <2>1 DEF DropWriter, DropReader, Move, RawTypeOK
  <2>5. kind' = kind /\ \A u \in Users : u # t => at'[u] = at[u]
    BY ZenonT(60), <2>1, OneMoves
  <2>6. \A u \in Users : u # t => (u \in unpoisoned' <=> u \in unpoisoned)
    BY Zenon, <2>1
  <2>7. failed' \subseteq failing /\ unpoisoned' \subseteq failing
    BY Zenon, <2>1 DEF PoisonInv
  <2>8. QED BY ZenonT(60), <2>1, <2>2, <2>3, <2>5, <2>6, <2>7, PoisonFrame
<1>5. ASSUME NEW t \in Users, FailInside(t) PROVE PoisonInv'
  <2>1. /\ failing' = failing \cup {t} /\ torn' = TRUE /\ ~barrier /\ barrier' = barrier
        /\ kind # "semaphore" /\ at[t] = "writing" /\ t \notin failing
        /\ UNCHANGED <<kind, at, poisoned, failed, unpoisoned>>
    BY Zenon, <1>5 DEF FailInside, Plain, rawvars
  <2>2. poisoned' \/ \E u \in Users : Owes(u)'
    BY Zenon, <2>1 DEF PoisonInv, Owes
  <2>3. QED BY ZenonT(60), <2>1, <2>2 DEF PoisonInv
<1>6. ASSUME NEW t \in Users, FailReading(t) PROVE PoisonInv'
  <2>1. /\ failing' = failing \cup {t} /\ ~barrier /\ barrier' = barrier /\ at[t] = "reading"
        /\ UNCHANGED <<kind, at, poisoned, failed, unpoisoned, torn>>
    BY Zenon, <1>6 DEF FailReading, Plain, rawvars
  <2>2. \A u \in Users : Owes(u) => Owes(u)'
    BY Zenon, <2>1 DEF Owes
  <2>3. QED BY ZenonT(60), <2>1, <2>2 DEF PoisonInv
<1>7. ASSUME NEW t \in Users, CheckFails(t) PROVE PoisonInv'
  <2>1. /\ failing' = failing \cup {t} /\ ~barrier /\ barrier' = barrier /\ poisoned
        /\ UNCHANGED <<kind, at, poisoned, failed, unpoisoned, torn>>
    BY ZenonT(60), <1>7 DEF CheckFails, Plain, rawvars
  <2>2. QED BY ZenonT(60), <2>1 DEF PoisonInv
<1>8. ASSUME NEW t \in Users, DropPoison(t) PROVE PoisonInv'
  <2>1. /\ t \in failing /\ t \notin unpoisoned /\ ~barrier /\ barrier' = barrier
        /\ at[t] = "writing"
        /\ poisoned' = (poisoned \/ t \notin failed) /\ unpoisoned' = unpoisoned \cup {t}
        /\ UNCHANGED <<kind, at, failing, failed, torn>>
    BY ZenonT(60), <1>8 DEF DropPoison, Plain, rawvars
  <2>2. t \notin failed => torn
    BY ZenonT(60), <2>1 DEF PoisonInv
  <2>3. poisoned' => torn'
    BY ZenonT(60), <2>1, <2>2 DEF PoisonInv
  <2>4. ASSUME torn', ~poisoned' PROVE \E u \in Users : Owes(u)'
    <3>1. PICK u \in Users : Owes(u)
      BY ZenonT(60), <2>1, <2>4 DEF PoisonInv
    <3>2. u # t
      BY ZenonT(60), <2>1, <2>4, <3>1 DEF Owes
    <3>3. QED BY ZenonT(60), <2>1, <3>1, <3>2 DEF Owes
  <2>5. QED BY ZenonT(60), <2>1, <2>3, <2>4 DEF PoisonInv
<1>9. ASSUME NEW t \in Users, Arrive(t) \/ ArriveLast(t) \/ LeaveBarrier(t)
      PROVE  PoisonInv'
  <2>1. barrier /\ UNCHANGED <<barrier, poisoned, failing, failed, unpoisoned, torn>>
    BY ZenonT(60), <1>9 DEF Arrive, ArriveLast, LeaveBarrier, poison
  <2>2. QED BY ZenonT(60), <2>1 DEF PoisonInv
<1>10. CASE LocksOver
  <2>1. UNCHANGED <<kind, at, barrier, poisoned, failing, failed, unpoisoned, torn>>
    BY ZenonT(60), <1>10 DEF LocksOver, lockvars, rawvars, poison
  <2>2. QED BY ZenonT(60), <2>1 DEF PoisonInv, Owes
<1>11. QED BY ZenonT(60), <1>1, <1>2, <1>3, <1>4, <1>5, <1>6, <1>7, <1>8, <1>9, <1>10
  DEF LocksNext, LocksStep, Proceed

(* A task that has left data half-written holds the lock until the flag is  *)
(* up, so that by mutual exclusion nobody else uses the data before.        *)
LEMMA PoisonGuards ==
  ASSUME RawExclusion, PoisonInv PROVE PoisonSeen
PROOF
<1>1. ASSUME torn, ~poisoned, NEW t \in Writers \cup Readers, Runs(t) PROVE FALSE
  <2>1. PICK u \in Users : Owes(u)
    BY Zenon, <1>1 DEF PoisonInv
  <2>2. u \in Writers
    BY ZenonT(60), <2>1 DEF Owes, Writers
  <2>3. Writers = {u} /\ Readers = {}
    BY ZenonT(60), <1>1, <2>2 DEF PoisonInv, RawExclusion
  <2>4. t = u
    BY Zenon, <2>3
  <2>5. QED BY ZenonT(60), <1>1, <2>1, <2>4 DEF Owes, Runs
<1>2. poisoned => torn
  BY Zenon DEF PoisonInv
<1>3. QED BY ZenonT(60), <1>1, <1>2 DEF PoisonSeen

(* Whoever uses data that a failing task left half-written finds the lock   *)
(* poisoned, since the flag is set before the lock is released; and only    *)
(* such a failure poisons it: for any number of tasks, that fail, unwind    *)
(* and lock again in destructors.                                           *)
THEOREM LocksPoison == LocksSpec => []PoisonSeen
PROOF
<1>1. LocksInit => PoisonInv
  BY ZenonT(60) DEF LocksInit, PoisonInv
<1>2. RawInv /\ PoisonInv /\ [LocksNext]_lockvars => PoisonInv'
  <2>1. SUFFICES ASSUME RawInv, PoisonInv, [LocksNext]_lockvars PROVE PoisonInv'
    BY Zenon
  <2>2. CASE UNCHANGED lockvars
    <3>1. UNCHANGED <<kind, at, barrier, poisoned, failing, failed, unpoisoned, torn>>
      BY Zenon, <2>2 DEF lockvars, rawvars, poison
    <3>2. QED BY ZenonT(60), <2>1, <3>1 DEF PoisonInv, Owes
  <2>3. CASE LocksNext
    BY ZenonT(60), <2>1, <2>3, PoisonKept DEF RawInv
  <2>4. QED BY ZenonT(60), <2>1, <2>2, <2>3
<1>3. RawInv /\ PoisonInv => PoisonSeen
  BY ZenonT(60), RawExcludes, PoisonGuards
<1>4. QED BY <1>1, <1>2, <1>3, LocksInvariant, PTL DEF LocksSpec
-----------------------------------------------------------------------------
(* Barrier::wait: the tasks that have come in this generation have come     *)
(* once more than it says, the others as often; a task in the loop has left *)
(* once less than it came.                                                  *)
ThisGeneration == {t \in Users : local_gen[t] = generation_id}
BarrierInv ==
    /\ generation_id \in Nat /\ local_gen \in [Users -> Int]
    /\ entered \in [Users -> Int] /\ left \in [Users -> Int]
    /\ arrivals = Cardinality(ThisGeneration)
    /\ \A t \in Users :
         /\ local_gen[t] <= generation_id
         /\ entered[t] = IF local_gen[t] = generation_id THEN generation_id + 1 ELSE generation_id
         /\ left[t] = IF local_gen[t] = -1 THEN entered[t] ELSE entered[t] - 1

(* The tasks of this generation of the barrier can be counted. *)
LEMMA GenerationFinite == IsFiniteSet(ThisGeneration) /\ Cardinality(ThisGeneration) \in Nat
  BY ZenonT(60), RawAssumption, FS_Subset, FS_CardinalityType DEF ThisGeneration

(* Every step keeps the invariant of the barrier. *)
LEMMA BarrierStep ==
  ASSUME BarrierInv, LocksNext
  PROVE  BarrierInv'
PROOF
<1>1. ASSUME NEW t \in Users, Arrive(t) PROVE BarrierInv'
  <2>1. /\ local_gen[t] = -1 /\ arrivals' = arrivals + 1 /\ UNCHANGED <<generation_id, left>>
        /\ local_gen' = [local_gen EXCEPT ![t] = generation_id]
        /\ entered' = [entered EXCEPT ![t] = @ + 1]
    BY ZenonT(60), <1>1 DEF Arrive
  <2>2. ThisGeneration' = ThisGeneration \cup {t} /\ t \notin ThisGeneration
    BY SMTT(30), <2>1 DEF ThisGeneration, BarrierInv
  <2>3. arrivals' = Cardinality(ThisGeneration')
    BY ZenonT(60), <2>1, <2>2, GenerationFinite, FS_AddElement DEF BarrierInv
  <2>4. QED BY SMTT(30), <2>1, <2>3 DEF BarrierInv
<1>2. ASSUME NEW t \in Users, ArriveLast(t) PROVE BarrierInv'
  <2>1. /\ local_gen[t] = -1 /\ arrivals' = 0 /\ generation_id' = generation_id + 1
        /\ local_gen' = [local_gen EXCEPT ![t] = generation_id]
        /\ entered' = [entered EXCEPT ![t] = @ + 1] /\ left' = left
        /\ arrivals + 1 >= num_tasks
    BY Zenon, <1>2 DEF ArriveLast, IsLast
  <2>2. ThisGeneration \cup {t} = Users
    <3> DEFINE S == ThisGeneration \cup {t}
    <3>1. t \notin ThisGeneration /\ S \in SUBSET Users
      BY SMTT(30), <2>1 DEF ThisGeneration, BarrierInv
    <3>2. Cardinality(S) = arrivals + 1
      BY ZenonT(60), <3>1, GenerationFinite, FS_AddElement DEF BarrierInv
    <3>3. Cardinality(S) <= Cardinality(Users) /\ (Cardinality(Users) = Cardinality(S) => Users = S)
      BY ZenonT(60), <3>1, RawAssumption, FS_Subset
    <3>4. Cardinality(Users) \in Nat /\ Cardinality(S) \in Nat
      BY SMTT(60), <3>2, RawAssumption, GenerationFinite, FS_CardinalityType DEF BarrierInv
    <3> HIDE DEF S
    <3>5. Cardinality(Users) = Cardinality(S)
      BY SMTT(60), <2>1, <3>2, <3>3, <3>4, BarrierAssumption
    <3>6. QED BY ZenonT(60), <3>3, <3>5 DEF S
  <2>3. \A u \in Users : u # t => local_gen[u] = generation_id
    BY Zenon, <2>2 DEF ThisGeneration
  <2>4. \A u \in Users : local_gen'[u] = generation_id
    BY ZenonT(60), <2>1, <2>3 DEF BarrierInv
  <2>5. ThisGeneration' = {}
    BY SMTT(30), <2>1, <2>4 DEF ThisGeneration, BarrierInv
  <2>6. arrivals' = Cardinality(ThisGeneration')
    BY ZenonT(60), <2>1, <2>5, FS_EmptySet
  <2>7. QED BY SMTT(30), <2>1, <2>3, <2>4, <2>6 DEF BarrierInv
<1>3. ASSUME NEW t \in Users, LeaveBarrier(t) PROVE BarrierInv'
  <2>1. /\ local_gen[t] # -1 /\ local_gen[t] # generation_id
        /\ local_gen' = [local_gen EXCEPT ![t] = -1] /\ left' = [left EXCEPT ![t] = @ + 1]
        /\ UNCHANGED <<arrivals, generation_id, entered>>
    BY ZenonT(60), <1>3 DEF LeaveBarrier
  <2>2. ThisGeneration' = ThisGeneration
    BY SMTT(30), <2>1 DEF ThisGeneration, BarrierInv
  <2>3. QED BY SMTT(30), <2>1, <2>2 DEF BarrierInv
<1>4. CASE UNCHANGED state_of_barrier
  <2>1. UNCHANGED <<arrivals, generation_id, local_gen, entered, left>>
    BY ZenonT(60), <1>4 DEF state_of_barrier
  <2>2. ThisGeneration' = ThisGeneration
    BY Zenon, <2>1 DEF ThisGeneration
  <2>3. QED BY ZenonT(60), <2>1, <2>2 DEF BarrierInv
<1>5. QED
  BY ZenonT(60), <1>1, <1>2, <1>3, <1>4
     DEF LocksNext, LocksStep, Proceed, Start, Go, Work, Drop, DropPoison, FailInside,
         FailReading, CheckFails, LocksOver, Plain, lockvars

(* No task leaves the barrier before all have come to it as often, for any  *)
(* number of tasks.                                                         *)
THEOREM LocksBarrier == LocksSpec => []BarrierTogether
PROOF
<1>1. LocksInit => BarrierInv
  <2>1. SUFFICES ASSUME LocksInit PROVE BarrierInv
    BY Zenon
  <2>2. ThisGeneration = {}
    BY SMTT(30), <2>1 DEF LocksInit, ThisGeneration
  <2>3. QED BY SMTT(60), <2>1, <2>2, FS_EmptySet DEF LocksInit, BarrierInv
<1>2. BarrierInv /\ [LocksNext]_lockvars => BarrierInv'
  <2>1. SUFFICES ASSUME BarrierInv, [LocksNext]_lockvars PROVE BarrierInv'
    BY Zenon
  <2>2. CASE UNCHANGED lockvars
    <3>1. UNCHANGED <<arrivals, generation_id, local_gen, entered, left>>
      BY ZenonT(60), <2>2 DEF lockvars, state_of_barrier
    <3>2. ThisGeneration' = ThisGeneration
      BY ZenonT(60), <3>1 DEF ThisGeneration
    <3>3. QED BY ZenonT(60), <2>1, <3>1, <3>2 DEF BarrierInv
  <2>3. CASE LocksNext BY Zenon, <2>1, <2>3, BarrierStep
  <2>4. QED BY ZenonT(60), <2>1, <2>2, <2>3
<1>3. BarrierInv => BarrierTogether
  BY DEF BarrierInv, BarrierTogether
<1>4. QED BY <1>1, <1>2, <1>3, PTL DEF LocksSpec
=============================================================================
