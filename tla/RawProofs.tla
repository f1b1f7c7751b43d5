----------------------------- MODULE RawProofs ------------------------------
(***************************************************************************)
(* The inductive invariant of Raw, for any number of tasks, condition      *)
(* variables and permits; what acquire and release of a Sem (raw.rs) do to *)
(* it; and what the calls that take and give back a lock do to it: the     *)
(* readers' count, downgrade and drop.  LocksProofs goes on from here.     *)
(***************************************************************************)
EXTENDS Raw, TLAPS, FiniteSetTheorems

(* The tasks in the wait queue of a semaphore, and of condition variables. *)
SleepPlaces(s) == IF s = "order" THEN {"order_r", "order_w"} ELSE {"asleep_r", "asleep_w"}
Sleeping(s) == {t \in Users \ signalled : at[t] \in SleepPlaces(s)}
OnCond == {t \in Users \ signalled : at[t] = "cond"}

(* The places of a task when the object is no reader-writer lock. *)
PlaceInv ==
    kind # "rwlock" =>
        /\ read_count = 0
        /\ \A t \in Users : at[t] \in {"idle", "asleep_w", "writing", "cond", "bcast"}

(* A signal is with a task that sleeps. *)
SignalInv ==
    \A t \in signalled : at[t] \in {"order_r", "order_w", "asleep_r", "asleep_w", "cond"}

(* A wait queue is as long as the count is negative, and has each of the    *)
(* tasks that sleep on the semaphore once.                                  *)
QueueOK(s) ==
    /\ Len(waiters[s]) = IF count[s] < 0 THEN -count[s] ELSE 0
    /\ \A i \in 1..Len(waiters[s]) : waiters[s][i] \in Sleeping(s)
    /\ \A i, j \in 1..Len(waiters[s]) : waiters[s][i] = waiters[s][j] => i = j
    /\ \A t \in Sleeping(s) : \E i \in 1..Len(waiters[s]) : waiters[s][i] = t
QueueInv == \A s \in Sems : QueueOK(s)

(* So have the queues of the condition variables, and those that were       *)
(* swapped out by a broadcast.                                              *)
CondAsleep ==
    /\ \A c \in Condvars : \A i \in 1..Len(blocked[c]) : blocked[c][i] \in OnCond
    /\ \A u \in Users : \A i \in 1..Len(waking[u]) : waking[u][i] \in OnCond
    /\ \A u \in Users : at[u] # "bcast" => Len(waking[u]) = 0
BlockedOnce ==
    \A c, d \in Condvars : \A i \in 1..Len(blocked[c]), j \in 1..Len(blocked[d]) :
      blocked[c][i] = blocked[d][j] => c = d /\ i = j
WakingOnce ==
    \A u, v \in Users : \A i \in 1..Len(waking[u]), j \in 1..Len(waking[v]) :
      waking[u][i] = waking[v][j] => u = v /\ i = j
NotInBoth ==
    \A c \in Condvars, u \in Users : \A i \in 1..Len(blocked[c]), j \in 1..Len(waking[u]) :
      blocked[c][i] # waking[u][j]
CondFound ==
    \A t \in OnCond :
      \/ \E c \in Condvars : \E i \in 1..Len(blocked[c]) : blocked[c][i] = t
      \/ \E u \in Users : \E i \in 1..Len(waking[u]) : waking[u][i] = t
CondInv == CondAsleep /\ BlockedOnce /\ WakingOnce /\ NotInBoth /\ CondFound

(* The task that holds the order lock, or has been given it. *)
OrderHolders ==
    {t \in Users :
       \/ at[t] \in {"add", "acc_r", "acc_w", "leave_r", "leave_w", "asleep_r", "asleep_w"}
       \/ at[t] \in {"order_r", "order_w"} /\ t \in signalled}
OrderInv ==
    kind = "rwlock" =>
        /\ count["order"] <= 1
        /\ count["order"] = 1 => OrderHolders = {}
        /\ \A t, u \in OrderHolders : t = u

(* The task that has the permit of the access lock, when it is not with the *)
(* readers that are inside, and the first reader on its way in.             *)
AccessHolders ==
    {t \in Users :
       \/ at[t] \in {"leave_w", "writing", "bcast", "hand", "last"}
       \/ at[t] \in {"asleep_w", "asleep_r"} /\ t \in signalled}
FirstReaders == {t \in Users : at[t] \in {"acc_r", "asleep_r"}}
AccessInv ==
    kind # "semaphore" =>
        /\ count["access"] <= 1
        /\ count["access"] = 1 =>
             AccessHolders = {} /\ (Readers # {} => FirstReaders # {})
        /\ \A t, u \in AccessHolders : t = u
        /\ \A t \in AccessHolders : Readers # {} => at[t] = "asleep_r"
        /\ \A t \in Users : at[t] = "hand" => FirstReaders # {}

(* The readers that read_count counts. *)
Counted == {t \in Users : at[t] \in {"acc_r", "asleep_r", "leave_r", "reading", "hand"}}
CountInv == read_count = Cardinality(Counted)

(* The tasks that hold a permit of a Semaphore, or have been given one. *)
Holders == {t \in Users : at[t] = "writing" \/ (at[t] = "asleep_w" /\ t \in signalled)}
PermitInv ==
    kind = "semaphore" =>
        /\ permits = Cardinality(Holders) + IF count["access"] > 0 THEN count["access"] ELSE 0
        /\ \A t \in Users : at[t] \in {"idle", "asleep_w", "writing"}

RawInv ==
    /\ RawTypeOK /\ PlaceInv /\ SignalInv /\ QueueInv /\ CondInv /\ OrderInv
    /\ AccessInv /\ CountInv /\ PermitInv
-----------------------------------------------------------------------------
(* What Append and Tail do to a queue. *)
LEMMA AppendFacts ==
  ASSUME NEW S, NEW q \in Seq(S), NEW e \in S
  PROVE  /\ Append(q, e) \in Seq(S) /\ Len(Append(q, e)) = Len(q) + 1
         /\ \A i \in 1..Len(q) : Append(q, e)[i] = q[i]
         /\ Append(q, e)[Len(q) + 1] = e
  BY SMTT(30)

(* A sequence without its first item. *)
LEMMA TailFacts ==
  ASSUME NEW S, NEW q \in Seq(S), Len(q) > 0
  PROVE  /\ Tail(q) \in Seq(S) /\ Len(Tail(q)) = Len(q) - 1
         /\ Head(q) = q[1] /\ Head(q) \in S
         /\ \A i \in 1..(Len(q) - 1) : Tail(q)[i] = q[i + 1]
  BY SMTT(30)

(* The conjuncts of QueueOK, with the types. *)
LEMMA QueueFacts ==
  ASSUME RawTypeOK, QueueInv, NEW r \in Sems
  PROVE  /\ waiters[r] \in Seq(Users) /\ count[r] \in Int /\ Len(waiters[r]) \in Nat
         /\ Len(waiters[r]) = IF count[r] < 0 THEN -count[r] ELSE 0
         /\ \A i \in 1..Len(waiters[r]) : waiters[r][i] \in Sleeping(r)
         /\ \A i, j \in 1..Len(waiters[r]) : waiters[r][i] = waiters[r][j] => i = j
         /\ \A t \in Sleeping(r) : \E i \in 1..Len(waiters[r]) : waiters[r][i] = t
  BY SMTT(30) DEF QueueInv, QueueOK, RawTypeOK

(* acquire keeps the wait queues in order: t was awake, and either goes on  *)
(* or joins the queue that it now sleeps on.                                *)
LEMMA AcquireQueue ==
  ASSUME RawTypeOK, QueueInv,
         NEW s \in Sems, NEW t \in Users, NEW on, NEW asleep,
         Acquire(s, t, on, asleep),
         asleep \in SleepPlaces(s),
         \A r \in Sems : on \notin SleepPlaces(r) /\ at[t] \notin SleepPlaces(r),
         t \notin signalled', signalled \ {t} = signalled' \ {t}
  PROVE  QueueInv'
PROOF
<1>1. SUFFICES ASSUME NEW r \in Sems PROVE QueueOK(r)'
  BY Zenon DEF QueueInv
<1>2. t \notin Sleeping(r)
  BY Zenon DEF Sleeping
<1>3. CASE r = s /\ count[s] - 1 < 0
  <2>1. waiters'[r] = Append(waiters[r], t) /\ count'[r] = count[r] - 1
    BY Zenon, <1>3 DEF Acquire, RawTypeOK
  <2>2. Sleeping(r)' = Sleeping(r) \cup {t}
    BY ZenonT(60), <1>3 DEF Sleeping, Acquire, RawTypeOK
  <2>3. /\ Len(waiters'[r]) = Len(waiters[r]) + 1
        /\ \A i \in 1..Len(waiters[r]) : waiters'[r][i] = waiters[r][i]
        /\ waiters'[r][Len(waiters[r]) + 1] = t
    BY SMTT(30), <2>1, QueueFacts, AppendFacts
  <2>4. \A i \in 1..Len(waiters'[r]) :
          \/ i \in 1..Len(waiters[r]) /\ waiters'[r][i] = waiters[r][i] /\ waiters[r][i] # t
          \/ i = Len(waiters[r]) + 1 /\ waiters'[r][i] = t
    BY SMTT(30), <2>3, <1>2, QueueFacts
  <2>5. (\A u \in Sleeping(r) : \E i \in 1..Len(waiters[r]) : waiters[r][i] = u)'
    <3>1. SUFFICES ASSUME NEW u \in Sleeping(r)'
          PROVE  \E i \in 1..Len(waiters'[r]) : waiters'[r][i] = u
      BY Zenon
    <3>2. CASE u = t
      <4>1. Len(waiters[r]) + 1 \in 1..Len(waiters'[r])
        BY SMTT(30), <2>3, QueueFacts
      <4>2. QED BY Zenon, <3>2, <4>1, <2>3
    <3>3. CASE u # t
      <4>1. PICK i \in 1..Len(waiters[r]) : waiters[r][i] = u
        BY Zenon, <3>3, <2>2, QueueFacts
      <4>2. i \in 1..Len(waiters'[r]) /\ waiters'[r][i] = u
        BY SMTT(30), <4>1, <2>3, QueueFacts
      <4>3. QED BY Zenon, <4>2
    <3>4. QED BY Zenon, <3>2, <3>3
  <2>6. (\A i \in 1..Len(waiters[r]) : waiters[r][i] \in Sleeping(r))'
    BY Zenon, <2>2, <2>4, QueueFacts
  <2>7. (\A i, j \in 1..Len(waiters[r]) : waiters[r][i] = waiters[r][j] => i = j)'
    BY SMTT(60), <2>4, QueueFacts
  <2>8. Len(waiters'[r]) = IF count'[r] < 0 THEN -count'[r] ELSE 0
    BY SMTT(30), <2>1, <2>3, <1>3, QueueFacts
  <2>9. QED BY Zenon, <2>5, <2>6, <2>7, <2>8 DEF QueueOK
<1>4. CASE ~(r = s /\ count[s] - 1 < 0)
  <2>1. waiters'[r] = waiters[r] /\ (r # s => count'[r] = count[r])
        /\ (r = s => count'[r] = count[r] - 1)
    BY Zenon, <1>4 DEF Acquire, RawTypeOK
  <2>2. Sleeping(r)' = Sleeping(r)
    BY Zenon, <1>4 DEF Sleeping, Acquire, RawTypeOK, Sems, SleepPlaces
  <2>3. QED BY SMTT(30), <2>1, <2>2, <1>4, QueueFacts DEF QueueOK
<1>5. QED BY Zenon, <1>3, <1>4

(* release keeps them so: the first of the queue, if it is not empty, is    *)
(* signalled and taken out.                                                 *)
LEMMA ReleaseQueue ==
  ASSUME RawTypeOK, QueueInv,
         NEW s \in Sems, NEW t \in Users, NEW to,
         SemRelease(s), at' = [at EXCEPT ![t] = to],
         \A r \in Sems : to \notin SleepPlaces(r) /\ at[t] \notin SleepPlaces(r)
  PROVE  QueueInv'
PROOF
<1>1. SUFFICES ASSUME NEW r \in Sems PROVE QueueOK(r)'
  BY Zenon DEF QueueInv
<1>2. CASE r = s /\ count[s] + 1 <= 0
  <2>1. /\ waiters'[r] = Tail(waiters[r]) /\ count'[r] = count[r] + 1
        /\ signalled' = signalled \cup {Head(waiters[r])}
    BY Zenon, <1>2 DEF SemRelease, RawTypeOK
  <2>2. Len(waiters[r]) > 0
    BY SMTT(30), <1>2, QueueFacts
  <2>3. /\ Len(waiters'[r]) = Len(waiters[r]) - 1
        /\ \A i \in 1..(Len(waiters[r]) - 1) : waiters'[r][i] = waiters[r][i + 1]
        /\ Head(waiters[r]) = waiters[r][1]
    BY ZenonT(60), <2>1, <2>2, QueueFacts, TailFacts
  <2>4. Sleeping(r)' = Sleeping(r) \ {waiters[r][1]}
    BY Zenon, <2>1, <2>3 DEF Sleeping, RawTypeOK
  <2>5. \A i \in 1..Len(waiters'[r]) :
          /\ i + 1 \in 1..Len(waiters[r]) /\ waiters'[r][i] = waiters[r][i + 1]
          /\ waiters[r][i + 1] # waiters[r][1]
    <3>1. SUFFICES ASSUME NEW i \in 1..(Len(waiters[r]) - 1)
          PROVE  waiters[r][i + 1] # waiters[r][1] /\ i + 1 \in 1..Len(waiters[r])
      BY Zenon, <2>3, QueueFacts
    <3>2. i + 1 \in 1..Len(waiters[r]) /\ 1 \in 1..Len(waiters[r]) /\ i + 1 # 1
      BY SMTT(30), QueueFacts
    <3>3. QED BY Zenon, <3>2, QueueFacts
  <2>6. (\A u \in Sleeping(r) : \E i \in 1..Len(waiters[r]) : waiters[r][i] = u)'
    <3>1. SUFFICES ASSUME NEW u \in Sleeping(r)'
          PROVE  \E i \in 1..Len(waiters'[r]) : waiters'[r][i] = u
      BY Zenon
    <3>2. PICK i \in 1..Len(waiters[r]) : waiters[r][i] = u
      BY Zenon, <2>4, QueueFacts
    <3>3. i - 1 \in 1..(Len(waiters[r]) - 1) /\ (i - 1) + 1 = i
      BY SMTT(30), <3>2, <2>4, QueueFacts
    <3>4. waiters'[r][i - 1] = u
      BY ZenonT(60), <3>2, <3>3, <2>3
    <3>5. QED BY Zenon, <3>3, <3>4, <2>3
  <2>7. (\A i \in 1..Len(waiters[r]) : waiters[r][i] \in Sleeping(r))'
    BY SMTT(60), <2>4, <2>5, QueueFacts
  <2>8. (\A i, j \in 1..Len(waiters[r]) : waiters[r][i] = waiters[r][j] => i = j)'
    <3>1. SUFFICES ASSUME NEW i \in 1..Len(waiters'[r]), NEW j \in 1..Len(waiters'[r]),
                          waiters'[r][i] = waiters'[r][j]
          PROVE  i = j
      BY Zenon
    <3>2. i + 1 = j + 1
      BY SMTT(30), <3>1, <2>5, QueueFacts
    <3>3. QED BY SMTT(30), <3>2
  <2>9. Len(waiters'[r]) = IF count'[r] < 0 THEN -count'[r] ELSE 0
    BY SMTT(30), <2>1, <2>3, <1>2, QueueFacts
  <2>10. QED BY Zenon, <2>6, <2>7, <2>8, <2>9 DEF QueueOK
<1>3. CASE ~(r = s /\ count[s] + 1 <= 0)
  <2>1. waiters'[r] = waiters[r] /\ (r # s => count'[r] = count[r])
        /\ (r = s => count'[r] = count[r] + 1)
    BY Zenon, <1>3 DEF SemRelease, RawTypeOK
  <2>2. Sleeping(r)' = Sleeping(r)
    <3>1. CASE count[s] + 1 <= 0
      <4>1. Len(waiters[s]) > 0
        BY SMTT(30), <3>1, QueueFacts
      <4>2. Head(waiters[s]) = waiters[s][1] /\ waiters[s][1] \in Sleeping(s)
        BY SMTT(30), <4>1, QueueFacts, TailFacts
      <4>3. signalled' = signalled \cup {Head(waiters[s])}
        BY Zenon, <3>1 DEF SemRelease
      <4>4. QED
        BY Zenon, <4>2, <4>3, <3>1, <1>3 DEF Sleeping, RawTypeOK, Sems, SleepPlaces
    <3>2. CASE ~(count[s] + 1 <= 0)
      BY Zenon, <3>2 DEF SemRelease, Sleeping, RawTypeOK
    <3>3. QED BY Zenon, <3>1, <3>2
  <2>3. QED BY SMTT(30), <2>1, <2>2, <1>3, QueueFacts DEF QueueOK
<1>4. QED BY Zenon, <1>2, <1>3

(* The task that release signals was asleep in the queue. *)
LEMMA ReleaseSignals ==
  ASSUME RawTypeOK, QueueInv, NEW s \in Sems, SemRelease(s)
  PROVE  \/ count[s] + 1 <= 0 /\ \E h \in Sleeping(s) : signalled' = signalled \cup {h}
         \/ count[s] + 1 > 0 /\ signalled' = signalled
PROOF
<1>1. CASE count[s] + 1 <= 0
  <2>1. Len(waiters[s]) > 0
    BY SMTT(30), <1>1, QueueFacts
  <2>2. Head(waiters[s]) = waiters[s][1] /\ waiters[s][1] \in Sleeping(s)
    BY SMTT(30), <2>1, QueueFacts, TailFacts
  <2>3. QED BY Zenon, <1>1, <2>2 DEF SemRelease
<1>2. CASE ~(count[s] + 1 <= 0)
  BY SMTT(30), <1>2, QueueFacts DEF SemRelease
<1>3. QED BY Zenon, <1>1, <1>2

(* What a release by t, which was awake and stays so or goes to wait on a   *)
(* condition variable, keeps and what it does.                              *)
LEMMA ReleaseStep ==
  ASSUME RawInv, NEW s \in Sems, NEW t \in Users, NEW to \in Places,
         SemRelease(s), at' = [at EXCEPT ![t] = to],
         \A r \in Sems : to \notin SleepPlaces(r) /\ at[t] \notin SleepPlaces(r),
         at[t] # "cond"
  PROVE  /\ count' \in [Sems -> Int] /\ waiters' \in [Sems -> Seq(Users)]
         /\ signalled' \in SUBSET Users /\ at' \in [Users -> Places]
         /\ QueueInv' /\ SignalInv'
         /\ t \notin signalled /\ t \notin signalled'
         /\ OnCond' = IF to = "cond" THEN OnCond \cup {t} ELSE OnCond
PROOF
<1> USE DEF RawInv
<1>1. \/ count[s] + 1 <= 0 /\ \E h \in Sleeping(s) : signalled' = signalled \cup {h}
      \/ count[s] + 1 > 0 /\ signalled' = signalled
  BY Zenon, ReleaseSignals
<1>2. t \notin signalled
  BY Zenon DEF SignalInv, Sems, SleepPlaces
<1>3. t \notin signalled' /\ signalled' \in SUBSET Users
  BY Zenon, <1>1, <1>2 DEF Sleeping, RawTypeOK
<1>4. count' \in [Sems -> Int] /\ at' \in [Users -> Places]
  BY SMTT(30) DEF SemRelease, RawTypeOK
<1>5. waiters' \in [Sems -> Seq(Users)]
  <2>1. CASE count[s] + 1 <= 0
    <3>1. Tail(waiters[s]) \in Seq(Users)
      BY SMTT(30), <2>1, QueueFacts, TailFacts
    <3>2. QED BY Zenon, <2>1, <3>1 DEF SemRelease, RawTypeOK
  <2>2. CASE ~(count[s] + 1 <= 0)
    BY Zenon, <2>2 DEF SemRelease, RawTypeOK
  <2>3. QED BY Zenon, <2>1, <2>2
<1>6. QueueInv'
  BY Zenon, ReleaseQueue
<1>7. SignalInv'
  BY Zenon, <1>1, <1>2, <1>3 DEF SignalInv, Sleeping, SleepPlaces, RawTypeOK
<1>8. OnCond' = IF to = "cond" THEN OnCond \cup {t} ELSE OnCond
  BY ZenonT(60), <1>1, <1>2 DEF OnCond, Sleeping, SleepPlaces, RawTypeOK
<1>9. QED BY Zenon, <1>2, <1>3, <1>4, <1>5, <1>6, <1>7, <1>8

(* The same of an acquire by t, which was awake or has just been signalled  *)
(* on a condition variable.                                                 *)
LEMMA AcquireStep ==
  ASSUME RawInv, NEW s \in Sems, NEW t \in Users,
         NEW on \in Places, NEW asleep \in SleepPlaces(s),
         Acquire(s, t, on, asleep), signalled' = signalled \ {t},
         \A r \in Sems : on \notin SleepPlaces(r) /\ at[t] \notin SleepPlaces(r),
         on # "cond", at[t] = "cond" => t \in signalled
  PROVE  /\ count' \in [Sems -> Int] /\ waiters' \in [Sems -> Seq(Users)]
         /\ signalled' \in SUBSET Users /\ at' \in [Users -> Places]
         /\ QueueInv' /\ SignalInv' /\ OnCond' = OnCond
PROOF
<1> USE DEF RawInv
<1>1. count' \in [Sems -> Int] /\ at' \in [Users -> Places] /\ signalled' \in SUBSET Users
  BY SMTT(30) DEF Acquire, RawTypeOK, SleepPlaces, Places
<1>2. waiters' \in [Sems -> Seq(Users)]
  <2>1. Append(waiters[s], t) \in Seq(Users)
    BY Zenon, QueueFacts, AppendFacts
  <2>2. QED BY Zenon, <2>1 DEF Acquire, RawTypeOK
<1>3. QueueInv'
  BY Zenon, AcquireQueue
<1>4. SignalInv'
  BY Zenon DEF Acquire, SignalInv, RawTypeOK
<1>5. OnCond' = OnCond
  BY Zenon DEF Acquire, OnCond, RawTypeOK, SleepPlaces
<1>6. QED BY Zenon, <1>1, <1>2, <1>3, <1>4, <1>5

(* Nothing happens on the condition variables. *)
LEMMA CondFrame ==
  ASSUME CondInv, UNCHANGED <<blocked, waking>>, OnCond' = OnCond,
         \A u \in Users : at[u] = "bcast" => at'[u] = "bcast"
  PROVE  CondInv'
  BY SMTT(30) DEF CondInv, CondAsleep, BlockedOnce, WakingOnce, NotInBoth, CondFound

(* Whoever has the access lock and releases it to leave hands it on or      *)
(* leaves it free; no reader is inside.                                     *)
LEMMA ReleaseAccess ==
  ASSUME RawInv, NEW t \in Users, NEW to \in {"idle", "cond"},
         kind' = kind, SemRelease("access"), at' = [at EXCEPT ![t] = to],
         at[t] \in {"writing", "last"}
  PROVE  AccessInv'
PROOF
<1> USE DEF RawInv
<1>1. SUFFICES ASSUME kind # "semaphore" PROVE AccessInv'
  BY Zenon DEF AccessInv
<1>2. count'["access"] = count["access"] + 1 /\ count["access"] \in Int
  BY Zenon DEF SemRelease, RawTypeOK, Sems
<1>3. t \in AccessHolders
  BY Zenon DEF AccessHolders
<1>4. count["access"] <= 0 /\ Readers = {} /\ \A u \in AccessHolders : u = t
  BY SMTT(30), <1>1, <1>2, <1>3 DEF AccessInv
<1>5. t \notin signalled
  BY Zenon DEF SignalInv
<1>6. Readers' = {} /\ \A u \in Users : at'[u] # "hand"
  BY Zenon, <1>4 DEF Readers, AccessHolders, RawTypeOK
<1>7. CASE count["access"] + 1 <= 0
  <2>1. PICK h \in Sleeping("access") : signalled' = signalled \cup {h}
    BY SMTT(30), <1>2, <1>7, ReleaseSignals DEF Sems
  <2>2. \A u \in AccessHolders' : u = h
    BY Zenon, <2>1, <1>4, <1>5 DEF AccessHolders, RawTypeOK
  <2>3. QED BY SMTT(30), <2>2, <1>2, <1>6, <1>7 DEF AccessInv
<1>8. CASE count["access"] + 1 > 0
  <2>1. signalled' = signalled
    BY SMTT(30), <1>2, <1>8, ReleaseSignals DEF Sems
  <2>2. AccessHolders' = {}
    BY Zenon, <2>1, <1>4, <1>5 DEF AccessHolders, RawTypeOK
  <2>3. QED BY SMTT(30), <2>2, <1>2, <1>4, <1>6, <1>8 DEF AccessInv
<1>9. QED BY SMTT(30), <1>2, <1>7, <1>8

(* A permit of a Semaphore that is released goes to the first waiter or     *)
(* becomes free.                                                            *)
LEMMA ReleasePermit ==
  ASSUME RawInv, NEW t \in Users, kind = "semaphore", kind' = kind,
         SemRelease("access"),
         \/ at[t] = "writing" /\ at' = [at EXCEPT ![t] = "idle"] /\ permits' = permits
         \/ at[t] = "idle" /\ at' = at /\ permits' = permits + 1
  PROVE  PermitInv'
PROOF
<1> USE DEF RawInv
<1> DEFINE H == Holders \ {t}
<1>1. /\ IsFiniteSet(H) /\ Cardinality(H) \in Nat /\ Cardinality(Holders) \in Nat
      /\ Cardinality(H) = IF t \in Holders THEN Cardinality(Holders) - 1 ELSE Cardinality(Holders)
  <2>1. IsFiniteSet(Holders)
    BY Zenon, RawAssumption, FS_Subset DEF Holders
  <2>2. QED BY Zenon, <2>1, FS_RemoveElement, FS_CardinalityType
<1>2. t \in Holders <=> at[t] = "writing"
  BY Zenon DEF Holders, SignalInv
<1>3. count'["access"] = count["access"] + 1 /\ count["access"] \in Int
  BY Zenon DEF SemRelease, RawTypeOK, Sems
<1>4. \A u \in Users : at'[u] \in {"idle", "asleep_w", "writing"}
  BY Zenon DEF PermitInv, RawTypeOK
<1>5. /\ permits \in Nat
      /\ permits' = 1 + Cardinality(H) + IF count["access"] > 0 THEN count["access"] ELSE 0
  <2>1. permits \in Nat
        /\ permits = Cardinality(Holders) + IF count["access"] > 0 THEN count["access"] ELSE 0
    BY Zenon DEF PermitInv, RawTypeOK
  <2>2. permits' = IF t \in Holders THEN permits ELSE permits + 1
    BY Zenon, <1>2
  <2> HIDE DEF H
  <2>3. QED BY SMTT(30), <2>1, <2>2, <1>1, <1>3
<1>6. CASE count["access"] + 1 <= 0
  <2>1. PICK h \in Sleeping("access") : signalled' = signalled \cup {h}
    BY SMTT(30), <1>3, <1>6, ReleaseSignals DEF Sems
  <2>2. Holders' = H \cup {h} /\ h \notin H
    BY ZenonT(60), <2>1, <1>4 DEF Holders, Sleeping, SleepPlaces, PermitInv, SignalInv, RawTypeOK
  <2>3. Cardinality(Holders') = Cardinality(H) + 1
    BY Zenon, <2>2, <1>1, FS_AddElement
  <2>4. QED BY SMTT(30), <2>3, <1>1, <1>3, <1>4, <1>5, <1>6 DEF PermitInv
<1>7. CASE count["access"] + 1 > 0
  <2>1. signalled' = signalled
    BY SMTT(30), <1>3, <1>7, ReleaseSignals DEF Sems
  <2>2. Holders' = H
    BY Zenon, <2>1, <1>2 DEF Holders, SignalInv, RawTypeOK
  <2>3. QED BY SMTT(30), <2>2, <1>1, <1>3, <1>4, <1>5, <1>7 DEF PermitInv
<1>8. QED BY SMTT(30), <1>3, <1>6, <1>7

(* A release of the access lock does not touch the order lock. *)
LEMMA ReleaseOther ==
  ASSUME RawInv, NEW t \in Users, NEW to \in {"idle", "cond", "reading"},
         kind' = kind, SemRelease("access"), at' = [at EXCEPT ![t] = to],
         at[t] \in {"writing", "last", "hand"}
  PROVE  OrderInv'
PROOF
<1> USE DEF RawInv
<1>1. OrderHolders' = OrderHolders
  BY Zenon, ReleaseSignals DEF OrderHolders, Sleeping, SleepPlaces, RawTypeOK, Sems
<1>2. count'["order"] = count["order"]
  BY Zenon DEF SemRelease, RawTypeOK, Sems
<1>3. QED BY Zenon, <1>1, <1>2 DEF OrderInv

(* The readers counted do not change. *)
LEMMA CountFrame ==
  ASSUME CountInv, read_count' = read_count, Counted' = Counted
  PROVE  CountInv'
  BY Zenon DEF CountInv

(* The order lock is held by those on their way to the access lock. *)
LEMMA FirstHasOrder ==
  ASSUME RawInv, NEW t \in OrderHolders, kind = "rwlock"
  PROVE  \A f \in FirstReaders : f = t
  BY Zenon DEF RawInv, OrderInv, FirstReaders, OrderHolders

(* The semaphores and who sleeps on them do not change. *)
LEMMA QueueFrame ==
  ASSUME QueueInv, UNCHANGED <<count, waiters>>, \A s \in Sems : Sleeping(s)' = Sleeping(s)
  PROVE  QueueInv'
  BY SMTT(30) DEF QueueInv, QueueOK

(* A task that stays awake moves on without touching a semaphore. *)
LEMMA PlainMove ==
  ASSUME RawInv, NEW t \in Users, NEW to \in Places, at' = [at EXCEPT ![t] = to],
         UNCHANGED <<kind, sems, permits, nuse>>,
         \A r \in Sems : to \notin SleepPlaces(r) /\ at[t] \notin SleepPlaces(r),
         at[t] # "cond", to # "cond"
  PROVE  /\ at' \in [Users -> Places] /\ QueueInv' /\ SignalInv' /\ OnCond' = OnCond
         /\ t \notin signalled
PROOF
<1> USE DEF RawInv
<1>1. at' \in [Users -> Places] /\ UNCHANGED <<count, waiters, signalled>>
  BY Zenon DEF RawTypeOK, sems
<1>2. t \notin signalled
  BY Zenon DEF SignalInv, Sems, SleepPlaces
<1>3. SignalInv' /\ OnCond' = OnCond
  BY Zenon, <1>1, <1>2 DEF SignalInv, OnCond, RawTypeOK
<1>4. QueueInv'
  <2>1. \A s \in Sems : Sleeping(s)' = Sleeping(s)
    BY Zenon, <1>1 DEF Sleeping, RawTypeOK
  <2>2. QED BY ZenonT(60), <1>1, <2>1, QueueFrame
<1>5. QED BY Zenon, <1>1, <1>2, <1>3, <1>4

-----------------------------------------------------------------------------
(* The calls that take and give back a lock. *)

(* A writer, or the holder of a mutex, drops its guard. *)
LEMMA DropWriterKeeps ==
  ASSUME RawInv, NEW t \in Users, DropWriter(t)
  PROVE  RawInv'
PROOF
<1> USE DEF RawInv
<1>1. /\ at[t] = "writing" /\ at' = [at EXCEPT ![t] = "idle"] /\ SemRelease("access")
      /\ UNCHANGED <<kind, blocked, read_count, waking, permits, nuse>>
  BY Zenon DEF DropWriter, Move
<1>2. /\ RawTypeOK' /\ QueueInv' /\ SignalInv' /\ OnCond' = OnCond
      /\ t \notin signalled /\ t \notin signalled'
  BY ZenonT(60), <1>1, ReleaseStep DEF RawTypeOK, Places, SleepPlaces, Sems
<1>3. PlaceInv'
  BY Zenon, <1>1 DEF PlaceInv, RawTypeOK
<1>4. CondInv'
  BY Zenon, <1>1, <1>2, CondFrame DEF RawTypeOK
<1>5. OrderInv'
  <2>1. OrderHolders' = OrderHolders /\ count'["order"] = count["order"]
    BY ZenonT(60), <1>1, ReleaseSignals
       DEF OrderHolders, SemRelease, Sleeping, SleepPlaces, RawTypeOK, Sems
  <2>2. QED BY Zenon, <1>1, <2>1 DEF OrderInv
<1>6. AccessInv'
  BY Zenon, <1>1, ReleaseAccess
<1>7. CountInv'
  BY Zenon, <1>1, CountFrame DEF Counted, RawTypeOK
<1>8. PermitInv'
  BY Zenon, <1>1, ReleasePermit DEF PermitInv
<1>9. QED BY ZenonT(60), <1>2, <1>3, <1>4, <1>5, <1>6, <1>7, <1>8

(* A semaphore gets its permit back. *)
LEMMA GiveKeeps ==
  ASSUME RawInv, NEW t \in Users, Give(t)
  PROVE  RawInv'
PROOF
<1> USE DEF RawInv
<1>1. /\ kind = "semaphore" /\ at[t] = "idle" /\ SemRelease("access")
      /\ permits' = permits + 1 /\ nuse' = nuse + 1
      /\ at' = at /\ UNCHANGED <<kind, blocked, read_count, waking>>
  BY Zenon DEF Give, Use
<1>2. at' = [at EXCEPT ![t] = "idle"]
  BY Zenon, <1>1 DEF RawTypeOK
<1>3. RawTypeOK' /\ QueueInv' /\ SignalInv' /\ OnCond' = OnCond
  <2>1. SemRelease("access") /\ at[t] = "idle"
    BY Zenon, <1>1
  <2>2. /\ count' \in [Sems -> Int] /\ waiters' \in [Sems -> Seq(Users)]
        /\ signalled' \in SUBSET Users /\ QueueInv' /\ SignalInv' /\ OnCond' = OnCond
    BY ZenonT(60), <1>2, <2>1, ReleaseStep DEF Places, SleepPlaces, Sems
  <2>3. QED BY SMTT(30), <1>1, <2>2 DEF RawTypeOK
<1>4. CondInv'
  BY Zenon, <1>1, <1>3, CondFrame
<1>5. PermitInv'
  BY Zenon, <1>1, ReleasePermit
<1>6. CountInv'
  BY Zenon, <1>1, CountFrame DEF Counted
<1>7. PlaceInv' /\ OrderInv' /\ AccessInv'
  BY Zenon, <1>1 DEF PlaceInv, OrderInv, AccessInv
<1>8. QED BY ZenonT(60), <1>3, <1>4, <1>5, <1>6, <1>7

(* A task comes to a Semaphore or a Mutex: with lock or acquire, or to      *)
(* reacquire the lock after a wait.                                         *)
LEMMA LockAcquire ==
  ASSUME RawInv, NEW t \in Users, kind # "rwlock", at[t] \in {"idle", "cond"},
         Acquire("access", t, "writing", "asleep_w"),
         signalled' = signalled \ {t}, at[t] = "cond" => t \in signalled,
         UNCHANGED <<kind, blocked, read_count, waking, permits>>, nuse' \in Nat
  PROVE  RawInv'
PROOF
<1> USE DEF RawInv
<1>1. RawTypeOK' /\ QueueInv' /\ SignalInv' /\ OnCond' = OnCond
  BY ZenonT(60), AcquireStep DEF RawTypeOK, Places, SleepPlaces, Sems
<1>2. /\ at' = [at EXCEPT ![t] = IF count["access"] - 1 < 0 THEN "asleep_w" ELSE "writing"]
      /\ count["access"] \in Int /\ count'["access"] = count["access"] - 1
  BY Zenon DEF Acquire, RawTypeOK, Sems
<1>3. PlaceInv' /\ OrderInv'
  BY Zenon, <1>2 DEF PlaceInv, OrderInv, RawTypeOK
<1>4. CondInv'
  BY Zenon, <1>1, <1>2, CondFrame DEF RawTypeOK
<1>5. CountInv'
  BY ZenonT(60), <1>2, CountFrame DEF Counted, RawTypeOK
<1>6. AccessInv'
  <2>1. SUFFICES ASSUME kind # "semaphore" PROVE AccessInv'
    BY Zenon DEF AccessInv
  <2>2. Readers' = {} /\ \A u \in Users : at'[u] # "hand"
    BY Zenon, <1>2 DEF PlaceInv, Readers, RawTypeOK
  <2>3. CASE count["access"] = 1
    <3>1. AccessHolders' \subseteq {t}
      BY ZenonT(60), <1>2, <2>1, <2>3 DEF AccessInv, AccessHolders, RawTypeOK
    <3>2. QED BY SMTT(30), <1>2, <2>2, <2>3, <3>1 DEF AccessInv
  <2>4. CASE count["access"] < 1
    <3>1. AccessHolders' \subseteq AccessHolders
      BY SMTT(30), <1>2, <2>4 DEF AccessHolders, RawTypeOK
    <3>2. QED BY SMTT(30), <1>2, <2>1, <2>2, <2>4, <3>1 DEF AccessInv
  <2>5. QED BY SMTT(30), <1>2, <2>1, <2>3, <2>4 DEF AccessInv
<1>7. PermitInv'
  <2>1. SUFFICES ASSUME kind = "semaphore" PROVE PermitInv'
    BY Zenon DEF PermitInv
  <2>2. at[t] = "idle" /\ \A u \in Users : at'[u] \in {"idle", "asleep_w", "writing"}
    BY Zenon, <1>2, <2>1 DEF PermitInv, RawTypeOK
  <2>3. t \notin signalled /\ t \notin Holders
    BY Zenon, <2>2 DEF SignalInv, Holders
  <2>4. IsFiniteSet(Holders) /\ Cardinality(Holders) \in Nat
    BY Zenon, RawAssumption, FS_Subset, FS_CardinalityType DEF Holders
  <2>5. permits = Cardinality(Holders) + IF count["access"] > 0 THEN count["access"] ELSE 0
    BY Zenon, <2>1 DEF PermitInv
  <2>6. CASE count["access"] < 1
    <3>1. Holders' = Holders
      BY SMTT(30), <1>2, <2>3, <2>6 DEF Holders, RawTypeOK
    <3>2. QED BY SMTT(30), <1>2, <2>2, <2>4, <2>5, <2>6, <3>1 DEF PermitInv
  <2>7. CASE count["access"] >= 1
    <3>1. Holders' = Holders \cup {t}
      BY SMTT(30), <1>2, <2>3, <2>7 DEF Holders, RawTypeOK
    <3>2. Cardinality(Holders') = Cardinality(Holders) + 1
      BY ZenonT(60), <2>3, <2>4, <3>1, FS_AddElement
    <3>3. QED BY SMTT(30), <1>2, <2>2, <2>4, <2>5, <2>7, <3>2 DEF PermitInv
  <2>8. QED BY SMTT(30), <1>2, <2>6, <2>7
<1>8. QED BY ZenonT(60), <1>1, <1>3, <1>4, <1>5, <1>6, <1>7

(* A task comes to the order lock of an RWLock: with read or write, or      *)
(* after a wait.                                                            *)
LEMMA OrderAcquire ==
  ASSUME RawInv, NEW t \in Users, kind = "rwlock", at[t] \in {"idle", "cond"},
         NEW on, NEW asleep, Acquire("order", t, on, asleep),
         \/ on = "add" /\ asleep = "order_r"
         \/ on = "acc_w" /\ asleep = "order_w",
         signalled' = signalled \ {t}, at[t] = "cond" => t \in signalled,
         UNCHANGED <<kind, blocked, read_count, waking, permits>>, nuse' \in Nat
  PROVE  RawInv'
PROOF
<1> USE DEF RawInv
<1>1. RawTypeOK' /\ QueueInv' /\ SignalInv' /\ OnCond' = OnCond
  BY ZenonT(60), AcquireStep DEF RawTypeOK, Places, SleepPlaces, Sems
<1>2. /\ at' = [at EXCEPT ![t] = IF count["order"] - 1 < 0 THEN asleep ELSE on]
      /\ count["order"] \in Int /\ count'["order"] = count["order"] - 1
      /\ count'["access"] = count["access"]
  BY Zenon DEF Acquire, RawTypeOK, Sems
<1>3. PlaceInv' /\ PermitInv'
  BY Zenon DEF PlaceInv, PermitInv
<1>4. CondInv'
  BY Zenon, <1>1, <1>2, CondFrame DEF RawTypeOK
<1>5. CountInv'
  BY Zenon, <1>2, CountFrame DEF Counted, RawTypeOK
<1>6. AccessInv'
  <2>1. /\ AccessHolders' = AccessHolders /\ Readers' = Readers
        /\ FirstReaders' = FirstReaders /\ t \notin AccessHolders
        /\ \A u \in Users : at'[u] = "hand" => at[u] = "hand"
    BY Zenon, <1>2 DEF AccessHolders, Readers, FirstReaders, RawTypeOK
  <2>2. \A u \in AccessHolders : u \in Users /\ at'[u] = at[u]
    BY ZenonT(60), <1>2, <2>1 DEF AccessHolders, RawTypeOK
  <2>3. QED BY ZenonT(60), <1>2, <2>1, <2>2 DEF AccessInv
<1>7. OrderInv'
  <2>1. CASE count["order"] < 1
    <3>1. OrderHolders' = OrderHolders
      BY SMTT(30), <1>2, <2>1 DEF OrderHolders, RawTypeOK
    <3>2. QED BY SMTT(30), <1>2, <2>1, <3>1 DEF OrderInv
  <2>2. CASE count["order"] = 1
    <3>1. OrderHolders' = OrderHolders \cup {t}
      BY SMTT(30), <1>2, <2>2 DEF OrderHolders, RawTypeOK
    <3>2. QED BY SMTT(30), <1>2, <2>2, <3>1 DEF OrderInv
  <2>3. QED BY SMTT(30), <1>2, <2>1, <2>2 DEF OrderInv
<1>8. QED BY ZenonT(60), <1>1, <1>3, <1>4, <1>5, <1>6, <1>7

(* The first reader takes the access lock, or waits for it. *)
LEMMA AccessReadKeeps ==
  ASSUME RawInv, NEW t \in Users, AccessRead(t)
  PROVE  RawInv'
PROOF
<1> USE DEF RawInv
<1>1. /\ at[t] = "acc_r" /\ Acquire("access", t, "leave_r", "asleep_r")
      /\ UNCHANGED <<kind, blocked, signalled, read_count, waking, permits, nuse>>
  BY Zenon DEF AccessRead
<1>2. kind = "rwlock" /\ t \notin signalled /\ signalled' = signalled \ {t}
  BY Zenon, <1>1 DEF PlaceInv, SignalInv
<1>3. RawTypeOK' /\ QueueInv' /\ SignalInv' /\ OnCond' = OnCond
  BY Zenon, <1>1, <1>2, AcquireStep DEF RawTypeOK, Places, SleepPlaces, Sems
<1>4. /\ at' = [at EXCEPT ![t] = IF count["access"] - 1 < 0 THEN "asleep_r" ELSE "leave_r"]
      /\ count["access"] \in Int /\ count'["access"] = count["access"] - 1
      /\ count'["order"] = count["order"]
  BY Zenon, <1>1 DEF Acquire, RawTypeOK, Sems
<1>5. PlaceInv' /\ PermitInv'
  BY Zenon, <1>1, <1>2 DEF PlaceInv, PermitInv
<1>6. CondInv'
  BY ZenonT(60), <1>1, <1>3, <1>4, CondFrame DEF RawTypeOK
<1>7. CountInv'
  BY ZenonT(60), <1>1, <1>4, CountFrame DEF Counted, RawTypeOK
<1>8. OrderInv'
  <2>1. OrderHolders' = OrderHolders
    BY ZenonT(60), <1>1, <1>4 DEF OrderHolders, RawTypeOK
  <2>2. QED BY ZenonT(60), <1>1, <1>4, <2>1 DEF OrderInv
<1>9. AccessInv'
  <2>1. AccessHolders' = AccessHolders
    BY ZenonT(60), <1>1, <1>2, <1>4 DEF AccessHolders, RawTypeOK
  <2>2. CASE count["access"] = 1
    <3>1. AccessHolders' = {} /\ \A u \in Users : at'[u] # "hand"
      BY ZenonT(60), <1>2, <1>4, <2>1, <2>2 DEF AccessInv, AccessHolders
    <3>2. QED BY SMTT(30), <1>4, <2>2, <3>1 DEF AccessInv
  <2>3. CASE count["access"] < 1
    <3>1. /\ Readers' = Readers /\ FirstReaders' = FirstReaders
          /\ \A u \in Users : at[u] \in {"hand", "asleep_r"} => at'[u] = at[u]
          /\ \A u \in Users : at'[u] = "hand" => at[u] = "hand"
      BY SMTT(30), <1>1, <1>4, <2>3 DEF Readers, FirstReaders, RawTypeOK
    <3>2. \A u \in AccessHolders : u \in Users
      BY ZenonT(60) DEF AccessHolders
    <3>3. QED BY SMTT(60), <1>1, <1>4, <2>1, <2>3, <3>1, <3>2 DEF AccessInv
  <2>4. QED BY SMTT(30), <1>2, <1>4, <2>2, <2>3 DEF AccessInv
<1>10. QED BY ZenonT(60), <1>3, <1>5, <1>6, <1>7, <1>8, <1>9

(* A writer takes the access lock, or waits for it. *)
LEMMA AccessWriteKeeps ==
  ASSUME RawInv, NEW t \in Users, AccessWrite(t)
  PROVE  RawInv'
PROOF
<1> USE DEF RawInv
<1>1. /\ at[t] = "acc_w" /\ Acquire("access", t, "leave_w", "asleep_w")
      /\ UNCHANGED <<kind, blocked, signalled, read_count, waking, permits, nuse>>
  BY Zenon DEF AccessWrite
<1>2. kind = "rwlock" /\ t \notin signalled /\ signalled' = signalled \ {t}
  BY Zenon, <1>1 DEF PlaceInv, SignalInv
<1>3. RawTypeOK' /\ QueueInv' /\ SignalInv' /\ OnCond' = OnCond
  BY ZenonT(60), <1>1, <1>2, AcquireStep DEF RawTypeOK, Places, SleepPlaces, Sems
<1>4. /\ at' = [at EXCEPT ![t] = IF count["access"] - 1 < 0 THEN "asleep_w" ELSE "leave_w"]
      /\ count["access"] \in Int /\ count'["access"] = count["access"] - 1
      /\ count'["order"] = count["order"]
  BY Zenon, <1>1 DEF Acquire, RawTypeOK, Sems
<1>5. PlaceInv' /\ PermitInv'
  BY Zenon, <1>1, <1>2 DEF PlaceInv, PermitInv
<1>6. CondInv'
  BY ZenonT(60), <1>1, <1>3, <1>4, CondFrame DEF RawTypeOK
<1>7. CountInv'
  BY ZenonT(60), <1>1, <1>4, CountFrame DEF Counted, RawTypeOK
<1>8. OrderInv'
  <2>1. OrderHolders' = OrderHolders
    BY ZenonT(60), <1>1, <1>4 DEF OrderHolders, RawTypeOK
  <2>2. QED BY ZenonT(60), <1>1, <1>4, <2>1 DEF OrderInv
<1>9. AccessInv'
  <2>1. /\ Readers' = Readers /\ FirstReaders' = FirstReaders
        /\ \A u \in Users : at[u] = "asleep_r" => at'[u] = at[u]
        /\ \A u \in Users : at'[u] = "hand" => at[u] = "hand"
    BY ZenonT(60), <1>1, <1>4 DEF Readers, FirstReaders, RawTypeOK
  <2>2. CASE count["access"] = 1
    <3>1. FirstReaders = {}
      BY Zenon, <1>1, <1>2, FirstHasOrder DEF OrderHolders, FirstReaders
    <3>2. Readers' = {} /\ AccessHolders = {}
      BY ZenonT(60), <1>2, <2>1, <2>2, <3>1 DEF AccessInv
    <3>3. AccessHolders' \subseteq {t} /\ \A u \in Users : at'[u] # "hand"
      BY ZenonT(60), <1>1, <1>4, <3>2 DEF AccessHolders, RawTypeOK
    <3>4. QED BY SMTT(30), <1>4, <2>2, <3>2, <3>3 DEF AccessInv
  <2>3. CASE count["access"] < 1
    <3>1. AccessHolders' = AccessHolders /\ AccessHolders \subseteq Users
      BY SMTT(30), <1>1, <1>2, <1>4, <2>3 DEF AccessHolders, RawTypeOK
    <3>2. QED BY SMTT(60), <1>1, <1>4, <2>1, <2>3, <3>1 DEF AccessInv
  <2>4. QED BY SMTT(30), <1>2, <1>4, <2>2, <2>3 DEF AccessInv
<1>10. QED BY Zenon, <1>3, <1>5, <1>6, <1>7, <1>8, <1>9

(* A sleeper that was signalled on a semaphore goes on with its permit. *)
LEMMA WokenKeeps ==
  ASSUME RawInv, NEW t \in Users, NEW from, NEW to, Woken(t, from, to),
         \/ from = "order_r" /\ to = "add"
         \/ from = "order_w" /\ to = "acc_w"
         \/ from = "asleep_r" /\ to = "leave_r"
         \/ from = "asleep_w" /\ to = IF kind = "rwlock" THEN "leave_w" ELSE "writing"
  PROVE  RawInv'
PROOF
<1> USE DEF RawInv
<1>1. /\ t \in signalled /\ signalled' = signalled \ {t}
      /\ at[t] = from /\ at' = [at EXCEPT ![t] = to]
      /\ UNCHANGED <<kind, count, waiters, blocked, read_count, waking, permits, nuse>>
  BY Zenon DEF Woken, Move
<1>2. RawTypeOK' /\ SignalInv' /\ PlaceInv'
  BY Zenon, <1>1 DEF RawTypeOK, Places, SignalInv, PlaceInv
<1>3. QueueInv'
  <2>1. \A s \in Sems : Sleeping(s)' = Sleeping(s)
    BY Zenon, <1>1 DEF Sleeping, SleepPlaces, RawTypeOK
  <2>2. QED BY ZenonT(60), <1>1, <2>1, QueueFrame
<1>4. CondInv'
  <2>1. OnCond' = OnCond
    BY Zenon, <1>1 DEF OnCond, RawTypeOK
  <2>2. QED BY ZenonT(60), <1>1, <2>1, CondFrame DEF RawTypeOK
<1>5. OrderInv'
  <2>1. kind = "rwlock" => OrderHolders' = OrderHolders
    BY Zenon, <1>1 DEF OrderHolders, RawTypeOK
  <2>2. QED BY Zenon, <1>1, <2>1 DEF OrderInv
<1>6. CountInv'
  BY Zenon, <1>1, CountFrame DEF Counted, RawTypeOK
<1>7. PermitInv'
  <2>1. kind = "semaphore" => Holders' = Holders
    BY Zenon, <1>1 DEF Holders, PermitInv, RawTypeOK
  <2>2. QED BY ZenonT(60), <1>1, <2>1 DEF PermitInv, RawTypeOK
<1>8. AccessInv'
  <2>1. SUFFICES ASSUME kind # "semaphore" PROVE AccessInv'
    BY Zenon, <1>1 DEF AccessInv
  <2>2. CASE from = "asleep_r"
    <3>1. t \in AccessHolders
      BY ZenonT(60), <1>1, <2>2 DEF AccessHolders
    <3>2. AccessHolders' = {}
      BY ZenonT(60), <1>1, <2>1, <2>2, <3>1 DEF AccessInv, AccessHolders, RawTypeOK
    <3>3. \A u \in Users : at'[u] # "hand"
      BY Zenon, <3>2 DEF AccessHolders
    <3>4. count["access"] # 1 /\ count["access"] <= 1
      BY Zenon, <2>1, <3>1 DEF AccessInv
    <3>5. QED BY ZenonT(60), <1>1, <3>2, <3>3, <3>4 DEF AccessInv
  <2>3. CASE from # "asleep_r"
    <3>1. /\ AccessHolders' = AccessHolders /\ AccessHolders \subseteq Users
          /\ Readers' = Readers /\ FirstReaders' = FirstReaders
          /\ \A u \in Users : at[u] = "asleep_r" => at'[u] = at[u]
          /\ \A u \in Users : at'[u] = "hand" => at[u] = "hand"
      BY ZenonT(60), <1>1, <2>3 DEF AccessHolders, Readers, FirstReaders, RawTypeOK
    <3>2. QED BY ZenonT(60), <1>1, <2>1, <3>1 DEF AccessInv
  <2>4. QED BY Zenon, <2>2, <2>3
<1>9. QED BY ZenonT(60), <1>2, <1>3, <1>4, <1>5, <1>6, <1>7, <1>8

(* A task that was signalled comes back from a condition variable. *)
LEMMA ReacquireKeeps ==
  ASSUME RawInv, NEW t \in Users, Reacquire(t)
  PROVE  RawInv'
PROOF
<1>1. nuse' \in Nat
  BY Zenon DEF Reacquire, RawInv, RawTypeOK
<1>2. CASE kind = "rwlock"
  BY Zenon, <1>1, <1>2, OrderAcquire DEF Reacquire
<1>3. CASE kind # "rwlock"
  BY Zenon, <1>1, <1>3, LockAcquire DEF Reacquire
<1>4. QED BY Zenon, <1>2, <1>3

(* The first acquisition of a call. *)
LEMMA CallKeeps ==
  ASSUME RawInv, NEW t \in Users, LockCall(t) \/ ReadCall(t) \/ WriteCall(t)
  PROVE  RawInv'
PROOF
<1>1. at[t] = "idle" /\ nuse' \in Nat /\ signalled' = signalled
  BY SMTT(30) DEF LockCall, ReadCall, WriteCall, Use, RawInv, RawTypeOK
<1>2. signalled' = signalled \ {t}
  BY Zenon, <1>1 DEF RawInv, SignalInv
<1>3. CASE LockCall(t)
  BY ZenonT(60), <1>1, <1>2, <1>3, LockAcquire DEF LockCall
<1>4. CASE ReadCall(t)
  <2>1. /\ kind = "rwlock" /\ Acquire("order", t, "add", "order_r")
        /\ UNCHANGED <<kind, blocked, read_count, waking, permits>>
    BY ZenonT(60), <1>4 DEF ReadCall
  <2>2. QED BY ZenonT(60), <1>1, <1>2, <2>1, OrderAcquire
<1>5. CASE WriteCall(t)
  BY ZenonT(60), <1>1, <1>2, <1>5, OrderAcquire DEF WriteCall
<1>6. QED BY ZenonT(60), <1>3, <1>4, <1>5
-----------------------------------------------------------------------------
(* What read_count says of the readers. *)
LEMMA CountFacts ==
  ASSUME RawInv
  PROVE  /\ IsFiniteSet(Counted) /\ read_count = Cardinality(Counted) /\ read_count \in Nat
         /\ read_count = 0 <=> Counted = {}
         /\ read_count = 1 => \A t, u \in Counted : t = u
PROOF
<1>1. IsFiniteSet(Counted)
  BY Zenon, RawAssumption, FS_Subset DEF Counted
<1>2. read_count = Cardinality(Counted) /\ read_count \in Nat
  BY Zenon DEF RawInv, CountInv, RawTypeOK
<1>3. read_count = 0 <=> Counted = {}
  BY ZenonT(60), <1>1, <1>2, FS_EmptySet
<1>4. read_count = 1 => \A t, u \in Counted : t = u
  <2>1. SUFFICES ASSUME Cardinality(Counted) = 1 PROVE \A t, u \in Counted : t = u
    BY Zenon, <1>2
  <2>2. \E x : Counted = {x}
    BY Zenon, <1>1, <2>1, FS_Singleton
  <2>3. QED BY Zenon, <2>2
<1>5. QED BY ZenonT(60), <1>1, <1>2, <1>3, <1>4

(* A reader counts itself. *)
LEMMA ReadAddKeeps ==
  ASSUME RawInv, NEW t \in Users, ReadAdd(t)
  PROVE  RawInv'
PROOF
<1> USE DEF RawInv
<1> DEFINE to == IF read_count = 0 THEN "acc_r" ELSE "leave_r"
<1>1. /\ at[t] = "add" /\ at' = [at EXCEPT ![t] = to] /\ read_count' = read_count + 1
      /\ UNCHANGED <<kind, sems, blocked, waking, permits, nuse>>
  BY Zenon DEF ReadAdd, Move
<1>2. kind = "rwlock" /\ UNCHANGED <<count, waiters, signalled>>
  BY Zenon, <1>1 DEF PlaceInv, sems
<1>3. /\ at' \in [Users -> Places] /\ QueueInv' /\ SignalInv' /\ OnCond' = OnCond
      /\ t \notin signalled
  BY ZenonT(60), <1>1, PlainMove DEF Places, SleepPlaces
<1>4. RawTypeOK' /\ PlaceInv' /\ PermitInv'
  BY SMTT(30), <1>1, <1>2, <1>3 DEF RawTypeOK, PlaceInv, PermitInv
<1>5. CondInv'
  BY ZenonT(60), <1>1, <1>3, CondFrame DEF RawTypeOK
<1>6. OrderInv'
  <2>1. OrderHolders' = OrderHolders
    BY Zenon, <1>1, <1>2 DEF OrderHolders, RawTypeOK
  <2>2. QED BY ZenonT(60), <1>1, <1>2, <2>1 DEF OrderInv
<1>7. CountInv'
  <2>1. Counted' = Counted \cup {t} /\ t \notin Counted
    BY Zenon, <1>1 DEF Counted, RawTypeOK
  <2>2. QED BY ZenonT(60), <1>1, <2>1, CountFacts, FS_AddElement DEF CountInv
<1>8. AccessInv'
  <2>1. /\ AccessHolders' = AccessHolders /\ AccessHolders \subseteq Users
        /\ \A u \in Users : at[u] = "asleep_r" => at'[u] = at[u]
        /\ \A u \in Users : at'[u] = "hand" => at[u] = "hand"
    BY Zenon, <1>1, <1>2 DEF AccessHolders, RawTypeOK
  <2>2. FirstReaders = {}
    BY Zenon, <1>1, <1>2, FirstHasOrder DEF OrderHolders, FirstReaders
  <2>3. CASE read_count = 0
    <3>1. Readers' = Readers /\ FirstReaders' = FirstReaders \cup {t}
      BY Zenon, <1>1, <2>3 DEF Readers, FirstReaders, RawTypeOK
    <3>2. QED BY Zenon, <1>1, <1>2, <2>1, <3>1 DEF AccessInv
  <2>4. CASE read_count # 0
    <3>1. \A u \in Users : at[u] # "hand"
      BY Zenon, <1>2, <2>2 DEF AccessInv
    <3>2. Readers # {}
      BY ZenonT(60), <2>2, <2>4, <3>1, CountFacts DEF Counted, Readers, FirstReaders
    <3>3. AccessHolders = {} /\ count["access"] # 1 /\ count["access"] <= 1
      BY ZenonT(60), <1>2, <2>1, <2>2, <3>2 DEF AccessInv, FirstReaders
    <3>4. QED BY Zenon, <1>2, <2>1, <3>1, <3>3 DEF AccessInv
  <2>5. QED BY Zenon, <2>3, <2>4
<1>9. QED BY ZenonT(60), <1>3, <1>4, <1>5, <1>6, <1>7, <1>8

(* A reader takes itself off the count. *)
LEMMA DropReaderKeeps ==
  ASSUME RawInv, NEW t \in Users, DropReader(t)
  PROVE  RawInv'
PROOF
<1> USE DEF RawInv
<1> DEFINE to == IF read_count = 1 THEN "last" ELSE "idle"
<1>1. /\ at[t] = "reading" /\ at' = [at EXCEPT ![t] = to] /\ read_count' = read_count - 1
      /\ UNCHANGED <<kind, sems, blocked, waking, permits, nuse>>
  BY Zenon DEF DropReader, Move
<1>2. kind = "rwlock" /\ UNCHANGED <<count, waiters, signalled>>
  BY Zenon, <1>1 DEF PlaceInv, sems
<1>3. /\ at' \in [Users -> Places] /\ QueueInv' /\ SignalInv' /\ OnCond' = OnCond
      /\ t \notin signalled
  BY Zenon, <1>1, PlainMove DEF Places, SleepPlaces
<1>4. t \in Counted /\ t \in Readers
  BY Zenon, <1>1 DEF Counted, Readers
<1>5. RawTypeOK' /\ PlaceInv' /\ PermitInv'
  <2>1. read_count' \in Nat
    BY SMTT(30), <1>1, <1>4, CountFacts
  <2>2. QED BY Zenon, <1>1, <1>2, <1>3, <2>1 DEF RawTypeOK, PlaceInv, PermitInv
<1>6. CondInv'
  BY Zenon, <1>1, <1>3, CondFrame DEF RawTypeOK
<1>7. OrderInv'
  <2>1. OrderHolders' = OrderHolders
    BY Zenon, <1>1, <1>2 DEF OrderHolders, RawTypeOK
  <2>2. QED BY Zenon, <1>1, <1>2, <2>1 DEF OrderInv
<1>8. CountInv'
  <2>1. Counted' = Counted \ {t}
    BY Zenon, <1>1 DEF Counted, RawTypeOK
  <2>2. QED BY ZenonT(60), <1>1, <1>4, <2>1, CountFacts, FS_RemoveElement DEF CountInv
<1>9. AccessInv'
  <2>1. CASE read_count = 1
    <3>1. Readers' = {} /\ FirstReaders = {} /\ \A u \in Users : at'[u] # "hand"
      BY Zenon, <1>1, <1>4, <2>1, CountFacts DEF Counted, Readers, FirstReaders, RawTypeOK
    <3>2. AccessHolders = {} /\ count["access"] # 1 /\ count["access"] <= 1
      BY Zenon, <1>2, <1>4, <3>1 DEF AccessInv, AccessHolders, FirstReaders
    <3>3. AccessHolders' \subseteq {t}
      BY Zenon, <1>1, <1>2, <3>2 DEF AccessHolders, RawTypeOK
    <3>4. QED BY Zenon, <1>2, <3>1, <3>2, <3>3 DEF AccessInv
  <2>2. CASE read_count # 1
    <3>1. /\ AccessHolders' = AccessHolders /\ AccessHolders \subseteq Users
          /\ Readers' \subseteq Readers /\ FirstReaders' = FirstReaders
          /\ \A u \in Users : at[u] = "asleep_r" => at'[u] = at[u]
          /\ \A u \in Users : at'[u] = "hand" => at[u] = "hand"
      BY ZenonT(60), <1>1, <1>2, <2>2 DEF AccessHolders, Readers, FirstReaders, RawTypeOK
    <3>2. QED BY Zenon, <1>1, <1>2, <3>1 DEF AccessInv
  <2>3. QED BY Zenon, <2>1, <2>2
<1>10. QED BY Zenon, <1>3, <1>5, <1>6, <1>7, <1>8, <1>9

(* A writer becomes a reader. *)
LEMMA DowngradeKeeps ==
  ASSUME RawInv, NEW t \in Users, Downgrade(t)
  PROVE  RawInv'
PROOF
<1> USE DEF RawInv
<1> DEFINE to == IF read_count # 0 THEN "hand" ELSE "reading"
<1>1. /\ at[t] = "writing" /\ at' = [at EXCEPT ![t] = to] /\ read_count' = read_count + 1
      /\ UNCHANGED <<kind, sems, blocked, waking, permits, nuse>>
  BY Zenon DEF Downgrade, Move
<1>2. kind = "rwlock" /\ UNCHANGED <<count, waiters, signalled>>
  BY Zenon, <1>1 DEF Downgrade, sems
<1>3. /\ at' \in [Users -> Places] /\ QueueInv' /\ SignalInv' /\ OnCond' = OnCond
      /\ t \notin signalled
  BY ZenonT(60), <1>1, PlainMove DEF Places, SleepPlaces
<1>4. RawTypeOK' /\ PlaceInv' /\ PermitInv'
  BY SMTT(30), <1>1, <1>2, <1>3 DEF RawTypeOK, PlaceInv, PermitInv
<1>5. CondInv'
  BY ZenonT(60), <1>1, <1>3, CondFrame DEF RawTypeOK
<1>6. OrderInv'
  <2>1. OrderHolders' = OrderHolders
    BY Zenon, <1>1, <1>2 DEF OrderHolders, RawTypeOK
  <2>2. QED BY ZenonT(60), <1>1, <1>2, <2>1 DEF OrderInv
<1>7. CountInv'
  <2>1. Counted' = Counted \cup {t} /\ t \notin Counted
    BY Zenon, <1>1 DEF Counted, RawTypeOK
  <2>2. QED BY ZenonT(60), <1>1, <2>1, CountFacts, FS_AddElement DEF CountInv
<1>8. AccessInv'
  <2>1. t \in AccessHolders
    BY Zenon, <1>1 DEF AccessHolders
  <2>2. /\ count["access"] # 1 /\ count["access"] <= 1 /\ Readers = {}
        /\ \A u \in AccessHolders : u = t
    BY ZenonT(60), <1>1, <1>2, <2>1 DEF AccessInv
  <2>3. CASE read_count # 0
    <3>1. Readers' = {} /\ AccessHolders' \subseteq {t} /\ FirstReaders' = FirstReaders
      BY ZenonT(60), <1>1, <1>2, <2>2, <2>3 DEF Readers, AccessHolders, FirstReaders, RawTypeOK
    <3>2. \A u \in Users : at[u] # "hand"
      BY Zenon, <1>1, <2>2 DEF AccessHolders
    <3>3. FirstReaders # {}
      BY ZenonT(60), <2>2, <2>3, <3>2, CountFacts DEF Counted, Readers, FirstReaders
    <3>4. QED BY ZenonT(60), <1>2, <2>2, <3>1, <3>3 DEF AccessInv
  <2>4. CASE read_count = 0
    <3>1. AccessHolders' = {}
      BY ZenonT(60), <1>1, <1>2, <1>3, <2>2, <2>4 DEF AccessHolders, RawTypeOK
    <3>2. \A u \in Users : at'[u] # "hand"
      BY Zenon, <3>1 DEF AccessHolders
    <3>3. QED BY ZenonT(60), <1>2, <2>2, <3>1, <3>2 DEF AccessInv
  <2>5. QED BY Zenon, <2>3, <2>4
<1>9. QED BY Zenon, <1>3, <1>4, <1>5, <1>6, <1>7, <1>8

(* The order lock is let go. *)
LEMMA LeaveOrderKeeps ==
  ASSUME RawInv, NEW t \in Users, NEW from, NEW to, LeaveOrder(t, from, to),
         \/ from = "leave_r" /\ to = "reading"
         \/ from = "leave_w" /\ to = "writing"
  PROVE  RawInv'
PROOF
<1> USE DEF RawInv
<1>1. /\ at[t] = from /\ at' = [at EXCEPT ![t] = to] /\ SemRelease("order")
      /\ UNCHANGED <<kind, blocked, read_count, waking, permits, nuse>>
  BY Zenon DEF LeaveOrder, Move
<1>2. kind = "rwlock"
  BY Zenon, <1>1 DEF PlaceInv
<1>3. /\ RawTypeOK' /\ QueueInv' /\ SignalInv' /\ OnCond' = OnCond
      /\ t \notin signalled /\ t \notin signalled'
  BY ZenonT(60), <1>1, ReleaseStep DEF RawTypeOK, Places, SleepPlaces, Sems
<1>4. PlaceInv' /\ PermitInv'
  BY Zenon, <1>1, <1>2 DEF PlaceInv, PermitInv
<1>5. CondInv'
  BY Zenon, <1>1, <1>3, CondFrame DEF RawTypeOK
<1>6. CountInv'
  BY Zenon, <1>1, CountFrame DEF Counted, RawTypeOK
<1>7. /\ count["order"] \in Int /\ count'["order"] = count["order"] + 1
      /\ count'["access"] = count["access"]
  BY Zenon, <1>1 DEF SemRelease, RawTypeOK, Sems
<1>8. \/ count["order"] + 1 <= 0 /\ \E h \in Sleeping("order") : signalled' = signalled \cup {h}
      \/ count["order"] + 1 > 0 /\ signalled' = signalled
  BY Zenon, <1>1, ReleaseSignals DEF Sems
<1>9. OrderInv'
  <2>1. count["order"] <= 0 /\ \A u \in OrderHolders : u = t
    BY SMTT(30), <1>1, <1>2, <1>7 DEF OrderInv, OrderHolders
  <2>2. CASE count["order"] + 1 <= 0
    <3>1. PICK h \in Sleeping("order") : signalled' = signalled \cup {h}
      BY SMTT(30), <1>7, <1>8, <2>2
    <3>2. \A u \in OrderHolders' : u = h
      BY ZenonT(60), <1>1, <2>1, <3>1 DEF OrderHolders, RawTypeOK
    <3>3. QED BY SMTT(30), <1>7, <2>2, <3>2 DEF OrderInv
  <2>3. CASE count["order"] + 1 > 0
    <3>1. OrderHolders' = {}
      BY SMTT(30), <1>1, <1>7, <1>8, <2>1, <2>3 DEF OrderHolders, RawTypeOK
    <3>2. QED BY SMTT(30), <1>7, <2>1, <3>1 DEF OrderInv
  <2>4. QED BY SMTT(30), <1>7, <2>2, <2>3
<1>10. AccessInv'
  <2>1. /\ AccessHolders' = AccessHolders /\ AccessHolders \subseteq Users
        /\ Readers' = Readers /\ FirstReaders' = FirstReaders
        /\ \A u \in Users : at[u] = "asleep_r" => at'[u] = at[u]
        /\ \A u \in Users : at'[u] = "hand" => at[u] = "hand"
    BY Zenon, <1>1, <1>8 DEF AccessHolders, Readers, FirstReaders, Sleeping, SleepPlaces, RawTypeOK
  <2>2. QED BY ZenonT(60), <1>1, <1>2, <1>7, <2>1 DEF AccessInv
<1>11. QED BY ZenonT(60), <1>3, <1>4, <1>5, <1>6, <1>9, <1>10

(* The last reader lets go of the access lock. *)
LEMMA DropLastKeeps ==
  ASSUME RawInv, NEW t \in Users, DropLast(t)
  PROVE  RawInv'
PROOF
<1> USE DEF RawInv
<1>1. /\ at[t] = "last" /\ at' = [at EXCEPT ![t] = "idle"] /\ SemRelease("access")
      /\ UNCHANGED <<kind, blocked, read_count, waking, permits, nuse>>
  BY Zenon DEF DropLast, Move
<1>2. kind = "rwlock"
  BY Zenon, <1>1 DEF PlaceInv
<1>3. RawTypeOK' /\ QueueInv' /\ SignalInv' /\ OnCond' = OnCond
  BY Zenon, <1>1, ReleaseStep DEF RawTypeOK, Places, SleepPlaces, Sems
<1>4. PlaceInv' /\ PermitInv'
  BY Zenon, <1>1, <1>2 DEF PlaceInv, PermitInv
<1>5. CondInv'
  BY ZenonT(60), <1>1, <1>3, CondFrame DEF RawTypeOK
<1>6. CountInv'
  BY Zenon, <1>1, CountFrame DEF Counted, RawTypeOK
<1>7. OrderInv' /\ AccessInv'
  BY ZenonT(60), <1>1, ReleaseOther, ReleaseAccess
<1>8. QED BY ZenonT(60), <1>3, <1>4, <1>5, <1>6, <1>7

(* The downgrading writer hands the access lock to the reader that waits for it. *)
LEMMA HandOffKeeps ==
  ASSUME RawInv, NEW t \in Users, HandOff(t)
  PROVE  RawInv'
PROOF
<1> USE DEF RawInv
<1>1. /\ at[t] = "hand" /\ at' = [at EXCEPT ![t] = "reading"] /\ SemRelease("access")
      /\ UNCHANGED <<kind, blocked, read_count, waking, permits, nuse>>
  BY Zenon DEF HandOff, Move
<1>2. kind = "rwlock"
  BY Zenon, <1>1 DEF PlaceInv
<1>3. /\ RawTypeOK' /\ QueueInv' /\ SignalInv' /\ OnCond' = OnCond
      /\ t \notin signalled /\ t \notin signalled'
  BY ZenonT(60), <1>1, ReleaseStep DEF RawTypeOK, Places, SleepPlaces, Sems
<1>4. PlaceInv' /\ PermitInv'
  BY Zenon, <1>1, <1>2 DEF PlaceInv, PermitInv
<1>5. CondInv'
  BY ZenonT(60), <1>1, <1>3, CondFrame DEF RawTypeOK
<1>6. CountInv'
  BY Zenon, <1>1, CountFrame DEF Counted, RawTypeOK
<1>7. OrderInv'
  BY Zenon, <1>1, ReleaseOther
<1>8. AccessInv'
  <2>1. count["access"] \in Int /\ count'["access"] = count["access"] + 1
    BY Zenon, <1>1 DEF SemRelease, RawTypeOK, Sems
  <2>2. count["access"] <= 0 /\ FirstReaders # {} /\ \A u \in AccessHolders : u = t
    BY SMTT(30), <1>1, <1>2, <2>1 DEF AccessInv, AccessHolders
  <2>3. FirstReaders' = FirstReaders
    BY Zenon, <1>1 DEF FirstReaders, RawTypeOK
  <2>4. CASE count["access"] + 1 <= 0
    <3>1. PICK h \in Sleeping("access") : signalled' = signalled \cup {h}
      BY SMTT(30), <1>1, <2>1, <2>4, ReleaseSignals DEF Sems
    <3>2. at[h] = "asleep_r" /\ at'[h] = "asleep_r"
      <4>1. h \in OrderHolders
        BY Zenon, <3>1 DEF Sleeping, SleepPlaces, OrderHolders
      <4>2. h \in FirstReaders
        BY ZenonT(60), <1>2, <2>2, <4>1, FirstHasOrder
      <4>3. QED BY Zenon, <1>1, <3>1, <4>2 DEF Sleeping, SleepPlaces, FirstReaders, RawTypeOK
    <3>3. \A u \in AccessHolders' : u = h
      BY ZenonT(60), <1>1, <1>3, <2>2, <3>1 DEF AccessHolders, RawTypeOK
    <3>4. QED BY SMTT(30), <2>1, <2>2, <2>3, <2>4, <3>2, <3>3 DEF AccessInv
  <2>5. CASE count["access"] + 1 > 0
    <3>1. signalled' = signalled
      BY SMTT(30), <1>1, <2>1, <2>5, ReleaseSignals DEF Sems
    <3>2. AccessHolders' = {}
      BY ZenonT(60), <1>1, <1>3, <2>2, <3>1 DEF AccessHolders, RawTypeOK
    <3>3. QED BY SMTT(30), <2>1, <2>2, <2>3, <3>2 DEF AccessInv
  <2>6. QED BY SMTT(30), <2>1, <2>4, <2>5
<1>9. QED BY ZenonT(60), <1>3, <1>4, <1>5, <1>6, <1>7, <1>8
=============================================================================
