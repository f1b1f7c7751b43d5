----------------------------- MODULE HomingProofs -----------------------------
(***************************************************************************)
(* The safety of Homing for every set of tasks and every bound.  LoopKept  *)
(* and SendersDone are not inductive: that the loop is referenced while a  *)
(* task has a handle depends on messages that it has not seen yet, and on  *)
(* the order in which it will see them.  The invariant therefore says of   *)
(* every prefix of the queue that the count is positive before its end.    *)
(***************************************************************************)
EXTENDS Homing, FiniteSetTheorems, TLAPS

-----------------------------------------------------------------------------
(* Sequences and counts.                                                    *)

(* A sequence with an item appended. *)
LEMMA Appended ==
  ASSUME NEW S, NEW s \in Seq(S), NEW x \in S
  PROVE  /\ Append(s, x) \in Seq(S) /\ Len(s) \in Nat /\ Len(Append(s, x)) = Len(s) + 1
         /\ \A i \in 1..Len(s) : Append(s, x)[i] = s[i]
         /\ Append(s, x)[Len(s) + 1] = x
  BY SMTT(30)

(* A sequence without its first item. *)
LEMMA Tailed ==
  ASSUME NEW S, NEW s \in Seq(S), s # <<>>
  PROVE  /\ Tail(s) \in Seq(S) /\ Len(s) \in Nat \ {0} /\ Len(Tail(s)) = Len(s) - 1
         /\ Head(s) = s[1] /\ Head(s) \in S
         /\ \A i \in 1..(Len(s) - 1) : Tail(s)[i] = s[i + 1]
  BY SMTT(30)

Kinds == {"Task", "Increment", "Decrement"}
Messages == [kind : Kinds, task : Workers, linked : BOOLEAN]

(* What the first k messages will do to the count of references. *)
UpTo(s, kind, k) == {i \in 1..k : s[i].kind = kind}
Due(s, k) == Cardinality(UpTo(s, "Increment", k)) - Cardinality(UpTo(s, "Decrement", k))
Weight(kind) == IF kind = "Increment" THEN 1 ELSE IF kind = "Decrement" THEN -1 ELSE 0
One(kind, other) == IF kind = other THEN 1 ELSE 0

(* The messages of a kind among the first k are finitely many. *)
LEMMA UpToFinite ==
  ASSUME NEW s, NEW kind, NEW k \in Nat
  PROVE  IsFiniteSet(UpTo(s, kind, k)) /\ Cardinality(UpTo(s, kind, k)) \in Nat
PROOF
<1>1. IsFiniteSet(1..k)
  BY FS_Interval
<1>2. UpTo(s, kind, k) \subseteq 1..k
  BY Zenon DEF UpTo
<1>3. QED BY Zenon, <1>1, <1>2, FS_Subset, FS_CardinalityType

(* One message more: it counts if it is of the kind. *)
LEMMA UpToGrows ==
  ASSUME NEW s, NEW kind, NEW k \in Nat
  PROVE  Cardinality(UpTo(s, kind, k + 1)) =
           Cardinality(UpTo(s, kind, k)) + One(s[k + 1].kind, kind)
PROOF
<1>1. IsFiniteSet(UpTo(s, kind, k)) /\ Cardinality(UpTo(s, kind, k)) \in Nat
  BY Zenon, UpToFinite
<1>2. k + 1 \notin UpTo(s, kind, k)
  BY SMTT(30) DEF UpTo
<1>3. CASE s[k + 1].kind = kind
  <2>1. UpTo(s, kind, k + 1) = UpTo(s, kind, k) \cup {k + 1}
    BY SMTT(30), <1>3 DEF UpTo
  <2>2. Cardinality(UpTo(s, kind, k) \cup {k + 1}) = Cardinality(UpTo(s, kind, k)) + 1
    BY Zenon, <1>1, <1>2, FS_AddElement
  <2>3. QED BY Zenon, <1>3, <2>1, <2>2 DEF One
<1>4. CASE s[k + 1].kind # kind
  <2>1. UpTo(s, kind, k + 1) = UpTo(s, kind, k)
    BY SMTT(30), <1>4 DEF UpTo
  <2>2. QED BY SMTT(30), <1>1, <1>4, <2>1 DEF One
<1>5. QED BY Zenon, <1>3, <1>4

(* The messages of a kind, when the first is popped: those behind it move   *)
(* up by one.                                                               *)
LEMMA UpToShifts ==
  ASSUME NEW s, NEW r, NEW kind, NEW k \in Nat, \A i \in 1..k : r[i] = s[i + 1]
  PROVE  Cardinality(UpTo(s, kind, k + 1)) = Cardinality(UpTo(r, kind, k)) + One(s[1].kind, kind)
PROOF
<1> DEFINE R == UpTo(r, kind, k)
           S == UpTo(s, kind, k + 1)
           f == [i \in R |-> i + 1]
<1>1. IsFiniteSet(R) /\ IsFiniteSet(S) /\ Cardinality(S) \in Nat /\ Cardinality(R) \in Nat
  <2>1. k + 1 \in Nat
    BY SMTT(30)
  <2>2. QED BY Zenon, <2>1, UpToFinite
<1>2. R \subseteq 1..k
  BY Zenon DEF UpTo
<1>3. S \ {1} = {i + 1 : i \in R}
  BY SMTT(30) DEF UpTo
<1>4. f \in Bijection(R, S \ {1})
  <2>1. f \in [R -> S \ {1}]
    BY SMTT(30), <1>3
  <2>2. \A i, j \in R : f[i] = f[j] => i = j
    BY SMTT(30), <1>2
  <2>3. \A j \in S \ {1} : \E i \in R : f[i] = j
    BY SMTT(30), <1>3
  <2>4. QED BY Zenon, <2>1, <2>2, <2>3 DEF Bijection, Injection, Surjection, IsInjective
<1>5. IsFiniteSet(S \ {1}) /\ Cardinality(S \ {1}) = Cardinality(S) - One(s[1].kind, kind)
  <2>1. 1 \in S <=> s[1].kind = kind
    BY SMTT(30) DEF UpTo
  <2>2. /\ IsFiniteSet(S \ {1})
        /\ Cardinality(S \ {1}) = IF 1 \in S THEN Cardinality(S) - 1 ELSE Cardinality(S)
    BY Zenon, <1>1, FS_RemoveElement
  <2> HIDE DEF R, S, f
  <2>3. QED BY SMTT(30), <1>1, <2>1, <2>2 DEF One
<1>6. Cardinality(R) = Cardinality(S \ {1})
  <2>1. ExistsBijection(R, S \ {1})
    BY Zenon, <1>4 DEF ExistsBijection
  <2> HIDE DEF R, S, f
  <2>2. QED BY Zenon, <1>1, <2>1, FS_Bijection
<1> HIDE DEF R, S, f
<1>7. Cardinality(S) = Cardinality(R) + One(s[1].kind, kind)
  BY SMTT(30), <1>1, <1>5, <1>6 DEF One
<1>8. QED BY Zenon, <1>7 DEF R, S

(* A push changes what is due only at its own place, by the weight of its   *)
(* kind.                                                                    *)
LEMMA DueAppended ==
  ASSUME NEW S, NEW s \in Seq(S), NEW m \in S
  PROVE  /\ Due(Append(s, m), Len(s) + 1) = Due(s, Len(s)) + Weight(m.kind)
         /\ \A k \in 0..Len(s) : Due(Append(s, m), k) = Due(s, k)
PROOF
<1> DEFINE r == Append(s, m)
<1>1. Len(s) \in Nat /\ (\A i \in 1..Len(s) : r[i] = s[i]) /\ r[Len(s) + 1] = m
  BY SMTT(30), Appended
<1> HIDE DEF r
<1>2. ASSUME NEW k \in 0..Len(s), NEW kind PROVE UpTo(r, kind, k) = UpTo(s, kind, k)
  BY SMTT(30), <1>1 DEF UpTo
<1>3. \A k \in 0..Len(s) : Due(r, k) = Due(s, k)
  BY Zenon, <1>2 DEF Due
<1>4. Due(r, Len(s) + 1) = Due(r, Len(s)) + Weight(m.kind)
  <2>1. ASSUME NEW kind
        PROVE  Cardinality(UpTo(r, kind, Len(s) + 1)) =
                 Cardinality(UpTo(r, kind, Len(s))) + One(m.kind, kind)
    BY Zenon, <1>1, UpToGrows
  <2>2. /\ Cardinality(UpTo(r, "Increment", Len(s))) \in Nat
        /\ Cardinality(UpTo(r, "Decrement", Len(s))) \in Nat
    BY Zenon, <1>1, UpToFinite
  <2>3. Weight(m.kind) = One(m.kind, "Increment") - One(m.kind, "Decrement")
    BY SMTT(30) DEF Weight, One
  <2>4. One(m.kind, "Increment") \in Int /\ One(m.kind, "Decrement") \in Int
    BY SMTT(30) DEF One
  <2>5. QED BY SMTT(30), <2>1, <2>2, <2>3, <2>4 DEF Due
<1>5. Len(s) \in 0..Len(s)
  BY SMTT(30), <1>1
<1>6. QED BY Zenon, <1>3, <1>4, <1>5 DEF r

(* A pop leaves what was due after the first message. *)
LEMMA DueTailed ==
  ASSUME NEW S, NEW s \in Seq(S), s # <<>>
  PROVE  \A k \in 0..(Len(s) - 1) : Due(s, k + 1) = Due(Tail(s), k) + Weight(Head(s).kind)
PROOF
<1> DEFINE r == Tail(s)
<1>1. /\ Len(s) \in Nat \ {0} /\ Head(s) = s[1]
      /\ \A i \in 1..(Len(s) - 1) : r[i] = s[i + 1]
  BY Zenon, Tailed
<1> HIDE DEF r
<1>2. ASSUME NEW k \in 0..(Len(s) - 1) PROVE Due(s, k + 1) = Due(r, k) + Weight(s[1].kind)
  <2>1. k \in Nat /\ \A i \in 1..k : r[i] = s[i + 1]
    BY SMTT(30), <1>1
  <2>2. ASSUME NEW kind
        PROVE  Cardinality(UpTo(s, kind, k + 1)) =
                 Cardinality(UpTo(r, kind, k)) + One(s[1].kind, kind)
    BY ZenonT(60), <2>1, UpToShifts
  <2>3. /\ Cardinality(UpTo(r, "Increment", k)) \in Nat
        /\ Cardinality(UpTo(r, "Decrement", k)) \in Nat
    BY Zenon, <2>1, UpToFinite
  <2>4. Weight(s[1].kind) = One(s[1].kind, "Increment") - One(s[1].kind, "Decrement")
    BY SMTT(30) DEF Weight, One
  <2>5. One(s[1].kind, "Increment") \in Int /\ One(s[1].kind, "Decrement") \in Int
    BY SMTT(30) DEF One
  <2>6. QED BY SMTT(30), <2>2, <2>3, <2>4, <2>5 DEF Due
<1>3. QED BY Zenon, <1>1, <1>2 DEF r

(* What is due is a number, and nothing is before the first message. *)
LEMMA DueInt ==
  ASSUME NEW s, NEW k \in Nat
  PROVE  Due(s, k) \in Int /\ Due(s, 0) = 0
PROOF
<1>1. /\ Cardinality(UpTo(s, "Increment", k)) \in Nat
      /\ Cardinality(UpTo(s, "Decrement", k)) \in Nat
  BY Zenon, UpToFinite
<1>2. UpTo(s, "Increment", 0) = {} /\ UpTo(s, "Decrement", 0) = {}
  BY SMTT(30) DEF UpTo
<1>3. Cardinality({}) = 0
  BY FS_EmptySet
<1>4. QED BY SMTT(30), <1>1, <1>2, <1>3 DEF Due

(* A handle more, a handle less. *)
HandleTypes == handles \in [Workers -> 0..MaxHandles]

(* There are finitely many handles, and none just when no task has one. *)
LEMMA HandlesCounted ==
  ASSUME HomingAssumption
  PROVE  /\ IsFiniteSet(AllHandles) /\ Cardinality(AllHandles) \in Nat
         /\ HandleTypes => (Cardinality(AllHandles) = 0 <=> \A t \in Workers : handles[t] = 0)
PROOF
<1>1. IsFiniteSet(Workers) /\ MaxHandles \in Nat
  BY Zenon DEF HomingAssumption
<1>2. IsFiniteSet(1..MaxHandles)
  BY <1>1, FS_Interval
<1>3. IsFiniteSet(Workers \X (1..MaxHandles))
  BY Zenon, <1>1, <1>2, FS_Product
<1>4. AllHandles \subseteq Workers \X (1..MaxHandles)
  BY Zenon DEF AllHandles
<1>5. IsFiniteSet(AllHandles) /\ Cardinality(AllHandles) \in Nat
  BY Zenon, <1>3, <1>4, FS_Subset, FS_CardinalityType
<1>6. ASSUME HandleTypes PROVE AllHandles = {} <=> \A t \in Workers : handles[t] = 0
  <2>1. ASSUME NEW t \in Workers, handles[t] # 0 PROVE <<t, 1>> \in AllHandles
    BY SMTT(30), <1>1, <1>6, <2>1 DEF AllHandles, HandleTypes
  <2>2. ASSUME NEW h \in AllHandles PROVE \E t \in Workers : handles[t] # 0
    BY SMTT(30), <1>1, <1>6 DEF AllHandles, HandleTypes
  <2>3. QED BY Zenon, <2>1, <2>2
<1>7. AllHandles = {} <=> Cardinality(AllHandles) = 0
  BY Zenon, <1>5, FS_EmptySet
<1>8. QED BY Zenon, <1>5, <1>6, <1>7

(* A clone is one handle more. *)
LEMMA HandlesGrow ==
  ASSUME HomingAssumption, HandleTypes, NEW t \in Workers, handles[t] < MaxHandles,
         handles' = [handles EXCEPT ![t] = @ + 1]
  PROVE  HandleTypes' /\ Cardinality(AllHandles') = Cardinality(AllHandles) + 1
PROOF
<1>1. MaxHandles \in Nat /\ IsFiniteSet(AllHandles)
  BY Zenon, HandlesCounted DEF HomingAssumption
<1>2. HandleTypes'
  BY SMTT(30), <1>1 DEF HandleTypes
<1>3. /\ handles'[t] = handles[t] + 1 /\ handles[t] \in Nat
      /\ \A u \in Workers : u # t => handles'[u] = handles[u]
  BY SMTT(30), <1>1 DEF HandleTypes
<1>4. <<t, handles[t] + 1>> \notin AllHandles
  BY SMTT(30), <1>3 DEF AllHandles
<1>5. AllHandles' = AllHandles \cup {<<t, handles[t] + 1>>}
  <2>1. ASSUME NEW u \in Workers, NEW n \in 1..MaxHandles
        PROVE  n <= handles'[u] <=> n <= handles[u] \/ (u = t /\ n = handles[t] + 1)
    BY SMTT(30), <1>1, <1>3
  <2>2. handles[t] + 1 \in 1..MaxHandles
    BY SMTT(30), <1>1, <1>3
  <2>3. QED BY SMTT(30), <2>1, <2>2 DEF AllHandles
<1>6. QED BY Zenon, <1>1, <1>2, <1>4, <1>5, FS_AddElement

(* A drop is one handle less. *)
LEMMA HandlesShrink ==
  ASSUME HomingAssumption, HandleTypes, NEW t \in Workers, handles[t] > 0,
         handles' = [handles EXCEPT ![t] = @ + (-1)]
  PROVE  HandleTypes' /\ Cardinality(AllHandles') = Cardinality(AllHandles) - 1
PROOF
<1>1. MaxHandles \in Nat /\ IsFiniteSet(AllHandles)
  BY Zenon, HandlesCounted DEF HomingAssumption
<1>2. HandleTypes'
  BY SMTT(30), <1>1 DEF HandleTypes
<1>3. /\ handles'[t] = handles[t] - 1 /\ handles[t] \in 1..MaxHandles
      /\ \A u \in Workers : u # t => handles'[u] = handles[u]
  BY SMTT(30), <1>1 DEF HandleTypes
<1>4. <<t, handles[t]>> \in AllHandles
  BY SMTT(30), <1>3 DEF AllHandles
<1>5. AllHandles' = AllHandles \ {<<t, handles[t]>>}
  <2>1. ASSUME NEW u \in Workers, NEW n \in 1..MaxHandles
        PROVE  n <= handles'[u] <=> n <= handles[u] /\ ~(u = t /\ n = handles[t])
    BY SMTT(30), <1>1, <1>3
  <2>2. QED BY SMTT(30), <2>1 DEF AllHandles
<1>6. QED BY Zenon, <1>1, <1>2, <1>4, <1>5, FS_RemoveElement

-----------------------------------------------------------------------------
(* The event loop and the tasks that come home to it: the invariant.        *)

Places == {"ready", "home", "away", "sent", "waiting", "granted", "blocked", "done"}
Doings == {"none", "increment", "decrement", "task", "signal", "signalDrop", "unlock"}

HomingTypes ==
    /\ messages \in Seq(Messages) /\ refcnt \in Nat
    /\ signalled \in BOOLEAN /\ refd \in BOOLEAN /\ held \in BOOLEAN
    /\ droplock \in Workers \cup {NoWorker} /\ running \in Workers \cup {NoWorker}
    /\ loop \in {"idle", "callback", "gone"}
    /\ where \in [Workers -> Places] /\ thread \in [Workers -> Doings]
    /\ HandleTypes /\ guard \in SUBSET Workers /\ turn \in Seq(Workers)

(* The handles are those that the loop counts and those it will have heard  *)
(* of; each message was sent by a task that had one.                        *)
CountInv ==
    /\ refcnt + Due(messages, Len(messages)) = Cardinality(AllHandles)
    /\ \A k \in 0..(Len(messages) - 1) : refcnt + Due(messages, k) > 0
    /\ refd <=> refcnt > 0

(* A thread that is in the middle of a push belongs to a task that has a    *)
(* handle, or has the lock.                                                 *)
ThreadInv ==
    \A t \in Workers :
      /\ thread[t] \in {"increment", "task", "signal"} => handles[t] > 0
      /\ thread[t] \in {"decrement", "signalDrop", "unlock"} <=> droplock = t
      /\ where[t] = "done" => thread[t] = "none" /\ handles[t] = 0

LoopInv ==
    /\ loop # "callback" /\ refcnt = 0 => droplock = NoWorker
    /\ loop = "gone" => refcnt = 0 /\ \A t \in Workers : where[t] = "done"

(* A task that was sent is on its way: the queue has it, once. *)
TaskSent ==
    \A i \in 1..Len(messages) : messages[i].kind = "Task" => where[messages[i].task] = "sent"
TaskOnce ==
    \A i, j \in 1..Len(messages) :
      /\ messages[i].kind = "Task" /\ messages[j].kind = "Task"
      /\ messages[i].task = messages[j].task
      => i = j
RunInv == \A t \in Workers : running = t <=> where[t] \in {"home", "granted"}

(* The guard and the flag; who has the guard is at home. *)
GuardInv ==
    /\ \A t, u \in guard : t = u
    /\ held <=> guard # {}
    /\ turn # <<>> => held
    /\ \A t \in guard : where[t] \in {"home", "granted", "blocked"}
    /\ \A t \in Workers : where[t] \in {"granted", "blocked"} => t \in guard
TurnInv ==
    /\ \A t \in Workers : where[t] = "waiting" <=> \E i \in 1..Len(turn) : turn[i] = t
    /\ \A i, j \in 1..Len(turn) : turn[i] = turn[j] => i = j
NeedInv == \A t \in Workers : t \in guard \/ where[t] = "waiting" => handles[t] > 0

HomingInv ==
    /\ HomingTypes /\ CountInv /\ ThreadInv /\ LoopInv
    /\ TaskSent /\ TaskOnce /\ RunInv /\ GuardInv /\ TurnInv /\ NeedInv /\ wrong = {}

HomingKept == HomingInv => HomingInv'

(* Without a reference there is no message and no handle. *)
LEMMA Unreferenced ==
  ASSUME HomingAssumption, HomingTypes, CountInv, refcnt = 0
  PROVE  messages = <<>> /\ \A t \in Workers : handles[t] = 0
PROOF
<1>1. Len(messages) \in Nat
  BY SMTT(30) DEF HomingTypes
<1>2. Due(messages, 0) = 0
  BY SMTT(30), DueInt
<1>3. Len(messages) = 0
  BY SMTT(30), <1>1, <1>2 DEF CountInv
<1>4. messages = <<>>
  BY SMTT(30), <1>3 DEF HomingTypes
<1>5. Cardinality(AllHandles) = 0
  BY SMTT(30), <1>2, <1>3 DEF CountInv
<1>6. QED BY Zenon, <1>4, <1>5, HandlesCounted DEF HomingTypes

(* The count, when a task that has a handle pushes a message: the change of *)
(* the handles is the weight of the message.                                *)
LEMMA CountPush ==
  ASSUME HomingAssumption, HomingTypes, CountInv, NEW m \in Messages,
         messages' = Append(messages, m), UNCHANGED <<refcnt, refd>>,
         NEW t \in Workers, handles[t] > 0,
         Cardinality(AllHandles') = Cardinality(AllHandles) + Weight(m.kind)
  PROVE  CountInv'
PROOF
<1> DEFINE n == Len(messages)
<1>1. messages \in Seq(Messages) /\ refcnt \in Nat
  BY Zenon DEF HomingTypes
<1>2. /\ Due(messages', n + 1) = Due(messages, n) + Weight(m.kind)
      /\ \A k \in 0..n : Due(messages', k) = Due(messages, k)
  BY SMTT(30), <1>1, DueAppended
<1>3. n \in Nat /\ Len(messages') = n + 1
  BY SMTT(30), <1>1
<1>4. Cardinality(AllHandles) \in Nat /\ Cardinality(AllHandles) # 0
  <2>1. handles[t] # 0
    BY SMTT(30) DEF HomingTypes, HandleTypes, HomingAssumption
  <2>2. QED BY Zenon, <2>1, HandlesCounted DEF HomingTypes
<1>5. Due(messages, n) \in Int /\ Weight(m.kind) \in Int
  <2>1. Weight(m.kind) \in Int
    BY SMTT(30) DEF Weight
  <2>2. QED BY Zenon, <1>3, <2>1, DueInt
<1> HIDE DEF n
<1>6. refcnt + Due(messages, n) > 0
  BY SMTT(30), <1>1, <1>4, <1>5 DEF CountInv, n
<1>7. refcnt' + Due(messages', n + 1) = Cardinality(AllHandles')
  BY SMTT(30), <1>1, <1>2, <1>4, <1>5 DEF CountInv, n
<1>8. \A k \in 0..n : refcnt' + Due(messages', k) > 0
  BY SMTT(30), <1>1, <1>2, <1>3, <1>6 DEF CountInv, n
<1>9. Len(messages') - 1 = n
  BY SMTT(30), <1>3
<1>10. QED BY ZenonT(60), <1>3, <1>7, <1>8, <1>9 DEF CountInv

(* The count, when the callback pops a message and does to refcnt what it   *)
(* says.                                                                    *)
LEMMA CountPop ==
  ASSUME HomingAssumption, HomingTypes, CountInv, messages # <<>>, messages' = Tail(messages),
         refcnt' = refcnt + Weight(Head(messages).kind), UNCHANGED handles
  PROVE  /\ refcnt > 0 /\ refcnt' \in Nat
         /\ (refd' <=> refcnt' > 0) => CountInv'
PROOF
<1> DEFINE n == Len(messages) - 1
           w == Weight(Head(messages).kind)
<1>1. messages \in Seq(Messages) /\ refcnt \in Nat
  BY Zenon DEF HomingTypes
<1>2. n \in Nat /\ Len(messages) = n + 1 /\ Len(messages') = n
  BY SMTT(30), <1>1
<1>3. \A k \in 0..n : Due(messages, k + 1) = Due(messages', k) + w
  BY SMTT(30), <1>1, DueTailed
<1>4. w \in Int
  BY SMTT(30) DEF Weight
<1>5. \A k \in Nat : Due(messages, k) \in Int /\ Due(messages', k) \in Int
  BY SMTT(30), DueInt
<1>6. Due(messages, 0) = 0 /\ Due(messages', 0) = 0
  BY SMTT(30), DueInt
<1> HIDE DEF n, w
<1>7. \A k \in 0..n : refcnt + Due(messages, k) > 0
  BY SMTT(30), <1>2 DEF CountInv
<1>8. ASSUME NEW k \in 0..n
      PROVE  refcnt' + Due(messages', k) = refcnt + Due(messages, k + 1)
  <2>1. Due(messages, k + 1) = Due(messages', k) + w
    BY Zenon, <1>3
  <2>2. Due(messages', k) \in Int
    BY SMTT(30), <1>2, <1>5
  <2>3. refcnt' = refcnt + w
    BY Zenon DEF w
  <2>4. QED BY SMTT(60), <1>1, <1>4, <2>1, <2>2, <2>3
<1>9. /\ refcnt' + Due(messages', n) = refcnt + Due(messages, n + 1)
      /\ \A k \in 0..(n - 1) : refcnt' + Due(messages', k) > 0
  <2>1. n \in 0..n /\ \A k \in 0..(n - 1) : k + 1 \in 0..n /\ k \in 0..n
    BY SMTT(30), <1>2
  <2>2. QED BY ZenonT(60), <1>7, <1>8, <2>1
<1>10. refcnt' + Due(messages', n) = Cardinality(AllHandles')
  <2>1. AllHandles' = AllHandles
    BY Zenon DEF AllHandles
  <2>2. QED BY ZenonT(60), <1>2, <1>9, <2>1 DEF CountInv
<1>11. refcnt > 0
  BY SMTT(30), <1>1, <1>2, <1>6, <1>7
<1>12. refcnt' \in Nat
  <2>1. refcnt' \in Int
    BY SMTT(30), <1>1, <1>4 DEF w
  <2>2. CASE n = 0
    <3>1. Cardinality(AllHandles) \in Nat
      BY Zenon, HandlesCounted
    <3>2. AllHandles' = AllHandles
      BY Zenon DEF AllHandles
    <3>3. QED BY SMTT(30), <1>6, <1>10, <2>1, <2>2, <3>1, <3>2
  <2>3. CASE n # 0
    <3>1. refcnt' + Due(messages', 0) > 0
      BY SMTT(30), <1>2, <1>9, <2>3
    <3>2. QED BY SMTT(30), <1>6, <2>1, <3>1
  <2>4. QED BY Zenon, <2>2, <2>3
<1>13. QED BY Zenon, <1>2, <1>9, <1>10, <1>11, <1>12 DEF CountInv

(* The count, when the messages change only in their links. *)
LEMMA CountStays ==
  ASSUME HomingTypes, CountInv, Len(messages') = Len(messages),
         \A i \in 1..Len(messages) : messages'[i].kind = messages[i].kind,
         UNCHANGED <<refcnt, refd, handles>>
  PROVE  CountInv'
PROOF
<1> DEFINE n == Len(messages)
<1>1. n \in Nat
  BY SMTT(30) DEF HomingTypes
<1>2. ASSUME NEW k \in 0..n, NEW kind PROVE UpTo(messages', kind, k) = UpTo(messages, kind, k)
  BY SMTT(30), <1>1 DEF UpTo
<1>3. \A k \in 0..n : Due(messages', k) = Due(messages, k)
  BY Zenon, <1>2 DEF Due
<1>4. n \in 0..n /\ \A k \in 0..(n - 1) : k \in 0..n
  BY SMTT(30), <1>1
<1>5. AllHandles' = AllHandles
  BY Zenon DEF AllHandles
<1>6. QED BY Zenon, <1>3, <1>4, <1>5 DEF CountInv

(* The fields of a message. *)
LEMMA MessageTask ==
  ASSUME NEW m \in Messages
  PROVE  m.kind \in Kinds /\ m.task \in Workers
  BY SMTT(30) DEF Messages

(* A function on 1..n is a sequence. *)
LEMMA Tabled ==
  ASSUME NEW S, NEW n \in Nat, NEW f \in [1..n -> S]
  PROVE  f \in Seq(S) /\ Len(f) = n
  BY SMTT(30)

(* The queue after a push. *)
LEMMA PushFacts ==
  ASSUME HomingTypes, NEW m \in Messages, messages' = Append(messages, m)
  PROVE  /\ messages' \in Seq(Messages)
         /\ Len(messages) \in Nat /\ Len(messages') = Len(messages) + 1
         /\ \A i \in 1..Len(messages) : messages'[i] = messages[i] /\ messages[i] \in Messages
         /\ messages'[Len(messages) + 1] = m
         /\ \A i \in 1..(Len(messages) + 1) : i \in 1..Len(messages) \/ i = Len(messages) + 1
PROOF
<1>1. messages \in Seq(Messages)
  BY Zenon DEF HomingTypes
<1>2. QED BY SMTT(30), <1>1, Appended

(* The queue after a pop. *)
LEMMA PopFacts ==
  ASSUME HomingTypes, messages # <<>>, messages' = Tail(messages)
  PROVE  /\ messages' \in Seq(Messages) /\ Head(messages) \in Messages
         /\ Head(messages) = messages[1] /\ 1 \in 1..Len(messages)
         /\ \A i \in 1..Len(messages') :
              messages'[i] = messages[i + 1] /\ messages'[i] \in Messages
                                         /\ i + 1 \in 1..Len(messages) /\ i + 1 # 1
         /\ \A i, j \in 1..Len(messages') : i + 1 = j + 1 => i = j
PROOF
<1>1. messages \in Seq(Messages)
  BY Zenon DEF HomingTypes
<1>2. QED BY SMTT(30), <1>1, Tailed

(* The queue after a link: kinds and tasks are the same. *)
LEMMA LinkFacts ==
  ASSUME HomingTypes, NEW t,
         messages' = [i \in DOMAIN messages |->
                        IF messages[i].task = t THEN Message(messages[i].kind, t, TRUE)
                        ELSE messages[i]]
  PROVE  /\ messages' \in Seq(Messages) /\ Len(messages') = Len(messages)
         /\ \A i \in 1..Len(messages) :
              messages'[i].kind = messages[i].kind /\ messages'[i].task = messages[i].task
PROOF
<1>1. messages \in Seq(Messages)
  BY Zenon DEF HomingTypes
<1>2. Len(messages) \in Nat /\ DOMAIN messages = 1..Len(messages)
  BY SMTT(30), <1>1
<1>3. ASSUME NEW m \in Messages
      PROVE  LET r == Message(m.kind, m.task, TRUE)
             IN  r \in Messages /\ r.kind = m.kind /\ r.task = m.task
  BY SMTT(30) DEF Messages, Message
<1>4. \A i \in 1..Len(messages) : messages[i] \in Messages
  BY SMTT(30), <1>1
<1>5. ASSUME NEW i \in 1..Len(messages)
      PROVE  /\ messages'[i] \in Messages
             /\ messages'[i].kind = messages[i].kind /\ messages'[i].task = messages[i].task
  BY Zenon, <1>2, <1>3, <1>4
<1>6. messages' = [i \in 1..Len(messages) |-> messages'[i]]
  BY Zenon, <1>2
<1>7. messages' \in Seq(Messages) /\ Len(messages') = Len(messages)
  <2>1. messages' \in [1..Len(messages) -> Messages]
    BY Zenon, <1>5, <1>6
  <2>2. QED BY Zenon, <1>2, <2>1, Tabled
<1>8. QED BY Zenon, <1>5, <1>7

(* A push keeps every task that was sent in the queue once. *)
LEMMA SentPush ==
  ASSUME HomingTypes, TaskSent, TaskOnce, NEW m \in Messages, m.kind # "Task",
         messages' = Append(messages, m), UNCHANGED where
  PROVE  TaskSent' /\ TaskOnce'
PROOF
<1>1. /\ Len(messages') = Len(messages) + 1
      /\ \A i \in 1..Len(messages) : messages'[i] = messages[i]
      /\ messages'[Len(messages) + 1] = m
      /\ \A i \in 1..(Len(messages) + 1) : i \in 1..Len(messages) \/ i = Len(messages) + 1
  BY SMTT(30), PushFacts
<1>2. \A i \in 1..Len(messages') : messages'[i].kind = "Task" =>
        i \in 1..Len(messages) /\ messages'[i] = messages[i]
  BY Zenon, <1>1
<1>3. TaskSent'
  BY SMTT(30), <1>2 DEF TaskSent
<1>4. TaskOnce'
  BY SMTT(30), <1>2 DEF TaskOnce
<1>5. QED BY ZenonT(60), <1>3, <1>4

(* A pop keeps the others there; the task popped is not there again. *)
LEMMA SentPop ==
  ASSUME HomingTypes, TaskSent, TaskOnce, messages # <<>>, messages' = Tail(messages),
         \A t \in Workers : where[t] = "sent" /\ where'[t] # "sent" =>
            Head(messages).kind = "Task" /\ Head(messages).task = t
  PROVE  TaskSent' /\ TaskOnce'
PROOF
<1>1. /\ Head(messages) = messages[1] /\ 1 \in 1..Len(messages)
      /\ \A i \in 1..Len(messages') : /\ messages'[i] = messages[i + 1] /\ messages'[i] \in Messages
                                      /\ i + 1 \in 1..Len(messages) /\ i + 1 # 1
      /\ \A i, j \in 1..Len(messages') : i + 1 = j + 1 => i = j
  BY Zenon, PopFacts
<1>2. \A i \in 1..Len(messages') : messages'[i].task \in Workers
  BY Zenon, <1>1, MessageTask
<1>3. TaskOnce'
  BY SMTT(30), <1>1 DEF TaskOnce
<1>4. ASSUME NEW i \in 1..Len(messages'), messages'[i].kind = "Task"
      PROVE  where'[messages'[i].task] = "sent"
  <2>1. where[messages'[i].task] = "sent"
    BY SMTT(30), <1>1, <1>4 DEF TaskSent
  <2>2. ~(messages[1].kind = "Task" /\ messages[1].task = messages'[i].task)
    BY ZenonT(60), <1>1, <1>4 DEF TaskOnce
  <2>3. QED BY ZenonT(60), <1>1, <1>2, <2>1, <2>2
<1>5. QED BY Zenon, <1>3, <1>4 DEF TaskSent

(* TaskSent, while the queue rests and no task that was sent moves. *)
LEMMA SentFrame ==
  ASSUME HomingTypes, TaskSent, UNCHANGED messages,
         \A t \in Workers : where[t] = "sent" => where'[t] = "sent"
  PROVE  TaskSent'
PROOF
<1>1. \A i \in 1..Len(messages) : messages[i] \in Messages
  BY SMTT(30) DEF HomingTypes
<1>2. \A i \in 1..Len(messages) : messages[i].task \in Workers
  BY Zenon, <1>1, MessageTask
<1>3. QED BY Zenon, <1>2 DEF TaskSent

(* GuardInv, while the access rests and its holder stays at home. *)
LEMMA GuardFrame ==
  ASSUME HomingTypes, GuardInv, UNCHANGED <<guard, held, turn>>, NEW t \in Workers,
         \A u \in Workers : u # t => where'[u] = where[u],
         t \in guard => where'[t] \in {"home", "granted", "blocked"},
         t \notin guard => where'[t] \notin {"granted", "blocked"}
  PROVE  GuardInv'
PROOF
<1>1. guard \subseteq Workers
  BY Zenon DEF HomingTypes
<1>2. \A u \in guard : where'[u] \in {"home", "granted", "blocked"}
  BY Zenon, <1>1 DEF GuardInv
<1>3. \A u \in Workers : where'[u] \in {"granted", "blocked"} => u \in guard
  BY Zenon DEF GuardInv
<1>4. QED BY Zenon, <1>2, <1>3 DEF GuardInv

(* TurnInv, while the line rests and nobody starts or stops to wait. *)
LEMMA TurnFrame ==
  ASSUME TurnInv, UNCHANGED turn,
         \A u \in Workers : where'[u] = "waiting" <=> where[u] = "waiting"
  PROVE  TurnInv'
  BY ZenonT(60) DEF TurnInv

(* RunTask: a ready task runs on the loop's thread. *)
LEMMA RunTaskKeeps ==
  ASSUME HomingAssumption, NEW t \in Workers, RunTask(t)
  PROVE  HomingKept
PROOF
<1> SUFFICES ASSUME HomingTypes, CountInv, ThreadInv, LoopInv, TaskSent, TaskOnce, RunInv,
                    GuardInv, TurnInv, NeedInv, wrong = {}
             PROVE  HomingInv'
  BY Zenon DEF HomingKept, HomingInv
<1>1. /\ loop = "idle" /\ running = NoWorker /\ where[t] = "ready"
      /\ running' = t
      /\ where' = [where EXCEPT ![t] = "home"]
  BY Zenon DEF RunTask, To
<1>u. UNCHANGED <<messages, signalled, refcnt, refd, droplock, loop, thread, handles, guard,
                  held, turn, wrong>>
  BY Zenon DEF RunTask, To
<1>2. /\ where'[t] = "home"
      /\ \A u \in Workers : u # t => where'[u] = where[u]
  BY SMTT(30), <1>1 DEF HomingTypes, HandleTypes
<1>t. HomingTypes'
  <2>1. running' \in Workers \cup {NoWorker}
    BY SMTT(30), <1>1 DEF HomingTypes
  <2>2. where' \in [Workers -> Places]
    BY SMTT(30), <1>1 DEF HomingTypes, Places
  <2>3. QED BY Zenon, <1>u, <2>1, <2>2 DEF HomingTypes, HandleTypes
<1>c. CountInv'
  BY Zenon, <1>u DEF CountInv, AllHandles
<1>h. ThreadInv'
  BY ZenonT(60), <1>1, <1>u, <1>2, HomingAssumption DEF ThreadInv, HomingAssumption
<1>l. LoopInv'
  BY Zenon, <1>1, <1>u, <1>2 DEF LoopInv
<1>s. TaskSent'
  BY Zenon, <1>1, <1>u, <1>2, SentFrame
<1>o. TaskOnce'
  BY Zenon, <1>u DEF TaskOnce
<1>r. RunInv'
  BY Zenon, <1>1, <1>2, HomingAssumption DEF RunInv, HomingAssumption
<1>g. GuardInv'
  <2>1. t \notin guard
    BY Zenon, <1>1 DEF GuardInv
  <2>2. QED BY Zenon, <1>u, <1>2, <2>1, GuardFrame
<1>q. TurnInv'
  <2>1. \A u \in Workers : where'[u] = "waiting" <=> where[u] = "waiting"
    BY Zenon, <1>1, <1>2
  <2>2. QED BY Zenon, <1>u, <2>1, TurnFrame
<1>n. NeedInv'
  BY Zenon, <1>1, <1>u, <1>2 DEF NeedInv
<1>w. wrong' = {}
  BY ZenonT(60), <1>u
<1>z. QED BY Zenon, <1>t, <1>c, <1>h, <1>l, <1>s, <1>o, <1>r, <1>g, <1>q, <1>n, <1>w DEF HomingInv

(* Leave: it yields, and another scheduler takes it. *)
LEMMA LeaveKeeps ==
  ASSUME HomingAssumption, NEW t \in Workers, Leave(t)
  PROVE  HomingKept
PROOF
<1> SUFFICES ASSUME HomingTypes, CountInv, ThreadInv, LoopInv, TaskSent, TaskOnce, RunInv,
                    GuardInv, TurnInv, NeedInv, wrong = {}
             PROVE  HomingInv'
  BY Zenon DEF HomingKept, HomingInv
<1>1. /\ running = t /\ thread[t] = "none" /\ t \notin guard
      /\ running' = NoWorker
      /\ where' = [where EXCEPT ![t] = "away"]
  BY Zenon DEF Leave, Resumed, To
<1>u. UNCHANGED <<messages, signalled, refcnt, refd, droplock, loop, thread, handles, guard,
                  held, turn, wrong>>
  BY Zenon DEF Leave, Resumed, To
<1>2. /\ where'[t] = "away"
      /\ \A u \in Workers : u # t => where'[u] = where[u]
      /\ where[t] \in {"home", "granted"}
  BY SMTT(30), <1>1 DEF HomingTypes, RunInv
<1>t. HomingTypes'
  <2>1. running' \in Workers \cup {NoWorker}
    BY SMTT(30), <1>1 DEF HomingTypes
  <2>2. where' \in [Workers -> Places]
    BY SMTT(30), <1>1 DEF HomingTypes, Places
  <2>3. QED BY Zenon, <1>u, <2>1, <2>2 DEF HomingTypes, HandleTypes
<1>c. CountInv'
  BY Zenon, <1>u DEF CountInv, AllHandles
<1>h. ThreadInv'
  BY Zenon, <1>1, <1>u, <1>2, HomingAssumption DEF ThreadInv, HomingAssumption
<1>l. LoopInv'
  BY Zenon, <1>1, <1>u, <1>2 DEF LoopInv
<1>s. TaskSent'
  BY ZenonT(60), <1>1, <1>u, <1>2, SentFrame
<1>o. TaskOnce'
  BY Zenon, <1>u DEF TaskOnce
<1>r. RunInv'
  BY Zenon, <1>1, <1>2, HomingAssumption DEF RunInv, HomingAssumption
<1>g. GuardInv'
  BY ZenonT(60), <1>1, <1>u, <1>2, GuardFrame
<1>q. TurnInv'
  <2>1. \A u \in Workers : where'[u] = "waiting" <=> where[u] = "waiting"
    BY Zenon, <1>1, <1>2
  <2>2. QED BY Zenon, <1>u, <2>1, TurnFrame
<1>n. NeedInv'
  BY ZenonT(60), <1>1, <1>u, <1>2 DEF NeedInv
<1>w. wrong' = {}
  BY Zenon, <1>u
<1>z. QED BY Zenon, <1>t, <1>c, <1>h, <1>l, <1>s, <1>o, <1>r, <1>g, <1>q, <1>n, <1>w DEF HomingInv

(* Steal: another scheduler takes a task that is ready. *)
LEMMA StealKeeps ==
  ASSUME HomingAssumption, NEW t \in Workers, Steal(t)
  PROVE  HomingKept
PROOF
<1> SUFFICES ASSUME HomingTypes, CountInv, ThreadInv, LoopInv, TaskSent, TaskOnce, RunInv,
                    GuardInv, TurnInv, NeedInv, wrong = {}
             PROVE  HomingInv'
  BY Zenon DEF HomingKept, HomingInv
<1>1. /\ where[t] = "ready" /\ thread[t] = "none"
      /\ where' = [where EXCEPT ![t] = "away"]
  BY Zenon DEF Steal, To
<1>u. UNCHANGED <<messages, signalled, refcnt, refd, droplock, loop, running, thread, handles,
                  guard, held, turn, wrong>>
  BY Zenon DEF Steal, To
<1>2. /\ where'[t] = "away"
      /\ \A u \in Workers : u # t => where'[u] = where[u]
  BY SMTT(30), <1>1 DEF HomingTypes, HandleTypes
<1>t. HomingTypes'
  <2>1. where' \in [Workers -> Places]
    BY SMTT(30), <1>1 DEF HomingTypes, Places
  <2>2. QED BY Zenon, <1>u, <2>1 DEF HomingTypes, HandleTypes
<1>c. CountInv'
  BY Zenon, <1>u DEF CountInv, AllHandles
<1>h. ThreadInv'
  BY Zenon, <1>1, <1>u, <1>2, HomingAssumption DEF ThreadInv, HomingAssumption
<1>l. LoopInv'
  BY Zenon, <1>1, <1>u, <1>2 DEF LoopInv
<1>s. TaskSent'
  BY Zenon, <1>1, <1>u, <1>2, SentFrame
<1>o. TaskOnce'
  BY Zenon, <1>u DEF TaskOnce
<1>r. RunInv'
  BY Zenon, <1>1, <1>u, <1>2 DEF RunInv
<1>g. GuardInv'
  <2>1. t \notin guard
    BY Zenon, <1>1 DEF GuardInv
  <2>2. QED BY Zenon, <1>u, <1>2, <2>1, GuardFrame
<1>q. TurnInv'
  <2>1. \A u \in Workers : where'[u] = "waiting" <=> where[u] = "waiting"
    BY Zenon, <1>1, <1>2
  <2>2. QED BY Zenon, <1>u, <2>1, TurnFrame
<1>n. NeedInv'
  BY Zenon, <1>1, <1>u, <1>2 DEF NeedInv
<1>w. wrong' = {}
  BY ZenonT(60), <1>u
<1>z. QED BY Zenon, <1>t, <1>c, <1>h, <1>l, <1>s, <1>o, <1>r, <1>g, <1>q, <1>n, <1>w DEF HomingInv

(* Finish: it has no handle left and ends. *)
LEMMA FinishKeeps ==
  ASSUME HomingAssumption, NEW t \in Workers, Finish(t)
  PROVE  HomingKept
PROOF
<1> SUFFICES ASSUME HomingTypes, CountInv, ThreadInv, LoopInv, TaskSent, TaskOnce, RunInv,
                    GuardInv, TurnInv, NeedInv, wrong = {}
             PROVE  HomingInv'
  BY Zenon DEF HomingKept, HomingInv
<1>1. /\ handles[t] = 0 /\ t \notin guard /\ thread[t] = "none"
      /\ where' = [where EXCEPT ![t] = "done"]
      /\ \/ running = t /\ running' = NoWorker
         \/ where[t] = "away" /\ running' = running
  BY Zenon DEF Finish, Resumed, Away, To
<1>u. UNCHANGED <<messages, signalled, refcnt, refd, droplock, loop, thread, handles, guard,
                  held, turn, wrong>>
  BY Zenon DEF Finish, Resumed, Away, To
<1>2. /\ where'[t] = "done"
      /\ \A u \in Workers : u # t => where'[u] = where[u]
      /\ where[t] \in {"home", "granted", "away"}
  BY SMTT(30), <1>1 DEF HomingTypes, RunInv
<1>t. HomingTypes'
  <2>1. running' \in Workers \cup {NoWorker}
    BY SMTT(30), <1>1 DEF HomingTypes
  <2>2. where' \in [Workers -> Places]
    BY SMTT(30), <1>1 DEF HomingTypes, Places
  <2>3. QED BY Zenon, <1>u, <2>1, <2>2 DEF HomingTypes, HandleTypes
<1>c. CountInv'
  BY Zenon, <1>u DEF CountInv, AllHandles
<1>h. ThreadInv'
  BY Zenon, <1>1, <1>u, <1>2, HomingAssumption DEF ThreadInv, HomingAssumption
<1>l. LoopInv'
  BY Zenon, <1>1, <1>u, <1>2 DEF LoopInv
<1>s. TaskSent'
  BY ZenonT(60), <1>1, <1>u, <1>2, SentFrame
<1>o. TaskOnce'
  BY Zenon, <1>u DEF TaskOnce
<1>r. RunInv'
  BY Zenon, <1>1, <1>2, HomingAssumption DEF RunInv, HomingAssumption
<1>g. GuardInv'
  BY ZenonT(60), <1>1, <1>u, <1>2, GuardFrame
<1>q. TurnInv'
  <2>1. \A u \in Workers : where'[u] = "waiting" <=> where[u] = "waiting"
    BY Zenon, <1>1, <1>2
  <2>2. QED BY Zenon, <1>u, <2>1, TurnFrame
<1>n. NeedInv'
  BY ZenonT(60), <1>1, <1>u, <1>2 DEF NeedInv
<1>w. wrong' = {}
  BY Zenon, <1>u
<1>z. QED BY Zenon, <1>t, <1>c, <1>h, <1>l, <1>s, <1>o, <1>r, <1>g, <1>q, <1>n, <1>w DEF HomingInv

(* MakeHandle, on the loop's thread: the count is changed at once. *)
LEMMA MakeHandleKeeps ==
  ASSUME HomingAssumption, NEW t \in Workers, MakeHandle(t)
  PROVE  HomingKept
PROOF
<1> SUFFICES ASSUME HomingTypes, CountInv, ThreadInv, LoopInv, TaskSent, TaskOnce, RunInv,
                    GuardInv, TurnInv, NeedInv, wrong = {}
             PROVE  HomingInv'
  BY Zenon DEF HomingKept, HomingInv
<1>1. /\ running = t /\ thread[t] = "none" /\ t \notin guard /\ handles[t] < MaxHandles
      /\ refcnt' = refcnt + 1 /\ refd' = TRUE
      /\ handles' = [handles EXCEPT ![t] = @ + 1]
  BY Zenon DEF MakeHandle, Resumed, Handles
<1>u. UNCHANGED <<messages, signalled, droplock, loop, running, where, thread, guard, held,
                  turn, wrong>>
  BY Zenon DEF MakeHandle, Resumed, Handles
<1>2. /\ handles'[t] = handles[t] + 1
      /\ \A u \in Workers : u # t => handles'[u] = handles[u]
      /\ handles[t] \in Nat
      /\ where[t] \in {"home", "granted"}
  <2>1. handles \in [Workers -> 0..MaxHandles] /\ MaxHandles \in Nat
    BY Zenon, HomingAssumption DEF HomingTypes, HandleTypes, HomingAssumption
  <2>2. QED BY SMTT(30), <1>1, <2>1 DEF RunInv, HomingTypes
<1>6. HandleTypes' /\ Cardinality(AllHandles') = Cardinality(AllHandles) + 1
  BY ZenonT(60), <1>1, HomingAssumption, HandlesGrow DEF HomingTypes
<1>4. refcnt \in Nat /\ refcnt' \in Nat /\ refcnt' > 0 /\ refcnt' # 0
  BY SMTT(30), <1>1 DEF HomingTypes
<1>t. HomingTypes'
  <2>1. refcnt' \in Nat
    BY Zenon, <1>4
  <2>2. refd' \in BOOLEAN
    BY SMTT(30), <1>1 DEF HomingTypes
  <2>3. HandleTypes'
    BY Zenon, <1>6
  <2>4. QED BY Zenon, <1>u, <2>1, <2>2, <2>3 DEF HomingTypes, HandleTypes
<1>c. CountInv'
  <2>1. Len(messages) \in Nat /\ Cardinality(AllHandles) \in Nat
    BY SMTT(30), HomingAssumption, HandlesCounted DEF HomingTypes
  <2>2. \A k \in Nat : Due(messages, k) \in Int
    BY SMTT(30), DueInt
  <2>3. refcnt' + Due(messages, Len(messages)) = Cardinality(AllHandles')
    BY SMTT(30), <1>1, <1>4, <1>6, <2>1, <2>2 DEF CountInv
  <2>4. \A k \in 0..(Len(messages) - 1) : refcnt' + Due(messages, k) > 0
    BY SMTT(60), <1>1, <1>4, <2>1, <2>2 DEF CountInv
  <2>5. QED BY ZenonT(60), <1>1, <1>u, <1>4, <2>3, <2>4 DEF CountInv
<1>h. ThreadInv'
  <2>1. \A u \in Workers : handles[u] > 0 => handles'[u] > 0
    BY SMTT(30), <1>2
  <2>2. \A u \in Workers : where[u] = "done" => handles'[u] = handles[u]
    BY Zenon, <1>2
  <2>3. QED BY Zenon, <1>u, <2>1, <2>2 DEF ThreadInv
<1>l. LoopInv'
  <2>1. where[t] # "done"
    BY Zenon, <1>2
  <2>2. QED BY Zenon, <1>u, <1>4, <2>1 DEF LoopInv
<1>s. TaskSent'
  BY Zenon, <1>u DEF TaskSent
<1>o. TaskOnce'
  BY Zenon, <1>u DEF TaskOnce
<1>r. RunInv'
  BY Zenon, <1>u DEF RunInv
<1>g. GuardInv'
  BY Zenon, <1>u DEF GuardInv
<1>q. TurnInv'
  BY ZenonT(60), <1>u DEF TurnInv
<1>n. NeedInv'
  <2>1. \A u \in Workers : handles[u] > 0 => handles'[u] > 0
    BY SMTT(30), <1>2
  <2>2. QED BY Zenon, <1>u, <2>1 DEF NeedInv
<1>w. wrong' = {}
  BY Zenon, <1>u
<1>z. QED BY Zenon, <1>t, <1>c, <1>h, <1>l, <1>s, <1>o, <1>r, <1>g, <1>q, <1>n, <1>w DEF HomingInv

(* Clone on another thread, which pushes an Increment. *)
LEMMA CloneAwayKeeps ==
  ASSUME HomingAssumption, NEW t \in Workers, Away(t), CloneAt(t, FALSE), Thread(t, "increment")
  PROVE  HomingKept
PROOF
<1> SUFFICES ASSUME HomingTypes, CountInv, ThreadInv, LoopInv, TaskSent, TaskOnce, RunInv,
                    GuardInv, TurnInv, NeedInv, wrong = {}
             PROVE  HomingInv'
  BY Zenon DEF HomingKept, HomingInv
<1>1. /\ where[t] = "away" /\ thread[t] = "none" /\ handles[t] > 0 /\ handles[t] < MaxHandles
      /\ messages' = Append(messages, Message("Increment", t, FALSE))
      /\ thread' = [thread EXCEPT ![t] = "increment"]
      /\ handles' = [handles EXCEPT ![t] = @ + 1]
  BY Zenon DEF Away, CloneAt, Thread, Handles
<1>u. UNCHANGED <<signalled, refcnt, refd, droplock, loop, running, where, guard, held, turn,
                  wrong>>
  BY Zenon DEF Away, CloneAt, Thread, Handles
<1>2. /\ handles'[t] = handles[t] + 1
      /\ \A u \in Workers : u # t => handles'[u] = handles[u]
      /\ handles[t] \in Nat
      /\ thread'[t] = "increment"
      /\ \A u \in Workers : u # t => thread'[u] = thread[u]
  <2>1. handles \in [Workers -> 0..MaxHandles] /\ MaxHandles \in Nat
    BY Zenon, HomingAssumption DEF HomingTypes, HandleTypes, HomingAssumption
  <2>2. QED BY SMTT(30), <1>1, <2>1 DEF RunInv, HomingTypes
<1>m. /\ Message("Increment", t, FALSE) \in Messages
      /\ Message("Increment", t, FALSE).kind = "Increment"
      /\ Message("Increment", t, FALSE).task = t
  BY SMTT(30) DEF Message, Messages, Kinds
<1>3. messages' \in Seq(Messages)
  BY Zenon, <1>1, <1>m, PushFacts
<1>4. refcnt # 0
  <2>1. handles[t] # 0
    BY SMTT(30), <1>1
  <2>2. QED BY Zenon, <2>1, HomingAssumption, Unreferenced
<1>5. loop # "gone"
  BY Zenon, <1>4 DEF LoopInv
<1>6. HandleTypes' /\ Cardinality(AllHandles') = Cardinality(AllHandles) + 1
  BY Zenon, <1>1, HomingAssumption, HandlesGrow DEF HomingTypes
<1>t. HomingTypes'
  <2>1. messages' \in Seq(Messages)
    BY Zenon, <1>3
  <2>2. thread' \in [Workers -> Doings]
    BY SMTT(30), <1>1 DEF HomingTypes, Doings
  <2>3. HandleTypes'
    BY Zenon, <1>6
  <2>4. QED BY Zenon, <1>u, <2>1, <2>2, <2>3 DEF HomingTypes, HandleTypes
<1>c. CountInv'
  <2>1. Weight("Increment") = 1 /\ Cardinality(AllHandles) \in Nat
    BY SMTT(30), HomingAssumption, HandlesCounted DEF Weight
  <2>2. Cardinality(AllHandles') = Cardinality(AllHandles) + Weight("Increment")
    BY SMTT(30), <1>6, <2>1
  <2>3. QED BY ZenonT(60), <1>1, <1>u, <1>m, <2>2, HomingAssumption, CountPush
<1>h. ThreadInv'
  <2>1. handles'[t] > 0
    BY SMTT(30), <1>2
  <2>2. QED BY ZenonT(60), <1>1, <1>u, <1>2, <2>1 DEF ThreadInv
<1>l. LoopInv'
  BY Zenon, <1>u, <1>4, <1>5 DEF LoopInv
<1>so. TaskSent' /\ TaskOnce'
  BY Zenon, <1>1, <1>u, <1>m, SentPush
<1>r. RunInv'
  BY Zenon, <1>u DEF RunInv
<1>g. GuardInv'
  BY Zenon, <1>u DEF GuardInv
<1>q. TurnInv'
  BY Zenon, <1>u DEF TurnInv
<1>n. NeedInv'
  <2>1. \A u \in Workers : handles[u] > 0 => handles'[u] > 0
    BY SMTT(30), <1>2
  <2>2. QED BY Zenon, <1>u, <2>1 DEF NeedInv
<1>w. wrong' = {}
  BY Zenon, <1>u
<1>z. QED BY ZenonT(60), <1>t, <1>c, <1>h, <1>l, <1>so, <1>r, <1>g, <1>q, <1>n, <1>w DEF HomingInv

(* Clone at home, which is linked at once. *)
LEMMA CloneHomeKeeps ==
  ASSUME HomingAssumption, NEW t \in Workers, Resumed(t), t \notin guard,
          CloneAt(t, TRUE), UNCHANGED thread
  PROVE  HomingKept
PROOF
<1> SUFFICES ASSUME HomingTypes, CountInv, ThreadInv, LoopInv, TaskSent, TaskOnce, RunInv,
                    GuardInv, TurnInv, NeedInv, wrong = {}
             PROVE  HomingInv'
  BY Zenon DEF HomingKept, HomingInv
<1>1. /\ running = t /\ thread[t] = "none" /\ handles[t] > 0 /\ handles[t] < MaxHandles
      /\ messages' = Append(messages, Message("Increment", t, TRUE))
      /\ handles' = [handles EXCEPT ![t] = @ + 1]
  BY Zenon DEF Resumed, CloneAt, Handles
<1>u. UNCHANGED <<signalled, refcnt, refd, droplock, loop, running, where, thread, guard,
                  held, turn, wrong>>
  BY Zenon DEF Resumed, CloneAt, Handles
<1>2. /\ handles'[t] = handles[t] + 1
      /\ \A u \in Workers : u # t => handles'[u] = handles[u]
      /\ handles[t] \in Nat
      /\ where[t] \in {"home", "granted"}
  <2>1. handles \in [Workers -> 0..MaxHandles] /\ MaxHandles \in Nat
    BY Zenon, HomingAssumption DEF HomingTypes, HandleTypes, HomingAssumption
  <2>2. QED BY SMTT(30), <1>1, <2>1 DEF RunInv, HomingTypes
<1>m. /\ Message("Increment", t, TRUE) \in Messages
      /\ Message("Increment", t, TRUE).kind = "Increment" /\ Message("Increment", t, TRUE).task = t
  BY SMTT(30) DEF Message, Messages, Kinds
<1>3. messages' \in Seq(Messages)
  BY ZenonT(60), <1>1, <1>m, PushFacts
<1>4. refcnt # 0
  <2>1. handles[t] # 0
    BY SMTT(30), <1>1
  <2>2. QED BY ZenonT(60), <2>1, HomingAssumption, Unreferenced
<1>5. loop # "gone"
  BY Zenon, <1>4 DEF LoopInv
<1>6. HandleTypes' /\ Cardinality(AllHandles') = Cardinality(AllHandles) + 1
  BY ZenonT(60), <1>1, HomingAssumption, HandlesGrow DEF HomingTypes
<1>t. HomingTypes'
  <2>1. messages' \in Seq(Messages)
    BY Zenon, <1>3
  <2>2. HandleTypes'
    BY Zenon, <1>6
  <2>3. QED BY ZenonT(60), <1>u, <2>1, <2>2 DEF HomingTypes, HandleTypes
<1>c. CountInv'
  <2>1. Weight("Increment") = 1 /\ Cardinality(AllHandles) \in Nat
    BY SMTT(30), HomingAssumption, HandlesCounted DEF Weight
  <2>2. Cardinality(AllHandles') = Cardinality(AllHandles) + Weight("Increment")
    BY SMTT(30), <1>6, <2>1
  <2>3. QED BY ZenonT(60), <1>1, <1>u, <1>m, <2>2, HomingAssumption, CountPush
<1>h. ThreadInv'
  <2>1. \A u \in Workers : handles[u] > 0 => handles'[u] > 0
    BY SMTT(30), <1>2
  <2>2. \A u \in Workers : where[u] = "done" => handles'[u] = handles[u]
    BY Zenon, <1>2
  <2>3. QED BY ZenonT(60), <1>u, <2>1, <2>2 DEF ThreadInv
<1>l. LoopInv'
  BY Zenon, <1>u, <1>4, <1>5 DEF LoopInv
<1>so. TaskSent' /\ TaskOnce'
  BY ZenonT(60), <1>1, <1>u, <1>m, SentPush
<1>r. RunInv'
  BY Zenon, <1>u DEF RunInv
<1>g. GuardInv'
  BY Zenon, <1>u DEF GuardInv
<1>q. TurnInv'
  BY ZenonT(60), <1>u DEF TurnInv
<1>n. NeedInv'
  <2>1. \A u \in Workers : handles[u] > 0 => handles'[u] > 0
    BY SMTT(30), <1>2
  <2>2. QED BY Zenon, <1>u, <2>1 DEF NeedInv
<1>w. wrong' = {}
  BY Zenon, <1>u
<1>z. QED BY ZenonT(60), <1>t, <1>c, <1>h, <1>l, <1>so, <1>r, <1>g, <1>q, <1>n, <1>w DEF HomingInv

(* Drop of a handle on another thread, under the lock. *)
LEMMA DropAwayKeeps ==
  ASSUME HomingAssumption, NEW t \in Workers, DropHandle(t), Away(t)
  PROVE  HomingKept
PROOF
<1> SUFFICES ASSUME HomingTypes, CountInv, ThreadInv, LoopInv, TaskSent, TaskOnce, RunInv,
                    GuardInv, TurnInv, NeedInv, wrong = {}
             PROVE  HomingInv'
  BY Zenon DEF HomingKept, HomingInv
<1>1. /\ where[t] = "away" /\ thread[t] = "none" /\ handles[t] > 0 /\ droplock = NoWorker
      /\ messages' = Append(messages, Message("Decrement", t, FALSE))
      /\ thread' = [thread EXCEPT ![t] = "decrement"]
      /\ handles' = [handles EXCEPT ![t] = @ + (-1)]
      /\ droplock' = t
  <2>1. running # t
    BY Zenon DEF Away, RunInv
  <2>2. QED BY Zenon, <2>1 DEF Away, DropHandle, Resumed, Handles, Thread
<1>u. UNCHANGED <<signalled, refcnt, refd, loop, running, where, guard, held, turn, wrong>>
  <2>1. running # t
    BY Zenon DEF Away, RunInv
  <2>2. QED BY ZenonT(60), <2>1 DEF Away, DropHandle, Resumed, Handles, Thread
<1>2. /\ handles'[t] = handles[t] - 1
      /\ \A u \in Workers : u # t => handles'[u] = handles[u]
      /\ handles[t] \in Nat
      /\ thread'[t] = "decrement"
      /\ \A u \in Workers : u # t => thread'[u] = thread[u]
  <2>1. handles \in [Workers -> 0..MaxHandles] /\ MaxHandles \in Nat
    BY Zenon, HomingAssumption DEF HomingTypes, HandleTypes, HomingAssumption
  <2>2. QED BY SMTT(30), <1>1, <2>1 DEF RunInv, HomingTypes
<1>m. /\ Message("Decrement", t, FALSE) \in Messages
      /\ Message("Decrement", t, FALSE).kind = "Decrement"
      /\ Message("Decrement", t, FALSE).task = t
  BY SMTT(30) DEF Message, Messages, Kinds
<1>3. messages' \in Seq(Messages)
  BY Zenon, <1>1, <1>m, PushFacts
<1>4. refcnt # 0
  <2>1. handles[t] # 0
    BY SMTT(30), <1>1
  <2>2. QED BY Zenon, <2>1, HomingAssumption, Unreferenced
<1>5. loop # "gone"
  BY Zenon, <1>4 DEF LoopInv
<1>6. HandleTypes' /\ Cardinality(AllHandles') = Cardinality(AllHandles) - 1
  BY Zenon, <1>1, HomingAssumption, HandlesShrink DEF HomingTypes
<1>t. HomingTypes'
  <2>1. messages' \in Seq(Messages)
    BY Zenon, <1>3
  <2>2. thread' \in [Workers -> Doings]
    BY SMTT(30), <1>1 DEF HomingTypes, Doings
  <2>3. HandleTypes'
    BY Zenon, <1>6
  <2>4. droplock' \in Workers \cup {NoWorker}
    BY SMTT(30), <1>1 DEF HomingTypes
  <2>5. QED BY ZenonT(60), <1>u, <2>1, <2>2, <2>3, <2>4 DEF HomingTypes, HandleTypes
<1>c. CountInv'
  <2>1. Weight("Decrement") = -1 /\ Cardinality(AllHandles) \in Nat
    BY SMTT(30), HomingAssumption, HandlesCounted DEF Weight
  <2>2. Cardinality(AllHandles') = Cardinality(AllHandles) + Weight("Decrement")
    BY SMTT(30), <1>6, <2>1
  <2>3. QED BY ZenonT(60), <1>1, <1>u, <1>m, <2>2, HomingAssumption, CountPush
<1>h. ThreadInv'
  <2>1. \A u \in Workers : droplock # u
    BY Zenon, <1>1, HomingAssumption DEF HomingAssumption
  <2>2. QED BY ZenonT(60), <1>1, <1>u, <1>2, <2>1 DEF ThreadInv
<1>l. LoopInv'
  BY Zenon, <1>u, <1>4, <1>5 DEF LoopInv
<1>so. TaskSent' /\ TaskOnce'
  BY ZenonT(60), <1>1, <1>u, <1>m, SentPush
<1>r. RunInv'
  BY Zenon, <1>u DEF RunInv
<1>g. GuardInv'
  BY Zenon, <1>u DEF GuardInv
<1>q. TurnInv'
  BY Zenon, <1>u DEF TurnInv
<1>n. NeedInv'
  <2>1. t \notin guard /\ where[t] # "waiting"
    BY Zenon, <1>1, <1>2 DEF GuardInv
  <2>2. QED BY Zenon, <1>u, <1>2, <2>1 DEF NeedInv
<1>w. wrong' = {}
  BY ZenonT(60), <1>u
<1>z. QED BY ZenonT(60), <1>t, <1>c, <1>h, <1>l, <1>so, <1>r, <1>g, <1>q, <1>n, <1>w DEF HomingInv

(* Drop of a handle at home. *)
LEMMA DropHomeKeeps ==
  ASSUME HomingAssumption, NEW t \in Workers, DropHandle(t), Resumed(t)
  PROVE  HomingKept
PROOF
<1> SUFFICES ASSUME HomingTypes, CountInv, ThreadInv, LoopInv, TaskSent, TaskOnce, RunInv,
                    GuardInv, TurnInv, NeedInv, wrong = {}
             PROVE  HomingInv'
  BY Zenon DEF HomingKept, HomingInv
<1>1. /\ running = t /\ thread[t] = "none" /\ handles[t] > 0 /\ t \notin guard
      /\ messages' = Append(messages, Message("Decrement", t, TRUE))
      /\ handles' = [handles EXCEPT ![t] = @ + (-1)]
      /\ signalled' = TRUE
  <2>1. where[t] # "away"
    BY Zenon DEF Resumed, RunInv
  <2>2. QED BY Zenon, <2>1 DEF Away, DropHandle, Resumed, Handles
<1>u. UNCHANGED <<refcnt, refd, droplock, loop, running, where, thread, guard, held, turn,
                  wrong>>
  <2>1. where[t] # "away"
    BY Zenon DEF Resumed, RunInv
  <2>2. QED BY ZenonT(60), <2>1 DEF Away, DropHandle, Resumed, Handles
<1>2. /\ handles'[t] = handles[t] - 1
      /\ \A u \in Workers : u # t => handles'[u] = handles[u]
      /\ handles[t] \in Nat
      /\ where[t] \in {"home", "granted"}
  <2>1. handles \in [Workers -> 0..MaxHandles] /\ MaxHandles \in Nat
    BY Zenon, HomingAssumption DEF HomingTypes, HandleTypes, HomingAssumption
  <2>2. QED BY SMTT(30), <1>1, <2>1 DEF RunInv, HomingTypes
<1>m. /\ Message("Decrement", t, TRUE) \in Messages
      /\ Message("Decrement", t, TRUE).kind = "Decrement" /\ Message("Decrement", t, TRUE).task = t
  BY SMTT(30) DEF Message, Messages, Kinds
<1>3. messages' \in Seq(Messages)
  BY ZenonT(60), <1>1, <1>m, PushFacts
<1>4. refcnt # 0
  <2>1. handles[t] # 0
    BY SMTT(30), <1>1
  <2>2. QED BY Zenon, <2>1, HomingAssumption, Unreferenced
<1>5. loop # "gone"
  BY Zenon, <1>4 DEF LoopInv
<1>6. HandleTypes' /\ Cardinality(AllHandles') = Cardinality(AllHandles) - 1
  BY Zenon, <1>1, HomingAssumption, HandlesShrink DEF HomingTypes
<1>t. HomingTypes'
  <2>1. messages' \in Seq(Messages)
    BY Zenon, <1>3
  <2>2. signalled' \in BOOLEAN
    BY SMTT(30), <1>1 DEF HomingTypes
  <2>3. HandleTypes'
    BY Zenon, <1>6
  <2>4. QED BY ZenonT(60), <1>u, <2>1, <2>2, <2>3 DEF HomingTypes, HandleTypes
<1>c. CountInv'
  <2>1. Weight("Decrement") = -1 /\ Cardinality(AllHandles) \in Nat
    BY SMTT(30), HomingAssumption, HandlesCounted DEF Weight
  <2>2. Cardinality(AllHandles') = Cardinality(AllHandles) + Weight("Decrement")
    BY SMTT(30), <1>6, <2>1
  <2>3. QED BY ZenonT(60), <1>1, <1>u, <1>m, <2>2, HomingAssumption, CountPush
<1>h. ThreadInv'
  BY Zenon, <1>1, <1>u, <1>2 DEF ThreadInv
<1>l. LoopInv'
  BY Zenon, <1>u, <1>4, <1>5 DEF LoopInv
<1>so. TaskSent' /\ TaskOnce'
  BY ZenonT(60), <1>1, <1>u, <1>m, SentPush
<1>r. RunInv'
  BY Zenon, <1>u DEF RunInv
<1>g. GuardInv'
  BY Zenon, <1>u DEF GuardInv
<1>q. TurnInv'
  BY Zenon, <1>u DEF TurnInv
<1>n. NeedInv'
  <2>1. t \notin guard /\ where[t] # "waiting"
    BY Zenon, <1>1, <1>2 DEF GuardInv
  <2>2. QED BY Zenon, <1>u, <1>2, <2>1 DEF NeedInv
<1>w. wrong' = {}
  BY Zenon, <1>u
<1>z. QED BY Zenon, <1>t, <1>c, <1>h, <1>l, <1>so, <1>r, <1>g, <1>q, <1>n, <1>w DEF HomingInv

(* GoHome: the task is pushed on the queue and leaves its thread. *)
LEMMA GoHomeKeeps ==
  ASSUME HomingAssumption, NEW t \in Workers, GoHome(t)
  PROVE  HomingKept
PROOF
<1> SUFFICES ASSUME HomingTypes, CountInv, ThreadInv, LoopInv, TaskSent, TaskOnce, RunInv,
                    GuardInv, TurnInv, NeedInv, wrong = {}
             PROVE  HomingInv'
  BY Zenon DEF HomingKept, HomingInv
<1>1. /\ where[t] = "away" /\ thread[t] = "none" /\ handles[t] > 0
      /\ messages' = Append(messages, Message("Task", t, FALSE))
      /\ thread' = [thread EXCEPT ![t] = "task"]
      /\ where' = [where EXCEPT ![t] = "sent"]
  BY Zenon DEF GoHome, Away, To, Thread
<1>u. UNCHANGED <<signalled, refcnt, refd, droplock, loop, running, handles, guard, held,
                  turn, wrong>>
  BY Zenon DEF GoHome, Away, To, Thread
<1>2. /\ thread'[t] = "task"
      /\ \A u \in Workers : u # t => thread'[u] = thread[u]
      /\ where'[t] = "sent"
      /\ \A u \in Workers : u # t => where'[u] = where[u]
  BY SMTT(30), <1>1 DEF HomingTypes, HandleTypes
<1>m. /\ Message("Task", t, FALSE) \in Messages
      /\ Message("Task", t, FALSE).kind = "Task" /\ Message("Task", t, FALSE).task = t
  BY SMTT(30) DEF Message, Messages, Kinds
<1>3. messages' \in Seq(Messages)
  BY Zenon, <1>1, <1>m, PushFacts
<1>4. refcnt # 0
  <2>1. handles[t] # 0
    BY SMTT(30), <1>1
  <2>2. QED BY ZenonT(60), <2>1, HomingAssumption, Unreferenced
<1>5. loop # "gone"
  BY Zenon, <1>4 DEF LoopInv
<1>6. AllHandles' = AllHandles
  BY Zenon, <1>u DEF AllHandles
<1>t. HomingTypes'
  <2>1. messages' \in Seq(Messages)
    BY Zenon, <1>3
  <2>2. thread' \in [Workers -> Doings]
    BY SMTT(30), <1>1 DEF HomingTypes, Doings
  <2>3. where' \in [Workers -> Places]
    BY SMTT(30), <1>1 DEF HomingTypes, Places
  <2>4. QED BY ZenonT(60), <1>u, <2>1, <2>2, <2>3 DEF HomingTypes, HandleTypes
<1>c. CountInv'
  <2>1. Weight("Task") = 0 /\ Cardinality(AllHandles) \in Nat
    BY SMTT(30), HomingAssumption, HandlesCounted DEF Weight
  <2>2. Cardinality(AllHandles') = Cardinality(AllHandles) + Weight("Task")
    BY SMTT(30), <1>6, <2>1
  <2>3. QED BY ZenonT(60), <1>1, <1>u, <1>m, <2>2, HomingAssumption, CountPush
<1>h. ThreadInv'
  BY ZenonT(60), <1>1, <1>u, <1>2, HomingAssumption DEF ThreadInv, HomingAssumption
<1>l. LoopInv'
  BY Zenon, <1>u, <1>4, <1>5 DEF LoopInv
<1>so. TaskSent' /\ TaskOnce'
  <2>1. /\ Len(messages') = Len(messages) + 1
        /\ \A i \in 1..Len(messages) : messages'[i] = messages[i] /\ messages[i] \in Messages
        /\ messages'[Len(messages) + 1].kind = "Task" /\ messages'[Len(messages) + 1].task = t
        /\ \A i \in 1..(Len(messages) + 1) : i \in 1..Len(messages) \/ i = Len(messages) + 1
    BY Zenon, <1>1, <1>m, PushFacts
  <2>2. \A i \in 1..Len(messages) : /\ messages[i].task \in Workers
                                    /\ messages[i].kind = "Task" => messages[i].task # t
    BY Zenon, <1>1, <2>1, MessageTask DEF TaskSent
  <2>3. ASSUME NEW i \in 1..Len(messages'), messages'[i].kind = "Task"
        PROVE  where'[messages'[i].task] = "sent"
    <3>1. CASE i \in 1..Len(messages)
      <4>1. messages'[i] = messages[i] /\ messages[i].task # t /\ messages[i].task \in Workers
        BY ZenonT(60), <2>1, <2>2, <2>3, <3>1
      <4>2. where[messages[i].task] = "sent"
        BY SMTT(60), <2>3, <3>1, <4>1 DEF TaskSent
      <4>3. QED BY SMTT(30), <1>2, <4>1, <4>2
    <3>2. CASE i = Len(messages) + 1
      BY SMTT(60), <1>2, <2>1, <3>2
    <3>3. QED BY ZenonT(60), <2>1, <3>1, <3>2
  <2>4. TaskOnce'
    BY SMTT(30), <2>1, <2>2 DEF TaskOnce
  <2>5. QED BY Zenon, <2>3, <2>4 DEF TaskSent
<1>r. RunInv'
  BY ZenonT(60), <1>1, <1>u, <1>2 DEF RunInv
<1>g. GuardInv'
  <2>1. t \notin guard
    BY Zenon, <1>1 DEF GuardInv
  <2>2. QED BY ZenonT(60), <1>u, <1>2, <2>1, GuardFrame
<1>q. TurnInv'
  <2>1. \A u \in Workers : where'[u] = "waiting" <=> where[u] = "waiting"
    BY Zenon, <1>1, <1>2
  <2>2. QED BY ZenonT(60), <1>u, <2>1, TurnFrame
<1>n. NeedInv'
  BY ZenonT(60), <1>1, <1>u, <1>2 DEF NeedInv
<1>w. wrong' = {}
  BY Zenon, <1>u
<1>z. QED BY ZenonT(60), <1>t, <1>c, <1>h, <1>l, <1>so, <1>r, <1>g, <1>q, <1>n, <1>w DEF HomingInv

(* LinkMessage: the second half of a push. *)
LEMMA LinkMessageKeeps ==
  ASSUME HomingAssumption, NEW t \in Workers, LinkMessage(t)
  PROVE  HomingKept
PROOF
<1> SUFFICES ASSUME HomingTypes, CountInv, ThreadInv, LoopInv, TaskSent, TaskOnce, RunInv,
                    GuardInv, TurnInv, NeedInv, wrong = {}
             PROVE  HomingInv'
  BY Zenon DEF HomingKept, HomingInv
<1>1. /\ thread[t] \in {"increment", "decrement", "task"}
      /\ thread' = [thread EXCEPT ![t] = CASE thread[t] = "increment" -> "none"
                                         [] thread[t] = "decrement" -> "signalDrop"
                                         [] OTHER -> "signal"]
      /\ messages' = [i \in DOMAIN messages |->
                       IF messages[i].task = t THEN Message(messages[i].kind, t, TRUE)
                       ELSE messages[i]]
  BY Zenon DEF LinkMessage, Thread
<1>u. UNCHANGED <<signalled, refcnt, refd, droplock, loop, running, where, handles, guard,
                  held, turn, wrong>>
  BY Zenon DEF LinkMessage, Thread
<1>2. /\ \/ thread[t] = "increment" /\ thread'[t] = "none"
         \/ thread[t] = "decrement" /\ thread'[t] = "signalDrop"
         \/ thread[t] = "task" /\ thread'[t] = "signal"
      /\ \A u \in Workers : u # t => thread'[u] = thread[u]
  <2>1. thread \in [Workers -> Doings]
    BY Zenon DEF HomingTypes
  <2>2. QED BY SMTT(30), <1>1, <2>1
<1>3. /\ messages' \in Seq(Messages) /\ Len(messages') = Len(messages)
      /\ \A i \in 1..Len(messages) :
           messages'[i].kind = messages[i].kind /\ messages'[i].task = messages[i].task
  BY Zenon, <1>1, LinkFacts
<1>t. HomingTypes'
  <2>1. thread' \in [Workers -> Doings]
    <3>1. thread \in [Workers -> Doings]
      BY Zenon DEF HomingTypes
    <3>2. QED BY SMTT(30), <1>1, <3>1 DEF Doings
  <2>2. QED BY ZenonT(60), <1>u, <1>3, <2>1 DEF HomingTypes, HandleTypes
<1>c. CountInv'
  BY ZenonT(60), <1>u, <1>3, CountStays
<1>h. ThreadInv'
  <2>1. thread'[t] \in {"none", "signalDrop", "signal"} /\ where[t] # "done"
    BY Zenon, <1>1, <1>2 DEF ThreadInv
  <2>2. QED BY Zenon, <1>u, <1>2, <2>1 DEF ThreadInv
<1>l. LoopInv'
  BY ZenonT(60), <1>u DEF LoopInv
<1>s. TaskSent'
  BY SMTT(30), <1>u, <1>3 DEF TaskSent
<1>o. TaskOnce'
  BY SMTT(30), <1>3 DEF TaskOnce
<1>r. RunInv'
  BY Zenon, <1>u DEF RunInv
<1>g. GuardInv'
  BY Zenon, <1>u DEF GuardInv
<1>q. TurnInv'
  BY ZenonT(60), <1>u DEF TurnInv
<1>n. NeedInv'
  BY Zenon, <1>u DEF NeedInv
<1>w. wrong' = {}
  BY Zenon, <1>u
<1>z. QED BY Zenon, <1>t, <1>c, <1>h, <1>l, <1>s, <1>o, <1>r, <1>g, <1>q, <1>n, <1>w DEF HomingInv

(* SignalLoop: the async of the loop is fired. *)
LEMMA SignalLoopKeeps ==
  ASSUME HomingAssumption, NEW t \in Workers, SignalLoop(t)
  PROVE  HomingKept
PROOF
<1> SUFFICES ASSUME HomingTypes, CountInv, ThreadInv, LoopInv, TaskSent, TaskOnce, RunInv,
                    GuardInv, TurnInv, NeedInv, wrong = {}
             PROVE  HomingInv'
  BY Zenon DEF HomingKept, HomingInv
<1>1. /\ thread[t] \in {"signal", "signalDrop"}
      /\ signalled' = TRUE
      /\ thread' = [thread EXCEPT ![t] = IF thread[t] = "signal" THEN "none" ELSE "unlock"]
      /\ wrong' = IF loop = "gone" THEN wrong \cup {"send to a closed handle"} ELSE wrong
  BY Zenon DEF SignalLoop, Thread
<1>u. UNCHANGED <<messages, refcnt, refd, droplock, loop, running, where, handles, guard,
                  held, turn>>
  BY Zenon DEF SignalLoop, Thread
<1>2. /\ \/ thread[t] = "signal" /\ thread'[t] = "none"
         \/ thread[t] = "signalDrop" /\ thread'[t] = "unlock"
      /\ \A u \in Workers : u # t => thread'[u] = thread[u]
  <2>1. thread \in [Workers -> Doings]
    BY Zenon DEF HomingTypes
  <2>2. QED BY Zenon, <1>1, <2>1
<1>t. HomingTypes'
  <2>1. thread' \in [Workers -> Doings]
    <3>1. thread \in [Workers -> Doings]
      BY Zenon DEF HomingTypes
    <3>2. QED BY Zenon, <1>1, <3>1 DEF Doings
  <2>2. signalled' \in BOOLEAN
    BY Zenon, <1>1
  <2>3. QED BY Zenon, <1>u, <2>1, <2>2 DEF HomingTypes, HandleTypes
<1>c. CountInv'
  BY Zenon, <1>u DEF CountInv, AllHandles
<1>h. ThreadInv'
  <2>1. where[t] # "done"
    BY Zenon, <1>1 DEF ThreadInv
  <2>2. QED BY Zenon, <1>u, <1>2, <2>1 DEF ThreadInv
<1>l. LoopInv'
  BY Zenon, <1>u DEF LoopInv
<1>s. TaskSent'
  BY Zenon, <1>u DEF TaskSent
<1>o. TaskOnce'
  BY Zenon, <1>u DEF TaskOnce
<1>r. RunInv'
  BY Zenon, <1>u DEF RunInv
<1>g. GuardInv'
  BY Zenon, <1>u DEF GuardInv
<1>q. TurnInv'
  BY ZenonT(60), <1>u DEF TurnInv
<1>n. NeedInv'
  BY Zenon, <1>u DEF NeedInv
<1>w. wrong' = {}
  <2>1. loop # "gone"
    BY ZenonT(60), <1>1 DEF ThreadInv, LoopInv
  <2>2. QED BY Zenon, <1>1, <2>1
<1>z. QED BY Zenon, <1>t, <1>c, <1>h, <1>l, <1>s, <1>o, <1>r, <1>g, <1>q, <1>n, <1>w DEF HomingInv

(* UnlockDrop: the end of a drop. *)
LEMMA UnlockDropKeeps ==
  ASSUME HomingAssumption, NEW t \in Workers, UnlockDrop(t)
  PROVE  HomingKept
PROOF
<1> SUFFICES ASSUME HomingTypes, CountInv, ThreadInv, LoopInv, TaskSent, TaskOnce, RunInv,
                    GuardInv, TurnInv, NeedInv, wrong = {}
             PROVE  HomingInv'
  BY Zenon DEF HomingKept, HomingInv
<1>1. /\ thread[t] = "unlock"
      /\ thread' = [thread EXCEPT ![t] = "none"]
      /\ droplock' = NoWorker
  BY Zenon DEF UnlockDrop, Thread
<1>u. UNCHANGED <<messages, signalled, refcnt, refd, loop, running, where, handles, guard,
                  held, turn, wrong>>
  BY ZenonT(60) DEF UnlockDrop, Thread
<1>2. /\ thread'[t] = "none"
      /\ \A u \in Workers : u # t => thread'[u] = thread[u]
  BY SMTT(30), <1>1 DEF HomingTypes, HandleTypes
<1>t. HomingTypes'
  <2>1. droplock' \in Workers \cup {NoWorker}
    BY SMTT(30), <1>1 DEF HomingTypes
  <2>2. thread' \in [Workers -> Doings]
    BY SMTT(30), <1>1 DEF HomingTypes, Doings
  <2>3. QED BY ZenonT(60), <1>u, <2>1, <2>2 DEF HomingTypes, HandleTypes
<1>c. CountInv'
  BY Zenon, <1>u DEF CountInv, AllHandles
<1>h. ThreadInv'
  <2>1. droplock = t
    BY Zenon, <1>1 DEF ThreadInv
  <2>2. \A u \in Workers : droplock' # u
    BY Zenon, <1>1, HomingAssumption DEF HomingAssumption
  <2>3. QED BY ZenonT(60), <1>1, <1>u, <1>2, <2>1, <2>2 DEF ThreadInv
<1>l. LoopInv'
  BY Zenon, <1>1, <1>u, <1>2 DEF LoopInv
<1>s. TaskSent'
  BY ZenonT(60), <1>u DEF TaskSent
<1>o. TaskOnce'
  BY Zenon, <1>u DEF TaskOnce
<1>r. RunInv'
  BY Zenon, <1>u DEF RunInv
<1>g. GuardInv'
  BY Zenon, <1>u DEF GuardInv
<1>q. TurnInv'
  BY Zenon, <1>u DEF TurnInv
<1>n. NeedInv'
  BY Zenon, <1>u DEF NeedInv
<1>w. wrong' = {}
  BY Zenon, <1>u
<1>z. QED BY Zenon, <1>t, <1>c, <1>h, <1>l, <1>s, <1>o, <1>r, <1>g, <1>q, <1>n, <1>w DEF HomingInv

(* AsyncCb: the callback begins. *)
LEMMA AsyncCbKeeps ==
  ASSUME HomingAssumption, AsyncCb
  PROVE  HomingKept
PROOF
<1> SUFFICES ASSUME HomingTypes, CountInv, ThreadInv, LoopInv, TaskSent, TaskOnce, RunInv,
                    GuardInv, TurnInv, NeedInv, wrong = {}
             PROVE  HomingInv'
  BY Zenon DEF HomingKept, HomingInv
<1>1. /\ loop = "idle"
      /\ signalled' = FALSE /\ loop' = "callback"
  BY Zenon DEF AsyncCb
<1>u. UNCHANGED <<messages, refcnt, refd, droplock, running, where, thread, handles, guard,
                  held, turn, wrong>>
  BY Zenon DEF AsyncCb
<1>t. HomingTypes'
  <2>1. signalled' \in BOOLEAN
    BY Zenon, <1>1
  <2>2. loop' \in {"idle", "callback", "gone"}
    BY Zenon, <1>1
  <2>3. QED BY Zenon, <1>u, <2>1, <2>2 DEF HomingTypes, HandleTypes
<1>c. CountInv'
  BY Zenon, <1>u DEF CountInv, AllHandles
<1>h. ThreadInv'
  BY Zenon, <1>u DEF ThreadInv
<1>l. LoopInv'
  BY Zenon, <1>1, <1>u DEF LoopInv
<1>s. TaskSent'
  BY Zenon, <1>u DEF TaskSent
<1>o. TaskOnce'
  BY Zenon, <1>u DEF TaskOnce
<1>r. RunInv'
  BY Zenon, <1>u DEF RunInv
<1>g. GuardInv'
  BY Zenon, <1>u DEF GuardInv
<1>q. TurnInv'
  BY Zenon, <1>u DEF TurnInv
<1>n. NeedInv'
  BY Zenon, <1>u DEF NeedInv
<1>w. wrong' = {}
  BY Zenon, <1>u
<1>z. QED BY ZenonT(60), <1>t, <1>c, <1>h, <1>l, <1>s, <1>o, <1>r, <1>g, <1>q, <1>n, <1>w DEF HomingInv

(* PopMessage of a Task: it runs, on the thread of the loop. *)
LEMMA PopTaskKeeps ==
  ASSUME HomingAssumption, NEW m, m = Head(messages), PopMessage, m.kind = "Task"
  PROVE  HomingKept
PROOF
<1> SUFFICES ASSUME HomingTypes, CountInv, ThreadInv, LoopInv, TaskSent, TaskOnce, RunInv,
                    GuardInv, TurnInv, NeedInv, wrong = {}
             PROVE  HomingInv'
  BY Zenon DEF HomingKept, HomingInv
<1>1. /\ loop = "callback" /\ running = NoWorker /\ messages # <<>>
      /\ messages' = Tail(messages) /\ running' = m.task
      /\ where' = [where EXCEPT ![m.task] = "home"]
  BY Zenon DEF PopMessage, To
<1>u. UNCHANGED <<signalled, refcnt, refd, droplock, loop, thread, handles, guard, held, turn,
                  wrong>>
  BY Zenon DEF PopMessage, To
<1>2. /\ m.task \in Workers
      /\ where[m.task] = "sent"
      /\ where'[m.task] = "home"
      /\ \A u \in Workers : u # m.task => where'[u] = where[u]
  <2>1. m \in Messages /\ m = messages[1] /\ 1 \in 1..Len(messages)
    BY Zenon, <1>1, PopFacts
  <2>2. m.task \in Workers /\ where[m.task] = "sent"
    BY Zenon, <2>1, MessageTask DEF TaskSent
  <2>3. where \in [Workers -> Places]
    BY Zenon DEF HomingTypes
  <2>4. QED BY Zenon, <1>1, <2>2, <2>3
<1>3. messages' \in Seq(Messages) /\ m \in Messages /\ m = messages[1] /\ 1 \in 1..Len(messages)
  BY Zenon, <1>1, PopFacts
<1>t. HomingTypes'
  <2>1. messages' \in Seq(Messages)
    BY Zenon, <1>3
  <2>2. running' \in Workers \cup {NoWorker}
    BY ZenonT(60), <1>1, <1>2
  <2>3. where' \in [Workers -> Places]
    BY ZenonT(60), <1>1, <1>2 DEF HomingTypes, Places
  <2>4. QED BY ZenonT(60), <1>u, <2>1, <2>2, <2>3 DEF HomingTypes, HandleTypes
<1>c. CountInv'
  <2>1. Weight(m.kind) = 0
    BY SMTT(30) DEF Weight
  <2>2. refcnt' = refcnt + Weight(m.kind)
    BY SMTT(30), <1>u, <2>1 DEF HomingTypes
  <2>3. refd' <=> refcnt' > 0
    BY ZenonT(60), <1>u DEF CountInv
  <2>4. QED BY ZenonT(60), <1>1, <1>u, <2>2, <2>3, HomingAssumption, CountPop
<1>h. ThreadInv'
  BY ZenonT(60), <1>1, <1>u, <1>2, HomingAssumption DEF ThreadInv, HomingAssumption
<1>l. LoopInv'
  BY Zenon, <1>1, <1>u, <1>2 DEF LoopInv
<1>so. TaskSent' /\ TaskOnce'
  <2>1. \A t \in Workers : where[t] = "sent" /\ where'[t] # "sent" => m.task = t
    BY Zenon, <1>2
  <2>2. QED BY ZenonT(60), <1>1, <2>1, SentPop
<1>r. RunInv'
  BY ZenonT(60), <1>1, <1>2, HomingAssumption DEF RunInv, HomingAssumption
<1>g. GuardInv'
  <2>1. m.task \notin guard
    BY Zenon, <1>2 DEF GuardInv
  <2>2. QED BY ZenonT(60), <1>u, <1>2, <2>1, GuardFrame
<1>q. TurnInv'
  <2>1. \A u \in Workers : where'[u] = "waiting" <=> where[u] = "waiting"
    BY Zenon, <1>1, <1>2
  <2>2. QED BY ZenonT(60), <1>u, <2>1, TurnFrame
<1>n. NeedInv'
  BY ZenonT(60), <1>1, <1>u, <1>2 DEF NeedInv
<1>w. wrong' = {}
  BY Zenon, <1>u
<1>z. QED BY ZenonT(60), <1>t, <1>c, <1>h, <1>l, <1>so, <1>r, <1>g, <1>q, <1>n, <1>w DEF HomingInv

(* PopMessage of an Increment. *)
LEMMA PopIncrementKeeps ==
  ASSUME HomingAssumption, NEW m, m = Head(messages), PopMessage, m.kind = "Increment"
  PROVE  HomingKept
PROOF
<1> SUFFICES ASSUME HomingTypes, CountInv, ThreadInv, LoopInv, TaskSent, TaskOnce, RunInv,
                    GuardInv, TurnInv, NeedInv, wrong = {}
             PROVE  HomingInv'
  BY ZenonT(60) DEF HomingKept, HomingInv
<1>1. /\ loop = "callback" /\ running = NoWorker /\ messages # <<>>
      /\ messages' = Tail(messages) /\ refcnt' = refcnt + 1 /\ refd' = TRUE
  BY Zenon DEF PopMessage
<1>u. UNCHANGED <<signalled, droplock, loop, running, where, thread, handles, guard, held,
                  turn, wrong>>
  BY Zenon DEF PopMessage
<1>2. /\ refcnt' \in Nat /\ refcnt' > 0
  BY SMTT(30), <1>1 DEF HomingTypes, HandleTypes
<1>3. messages' \in Seq(Messages) /\ m \in Messages /\ m = messages[1] /\ 1 \in 1..Len(messages)
  BY Zenon, <1>1, PopFacts
<1>t. HomingTypes'
  <2>1. messages' \in Seq(Messages)
    BY Zenon, <1>3
  <2>2. refcnt' \in Nat
    BY Zenon, <1>2
  <2>3. refd' \in BOOLEAN
    BY Zenon, <1>1
  <2>4. QED BY ZenonT(60), <1>u, <2>1, <2>2, <2>3 DEF HomingTypes, HandleTypes
<1>c. CountInv'
  <2>1. Weight(m.kind) = 1
    BY SMTT(30) DEF Weight
  <2>2. QED BY ZenonT(60), <1>1, <1>u, <1>2, <2>1, HomingAssumption, CountPop
<1>h. ThreadInv'
  BY Zenon, <1>u DEF ThreadInv
<1>l. LoopInv'
  BY Zenon, <1>1, <1>u DEF LoopInv
<1>so. TaskSent' /\ TaskOnce'
  <2>1. \A t \in Workers : ~(where[t] = "sent" /\ where'[t] # "sent")
    BY Zenon, <1>u
  <2>2. QED BY Zenon, <1>1, <2>1, SentPop
<1>r. RunInv'
  BY Zenon, <1>u DEF RunInv
<1>g. GuardInv'
  BY Zenon, <1>u DEF GuardInv
<1>q. TurnInv'
  BY ZenonT(60), <1>u DEF TurnInv
<1>n. NeedInv'
  BY Zenon, <1>u DEF NeedInv
<1>w. wrong' = {}
  BY Zenon, <1>u
<1>z. QED BY ZenonT(60), <1>t, <1>c, <1>h, <1>l, <1>so, <1>r, <1>g, <1>q, <1>n, <1>w DEF HomingInv

(* PopMessage of a Decrement, which may give up the reference. *)
LEMMA PopDecrementKeeps ==
  ASSUME HomingAssumption, NEW m, m = Head(messages), PopMessage, m.kind = "Decrement"
  PROVE  HomingKept
PROOF
<1> SUFFICES ASSUME HomingTypes, CountInv, ThreadInv, LoopInv, TaskSent, TaskOnce, RunInv,
                    GuardInv, TurnInv, NeedInv, wrong = {}
             PROVE  HomingInv'
  BY Zenon DEF HomingKept, HomingInv
<1>1. /\ loop = "callback" /\ running = NoWorker /\ messages # <<>>
      /\ messages' = Tail(messages) /\ refcnt' = refcnt - 1 /\ refd' = (refcnt # 1)
      /\ wrong' = IF refcnt = 0 THEN wrong \cup {"refcnt"} ELSE wrong
  BY Zenon DEF PopMessage
<1>u. UNCHANGED <<signalled, droplock, loop, running, where, thread, handles, guard, held,
                  turn>>
  BY Zenon DEF PopMessage
<1>2. /\ refcnt' = refcnt + Weight(m.kind)
      /\ refcnt > 0 /\ refcnt' \in Nat
      /\ refcnt # 0 /\ (refcnt # 1 <=> refcnt' > 0)
  <2>1. refcnt \in Nat
    BY Zenon DEF HomingTypes
  <2>2. Weight(m.kind) = -1
    BY SMTT(30) DEF Weight
  <2>3. refcnt' = refcnt + Weight(m.kind)
    BY SMTT(30), <1>1, <2>1, <2>2
  <2>4. refcnt > 0 /\ refcnt' \in Nat
    BY ZenonT(60), <1>1, <1>u, <2>3, HomingAssumption, CountPop
  <2>5. QED BY SMTT(30), <1>1, <2>1, <2>3, <2>4
<1>3. messages' \in Seq(Messages) /\ m \in Messages /\ m = messages[1] /\ 1 \in 1..Len(messages)
  BY Zenon, <1>1, PopFacts
<1>t. HomingTypes'
  <2>1. messages' \in Seq(Messages)
    BY Zenon, <1>3
  <2>2. refcnt' \in Nat
    BY Zenon, <1>2
  <2>3. refd' \in BOOLEAN
    BY Zenon, <1>1
  <2>4. QED BY ZenonT(60), <1>u, <2>1, <2>2, <2>3 DEF HomingTypes, HandleTypes
<1>c. CountInv'
  <2>1. refd' <=> refcnt' > 0
    BY Zenon, <1>1, <1>2
  <2>2. QED BY ZenonT(60), <1>1, <1>u, <1>2, <2>1, HomingAssumption, CountPop
<1>h. ThreadInv'
  BY Zenon, <1>u DEF ThreadInv
<1>l. LoopInv'
  BY Zenon, <1>1, <1>u DEF LoopInv
<1>so. TaskSent' /\ TaskOnce'
  <2>1. \A t \in Workers : ~(where[t] = "sent" /\ where'[t] # "sent")
    BY Zenon, <1>u
  <2>2. QED BY Zenon, <1>1, <2>1, SentPop
<1>r. RunInv'
  BY Zenon, <1>u DEF RunInv
<1>g. GuardInv'
  BY Zenon, <1>u DEF GuardInv
<1>q. TurnInv'
  BY ZenonT(60), <1>u DEF TurnInv
<1>n. NeedInv'
  BY Zenon, <1>u DEF NeedInv
<1>w. wrong' = {}
  BY Zenon, <1>1, <1>2
<1>z. QED BY ZenonT(60), <1>t, <1>c, <1>h, <1>l, <1>so, <1>r, <1>g, <1>q, <1>n, <1>w DEF HomingInv

(* PopNothing: the callback ends; without a reference it has waited for the *)
(* lock.                                                                    *)
LEMMA PopNothingKeeps ==
  ASSUME HomingAssumption, PopNothing
  PROVE  HomingKept
PROOF
<1> SUFFICES ASSUME HomingTypes, CountInv, ThreadInv, LoopInv, TaskSent, TaskOnce, RunInv,
                    GuardInv, TurnInv, NeedInv, wrong = {}
             PROVE  HomingInv'
  BY Zenon DEF HomingKept, HomingInv
<1>1. /\ loop = "callback"
      /\ refcnt = 0 => droplock = NoWorker
      /\ loop' = "idle"
  BY Zenon DEF PopNothing
<1>u. UNCHANGED <<messages, signalled, refcnt, refd, droplock, running, where, thread,
                  handles, guard, held, turn, wrong>>
  BY Zenon DEF PopNothing
<1>t. HomingTypes'
  <2>1. loop' \in {"idle", "callback", "gone"}
    BY Zenon, <1>1
  <2>2. QED BY Zenon, <1>u, <2>1 DEF HomingTypes, HandleTypes
<1>c. CountInv'
  BY Zenon, <1>u DEF CountInv, AllHandles
<1>h. ThreadInv'
  BY Zenon, <1>u DEF ThreadInv
<1>l. LoopInv'
  BY Zenon, <1>1, <1>u DEF LoopInv
<1>s. TaskSent'
  BY Zenon, <1>u DEF TaskSent
<1>o. TaskOnce'
  BY Zenon, <1>u DEF TaskOnce
<1>r. RunInv'
  BY Zenon, <1>u DEF RunInv
<1>g. GuardInv'
  BY Zenon, <1>u DEF GuardInv
<1>q. TurnInv'
  BY Zenon, <1>u DEF TurnInv
<1>n. NeedInv'
  BY ZenonT(60), <1>u DEF NeedInv
<1>w. wrong' = {}
  BY ZenonT(60), <1>u
<1>z. QED BY Zenon, <1>t, <1>c, <1>h, <1>l, <1>s, <1>o, <1>r, <1>g, <1>q, <1>n, <1>w DEF HomingInv

(* LoopEnds: the loop has nothing to do and is dropped. *)
LEMMA LoopEndsKeeps ==
  ASSUME HomingAssumption, LoopEnds
  PROVE  HomingKept
PROOF
<1> SUFFICES ASSUME HomingTypes, CountInv, ThreadInv, LoopInv, TaskSent, TaskOnce, RunInv,
                    GuardInv, TurnInv, NeedInv, wrong = {}
             PROVE  HomingInv'
  BY Zenon DEF HomingKept, HomingInv
<1>1. /\ loop = "idle" /\ ~refd
      /\ \A t \in Workers : where[t] = "done"
      /\ loop' = "gone"
  BY Zenon DEF LoopEnds
<1>u. UNCHANGED <<messages, signalled, refcnt, refd, droplock, running, where, thread,
                  handles, guard, held, turn, wrong>>
  BY Zenon DEF LoopEnds
<1>2. /\ refcnt = 0
  BY SMTT(30), <1>1 DEF CountInv, HomingTypes
<1>t. HomingTypes'
  <2>1. loop' \in {"idle", "callback", "gone"}
    BY ZenonT(60), <1>1
  <2>2. QED BY Zenon, <1>u, <2>1 DEF HomingTypes, HandleTypes
<1>c. CountInv'
  BY Zenon, <1>u DEF CountInv, AllHandles
<1>h. ThreadInv'
  BY Zenon, <1>u DEF ThreadInv
<1>l. LoopInv'
  BY ZenonT(60), <1>1, <1>u, <1>2 DEF LoopInv
<1>s. TaskSent'
  BY Zenon, <1>u DEF TaskSent
<1>o. TaskOnce'
  BY Zenon, <1>u DEF TaskOnce
<1>r. RunInv'
  BY Zenon, <1>u DEF RunInv
<1>g. GuardInv'
  BY Zenon, <1>u DEF GuardInv
<1>q. TurnInv'
  BY Zenon, <1>u DEF TurnInv
<1>n. NeedInv'
  BY Zenon, <1>u DEF NeedInv
<1>w. wrong' = {}
  BY Zenon, <1>u
<1>z. QED BY Zenon, <1>t, <1>c, <1>h, <1>l, <1>s, <1>o, <1>r, <1>g, <1>q, <1>n, <1>w DEF HomingInv

(* Grant, when the access is held: the task stands in line. *)
LEMMA GrantWaitsKeeps ==
  ASSUME HomingAssumption, NEW t \in Workers, Grant(t), held
  PROVE  HomingKept
PROOF
<1> SUFFICES ASSUME HomingTypes, CountInv, ThreadInv, LoopInv, TaskSent, TaskOnce, RunInv,
                    GuardInv, TurnInv, NeedInv, wrong = {}
             PROVE  HomingInv'
  BY Zenon DEF HomingKept, HomingInv
<1>1. /\ running = t /\ handles[t] > 0 /\ t \notin guard
      /\ turn' = Append(turn, t)
      /\ where' = [where EXCEPT ![t] = "waiting"]
      /\ running' = NoWorker
  BY Zenon DEF Grant, Resumed, To
<1>u. UNCHANGED <<messages, signalled, refcnt, refd, droplock, loop, thread, handles, guard,
                  held, wrong>>
  BY Zenon DEF Grant, Resumed, To
<1>2. /\ where'[t] = "waiting"
      /\ \A u \in Workers : u # t => where'[u] = where[u]
      /\ where[t] \in {"home", "granted"}
  BY SMTT(30), <1>1 DEF HomingTypes, RunInv
<1>3. turn' \in Seq(Workers)
  BY SMTT(30), <1>1 DEF HomingTypes
<1>t. HomingTypes'
  <2>1. turn' \in Seq(Workers)
    BY Zenon, <1>3
  <2>2. where' \in [Workers -> Places]
    BY SMTT(30), <1>1 DEF HomingTypes, Places
  <2>3. running' \in Workers \cup {NoWorker}
    BY SMTT(30), <1>1 DEF HomingTypes
  <2>4. QED BY ZenonT(60), <1>u, <2>1, <2>2, <2>3 DEF HomingTypes, HandleTypes
<1>c. CountInv'
  BY Zenon, <1>u DEF CountInv, AllHandles
<1>h. ThreadInv'
  BY ZenonT(60), <1>1, <1>u, <1>2, HomingAssumption DEF ThreadInv, HomingAssumption
<1>l. LoopInv'
  BY Zenon, <1>1, <1>u, <1>2 DEF LoopInv
<1>s. TaskSent'
  BY ZenonT(60), <1>1, <1>u, <1>2, SentFrame
<1>o. TaskOnce'
  BY Zenon, <1>u DEF TaskOnce
<1>r. RunInv'
  BY ZenonT(60), <1>1, <1>2, HomingAssumption DEF RunInv, HomingAssumption
<1>g. GuardInv'
  <2>1. \A u \in guard : u \in Workers /\ u # t
    BY Zenon, <1>1 DEF HomingTypes
  <2>2. /\ \A u \in guard : where'[u] \in {"home", "granted", "blocked"}
        /\ \A u \in Workers : where'[u] \in {"granted", "blocked"} => u \in guard
    BY Zenon, <1>2, <2>1 DEF GuardInv
  <2>3. QED BY Zenon, <1>u, <2>2 DEF GuardInv
<1>q. TurnInv'
  <2>1. turn \in Seq(Workers)
    BY Zenon DEF HomingTypes
  <2>2. /\ Len(turn') = Len(turn) + 1 /\ turn'[Len(turn) + 1] = t
        /\ \A i \in 1..Len(turn) : turn'[i] = turn[i]
        /\ \A i : i \in 1..(Len(turn) + 1) <=> i \in 1..Len(turn) \/ i = Len(turn) + 1
    BY SMTT(30), <1>1, <2>1
  <2>3. \A i \in 1..Len(turn) : turn[i] # t
    BY Zenon, <1>2 DEF TurnInv
  <2>4. ASSUME NEW u \in Workers
        PROVE  where'[u] = "waiting" <=> \E i \in 1..Len(turn') : turn'[i] = u
    <3>1. CASE u = t
      BY SMTT(30), <1>2, <2>2, <3>1
    <3>2. CASE u # t
      <4>1. where'[u] = "waiting" <=> \E i \in 1..Len(turn) : turn[i] = u
        BY ZenonT(60), <1>2, <3>2 DEF TurnInv
      <4>2. QED BY SMTT(30), <2>2, <3>2, <4>1
    <3>3. QED BY ZenonT(60), <3>1, <3>2
  <2>5. \A i, j \in 1..Len(turn') : turn'[i] = turn'[j] => i = j
    BY SMTT(30), <2>2, <2>3 DEF TurnInv
  <2>6. QED BY Zenon, <2>4, <2>5 DEF TurnInv
<1>n. NeedInv'
  BY Zenon, <1>1, <1>u, <1>2 DEF NeedInv
<1>w. wrong' = {}
  BY Zenon, <1>u
<1>z. QED BY ZenonT(60), <1>t, <1>c, <1>h, <1>l, <1>s, <1>o, <1>r, <1>g, <1>q, <1>n, <1>w DEF HomingInv

(* Grant, when the access is free. *)
LEMMA GrantTakesKeeps ==
  ASSUME HomingAssumption, NEW t \in Workers, Grant(t), ~held
  PROVE  HomingKept
PROOF
<1> SUFFICES ASSUME HomingTypes, CountInv, ThreadInv, LoopInv, TaskSent, TaskOnce, RunInv,
                    GuardInv, TurnInv, NeedInv, wrong = {}
             PROVE  HomingInv'
  BY Zenon DEF HomingKept, HomingInv
<1>1. /\ running = t /\ handles[t] > 0
      /\ held' = TRUE /\ guard' = guard \cup {t}
      /\ where' = [where EXCEPT ![t] = "granted"]
  BY Zenon DEF Grant, Resumed, To
<1>u. UNCHANGED <<messages, signalled, refcnt, refd, droplock, loop, running, thread, handles,
                  turn, wrong>>
  BY Zenon DEF Grant, Resumed, To
<1>2. /\ where'[t] = "granted"
      /\ \A u \in Workers : u # t => where'[u] = where[u]
      /\ where[t] \in {"home", "granted"}
  BY SMTT(30), <1>1 DEF HomingTypes, RunInv
<1>3. guard = {} /\ guard' = {t}
  BY Zenon, <1>1 DEF GuardInv
<1>t. HomingTypes'
  <2>1. guard' \in SUBSET Workers
    BY Zenon, <1>3
  <2>2. held' \in BOOLEAN
    BY ZenonT(60), <1>1
  <2>3. where' \in [Workers -> Places]
    BY SMTT(30), <1>1 DEF HomingTypes, Places
  <2>4. QED BY ZenonT(60), <1>u, <2>1, <2>2, <2>3 DEF HomingTypes, HandleTypes
<1>c. CountInv'
  BY Zenon, <1>u DEF CountInv, AllHandles
<1>h. ThreadInv'
  BY ZenonT(60), <1>1, <1>u, <1>2, HomingAssumption DEF ThreadInv, HomingAssumption
<1>l. LoopInv'
  BY Zenon, <1>1, <1>u, <1>2 DEF LoopInv
<1>s. TaskSent'
  BY ZenonT(60), <1>1, <1>u, <1>2, SentFrame
<1>o. TaskOnce'
  BY Zenon, <1>u DEF TaskOnce
<1>r. RunInv'
  BY Zenon, <1>1, <1>u, <1>2 DEF RunInv
<1>g. GuardInv'
  <2>1. \A u \in Workers : u # t => where'[u] \notin {"granted", "blocked"}
    BY Zenon, <1>2, <1>3 DEF GuardInv
  <2>2. QED BY Zenon, <1>1, <1>2, <1>3, <2>1 DEF GuardInv
<1>q. TurnInv'
  <2>1. \A u \in Workers : where'[u] = "waiting" <=> where[u] = "waiting"
    BY Zenon, <1>1, <1>2
  <2>2. QED BY ZenonT(60), <1>u, <2>1, TurnFrame
<1>n. NeedInv'
  BY ZenonT(60), <1>1, <1>u, <1>2, <1>3 DEF NeedInv
<1>w. wrong' = {}
  BY ZenonT(60), <1>u
<1>z. QED BY ZenonT(60), <1>t, <1>c, <1>h, <1>l, <1>s, <1>o, <1>r, <1>g, <1>q, <1>n, <1>w DEF HomingInv

(* WaitIo: the task that has the access sleeps until its request is done. *)
LEMMA WaitIoKeeps ==
  ASSUME HomingAssumption, NEW t \in Workers, WaitIo(t)
  PROVE  HomingKept
PROOF
<1> SUFFICES ASSUME HomingTypes, CountInv, ThreadInv, LoopInv, TaskSent, TaskOnce, RunInv,
                    GuardInv, TurnInv, NeedInv, wrong = {}
             PROVE  HomingInv'
  BY Zenon DEF HomingKept, HomingInv
<1>1. /\ running = t /\ where[t] = "granted"
      /\ running' = NoWorker
      /\ where' = [where EXCEPT ![t] = "blocked"]
  BY Zenon DEF WaitIo, Resumed, To
<1>u. UNCHANGED <<messages, signalled, refcnt, refd, droplock, loop, thread, handles, guard,
                  held, turn, wrong>>
  BY Zenon DEF WaitIo, Resumed, To
<1>2. /\ where'[t] = "blocked"
      /\ \A u \in Workers : u # t => where'[u] = where[u]
  BY SMTT(30), <1>1 DEF HomingTypes, HandleTypes
<1>t. HomingTypes'
  <2>1. running' \in Workers \cup {NoWorker}
    BY SMTT(30), <1>1 DEF HomingTypes
  <2>2. where' \in [Workers -> Places]
    BY SMTT(30), <1>1 DEF HomingTypes, Places
  <2>3. QED BY Zenon, <1>u, <2>1, <2>2 DEF HomingTypes, HandleTypes
<1>c. CountInv'
  BY Zenon, <1>u DEF CountInv, AllHandles
<1>h. ThreadInv'
  BY ZenonT(60), <1>1, <1>u, <1>2, HomingAssumption DEF ThreadInv, HomingAssumption
<1>l. LoopInv'
  BY Zenon, <1>1, <1>u, <1>2 DEF LoopInv
<1>s. TaskSent'
  BY ZenonT(60), <1>1, <1>u, <1>2, SentFrame
<1>o. TaskOnce'
  BY Zenon, <1>u DEF TaskOnce
<1>r. RunInv'
  BY Zenon, <1>1, <1>2, HomingAssumption DEF RunInv, HomingAssumption
<1>g. GuardInv'
  <2>1. t \in guard
    BY ZenonT(60), <1>1 DEF GuardInv
  <2>2. QED BY ZenonT(60), <1>u, <1>2, <2>1, GuardFrame
<1>q. TurnInv'
  <2>1. \A u \in Workers : where'[u] = "waiting" <=> where[u] = "waiting"
    BY Zenon, <1>1, <1>2
  <2>2. QED BY Zenon, <1>u, <2>1, TurnFrame
<1>n. NeedInv'
  BY ZenonT(60), <1>1, <1>u, <1>2 DEF NeedInv
<1>w. wrong' = {}
  BY Zenon, <1>u
<1>z. QED BY Zenon, <1>t, <1>c, <1>h, <1>l, <1>s, <1>o, <1>r, <1>g, <1>q, <1>n, <1>w DEF HomingInv

(* IoDone: it is woken. *)
LEMMA IoDoneKeeps ==
  ASSUME HomingAssumption, NEW t \in Workers, IoDone(t)
  PROVE  HomingKept
PROOF
<1> SUFFICES ASSUME HomingTypes, CountInv, ThreadInv, LoopInv, TaskSent, TaskOnce, RunInv,
                    GuardInv, TurnInv, NeedInv, wrong = {}
             PROVE  HomingInv'
  BY Zenon DEF HomingKept, HomingInv
<1>1. /\ running = NoWorker /\ where[t] = "blocked"
      /\ running' = t
      /\ where' = [where EXCEPT ![t] = "home"]
  BY Zenon DEF IoDone, To
<1>u. UNCHANGED <<messages, signalled, refcnt, refd, droplock, loop, thread, handles, guard,
                  held, turn, wrong>>
  BY Zenon DEF IoDone, To
<1>2. /\ where'[t] = "home"
      /\ \A u \in Workers : u # t => where'[u] = where[u]
  BY SMTT(30), <1>1 DEF HomingTypes, HandleTypes
<1>t. HomingTypes'
  <2>1. running' \in Workers \cup {NoWorker}
    BY SMTT(30), <1>1 DEF HomingTypes
  <2>2. where' \in [Workers -> Places]
    BY SMTT(30), <1>1 DEF HomingTypes, Places
  <2>3. QED BY Zenon, <1>u, <2>1, <2>2 DEF HomingTypes, HandleTypes
<1>c. CountInv'
  BY Zenon, <1>u DEF CountInv, AllHandles
<1>h. ThreadInv'
  BY ZenonT(60), <1>1, <1>u, <1>2, HomingAssumption DEF ThreadInv, HomingAssumption
<1>l. LoopInv'
  BY Zenon, <1>1, <1>u, <1>2 DEF LoopInv
<1>s. TaskSent'
  BY ZenonT(60), <1>1, <1>u, <1>2, SentFrame
<1>o. TaskOnce'
  BY Zenon, <1>u DEF TaskOnce
<1>r. RunInv'
  BY Zenon, <1>1, <1>2, HomingAssumption DEF RunInv, HomingAssumption
<1>g. GuardInv'
  <2>1. t \in guard
    BY ZenonT(60), <1>1 DEF GuardInv
  <2>2. QED BY ZenonT(60), <1>u, <1>2, <2>1, GuardFrame
<1>q. TurnInv'
  <2>1. \A u \in Workers : where'[u] = "waiting" <=> where[u] = "waiting"
    BY Zenon, <1>1, <1>2
  <2>2. QED BY Zenon, <1>u, <2>1, TurnFrame
<1>n. NeedInv'
  BY ZenonT(60), <1>1, <1>u, <1>2 DEF NeedInv
<1>w. wrong' = {}
  BY Zenon, <1>u
<1>z. QED BY Zenon, <1>t, <1>c, <1>h, <1>l, <1>s, <1>o, <1>r, <1>g, <1>q, <1>n, <1>w DEF HomingInv

(* DropGuard with nobody in line. *)
LEMMA DropGuardFreesKeeps ==
  ASSUME HomingAssumption, NEW t \in Workers, DropGuard(t), turn = <<>>
  PROVE  HomingKept
PROOF
<1> SUFFICES ASSUME HomingTypes, CountInv, ThreadInv, LoopInv, TaskSent, TaskOnce, RunInv,
                    GuardInv, TurnInv, NeedInv, wrong = {}
             PROVE  HomingInv'
  BY Zenon DEF HomingKept, HomingInv
<1>1. /\ running = t /\ t \in guard
      /\ held' = FALSE /\ guard' = guard \ {t}
      /\ where' = [where EXCEPT ![t] = "home"]
  BY Zenon DEF DropGuard, Resumed, To
<1>u. UNCHANGED <<messages, signalled, refcnt, refd, droplock, loop, running, thread, handles,
                  turn, wrong>>
  BY Zenon DEF DropGuard, Resumed, To
<1>2. /\ where'[t] = "home"
      /\ \A u \in Workers : u # t => where'[u] = where[u]
      /\ where[t] \in {"home", "granted"}
  BY SMTT(30), <1>1 DEF HomingTypes, RunInv
<1>3. guard' = {} /\ \A u \in Workers : u # t => u \notin guard
  BY Zenon, <1>1 DEF GuardInv
<1>t. HomingTypes'
  <2>1. guard' \in SUBSET Workers
    BY ZenonT(60), <1>3
  <2>2. held' \in BOOLEAN
    BY ZenonT(60), <1>1
  <2>3. where' \in [Workers -> Places]
    BY SMTT(30), <1>1 DEF HomingTypes, Places
  <2>4. QED BY ZenonT(60), <1>u, <2>1, <2>2, <2>3 DEF HomingTypes, HandleTypes
<1>c. CountInv'
  BY Zenon, <1>u DEF CountInv, AllHandles
<1>h. ThreadInv'
  BY ZenonT(60), <1>1, <1>u, <1>2, HomingAssumption DEF ThreadInv, HomingAssumption
<1>l. LoopInv'
  BY ZenonT(60), <1>1, <1>u, <1>2 DEF LoopInv
<1>s. TaskSent'
  BY ZenonT(60), <1>1, <1>u, <1>2, SentFrame
<1>o. TaskOnce'
  BY Zenon, <1>u DEF TaskOnce
<1>r. RunInv'
  BY ZenonT(60), <1>1, <1>u, <1>2 DEF RunInv
<1>g. GuardInv'
  <2>1. \A u \in Workers : where'[u] \notin {"granted", "blocked"}
    BY Zenon, <1>2, <1>3 DEF GuardInv
  <2>2. QED BY ZenonT(60), <1>1, <1>u, <1>3, <2>1 DEF GuardInv
<1>q. TurnInv'
  <2>1. \A u \in Workers : where'[u] = "waiting" <=> where[u] = "waiting"
    BY Zenon, <1>1, <1>2
  <2>2. QED BY ZenonT(60), <1>u, <2>1, TurnFrame
<1>n. NeedInv'
  BY ZenonT(60), <1>1, <1>u, <1>2, <1>3 DEF NeedInv
<1>w. wrong' = {}
  BY Zenon, <1>u
<1>z. QED BY ZenonT(60), <1>t, <1>c, <1>h, <1>l, <1>s, <1>o, <1>r, <1>g, <1>q, <1>n, <1>w DEF HomingInv

(* DropGuard with somebody in line, who gets the access while it stays      *)
(* held.                                                                    *)
LEMMA DropGuardHandsKeeps ==
  ASSUME HomingAssumption, NEW t \in Workers, NEW u, u = Head(turn), DropGuard(t), turn # <<>>
  PROVE  HomingKept
PROOF
<1> SUFFICES ASSUME HomingTypes, CountInv, ThreadInv, LoopInv, TaskSent, TaskOnce, RunInv,
                    GuardInv, TurnInv, NeedInv, wrong = {}
             PROVE  HomingInv'
  BY Zenon DEF HomingKept, HomingInv
<1>1. /\ running = t /\ t \in guard
      /\ turn' = Tail(turn) /\ running' = u /\ guard' = (guard \ {t}) \cup {u}
      /\ where' = [where EXCEPT ![t] = "ready", ![u] = "granted"]
      /\ wrong' = IF held THEN wrong ELSE wrong \cup {"assert!(inner.held)"}
  BY Zenon DEF DropGuard, Resumed
<1>u. UNCHANGED <<messages, signalled, refcnt, refd, droplock, loop, thread, handles, held>>
  BY ZenonT(60) DEF DropGuard, Resumed
<1>2. /\ u \in Workers /\ u # t /\ where[u] = "waiting" /\ where[t] \in {"home", "granted"}
      /\ where'[t] = "ready" /\ where'[u] = "granted"
      /\ \A v \in Workers : v # t /\ v # u => where'[v] = where[v]
      /\ turn' \in Seq(Workers) /\ u = turn[1] /\ 1 \in 1..Len(turn)
  <2>1. turn \in Seq(Workers) /\ where \in [Workers -> Places]
    BY Zenon DEF HomingTypes
  <2>2. turn' \in Seq(Workers) /\ u \in Workers /\ u = turn[1] /\ 1 \in 1..Len(turn)
    BY SMTT(30), <1>1, <2>1, Tailed
  <2>3. where[u] = "waiting" /\ where[t] \in {"home", "granted"}
    BY Zenon, <1>1, <2>2 DEF TurnInv, RunInv
  <2>4. u # t
    BY Zenon, <2>3
  <2>5. QED BY SMTT(30), <1>1, <2>1, <2>2, <2>3, <2>4
<1>4. guard' = {u} /\ guard # {} /\ held /\ \A v \in Workers : v # t => v \notin guard
  BY Zenon, <1>1 DEF GuardInv
<1>t. HomingTypes'
  <2>1. guard' \in SUBSET Workers
    BY Zenon, <1>2, <1>4
  <2>2. running' \in Workers \cup {NoWorker}
    BY ZenonT(60), <1>1, <1>2
  <2>3. turn' \in Seq(Workers)
    BY ZenonT(60), <1>2
  <2>4. where' \in [Workers -> Places]
    BY SMTT(30), <1>1, <1>2 DEF HomingTypes, Places
  <2>5. QED BY ZenonT(60), <1>u, <2>1, <2>2, <2>3, <2>4 DEF HomingTypes, HandleTypes
<1>c. CountInv'
  BY Zenon, <1>u DEF CountInv, AllHandles
<1>h. ThreadInv'
  BY ZenonT(60), <1>1, <1>u, <1>2, HomingAssumption DEF ThreadInv, HomingAssumption
<1>l. LoopInv'
  BY Zenon, <1>1, <1>u, <1>2 DEF LoopInv
<1>s. TaskSent'
  <2>1. \A v \in Workers : where[v] = "sent" => where'[v] = "sent"
    BY Zenon, <1>2
  <2>2. QED BY ZenonT(60), <1>u, <2>1, SentFrame
<1>o. TaskOnce'
  BY Zenon, <1>u DEF TaskOnce
<1>r. RunInv'
  BY ZenonT(60), <1>1, <1>2, HomingAssumption DEF RunInv, HomingAssumption
<1>g. GuardInv'
  <2>1. \A v \in Workers : v # u => where'[v] \notin {"granted", "blocked"}
    BY Zenon, <1>2, <1>4 DEF GuardInv
  <2>2. QED BY ZenonT(60), <1>u, <1>2, <1>4, <2>1 DEF GuardInv
<1>q. TurnInv'
  <2>1. turn \in Seq(Workers)
    BY Zenon DEF HomingTypes
  <2>2. /\ Len(turn) \in Nat \ {0} /\ Len(turn') = Len(turn) - 1
        /\ \A i \in 1..(Len(turn) - 1) : turn'[i] = turn[i + 1]
    BY SMTT(30), <1>1, <2>1, Tailed
  <2>3. \A i \in 1..Len(turn') : turn'[i] # u
    BY SMTT(30), <1>2, <2>2 DEF TurnInv
  <2>4. ASSUME NEW v \in Workers
        PROVE  where'[v] = "waiting" <=> \E i \in 1..Len(turn') : turn'[i] = v
    <3>1. CASE v = u
      BY ZenonT(60), <1>2, <2>3, <3>1
    <3>2. CASE v # u
      <4>1. where'[v] = "waiting" <=> where[v] = "waiting"
        BY Zenon, <1>2, <3>2
      <4>2. ASSUME NEW i \in 1..Len(turn), turn[i] = v PROVE \E j \in 1..Len(turn') : turn'[j] = v
        <5>1. i # 1
          BY ZenonT(60), <1>2, <3>2, <4>2
        <5>2. i - 1 \in 1..Len(turn') /\ turn'[i - 1] = v
          BY SMTT(30), <2>2, <4>2, <5>1
        <5>3. QED BY Zenon, <5>2
      <4>3. ASSUME NEW j \in 1..Len(turn'), turn'[j] = v PROVE \E i \in 1..Len(turn) : turn[i] = v
        <5>1. j + 1 \in 1..Len(turn) /\ turn[j + 1] = v
          BY SMTT(30), <2>2, <4>3
        <5>2. QED BY ZenonT(60), <5>1
      <4>4. QED BY ZenonT(60), <4>1, <4>2, <4>3 DEF TurnInv
    <3>3. QED BY ZenonT(60), <3>1, <3>2
  <2>5. \A i, j \in 1..Len(turn') : turn'[i] = turn'[j] => i = j
    BY SMTT(30), <2>2 DEF TurnInv
  <2>6. QED BY ZenonT(60), <2>4, <2>5 DEF TurnInv
<1>n. NeedInv'
  <2>1. handles[u] > 0
    BY Zenon, <1>2 DEF NeedInv
  <2>2. QED BY ZenonT(60), <1>u, <1>2, <1>4, <2>1 DEF NeedInv
<1>w. wrong' = {}
  BY ZenonT(60), <1>1, <1>4
<1>z. QED BY ZenonT(60), <1>t, <1>c, <1>h, <1>l, <1>s, <1>o, <1>r, <1>g, <1>q, <1>n, <1>w DEF HomingInv

(* A step that changes nothing. *)
LEMMA HomingStutters ==
  ASSUME UNCHANGED homingvars
  PROVE  HomingKept
PROOF
<1> SUFFICES ASSUME HomingTypes, CountInv, ThreadInv, LoopInv, TaskSent, TaskOnce, RunInv,
                    GuardInv, TurnInv, NeedInv, wrong = {}
             PROVE  HomingInv'
  BY Zenon DEF HomingKept, HomingInv
<1>1. UNCHANGED <<messages, signalled, refcnt, refd, droplock, loop, running, where, thread,
                  handles, guard, held, turn, wrong>>
  BY Zenon DEF homingvars
<1>2. HomingTypes'
  BY Zenon, <1>1 DEF HomingTypes, HandleTypes
<1>3. CountInv'
  BY Zenon, <1>1 DEF CountInv, AllHandles
<1>4. ThreadInv' /\ LoopInv' /\ RunInv' /\ NeedInv'
  BY Zenon, <1>1 DEF ThreadInv, LoopInv, RunInv, NeedInv
<1>5. TaskSent' /\ TaskOnce'
  BY Zenon, <1>1 DEF TaskSent, TaskOnce
<1>6. GuardInv' /\ TurnInv'
  BY ZenonT(60), <1>1 DEF GuardInv, TurnInv
<1>7. QED BY ZenonT(60), <1>1, <1>2, <1>3, <1>4, <1>5, <1>6 DEF HomingInv

(* The initial states. *)
LEMMA HomingStarts ==
  ASSUME HomingAssumption, HomingInit
  PROVE  HomingInv
PROOF
<1>1. /\ messages = <<>> /\ signalled = FALSE /\ droplock = NoWorker /\ loop = "idle"
      /\ running = NoWorker /\ guard = {} /\ held = FALSE /\ turn = <<>> /\ wrong = {}
  BY Zenon DEF HomingInit
<1>2. /\ \A t \in Workers : where[t] = "ready" /\ thread[t] = "none" /\ handles[t] = 1
      /\ where = [t \in Workers |-> "ready"] /\ thread = [t \in Workers |-> "none"]
      /\ handles = [t \in Workers |-> 1]
      /\ refcnt = Cardinality(Workers) /\ refd = (refcnt > 0)
  BY Zenon DEF HomingInit
<1>3. Len(messages) = 0 /\ Len(turn) = 0 /\ messages \in Seq(Messages) /\ turn \in Seq(Workers)
  BY SMTT(30), <1>1
<1>4. IsFiniteSet(Workers) /\ Cardinality(Workers) \in Nat
  BY FS_CardinalityType, HomingAssumption DEF HomingAssumption
<1>5. HomingTypes
  <2>1. HandleTypes
    BY SMTT(30), <1>2, HomingAssumption DEF HandleTypes, HomingAssumption
  <2>2. refd \in BOOLEAN
    <3>1. refd = (refcnt > 0) /\ refcnt \in Nat
      BY ZenonT(60), <1>2, <1>4
    <3>2. QED BY SMTT(30), <3>1
  <2>3. where \in [Workers -> Places] /\ thread \in [Workers -> Doings]
    BY Zenon, <1>2 DEF Places, Doings
  <2>4. QED BY ZenonT(60), <1>1, <1>2, <1>3, <1>4, <2>1, <2>2, <2>3 DEF HomingTypes
<1>6. CountInv
  <2> DEFINE f == [t \in Workers |-> <<t, 1>>]
  <2>1. AllHandles = {h \in Workers \X (1..MaxHandles) : h[2] = 1}
    BY SMTT(30), <1>2, HomingAssumption DEF AllHandles, HomingAssumption
  <2>2. f \in Bijection(Workers, AllHandles)
    <3>1. f \in [Workers -> AllHandles]
      BY SMTT(30), <2>1, HomingAssumption DEF HomingAssumption
    <3>2. \A t, u \in Workers : f[t] = f[u] => t = u
      BY SMTT(30)
    <3>3. \A h \in AllHandles : \E t \in Workers : f[t] = h
      BY SMTT(30), <2>1
    <3>4. QED BY ZenonT(60), <3>1, <3>2, <3>3 DEF Bijection, Injection, Surjection, IsInjective
  <2>3. Cardinality(AllHandles) = Cardinality(Workers)
    <3>1. ExistsBijection(Workers, AllHandles)
      BY Zenon, <2>2 DEF ExistsBijection
    <3>2. QED BY ZenonT(60), <1>4, <3>1, FS_Bijection
  <2>4. Due(messages, 0) = 0
    BY SMTT(30), DueInt
  <2>5. refcnt + Due(messages, Len(messages)) = Cardinality(AllHandles)
    BY SMTT(30), <1>2, <1>3, <1>4, <2>3, <2>4
  <2>6. ~ \E k : k \in 0..(Len(messages) - 1)
    BY SMTT(30), <1>3
  <2>7. refd <=> refcnt > 0
    BY Zenon, <1>2
  <2>8. QED BY ZenonT(60), <2>5, <2>6, <2>7 DEF CountInv
<1>7. ThreadInv
  <2>1. 1 > 0 /\ \A t \in Workers : t # NoWorker
    BY SMTT(30), HomingAssumption DEF HomingAssumption
  <2>2. QED BY ZenonT(60), <1>1, <1>2, <2>1 DEF ThreadInv
<1>8. LoopInv
  BY Zenon, <1>1 DEF LoopInv
<1>9. ~ \E i : i \in 1..Len(messages) \/ i \in 1..Len(turn)
  BY SMTT(30), <1>3
<1>10. TaskSent /\ TaskOnce
  BY Zenon, <1>9 DEF TaskSent, TaskOnce
<1>11. RunInv
  BY ZenonT(60), <1>1, <1>2, HomingAssumption DEF RunInv, HomingAssumption
<1>12. GuardInv
  BY Zenon, <1>1, <1>2 DEF GuardInv
<1>13. TurnInv
  BY Zenon, <1>2, <1>9 DEF TurnInv
<1>14. NeedInv
  BY Zenon, <1>1, <1>2 DEF NeedInv
<1>15. QED BY Zenon, <1>1, <1>5, <1>6, <1>7, <1>8, <1>10, <1>11, <1>12, <1>13, <1>14 DEF HomingInv

(* Every step keeps the invariant: one case for each action, and for each   *)
(* branch of those that have two.                                           *)
LEMMA HomingNextKeeps ==
  ASSUME HomingAssumption, [HomingNext]_homingvars
  PROVE  HomingKept
PROOF
<1>1. CASE UNCHANGED homingvars
  BY Zenon, <1>1, HomingStutters
<1>2. CASE LoopStep
  <2>1. CASE AsyncCb
    BY Zenon, <2>1, AsyncCbKeeps
  <2>2. CASE PopMessage
    <3> DEFINE m == Head(messages)
    <3>1. m.kind \in {"Task", "Increment", "Decrement"}
      BY Zenon, <2>2 DEF PopMessage
    <3> HIDE DEF m
    <3>2. m = Head(messages)
      BY ZenonT(60) DEF m
    <3>3. QED BY ZenonT(60), <2>2, <3>1, <3>2, PopTaskKeeps, PopIncrementKeeps, PopDecrementKeeps
  <2>3. CASE PopNothing
    BY Zenon, <2>3, PopNothingKeeps
  <2>4. CASE LoopEnds
    BY Zenon, <2>4, LoopEndsKeeps
  <2>5. ASSUME NEW t \in Workers, RunTask(t) PROVE HomingKept
    BY Zenon, <2>5, RunTaskKeeps
  <2>6. ASSUME NEW t \in Workers, IoDone(t) PROVE HomingKept
    BY ZenonT(60), <2>6, IoDoneKeeps
  <2>7. QED BY ZenonT(60), <1>2, <2>1, <2>2, <2>3, <2>4, <2>5, <2>6 DEF LoopStep
<1>3. ASSUME NEW t \in Workers, ThreadStep(t) PROVE HomingKept
  BY ZenonT(60), <1>3, LinkMessageKeeps, SignalLoopKeeps, UnlockDropKeeps DEF ThreadStep
<1>4. ASSUME NEW t \in Workers, TaskStep(t) PROVE HomingKept
  <2>1. CASE Leave(t) \/ Steal(t) \/ Finish(t)
    BY ZenonT(60), <2>1, LeaveKeeps, StealKeeps, FinishKeeps
  <2>2. CASE MakeHandle(t) \/ GoHome(t) \/ WaitIo(t)
    BY ZenonT(60), <2>2, MakeHandleKeeps, GoHomeKeeps, WaitIoKeeps
  <2>3. CASE Clone(t)
    BY ZenonT(60), <2>3, CloneAwayKeeps, CloneHomeKeeps DEF Clone
  <2>4. CASE DropHandle(t)
    <3>1. Away(t) \/ Resumed(t)
      BY Zenon, <2>4 DEF DropHandle
    <3>2. QED BY ZenonT(60), <2>4, <3>1, DropAwayKeeps, DropHomeKeeps
  <2>5. CASE Grant(t)
    BY ZenonT(60), <2>5, GrantWaitsKeeps, GrantTakesKeeps
  <2>6. CASE DropGuard(t)
    <3> DEFINE u == Head(turn)
    <3> HIDE DEF u
    <3>1. u = Head(turn)
      BY Zenon DEF u
    <3>2. QED BY ZenonT(60), <2>6, <3>1, DropGuardFreesKeeps, DropGuardHandsKeeps
  <2>7. QED BY ZenonT(60), <1>4, <2>1, <2>2, <2>3, <2>4, <2>5, <2>6 DEF TaskStep
<1>5. QED BY ZenonT(60), <1>1, <1>2, <1>3, <1>4 DEF HomingNext, HomingOver

(* What the invariant says of the properties. *)
LEMMA HomingMeans ==
  ASSUME HomingAssumption, HomingInv
  PROVE  LoopKept /\ SendersDone /\ AccessExclusive
PROOF
<1> SUFFICES ASSUME HomingTypes, CountInv, ThreadInv, LoopInv, GuardInv, TurnInv, NeedInv,
                    wrong = {}
             PROVE  LoopKept /\ SendersDone /\ AccessExclusive
  BY Zenon DEF HomingInv
<1>1. /\ messages \in Seq(Messages) /\ turn \in Seq(Workers)
      /\ handles \in [Workers -> 0..MaxHandles] /\ refcnt \in Nat
  BY Zenon DEF HomingTypes, HandleTypes
<1>2. /\ Len(messages) \in Nat /\ DOMAIN messages = 1..Len(messages)
      /\ DOMAIN turn = 1..Len(turn)
      /\ \A i \in 1..Len(messages) : messages[i] \in Messages
  BY SMTT(30), <1>1
<1>3. refd \in BOOLEAN /\ (refd <=> refcnt > 0)
  BY Zenon DEF HomingTypes, CountInv
<1>4. (\E t \in Workers : handles[t] > 0) => refcnt # 0
  <2>1. ASSUME NEW t \in Workers, handles[t] > 0 PROVE handles[t] # 0
    BY SMTT(30), <1>1, <2>1
  <2>2. QED BY ZenonT(60), <2>1, HomingAssumption, Unreferenced
<1>5. LoopKept
  <2>1. HomingTypeOK
    <3>1. \A i \in DOMAIN messages :
            messages[i] \in [kind : {"Task", "Increment", "Decrement"}, task : Workers,
                             linked : BOOLEAN]
      BY Zenon, <1>2 DEF Messages, Kinds
    <3>2. {signalled, refd, held} \subseteq BOOLEAN
      BY Zenon DEF HomingTypes
    <3>3. QED BY ZenonT(60), <1>1, <3>1, <3>2 DEF HomingTypes, HomingTypeOK, Places
  <2>2. refcnt + Queued("Increment") - Queued("Decrement") = Cardinality(AllHandles)
    <3> DEFINE n == Len(messages)
               a == Cardinality(UpTo(messages, "Increment", n))
               b == Cardinality(UpTo(messages, "Decrement", n))
    <3>1. Queued("Increment") = a /\ Queued("Decrement") = b
      BY Zenon, <1>2 DEF Queued, UpTo
    <3>2. a \in Nat /\ b \in Nat
      BY Zenon, <1>2, UpToFinite
    <3>3. refcnt + (a - b) = Cardinality(AllHandles)
      BY Zenon DEF CountInv, Due
    <3> HIDE DEF a, b
    <3>4. QED BY SMTT(30), <1>1, <3>1, <3>2, <3>3
  <2>3. refd = (refcnt > 0)
    BY SMTT(30), <1>1, <1>3
  <2>4. (\E t \in Workers : handles[t] > 0) => refd /\ loop # "gone"
    <3>1. refcnt # 0 => refcnt > 0
      BY SMTT(30), <1>1
    <3>2. QED BY ZenonT(60), <1>3, <1>4, <3>1 DEF LoopInv
  <2>5. QED BY ZenonT(60), <2>1, <2>2, <2>3, <2>4 DEF LoopKept
<1>6. SendersDone
  <2> SUFFICES ASSUME loop = "gone" \/ (loop = "idle" /\ ~refd)
               PROVE  messages = <<>> /\ \A t \in Workers : thread[t] = "none"
    BY Zenon DEF SendersDone
  <2>1. refcnt = 0
    <3>1. ~refd => refcnt = 0
      BY SMTT(30), <1>1 DEF CountInv
    <3>2. QED BY ZenonT(60), <3>1 DEF LoopInv
  <2>2. droplock = NoWorker
    BY Zenon, <2>1 DEF LoopInv
  <2>3. messages = <<>> /\ \A t \in Workers : handles[t] = 0
    BY ZenonT(60), <2>1, HomingAssumption, Unreferenced
  <2>4. ~ 0 > 0
    BY SMTT(30)
  <2>5. ASSUME NEW t \in Workers PROVE thread[t] = "none"
    <3>1. thread[t] \in Doings
      BY Zenon DEF HomingTypes
    <3>2. droplock # t
      BY ZenonT(60), <2>2, HomingAssumption DEF HomingAssumption
    <3>3. ~ handles[t] > 0
      BY Zenon, <2>3, <2>4
    <3>4. QED BY ZenonT(60), <3>1, <3>2, <3>3 DEF Doings, ThreadInv
  <2>6. QED BY Zenon, <2>3, <2>5
<1>7. AccessExclusive
  <2>1. Cardinality(guard) <= 1
    <3>1. CASE guard = {}
      BY SMTT(30), <3>1, FS_EmptySet
    <3>2. ASSUME NEW t \in guard PROVE Cardinality(guard) = 1
      <4>1. guard = {t}
        BY Zenon, <3>2 DEF GuardInv
      <4>2. QED BY ZenonT(60), <4>1, FS_Singleton
    <3>3. Cardinality(guard) = 0 \/ Cardinality(guard) = 1
      BY Zenon, <3>1, <3>2, FS_EmptySet
    <3>4. QED BY SMTT(30), <3>3
  <2>2. held = (guard # {})
    BY Zenon DEF HomingTypes, GuardInv
  <2>3. (\A t \in Workers : handles[t] = 0) => ~held
    <3>1. ~ 0 > 0
      BY SMTT(30)
    <3>2. ASSUME NEW t \in guard, handles[t] = 0 PROVE FALSE
      <4>1. t \in Workers
        BY Zenon, <3>2 DEF HomingTypes
      <4>2. handles[t] > 0
        BY ZenonT(60), <3>2, <4>1 DEF NeedInv
      <4>3. QED BY Zenon, <3>1, <3>2, <4>2
    <3>3. \A t \in guard : t \in Workers
      BY Zenon DEF HomingTypes
    <3>4. QED BY Zenon, <2>2, <3>2, <3>3
  <2>4. \A t \in Workers : where[t] = "waiting" <=> \E i \in DOMAIN turn : turn[i] = t
    BY Zenon, <1>2 DEF TurnInv
  <2>5. QED BY ZenonT(60), <2>1, <2>2, <2>3, <2>4 DEF AccessExclusive, GuardInv
<1>8. QED BY ZenonT(60), <1>5, <1>6, <1>7

(* The invariant always holds. *)
LEMMA HomingAlways == HomingAssumption /\ HomingSpec => []HomingInv
PROOF
<1>1. HomingAssumption /\ HomingInit => HomingInv
  BY Zenon, HomingStarts
<1>2. HomingAssumption /\ HomingInv /\ [HomingNext]_homingvars => HomingInv'
  <2>1. HomingAssumption /\ [HomingNext]_homingvars => HomingKept
    BY Zenon, HomingNextKeeps
  <2>2. QED BY Zenon, <2>1 DEF HomingKept
<1>3. QED BY PTL, <1>1, <1>2, HomingAssumption DEF HomingSpec

(* For any tasks and any numbers of handles and steps: the count of the     *)
(* loop and the messages under way (queue.rs) make up the handles there     *)
(* are, and while a task has one the loop is referenced and has not ended.  *)
THEOREM LoopIsKept == HomingSpec => []LoopKept
PROOF
<1>1. HomingInv => LoopKept
  BY ZenonT(60), HomingMeans, HomingAssumption
<1>2. QED BY PTL, <1>1, HomingAlways, HomingAssumption

(* When async_cb returns without a reference, no thread is inside the push  *)
(* or the drop of a handle, and no message is left behind (queue.rs:100).   *)
THEOREM SendersAreDone == HomingSpec => []SendersDone
PROOF
<1>1. HomingInv => SendersDone
  BY ZenonT(60), HomingMeans, HomingAssumption
<1>2. QED BY PTL, <1>1, HomingAlways, HomingAssumption

(* The access (access.rs) has one holder at a time, also while it is handed *)
(* over; who waits stands in line, and no assertion of grant and the drops  *)
(* fails.                                                                   *)
THEOREM AccessIsExclusive == HomingSpec => []AccessExclusive
PROOF
<1>1. HomingInv => AccessExclusive
  BY Zenon, HomingMeans, HomingAssumption
<1>2. QED BY PTL, <1>1, HomingAlways, HomingAssumption

=============================================================================
