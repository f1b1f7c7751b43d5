----------------------------- MODULE SelectProofs -----------------------------
(***************************************************************************)
(* The inductive invariant of select (Select; comm/select.rs), for any     *)
(* number of ports and messages and a green task: every step of a sender   *)
(* and of the task keeps it. SelectInv says who holds the sleeping task,   *)
(* in which slots the handles of the ports blocked so far are, and which   *)
(* events have come. CommProofs turns it into a theorem.                   *)
(***************************************************************************)
EXTENDS Select, Counting, TLAPS

(* What the assumption on the constants says. *)
LEMMA SelectConstants ==
  ASSUME SelectAssumption
  PROVE  N \in Nat \ {0} /\ MaxSends \in Nat
  BY Zenon DEF SelectAssumption

(* A message or the end of a port, which takes the handle out of the slot. *)
LEMMA EventKeeps ==
  ASSUME SelectAssumption, SelectInv, NEW p \in 1..N, Event(p)
  PROVE  SelectInv'
PROOF
<1>k. N \in Nat \ {0} /\ MaxSends \in Nat
  BY Zenon, SelectConstants
<1> USE <1>k DEF Ports, SelectInv
<1>a. /\ spc[p] = "idle" /\ spc' = [spc EXCEPT ![p] = slot[p]] /\ slot' = [slot EXCEPT ![p] = "none"]
      /\ UNCHANGED <<flag, awoken, tpc, call, cur, upto, ready, fails>>
  BY Zenon DEF Event, TakeHandle, task
<1>b. \A q \in 1..N : (Avail(q) => Avail(q)')
  BY SMTT(60) DEF Event, Avail, TypeOK
<1>c. Avail(p)'
  BY SMTT(30) DEF Event, Avail, TypeOK
<1>1. TypeOK' /\ (\A q \in 1..N : data[q] <= nsent[q])'
  <2>1. CASE /\ nsent[p] < MaxSends /\ data' = [data EXCEPT ![p] = @ + 1]
             /\ nsent' = [nsent EXCEPT ![p] = @ + 1] /\ closed' = closed
    BY SMTT(60), <1>a, <2>1 DEF TypeOK
  <2>2. CASE data' = data /\ nsent' = nsent /\ closed' = [closed EXCEPT ![p] = TRUE]
    BY Zenon, <1>a, <2>2 DEF TypeOK
  <2>3. QED BY Zenon, <2>1, <2>2 DEF Event
<1>2. HolderInv'
  <2>1. CASE slot[p] = "owned"
    <3>1. tpc = "asleep" /\ call = p /\ NoneHolds /\ ~flag /\ ~awoken
      BY Zenon, <2>1 DEF HolderInv, SlotInv, PlaceInv, NoneStored, Selecting, TypeOK
    <3>2. NoneStored' /\ \A q \in 1..N : Holds(q)' <=> q = p
      BY SMTT(30), <1>a, <2>1, <3>1 DEF NoneStored, NoneHolds, Holds, SlotInv, TypeOK
    <3>3. QED BY Zenon, <1>a, <3>1, <3>2 DEF HolderInv
  <2>2. CASE slot[p] # "owned"
    <3>1. \A q \in 1..N : (Holds(q)' <=> Holds(q)) /\ (slot'[q] = "owned" <=> slot[q] = "owned")
      BY Zenon, <1>a, <2>2 DEF Holds, TypeOK
    <3>2. call # 0 => call \in 1..N
      BY SMTT(30) DEF TypeOK
    <3>3. QED BY ZenonT(60), <1>a, <3>1, <3>2 DEF HolderInv, NoneHolds, NoneStored
  <2>3. QED BY Zenon, <2>1, <2>2
<1>3. SlotInv' /\ PlaceInv'
  BY Zenon, <1>a DEF SlotInv, PlaceInv, Selecting, BlockedOn, TypeOK
<1>4. EventInv' /\ (fails = {})'
  <2>1. Selecting' = Selecting /\ BlockedOn' = BlockedOn
    BY Zenon, <1>a DEF Selecting, BlockedOn
  <2>2. \A q \in 1..N : slot'[q] = "none" => slot[q] = "none" \/ q = p
    BY Zenon, <1>a DEF TypeOK
  <2>3. \A q \in 1..N : spc'[q] = "shared" => spc[q] = "shared" \/ (q = p /\ slot[q] = "shared")
    BY Zenon, <1>a DEF TypeOK
  <2>4. \A q \in 1..N : slot[q] = "none" => slot'[q] = "none"
    BY Zenon, <1>a DEF TypeOK
  <2>5. slot'[p] = "none" /\ BlockedOn \subseteq Int /\ (call # 0 => call \in 1..N)
        /\ (ready # 0 => ready \in 1..N) /\ (Selecting => BlockedOn \subseteq 1..N)
    BY SMTT(30), <1>a DEF TypeOK, BlockedOn, PlaceInv, Selecting
  <2>6. (ready # 0 => Avail(ready))' /\ (tpc = "again" => Avail(call))'
    BY Zenon, <1>a, <1>b, <2>5 DEF EventInv, PlaceInv
  <2>7. (tpc = "asleep" /\ call # 0 /\ slot[call] = "none" => Avail(call))'
    BY Zenon, <1>a, <1>b, <1>c, <2>2, <2>5 DEF EventInv
  <2>8. (Selecting => \A q \in BlockedOn : slot[q] = "none" => Avail(q))'
    BY Zenon, <1>a, <1>b, <1>c, <2>1, <2>2, <2>5 DEF EventInv
  <2>9. (Selecting /\ ~flag => ready # 0 \/ \E q \in BlockedOn : slot[q] = "none")'
    BY Zenon, <1>a, <2>1, <2>4, <2>5 DEF EventInv
  <2>10. (Selecting /\ flag =>
            \A q \in 1..N : spc[q] = "shared" => q \in BlockedOn /\ slot[q] = "none")'
    BY Zenon, <1>a, <2>1, <2>3, <2>4, <2>5 DEF EventInv, SlotInv
  <2>11. (tpc = "lock" /\ call = 0 => \A q \in 1..N : spc[q] # "shared")'
    BY Zenon, <1>a, <2>3 DEF EventInv, SlotInv
  <2>12. QED BY Zenon, <1>a, <2>6, <2>7, <2>8, <2>9, <2>10, <2>11 DEF EventInv
<1>5. QED BY Zenon, <1>1, <1>2, <1>3, <1>4

(* A sender wakes through the handle it took. *)
LEMMA WakeKeeps ==
  ASSUME SelectAssumption, SelectInv, NEW p \in 1..N, Wake(p)
  PROVE  SelectInv'
PROOF
<1>k. N \in Nat \ {0} /\ MaxSends \in Nat
  BY Zenon, SelectConstants
<1> USE <1>k DEF Ports, SelectInv, TypeOK, Wake, ports, task
<1>1. TypeOK' /\ (\A q \in 1..N : data[q] <= nsent[q])'
  BY Zenon
<1>2. HolderInv'
  <2>1. CASE spc[p] = "shared" /\ flag
    <3>1. /\ tpc = "asleep" \/ (tpc = "block" /\ call = 0)
          /\ NoneStored /\ NoneHolds /\ ~awoken
      BY Zenon, <2>1 DEF HolderInv, EventInv
    <3>2. flag' = FALSE /\ \A q \in 1..N : Holds(q)' <=> q = p
      BY Zenon, <2>1, <3>1 DEF NoneHolds, Holds
    <3>3. QED BY Zenon, <3>1, <3>2 DEF HolderInv, NoneStored
  <2>2. CASE ~(spc[p] = "shared" /\ flag)
    <3>1. flag' = flag /\ \A q \in 1..N : Holds(q)' <=> Holds(q)
      BY Zenon, <2>2 DEF Holds
    <3>2. QED BY Zenon, <3>1 DEF HolderInv, NoneHolds, NoneStored
  <2>3. QED BY Zenon, <2>1, <2>2
<1>3. SlotInv'
  BY Zenon DEF SlotInv, PlaceInv, Selecting, BlockedOn, HolderInv
<1>4. PlaceInv'
  BY Zenon DEF PlaceInv, Selecting
<1>5. EventInv' /\ (fails = {})'
  BY ZenonT(60) DEF EventInv, SlotInv, HolderInv, PlaceInv, Selecting, BlockedOn, Avail
<1>6. QED BY Zenon, <1>1, <1>2, <1>3, <1>4, <1>5

(* The task that the handle gave is put back on a run queue. *)
LEMMA ReawakenKeeps ==
  ASSUME SelectAssumption, SelectInv, NEW p \in 1..N, Reawaken(p)
  PROVE  SelectInv'
PROOF
<1>k. N \in Nat \ {0} /\ MaxSends \in Nat
  BY Zenon, SelectConstants
<1> USE <1>k DEF Ports, SelectInv, TypeOK, Reawaken, ports, task
<1>1. TypeOK' /\ (\A q \in 1..N : data[q] <= nsent[q])'
  BY Zenon
<1>2. HolderInv'
  BY Zenon DEF HolderInv, SlotInv, Holds, NoneHolds, NoneStored, Selecting
<1>3. SlotInv'
  BY Zenon DEF SlotInv, PlaceInv, Selecting, BlockedOn, HolderInv
<1>4. PlaceInv'
  BY Zenon DEF PlaceInv, Selecting
<1>5. EventInv' /\ (fails = {})'
  BY SMTT(30) DEF EventInv, SlotInv, HolderInv, PlaceInv, Selecting, BlockedOn, Avail
<1>6. QED BY Zenon, <1>1, <1>2, <1>3, <1>4, <1>5

(* recv finds something. *)
LEMMA RecvNowKeeps ==
  ASSUME SelectAssumption, SelectInv, NEW p \in 1..N, RecvNow(p)
  PROVE  SelectInv'
PROOF
<1>k. N \in Nat \ {0} /\ MaxSends \in Nat
  BY Zenon, SelectConstants
<1> USE <1>k DEF Ports, SelectInv, TypeOK, RecvNow, senders
<1>1. TypeOK' /\ (\A q \in 1..N : data[q] <= nsent[q])'
  BY SMTT(60)
<1>2. HolderInv'
  BY Zenon DEF HolderInv, SlotInv, Holds, NoneHolds, NoneStored, Selecting
<1>3. SlotInv'
  BY Zenon DEF SlotInv, PlaceInv, Selecting, BlockedOn, HolderInv
<1>4. PlaceInv'
  BY Zenon DEF PlaceInv, Selecting
<1>5. EventInv' /\ (fails = {})'
  BY Zenon DEF EventInv, SlotInv, HolderInv, PlaceInv, Selecting, BlockedOn, Avail
<1>6. QED BY Zenon, <1>1, <1>2, <1>3, <1>4, <1>5

(* recv finds nothing and will sleep. *)
LEMMA RecvBlocksKeeps ==
  ASSUME SelectAssumption, SelectInv, NEW p \in 1..N, RecvBlocks(p)
  PROVE  SelectInv'
PROOF
<1>k. N \in Nat \ {0} /\ MaxSends \in Nat
  BY Zenon, SelectConstants
<1> USE <1>k DEF Ports, SelectInv, TypeOK, RecvBlocks, ports, senders
<1>1. TypeOK' /\ (\A q \in 1..N : data[q] <= nsent[q])'
  BY SMTT(30)
<1>2. HolderInv'
  BY SMTT(30) DEF HolderInv, SlotInv, Holds, NoneHolds, NoneStored, Selecting
<1>3. SlotInv'
  BY Zenon DEF SlotInv, PlaceInv, Selecting, BlockedOn, HolderInv
<1>4. PlaceInv'
  BY Zenon DEF PlaceInv, Selecting
<1>5. EventInv' /\ (fails = {})'
  BY SMTT(30) DEF EventInv, SlotInv, HolderInv, PlaceInv, Selecting, BlockedOn, Avail
<1>6. QED BY Zenon, <1>1, <1>2, <1>3, <1>4, <1>5

(* wait begins. *)
LEMMA WaitKeeps ==
  ASSUME SelectAssumption, SelectInv, Wait
  PROVE  SelectInv'
PROOF
<1>k. N \in Nat \ {0} /\ MaxSends \in Nat
  BY Zenon, SelectConstants
<1> USE <1>k DEF Ports, SelectInv, TypeOK, Wait, ports
<1>1. TypeOK' /\ (\A q \in 1..N : data[q] <= nsent[q])'
  BY SMTT(30)
<1>2. HolderInv'
  BY Zenon DEF HolderInv, SlotInv, Holds, NoneHolds, NoneStored, Selecting
<1>3. SlotInv'
  BY Zenon DEF SlotInv, PlaceInv, Selecting, BlockedOn, HolderInv
<1>4. PlaceInv'
  BY Zenon DEF PlaceInv, Selecting
<1>5. EventInv' /\ (fails = {})'
  BY Zenon DEF EventInv, SlotInv, HolderInv, PlaceInv, Selecting, BlockedOn, Avail
<1>6. QED BY Zenon, <1>1, <1>2, <1>3, <1>4, <1>5

(* The task lets go of its processor. *)
LEMMA DescheduleKeeps ==
  ASSUME SelectAssumption, SelectInv, Deschedule
  PROVE  SelectInv'
PROOF
<1>k. N \in Nat \ {0} /\ MaxSends \in Nat
  BY Zenon, SelectConstants
<1> USE <1>k DEF Ports, SelectInv, TypeOK, Deschedule, ports, senders
<1>1. TypeOK' /\ (\A q \in 1..N : data[q] <= nsent[q])'
  <2>1. 1 \in 1..(N + 1)
    BY SMTT(30)
  <2>2. QED BY Zenon, <2>1, Zenon
<1>2. HolderInv'
  BY Zenon DEF HolderInv, SlotInv, Holds, NoneHolds, NoneStored, Selecting
<1>3. SlotInv'
  BY Zenon DEF SlotInv, PlaceInv, Selecting, BlockedOn, HolderInv
<1>4. PlaceInv'
  BY SMTT(30) DEF PlaceInv, Selecting
<1>5. EventInv' /\ (fails = {})'
  <2>1. /\ tpc' = "block" /\ ready' = 0 /\ flag' = flag /\ spc' = spc /\ call' = call /\ cur' = 1
        /\ fails' = fails /\ (call = 0 => flag)
    BY Zenon DEF HolderInv, PlaceInv
  <2>a. BlockedOn' = {}
    BY SMTT(30), <2>1 DEF BlockedOn
  <2>2. call = 0 => \A q \in 1..N : spc[q] # "shared"
    BY Zenon DEF EventInv
  <2>3. QED BY SMTT(30), <2>1, <2>a, <2>2 DEF EventInv, Selecting
<1>6. QED BY Zenon, <1>1, <1>2, <1>3, <1>4, <1>5

(* The task leaves its handle in the one port of a recv. *)
LEMMA BlockRecvKeeps ==
  ASSUME SelectAssumption, SelectInv, BlockRecv
  PROVE  SelectInv'
PROOF
<1>k. N \in Nat \ {0} /\ MaxSends \in Nat
  BY Zenon, SelectConstants
<1> USE <1>k DEF Ports, SelectInv, TypeOK, BlockRecv, senders
<1>1. TypeOK' /\ (\A q \in 1..N : data[q] <= nsent[q])'
  BY Zenon
<1>2. HolderInv'
  BY SMTT(30) DEF HolderInv, SlotInv, Holds, NoneHolds, NoneStored, Selecting
<1>3. SlotInv'
  BY ZenonT(60) DEF SlotInv, PlaceInv, Selecting, BlockedOn, HolderInv
<1>4. PlaceInv'
  BY Zenon DEF PlaceInv, Selecting
<1>5. EventInv' /\ (fails = {})'
  BY SMTT(30) DEF EventInv, SlotInv, HolderInv, PlaceInv, Selecting, BlockedOn, Avail
<1>6. QED BY Zenon, <1>1, <1>2, <1>3, <1>4, <1>5

(* The task leaves a shared handle in the next port, or finds something     *)
(* there and keeps itself.                                                  *)
LEMMA BlockSelectKeeps ==
  ASSUME SelectAssumption, SelectInv, Native = FALSE, BlockSelect
  PROVE  SelectInv'
PROOF
<1>k. N \in Nat \ {0} /\ MaxSends \in Nat
  BY Zenon, SelectConstants
<1> USE <1>k DEF Ports, SelectInv
<1>a. /\ tpc = "block" /\ call = 0 /\ cur \in 1..N /\ ready = 0 /\ Selecting
      /\ BlockedOn = 1..(cur - 1)
      /\ UNCHANGED <<data, closed, awoken, spc, nsent, call, fails>>
  BY Zenon DEF BlockSelect, senders, PlaceInv, Selecting, BlockedOn
<1>b. \A q \in 1..N : Avail(q)' = Avail(q) /\ Holds(q)' = Holds(q)
  BY Zenon, <1>a DEF Avail, Holds
<1>c. \A q \in 1..N : slot[q] # "owned"
  BY Zenon, <1>a DEF SlotInv
<1>1. CASE Avail(cur)
  <2>1. /\ ready' = cur /\ upto' = cur - 1 /\ cur' = 1 /\ flag' = FALSE /\ slot' = slot
    BY Zenon, <1>1 DEF BlockSelect, HandedBack
  <2>a. tpc' = IF Native \/ flag THEN "abort" ELSE "asleep"
    BY Zenon, <1>1 DEF BlockSelect, HandedBack
  <2>b. (flag => tpc' = "abort") /\ (~flag => tpc' = "asleep")
    BY Zenon, <2>a
  <2>2. TypeOK' /\ (\A q \in 1..N : data[q] <= nsent[q])'
    <3>1. tpc' \in {"run", "lock", "block", "asleep", "again", "abort"}
      BY Zenon, <2>b
    <3>2. cur - 1 \in 0..N /\ 1 \in 1..(N + 1) /\ cur \in 0..N
      BY SMTT(30), <1>a
    <3>3. QED BY Zenon, <1>a, <2>1, <3>1, <3>2 DEF TypeOK
  <2>3. HolderInv'
    <3>1. CASE flag
      <4>1. tpc' = "abort" /\ NoneHolds
        BY Zenon, <1>a, <2>b, <3>1 DEF HolderInv
      <4>2. QED BY Zenon, <1>b, <2>1, <4>1 DEF HolderInv, NoneHolds
    <3>2. CASE ~flag
      <4>1. tpc' = "asleep"
        BY Zenon, <2>b, <3>2
      <4>2. \/ NoneHolds /\ awoken
            \/ ~awoken /\ \E q \in 1..N : \A p \in 1..N : Holds(p) <=> p = q
        BY Zenon, <1>a, <3>2 DEF HolderInv, TypeOK
      <4>3. NoneStored'
        BY Zenon, <1>c, <2>1 DEF NoneStored
      <4>4. (\/ NoneHolds /\ awoken
             \/ ~awoken /\ \E q \in 1..N : \A p \in 1..N : Holds(p) <=> p = q)'
        BY Zenon, <1>a, <1>b, <4>2 DEF NoneHolds
      <4>5. QED BY Zenon, <2>1, <4>1, <4>3, <4>4 DEF HolderInv
    <3>3. QED BY Zenon, <3>1, <3>2
  <2>4. BlockedOn' = BlockedOn /\ Selecting' /\ tpc' \in {"abort", "asleep"}
    BY Zenon, <1>a, <2>1, <2>b DEF BlockedOn, Selecting
  <2>5. SlotInv' /\ PlaceInv'
    BY Zenon, <1>a, <2>1, <2>4 DEF SlotInv, PlaceInv, Selecting
  <2>6. EventInv' /\ (fails = {})'
    BY SMTT(30), <1>1, <1>a, <1>b, <2>1, <2>4 DEF EventInv
  <2>7. QED BY Zenon, <2>2, <2>3, <2>5, <2>6
<1>2. CASE ~Avail(cur)
  <2>1. /\ slot' = [slot EXCEPT ![cur] = "shared"] /\ ready' = ready /\ flag' = flag
        /\ cur < N => cur' = cur + 1 /\ tpc' = tpc /\ upto' = upto
        /\ ~(cur < N) => cur' = 1 /\ upto' = N /\ tpc' = "asleep"
    BY Zenon, <1>2 DEF BlockSelect, AllBlocked
  <2>2. TypeOK' /\ (\A q \in 1..N : data[q] <= nsent[q])'
    <3>1. slot' \in [1..N -> {"none", "owned", "shared"}]
      BY Zenon, <1>a, <2>1 DEF TypeOK
    <3>2. cur' \in 1..(N + 1) /\ upto' \in 0..N /\ tpc' \in {"block", "asleep"}
      <4>1. cur \in 1..N /\ upto \in 0..N /\ tpc = "block" /\ N \in 0..N /\ 1 \in 1..(N + 1)
        BY SMTT(30), <1>a DEF TypeOK
      <4>2. CASE cur < N
        <5>1. cur + 1 \in 1..(N + 1)
          BY SMTT(30), <4>1
        <5>2. QED BY Zenon, <2>1, <4>1, <4>2, <5>1
      <4>3. CASE ~(cur < N)
        BY Zenon, <2>1, <4>1, <4>3
      <4>4. QED BY Zenon, <4>2, <4>3
    <3>3. QED BY Zenon, <1>a, <2>1, <3>1, <3>2 DEF TypeOK
  <2>3. tpc' \in {"block", "asleep"} /\ BlockedOn' = 1..cur /\ Selecting'
    <3>2. CASE cur < N
      BY SMTT(30), <1>a, <2>1, <3>2 DEF BlockedOn, Selecting
    <3>3. CASE ~(cur < N)
      BY SMTT(30), <1>a, <2>1, <3>3 DEF BlockedOn, Selecting
    <3>4. QED BY Zenon, <3>2, <3>3
  <2>4. \A q \in 1..N : slot'[q] # "owned" /\ slot'[q] = IF q = cur THEN "shared" ELSE slot[q]
    BY Zenon, <1>a, <1>c, <2>1 DEF TypeOK
  <2>5. HolderInv'
    BY Zenon, <1>a, <1>b, <1>c, <2>1, <2>3, <2>4 DEF HolderInv, NoneHolds, NoneStored
  <2>6. SlotInv'
    BY SMTT(30), <1>a, <2>1, <2>3, <2>4 DEF SlotInv
  <2>7. PlaceInv'
    <3>2. CASE cur < N
      BY SMTT(30), <1>a, <2>1, <3>2 DEF PlaceInv
    <3>3. CASE ~(cur < N)
      BY Zenon, <1>a, <2>1, <3>3 DEF PlaceInv
    <3>4. QED BY Zenon, <3>2, <3>3
  <2>8. \A q \in 1..cur : q \in 1..N /\ (q = cur \/ q \in BlockedOn)
    BY SMTT(30), <1>a
  <2>9. BlockedOn \subseteq 1..cur /\ BlockedOn \subseteq 1..N /\ cur \notin BlockedOn
    BY SMTT(30), <1>a
  <2>10. EventInv' /\ (fails = {})'
    <3>1. (ready # 0 => Avail(ready))' /\ (tpc = "again" => Avail(call))'
          /\ (tpc = "asleep" /\ call # 0 /\ slot[call] = "none" => Avail(call))'
      BY Zenon, <1>a, <2>1, <2>3
    <3>2. (Selecting => \A q \in BlockedOn : slot[q] = "none" => Avail(q))'
      BY Zenon, <1>a, <1>b, <2>3, <2>4, <2>8 DEF EventInv
    <3>3. (Selecting /\ ~flag => ready # 0 \/ \E q \in BlockedOn : slot[q] = "none")'
      BY Zenon, <1>a, <2>1, <2>3, <2>4, <2>9 DEF EventInv
    <3>4. (Selecting /\ flag =>
             \A q \in 1..N : spc[q] = "shared" => q \in BlockedOn /\ slot[q] = "none")'
      BY Zenon, <1>a, <2>1, <2>3, <2>4, <2>9 DEF EventInv
    <3>5. QED BY Zenon, <1>a, <2>3, <3>1, <3>2, <3>3, <3>4 DEF EventInv
  <2>11. QED BY Zenon, <2>2, <2>5, <2>6, <2>7, <2>10
<1>3. QED BY Zenon, <1>1, <1>2

(* The task runs again. *)
LEMMA ResumeKeeps ==
  ASSUME SelectAssumption, SelectInv, Resume
  PROVE  SelectInv'
PROOF
<1>k. N \in Nat \ {0} /\ MaxSends \in Nat
  BY Zenon, SelectConstants
<1> USE <1>k DEF Ports, SelectInv, TypeOK, Resume, ports, senders
<1>1. TypeOK' /\ (\A q \in 1..N : data[q] <= nsent[q])'
  BY Zenon
<1>2. HolderInv'
  BY Zenon DEF HolderInv, SlotInv, Holds, NoneHolds, NoneStored, Selecting
<1>3. SlotInv'
  <2>1. tpc = "asleep" /\ awoken /\ slot' = slot /\ call' = call /\ call \in 0..N
    BY Zenon
  <2>2. CASE call = 0
    BY Zenon, <2>1, <2>2 DEF SlotInv, Selecting, BlockedOn, PlaceInv
  <2>3. CASE call # 0
    <3>1. \A p \in 1..N : slot[p] = "none"
      BY Zenon, <2>1, <2>3 DEF SlotInv, HolderInv, NoneStored
    <3>2. QED BY Zenon, <2>1, <2>3, <3>1 DEF SlotInv, Selecting
  <2>4. QED BY Zenon, <2>2, <2>3
<1>4. PlaceInv'
  BY Zenon DEF PlaceInv, Selecting
<1>5. EventInv' /\ (fails = {})'
  <2>1. /\ tpc = "asleep" /\ awoken /\ call \in 0..N /\ ready \in 0..N
        /\ UNCHANGED <<slot, call, ready, flag, spc, cur, upto, data, closed>>
    BY Zenon
  <2>2. \A q \in 1..N : Avail(q)' = Avail(q)
    BY Zenon, <2>1 DEF Avail
  <2>3. CASE call = 0
    <3>1. /\ tpc' = "abort" /\ Selecting /\ Selecting' /\ BlockedOn' = BlockedOn
          /\ BlockedOn \subseteq 1..N
      BY SMTT(30), <2>1, <2>3 DEF Selecting, BlockedOn, PlaceInv
    <3>2. QED BY SMTT(30), <2>1, <2>2, <2>3, <3>1 DEF EventInv
  <2>4. CASE call # 0
    <3>1. tpc' = "again" /\ slot[call] = "none" /\ ready = 0 /\ ~Selecting'
      BY SMTT(30), <2>1, <2>4 DEF HolderInv, SlotInv, NoneStored, PlaceInv, Selecting
    <3>2. QED BY SMTT(30), <2>1, <2>2, <2>4, <3>1 DEF EventInv
  <2>5. QED BY Zenon, <2>3, <2>4
<1>6. QED BY Zenon, <1>1, <1>2, <1>3, <1>4, <1>5

(* recv looks again after it was woken. *)
LEMMA RecvAgainKeeps ==
  ASSUME SelectAssumption, SelectInv, RecvAgain
  PROVE  SelectInv'
PROOF
<1>k. N \in Nat \ {0} /\ MaxSends \in Nat
  BY Zenon, SelectConstants
<1> USE <1>k DEF Ports, SelectInv, TypeOK
<1>a. /\ tpc = "again" /\ tpc' = "run" /\ fails' = fails /\ call \in 1..N /\ ready = 0
      /\ UNCHANGED <<closed, slot, flag, awoken, spc, nsent, call, cur, upto, ready>>
  BY SMTT(30) DEF RecvAgain, Check, EventInv, PlaceInv, senders
<1>b. data' = [data EXCEPT ![call] = IF data[call] > 0 THEN data[call] - 1 ELSE 0]
  BY Zenon DEF RecvAgain
<1>c. \A q \in 1..N : data'[q] \in 0..MaxSends /\ data'[q] <= data[q]
  BY SMTT(30), <1>a, <1>b
<1>1. TypeOK' /\ (\A q \in 1..N : data[q] <= nsent[q])'
  <2>1. data' \in [1..N -> 0..MaxSends]
    BY Zenon, <1>a, <1>b, <1>c
  <2>2. QED BY SMTT(30), <1>a, <1>c, <2>1
<1>2. HolderInv'
  BY Zenon, <1>a DEF HolderInv, Holds, NoneHolds
<1>3. SlotInv' /\ PlaceInv'
  BY Zenon, <1>a DEF SlotInv, PlaceInv, Selecting
<1>4. EventInv' /\ (fails = {})'
  BY Zenon, <1>a DEF EventInv, Selecting
<1>5. QED BY Zenon, <1>1, <1>2, <1>3, <1>4

(* select takes back the handle of a port, and notes the port if something  *)
(* came.                                                                    *)
LEMMA AbortPortKeeps ==
  ASSUME SelectAssumption, SelectInv, AbortPort
  PROVE  SelectInv'
PROOF
<1>k. N \in Nat \ {0} /\ MaxSends \in Nat
  BY Zenon, SelectConstants
<1> USE <1>k DEF Ports, SelectInv, TypeOK, AbortPort, senders
<1>1. TypeOK' /\ (\A q \in 1..N : data[q] <= nsent[q])'
  BY SMTT(30)
<1>2. HolderInv'
  BY Zenon DEF HolderInv, SlotInv, Holds, NoneHolds, NoneStored, Selecting
<1>3. SlotInv'
  BY SMTT(30) DEF SlotInv, PlaceInv, Selecting, BlockedOn, HolderInv
<1>4. PlaceInv'
  BY ZenonT(60) DEF PlaceInv, Selecting
<1>5. EventInv' /\ (fails = {})'
  BY SMTT(30) DEF EventInv, SlotInv, HolderInv, PlaceInv, Selecting, BlockedOn, Avail
<1>6. QED BY Zenon, <1>1, <1>2, <1>3, <1>4, <1>5

(* wait returns the port it found. *)
LEMMA WaitReturnsKeeps ==
  ASSUME SelectAssumption, SelectInv, WaitReturns
  PROVE  SelectInv'
PROOF
<1>k. N \in Nat \ {0} /\ MaxSends \in Nat
  BY Zenon, SelectConstants
<1> USE <1>k DEF Ports, SelectInv, TypeOK, WaitReturns, ports, senders, Check
<1>1. TypeOK' /\ (\A q \in 1..N : data[q] <= nsent[q])'
  BY Zenon
<1>2. HolderInv'
  BY ZenonT(60) DEF HolderInv, SlotInv, Holds, NoneHolds, NoneStored, Selecting
<1>3. SlotInv'
  BY SMTT(30) DEF SlotInv, PlaceInv, Selecting, BlockedOn, HolderInv
<1>4. PlaceInv'
  BY ZenonT(60) DEF PlaceInv, Selecting
<1>5. EventInv' /\ (fails = {})'
  BY SMTT(30) DEF EventInv, SlotInv, HolderInv, PlaceInv, Selecting, BlockedOn, Avail
<1>6. QED BY Zenon, <1>1, <1>2, <1>3, <1>4, <1>5

(* The invariant holds at the beginning ... *)
LEMMA SelectInitially == ASSUME SelectAssumption, Init PROVE SelectInv
PROOF
<1>k. N \in Nat \ {0} /\ MaxSends \in Nat
  BY Zenon, SelectConstants
<1> USE <1>k DEF Ports, Init
<1>1. TypeOK /\ (\A q \in 1..N : data[q] <= nsent[q])
  <2>1. 0 \in 0..MaxSends /\ 1 \in 1..(N + 1) /\ 0 \in 0..N
    BY SMTT(30)
  <2>2. TypeOK
    BY Zenon, <2>1 DEF TypeOK
  <2>3. QED BY SMTT(30), <2>2
<1>2. HolderInv /\ SlotInv /\ PlaceInv /\ EventInv
  BY Zenon DEF HolderInv, NoneHolds, Holds, SlotInv, PlaceInv, EventInv, Selecting
<1>3. QED BY Zenon, <1>1, <1>2 DEF SelectInv

(* ... every step keeps it ... *)
LEMMA SelectInductive ==
  ASSUME SelectAssumption, SelectInv, Native = FALSE, Next
  PROVE  SelectInv'
PROOF
<1>1. ASSUME NEW p \in 1..N,
             Event(p) \/ Wake(p) \/ Reawaken(p) \/ RecvNow(p) \/ RecvBlocks(p)
      PROVE  SelectInv'
  BY Zenon, <1>1, EventKeeps, WakeKeeps, ReawakenKeeps, RecvNowKeeps, RecvBlocksKeeps
<1>2. CASE Wait \/ TaskStep
  BY Zenon, <1>2, WaitKeeps, DescheduleKeeps, BlockRecvKeeps, BlockSelectKeeps, ResumeKeeps, RecvAgainKeeps,
     AbortPortKeeps, WaitReturnsKeeps DEF TaskStep
<1>3. QED BY Zenon, <1>1, <1>2 DEF Next, SenderStep, Ports

(* ... and so does what is not about these ports. *)
LEMMA SelectStutters ==
  ASSUME SelectInv, UNCHANGED vars
  PROVE  SelectInv'
PROOF
<1>1. UNCHANGED <<ready, fails, spc, nsent, data, closed, slot, flag, awoken, tpc, call, cur, upto>>
  BY Zenon DEF vars, ports, senders, task
<1>2. TypeOK' /\ (\A q \in Ports : data[q] <= nsent[q])' /\ fails' = {}
  BY Zenon, <1>1 DEF SelectInv, TypeOK, Ports
<1>3. HolderInv'
  BY Zenon, <1>1 DEF SelectInv, HolderInv, NoneHolds, NoneStored, Holds
<1>4. SlotInv' /\ PlaceInv'
  BY Zenon, <1>1 DEF SelectInv, SlotInv, PlaceInv, Selecting, BlockedOn
<1>5. EventInv'
  <2>1. Selecting' = Selecting /\ BlockedOn' = BlockedOn
    BY Zenon, <1>1 DEF Selecting, BlockedOn
  <2>2. \A q : Avail(q)' <=> Avail(q)
    BY Zenon, <1>1 DEF Avail
  <2>3. QED BY Zenon, <1>1, <2>1, <2>2 DEF SelectInv, EventInv
<1>6. QED BY Zenon, <1>2, <1>3, <1>4, <1>5 DEF SelectInv

(* It says what the checked properties say: the task is held once, the port *)
(* that select names has an event, and no assertion fails.                  *)
LEMMA SelectInvSays ==
  ASSUME SelectAssumption, CountingFacts, SelectInv
  PROVE  HeldOnce /\ ReadyHasEvent /\ NoAssertionFails
PROOF
<1>k. N \in Nat \ {0} /\ MaxSends \in Nat
  BY Zenon, SelectConstants
<1> USE <1>k DEF Ports, SelectInv
<1> DEFINE S == {p \in 1..N : slot[p] = "owned"}
           H == {p \in 1..N : spc[p] \in {"owned", "reawaken"}}
<1>1. NoneHolds => H = {} /\ Cardinality(H) = 0
  BY Zenon DEF CountingFacts, NoneHolds, Holds
<1>2. NoneStored => S = {} /\ Cardinality(S) = 0
  BY SMTT(30) DEF CountingFacts, NoneStored
<1>3. (\E q \in 1..N : \A p \in 1..N : Holds(p) <=> p = q) => Cardinality(H) = 1
  <2>1. ASSUME NEW q \in 1..N, \A p \in 1..N : Holds(p) <=> p = q PROVE Cardinality(H) = 1
    <3>1. H = {q}
      BY Zenon, <2>1 DEF Holds
    <3>2. QED BY ZenonT(60), <3>1 DEF CountingFacts
  <2>2. QED BY Zenon, <2>1
<1>4. (tpc = "asleep" /\ call # 0 /\ slot[call] = "owned") => Cardinality(S) = 1
  <2>1. ASSUME tpc = "asleep", call # 0, slot[call] = "owned" PROVE S = {call}
    BY SMTT(60), <2>1 DEF SlotInv, TypeOK
  <2>2. QED BY SMTT(30), <2>1 DEF CountingFacts
<1>5. tpc \in {"run", "again", "abort"} => NoneStored /\ NoneHolds /\ flag = FALSE
  BY Zenon DEF HolderInv, SlotInv, PlaceInv, NoneStored, Selecting, TypeOK
<1>6. tpc = "asleep" => Cardinality(S) + Cardinality(H) + (IF flag THEN 1 ELSE 0)
                        + (IF awoken THEN 1 ELSE 0) = 1
  <2>1. CASE call # 0 /\ slot[call] = "owned" /\ NoneHolds /\ ~flag /\ ~awoken
    BY SMTT(30), <1>1, <1>4, <2>1
  <2>2. CASE NoneStored /\ NoneHolds /\ (flag # awoken)
    BY SMTT(30), <1>1, <1>2, <2>2 DEF TypeOK
  <2>3. CASE NoneStored /\ ~flag /\ ~awoken
             /\ \E q \in 1..N : \A p \in 1..N : Holds(p) <=> p = q
    BY SMTT(30), <1>2, <1>3, <2>3
  <2>4. QED BY Zenon, <2>1, <2>2, <2>3 DEF HolderInv
<1>7. tpc \in {"run", "again", "abort"} => Cardinality(S) + Cardinality(H) + (IF flag THEN 1 ELSE 0) = 0
  BY SMTT(30), <1>1, <1>2, <1>5
<1>a. HeldOnce
  <2> DEFINE holders == Cardinality(S) + Cardinality(H) + (IF flag THEN 1 ELSE 0)
  <2>1. tpc \in {"run", "again", "abort"} => holders = 0
    BY Zenon, <1>7
  <2>2. tpc = "asleep" => holders + (IF awoken THEN 1 ELSE 0) = 1
    BY Zenon, <1>6
  <2>3. TypeOK
    BY Zenon
  <2>4. QED BY Zenon, <2>1, <2>2, <2>3 DEF HeldOnce
<1>8. ReadyHasEvent /\ NoAssertionFails
  BY Zenon DEF ReadyHasEvent, NoAssertionFails, EventInv, SlotInv
<1>9. QED BY Zenon, <1>a, <1>8
=============================================================================
