----------------------------- MODULE CommProofs -----------------------------
(***************************************************************************)
(* The theorems about the channels of std::comm: what StreamProofs,        *)
(* SyncProofs and SelectProofs show of a step, for the whole behaviour.    *)
(* The theorems on finite sets that the last two take for granted are      *)
(* derived from the library here.                                          *)
(***************************************************************************)
EXTENDS MCComm, Counting, FiniteSetTheorems, TLAPS

(* The facts about finite sets that the proofs of the parts rest on. *)
LEMMA Counts == CountingFacts
PROOF
<1>3. IsFiniteSet({}) /\ Cardinality({}) = 0
  BY FS_EmptySet
<1>4. \A x : IsFiniteSet({x}) /\ Cardinality({x}) = 1
  BY Zenon, FS_Singleton
<1>5. \A S : IsFiniteSet(S) => Cardinality(S) \in Nat /\ (Cardinality(S) = 0 => S = {})
  BY FS_CardinalityType, FS_EmptySet
<1>6. \A S : \A T \in SUBSET S : IsFiniteSet(S) => IsFiniteSet(T) /\ Cardinality(T) <= Cardinality(S)
  BY FS_Subset
<1>7. \A S, x : IsFiniteSet(S) =>
         /\ IsFiniteSet(S \cup {x})
         /\ Cardinality(S \cup {x}) = IF x \in S THEN Cardinality(S) ELSE Cardinality(S) + 1
  BY SMTT(30), FS_AddElement
<1>8. \A S, x : IsFiniteSet(S) =>
         /\ IsFiniteSet(S \ {x})
         /\ Cardinality(S \ {x}) = IF x \in S THEN Cardinality(S) - 1 ELSE Cardinality(S)
  BY SMTT(30), FS_RemoveElement
<1>9. \A n \in Nat : \A S : IsFiniteSet(S) => IsFiniteSet(S \X (1..n))
  <2>1. ASSUME NEW n \in Nat, NEW S, IsFiniteSet(S) PROVE IsFiniteSet(S \X (1..n))
    <3>1. IsFiniteSet(1..n)
      BY SMTT(30), FS_Interval
    <3>2. QED BY SMTT(30), <2>1, <3>1, FS_Product
  <2>2. QED BY SMTT(30), <2>1
<1>10. ASSUME NEW n \in Nat, NEW S, NEW x, IsFiniteSet(S), {x} \X (1..n) \subseteq S
       PROVE  n <= Cardinality(S)
  <2> DEFINE f == [i \in 1..n |-> <<x, i>>]
  <2>1. f \in Injection(1..n, S)
    <3>1. \A i \in 1..n : f[i] \in S
      BY SMTT(30), <1>10
    <3>2. QED BY SMTT(30), <3>1 DEF Injection, IsInjective
  <2>2. IsFiniteSet(1..n) /\ Cardinality(1..n) = n
    BY FS_Interval
  <2>3. QED BY SMTT(30), <1>10, <2>1, <2>2, FS_Injection
<1>11. QED BY ZenonT(30), <1>3, <1>4, <1>5, <1>6, <1>7, <1>8, <1>9, <1>10 DEF CountingFacts

(* The invariant of the stream channel holds always. *)
LEMMA StreamAlways == CommSpec => [](part = "stream" => St!StreamInv /\ St!Reported)
PROOF
<1> DEFINE IInv == part = "stream" => St!StreamInv /\ St!Reported
<1>a. St!StreamAssumption
  BY CommAssumption
<1>1. CommInit => IInv
  BY SMTT(30), <1>a, St!StreamInitially DEF CommInit
<1>2. IInv /\ [CommNext]_commvars => IInv'
  <2> SUFFICES ASSUME IInv, [CommNext]_commvars, part' = "stream"
               PROVE  St!StreamInv' /\ St!Reported'
    OBVIOUS
  <2>1. part = "stream" /\ St!StreamInv /\ St!Reported
    BY DEF CommNext, InOneshot, InStream, InSync, InSelect, commvars
  <2>2. CASE UNCHANGED commvars
    <3>1. UNCHANGED St!vars
      BY <2>2 DEF commvars, chanvars, all, queued, counted, streams, St!vars, St!packet, St!sender,
         St!receiver
    <3>2. QED BY Zenon, <2>1, <1>a, <3>1, St!StreamStutters, St!StreamReports
  <2>3. CASE St!Next
    BY Zenon, <1>a, <2>1, <2>3, St!StreamInductive, St!StreamReports
  <2>4. QED BY SMTT(30), <2>1, <2>2, <2>3 DEF CommNext, InOneshot, InStream, InSync, InSelect
<1>3. QED BY <1>1, <1>2, PTL DEF CommSpec

(* On a stream channel the count tells both halves the truth about the      *)
(* queue, and a receiver that sleeps in recv or select does so on an empty  *)
(* queue, or a sender is on its way to count or to wake it; a port reported *)
(* as ready has a message, is disconnected or awaits the message of the     *)
(* send that upgraded it: for any number of messages and any MAX_STEALS.    *)
THEOREM StreamSleepers == CommSpec => []StreamCovered
PROOF
<1>1. (part = "stream" => St!StreamInv /\ St!Reported) => StreamCovered
  BY Zenon, CommAssumption, St!StreamInvSays DEF StreamCovered
<1>2. QED BY <1>1, StreamAlways, PTL

(* What a stream channel delivers is what was sent, once and in order, and  *)
(* a message whose send was refused is not received; Disconnected is        *)
(* reported, and the port is gone, only when nothing is left behind.        *)
THEOREM StreamDelivery == CommSpec => []StreamDelivered
PROOF
<1>1. (part = "stream" => St!StreamInv /\ St!Reported) => StreamDelivered
  BY Zenon, CommAssumption, St!StreamInvSays DEF StreamDelivered
<1>2. QED BY <1>1, StreamAlways, PTL

(* The instance for Sync counts with symbols of its own, which mean the     *)
(* same.                                                                    *)
LEMMA SyncCounts == Sy!CountingFacts
PROOF
<1>1. \A S : Sy!IsFiniteSet(S) <=> IsFiniteSet(S)
  BY Zenon DEF Sy!IsFiniteSet, IsFiniteSet
<1>2. \A S : Sy!Cardinality(S) = Cardinality(S)
  BY ZenonT(30) DEF Sy!Cardinality, Cardinality, Sy!IsFiniteSet, IsFiniteSet
<1>3. QED BY ZenonT(30), <1>1, <1>2, Counts DEF Sy!CountingFacts, CountingFacts

(* So does the one for Select. *)
LEMMA SelectCounts == Se!CountingFacts
PROOF
<1>1. \A S : Se!IsFiniteSet(S) <=> IsFiniteSet(S)
  BY Zenon DEF Se!IsFiniteSet, IsFiniteSet
<1>2. \A S : Se!Cardinality(S) = Cardinality(S)
  BY Zenon DEF Se!Cardinality, Cardinality, Se!IsFiniteSet, IsFiniteSet
<1>3. QED BY Zenon, <1>1, <1>2, Counts DEF Se!CountingFacts, CountingFacts

(* What SyncProofs takes for granted holds. *)
LEMMA SyncGiven == Sy!Given
  BY SMTT(30), SyncCounts, CommAssumption DEF Sy!Given

(* The invariant of the bounded channel holds always. *)
LEMMA SyncAlways == CommSpec => [](part = "sync" => Sy!SyncInv)
PROOF
<1> DEFINE IInv == part = "sync" => Sy!SyncInv
<1>1. CommInit => IInv
  BY SMTT(30), SyncGiven, Sy!SyncInitially DEF CommInit
<1>2. IInv /\ [CommNext]_commvars => IInv'
  <2> SUFFICES ASSUME IInv, [CommNext]_commvars, part' = "sync" PROVE Sy!SyncInv'
    OBVIOUS
  <2>1. part = "sync" /\ Sy!SyncInv
    BY DEF CommNext, InOneshot, InStream, InSync, InSelect, commvars
  <2>2. CASE UNCHANGED commvars
    <3>1. UNCHANGED Sy!vars
      BY <2>2 DEF commvars, chanvars, all, queued, syncs, Sy!vars, Sy!setup, Sy!state, Sy!ghosts
    <3>2. QED BY SMTT(30), <2>1, <3>1, SyncGiven, Sy!SyncInductive
  <2>3. CASE Sy!Next
    BY SMTT(30), <2>1, <2>3, SyncGiven, Sy!SyncInductive
  <2>4. QED BY SMTT(30), <2>1, <2>2, <2>3 DEF CommNext, InOneshot, InStream, InSync, InSelect
<1>3. QED BY <1>1, <1>2, PTL DEF CommSpec

(* send, recv, try_recv and drop_port of a bounded channel neither lose nor *)
(* duplicate a message, and with no buffer a send succeeds only when its    *)
(* message was received or a receiver inside recv is about to take it: for  *)
(* any senders, bounds and messages.                                        *)
THEOREM SyncConservation == CommSpec => []SyncConserved
PROOF
<1>1. (part = "sync" => Sy!SyncInv) => SyncConserved
  BY SMTT(30), SyncGiven, Sy!SyncInvSays DEF SyncConserved
<1>2. QED BY <1>1, SyncAlways, PTL

(* On a bounded channel nobody sleeps beside what they wait for: the room a *)
(* queued sender waits for belongs to senders already woken, and until a    *)
(* try_send leaves it so a receiver sleeps only on an open, empty channel   *)
(* that holds its handle.                                                   *)
THEOREM SyncSleepers == CommSpec => []SyncCovered
PROOF
<1>1. (part = "sync" => Sy!SyncInv) => SyncCovered
  BY SMTT(30), SyncGiven, Sy!SyncInvSays DEF SyncCovered
<1>2. QED BY <1>1, SyncAlways, PTL

(* The invariant of select holds always. *)
LEMMA SelectAlways ==
  ASSUME Native = FALSE
  PROVE  CommSpec => [](part = "select" => Se!SelectInv)
PROOF
<1> DEFINE IInv == part = "select" => Se!SelectInv
<1>a. Se!SelectAssumption
  BY CommAssumption
<1>1. CommInit => IInv
  BY SMTT(30), <1>a, Se!SelectInitially DEF CommInit
<1>2. IInv /\ [CommNext]_commvars => IInv'
  <2> SUFFICES ASSUME IInv, [CommNext]_commvars, part' = "select" PROVE Se!SelectInv'
    OBVIOUS
  <2>1. part = "select" /\ Se!SelectInv
    BY DEF CommNext, InOneshot, InStream, InSync, InSelect, commvars
  <2>2. CASE UNCHANGED commvars
    <3>1. UNCHANGED Se!vars
      BY <2>2 DEF commvars, chanvars, all, selecting, Se!vars, Se!ports, Se!senders, Se!task
    <3>2. QED BY SMTT(30), <2>1, <3>1, Se!SelectStutters
  <2>3. CASE Se!Next
    BY Zenon, <1>a, <2>1, <2>3, Se!SelectInductive
  <2>4. QED BY SMTT(30), <2>1, <2>2, <2>3 DEF CommNext, InOneshot, InStream, InSync, InSelect
<1>3. QED BY <1>1, <1>2, PTL DEF CommSpec

(* A green task that sleeps in select or recv is held exactly once, by a    *)
(* port, a waker or a run queue, and the port that select returns has a     *)
(* message or is closed: for any number of ports.                           *)
THEOREM SelectHolds ==
  ASSUME Native = FALSE
  PROVE  CommSpec => []SelectHeld
PROOF
<1>a. Se!SelectAssumption
  BY CommAssumption
<1>1. (part = "select" => Se!SelectInv) => SelectHeld
  BY SMTT(30), <1>a, SelectCounts, Se!SelectInvSays DEF SelectHeld
<1>2. QED BY <1>1, SelectAlways, PTL

(* No assertion of a stream channel (but that of stream.rs:416), of a       *)
(* bounded channel or of the select of a green task is ever reached: for    *)
(* any senders, bounds, messages and ports.                                 *)
THEOREM ChannelsAssert ==
  ASSUME Native = FALSE
  PROVE  CommSpec => []ChannelAssertions
PROOF
<1>a. St!StreamAssumption /\ Se!SelectAssumption
  BY CommAssumption
<1>1. (part = "stream" => St!StreamInv /\ St!Reported)
      => (part = "stream" => St!TypeOK /\ St!NoAssertionFails)
  BY Zenon, <1>a, St!StreamInvSays
<1>2. (part = "sync" => Sy!SyncInv) => (part = "sync" => Sy!TypeOK /\ Sy!NoAssertionFails)
  BY Zenon, SyncGiven, Sy!SyncInvSays
<1>3. (part = "select" => Se!SelectInv) => (part = "select" => Se!NoAssertionFails)
  BY Zenon, <1>a, SelectCounts, Se!SelectInvSays
<1>4. /\ part = "stream" => St!StreamInv /\ St!Reported
      /\ part = "sync" => Sy!SyncInv
      /\ part = "select" => Se!SelectInv
      => ChannelAssertions
  BY Zenon, <1>1, <1>2, <1>3 DEF ChannelAssertions
<1>5. QED BY <1>4, StreamAlways, SyncAlways, SelectAlways, PTL
=============================================================================
