------------------------------ MODULE Counting ------------------------------
(***************************************************************************)
(* What the proofs about the components use of finite sets.  Those proofs  *)
(* take CountingFacts as a hypothesis, because a leaf is tried much faster *)
(* where the library of theorems on finite sets is not in sight;           *)
(* CommProofs derives CountingFacts from that library.                     *)
(***************************************************************************)
EXTENDS Integers, FiniteSets

CountingFacts ==
    /\ IsFiniteSet({}) /\ Cardinality({}) = 0
    /\ \A x : IsFiniteSet({x}) /\ Cardinality({x}) = 1
    /\ \A S : IsFiniteSet(S) => Cardinality(S) \in Nat /\ (Cardinality(S) = 0 => S = {})
    /\ \A S : \A T \in SUBSET S :
         IsFiniteSet(S) => IsFiniteSet(T) /\ Cardinality(T) <= Cardinality(S)
    /\ \A S, x : IsFiniteSet(S) =>
         /\ IsFiniteSet(S \cup {x})
         /\ Cardinality(S \cup {x}) = IF x \in S THEN Cardinality(S) ELSE Cardinality(S) + 1
    /\ \A S, x : IsFiniteSet(S) =>
         /\ IsFiniteSet(S \ {x})
         /\ Cardinality(S \ {x}) = IF x \in S THEN Cardinality(S) - 1 ELSE Cardinality(S)
    /\ \A n \in Nat : \A S : IsFiniteSet(S) => IsFiniteSet(S \X (1..n))
    /\ \A n \in Nat : \A S, x :
         IsFiniteSet(S) /\ {x} \X (1..n) \subseteq S => n <= Cardinality(S)
=============================================================================
