------------------------------- MODULE Descent -------------------------------
(***************************************************************************)
(* What the termination proofs share.  Each of several actors has a number  *)
(* of steps left; their steps together are counted as a set of pairs, which *)
(* needs no sum over the actors, and a property of every number of steps is *)
(* shown by induction on sets of numbers.                                  *)
(***************************************************************************)
EXTENDS Integers, FiniteSetTheorems, WellFoundedInduction, TLAPS

(* The steps that actors have left, r[s] for the actor s and K at most.      *)
Remaining(r, K) == {p \in (DOMAIN r) \X (1 .. K) : p[2] <= r[p[1]]}

(* A set of numbers that is not empty has a first one.                      *)
LEMMA FirstOf ==
    ASSUME NEW S \in SUBSET Nat, S # {}
    PROVE  \E i \in S : \A j \in S : ~(j < i)
  <1> DEFINE R == OpToRel(<, Nat)
  <1>1. IsWellFoundedOn(R, Nat)
    BY NatLessThanWellFounded, Zenon
  <1>2. \A i, j \in Nat : j < i => <<j, i>> \in R
    BY DEF OpToRel
  <1> HIDE DEF R
  <1>3. \E i \in S : \A j \in S : ~(<<j, i>> \in R)
    BY <1>1, WFMin
  <1>4. QED
    BY <1>2, <1>3

(* Induction over the numbers of a set.                                    *)
LEMMA SetInduction ==
    ASSUME NEW S, 0 \in S, \A n \in Nat : n \in S => n + 1 \in S
    PROVE  \A n \in Nat : n \in S
  <1> DEFINE T == {n \in Nat : n \notin S}
  <1>1. ASSUME NEW i \in T, \A j \in T : ~(j < i) PROVE FALSE
    <2>1. i \in Nat /\ i # 0
      OBVIOUS
    <2>2. i - 1 \in Nat /\ i = (i - 1) + 1 /\ i - 1 < i
      BY <2>1
    <2>3. i - 1 \in S
      BY <1>1, <2>2
    <2>4. QED
      BY <2>2, <2>3
  <1>2. QED
    BY <1>1, FirstOf

(* There are finitely many steps when there are finitely many actors.      *)
LEMMA RemainingFinite ==
    ASSUME NEW S, IsFiniteSet(S), NEW K \in Nat, NEW r \in [S -> 0 .. K]
    PROVE  IsFiniteSet(Remaining(r, K)) /\ Cardinality(Remaining(r, K)) \in Nat
  <1>1. IsFiniteSet(1 .. K)
    BY FS_Interval
  <1>2. IsFiniteSet(S \X (1 .. K))
    BY <1>1, FS_Product
  <1>3. Remaining(r, K) \subseteq S \X (1 .. K)
    BY DEF Remaining
  <1>4. QED
    BY <1>2, <1>3, FS_Subset, FS_CardinalityType

(* An actor that moves leaves fewer steps when no other gets more.         *)
LEMMA RemainingShrinks ==
    ASSUME NEW S, IsFiniteSet(S), NEW K \in Nat,
           NEW r \in [S -> 0 .. K], NEW q \in [S -> 0 .. K],
           NEW s \in S, q[s] < r[s], \A x \in S \ {s} : q[x] <= r[x]
    PROVE  Cardinality(Remaining(q, K)) < Cardinality(Remaining(r, K))
  <1>1. \A x \in S : q[x] <= r[x] /\ q[x] \in Int /\ r[x] \in Int
    OBVIOUS
  <1>2. Remaining(q, K) \subseteq Remaining(r, K)
    BY <1>1 DEF Remaining
  <1>3. <<s, r[s]>> \in Remaining(r, K) /\ <<s, r[s]>> \notin Remaining(q, K)
    BY <1>1 DEF Remaining
  <1>4. /\ IsFiniteSet(Remaining(r, K)) /\ Cardinality(Remaining(r, K)) \in Nat
        /\ IsFiniteSet(Remaining(q, K)) /\ Cardinality(Remaining(q, K)) \in Nat
    BY RemainingFinite
  <1>5. Cardinality(Remaining(q, K)) <= Cardinality(Remaining(r, K))
        /\ Cardinality(Remaining(q, K)) # Cardinality(Remaining(r, K))
    BY <1>2, <1>3, <1>4, FS_Subset
  <1>6. QED
    BY <1>4, <1>5

(* No actor gets more, and there are no more steps.                        *)
LEMMA RemainingKeeps ==
    ASSUME NEW S, IsFiniteSet(S), NEW K \in Nat,
           NEW r \in [S -> 0 .. K], NEW q \in [S -> 0 .. K], \A x \in S : q[x] <= r[x]
    PROVE  Cardinality(Remaining(q, K)) <= Cardinality(Remaining(r, K))
  <1>1. \A x \in S : q[x] \in Int /\ r[x] \in Int
    OBVIOUS
  <1>2. Remaining(q, K) \subseteq Remaining(r, K)
    BY <1>1 DEF Remaining
  <1>3. QED
    BY <1>2, RemainingFinite, FS_Subset

(* The statement of each number in one table, so that a theorem about every  *)
(* table can be used where the statement is a temporal formula.             *)
Table(g) == TRUE

(* Induction over the statements of a table.                               *)
LEMMA TableInduction ==
    \A g : Table(g) /\ g[0] /\ (\A n \in Nat : g[n] => g[n + 1]) => \A n \in Nat : g[n]
  <1> SUFFICES ASSUME NEW g, g[0], \A n \in Nat : g[n] => g[n + 1]
               PROVE  \A n \in Nat : g[n]
    OBVIOUS
  <1> DEFINE S == {n \in Nat : g[n]}
  <1>1. 0 \in S /\ \A n \in Nat : n \in S => n + 1 \in S
    OBVIOUS
  <1> HIDE DEF S
  <1>2. \A n \in Nat : n \in S
    BY <1>1, SetInduction
  <1>3. QED
    BY <1>2 DEF S

(* The actors of a finite set can be taken one after the other.            *)
LEMMA Enumeration ==
    ASSUME NEW S, IsFiniteSet(S)
    PROVE  \E n \in Nat : \E f : f[0] = {} /\ f[n] = S
             /\ \A k \in Nat : f[k + 1] = f[k] \/ \E s \in S : f[k + 1] = f[k] \cup {s}
  <1>1. PICK n \in Nat : \E g : g \in Surjection(1 .. n, S)
    BY FS_NatSurjection DEF ExistsSurjection
  <1>2. PICK g : g \in Surjection(1 .. n, S)
    BY <1>1
  <1>3. g \in [1 .. n -> S] /\ \A s \in S : \E i \in 1 .. n : g[i] = s
    BY <1>2 DEF Surjection
  <1> DEFINE H(k) == {s \in S : \E i \in 1 .. n : i <= k /\ g[i] = s}
             f == [k \in Nat |-> H(k)]
  <1>4. f[0] = {}
    OBVIOUS
  <1>5. f[n] = S
    BY <1>3
  <1>6. ASSUME NEW k \in Nat PROVE f[k + 1] = f[k] \/ \E s \in S : f[k + 1] = f[k] \cup {s}
    <2>1. f[k] = H(k) /\ f[k + 1] = H(k + 1)
      OBVIOUS
    <2>2. \A i \in 1 .. n : i <= k + 1 <=> i <= k \/ i = k + 1
      OBVIOUS
    <2>3. CASE k + 1 \in 1 .. n
      <3>1. H(k + 1) = H(k) \cup {g[k + 1]} /\ g[k + 1] \in S
        BY <1>3, <2>2, <2>3
      <3>2. QED
        BY <2>1, <3>1
    <2>4. CASE k + 1 \notin 1 .. n
      <3>1. H(k + 1) = H(k)
        BY <2>2, <2>4
      <3>2. QED
        BY <2>1, <3>1
    <2>5. QED
      BY <2>3, <2>4
  <1> HIDE DEF f
  <1>7. QED
    BY <1>4, <1>5, <1>6
=============================================================================
