---------------------------- MODULE SetInduction ----------------------------
(* Induction with the predicate given as the set of what satisfies it: the   *)
(* library states it for operators, which the provers cannot instantiate.    *)
EXTENDS Integers, FiniteSets, FiniteSetTheorems, WellFoundedInduction, TLAPS

\* A set of natural numbers that is not empty has a least element.
THEOREM LeastElement ==
  ASSUME NEW T \in SUBSET Nat, T # {}
  PROVE  \E x \in T : \A y \in T : x <= y
<1> DEFINE R == OpToRel(<, Nat)
<1>1. IsWellFoundedOn(R, Nat)
  BY NatLessThanWellFounded
<1>2. \A x, y \in Nat : <<x, y>> \in R <=> x < y
  BY DEF OpToRel
<1> HIDE DEF R
<1>3. PICK x \in T : \A y \in T : <<y, x>> \notin R
  BY <1>1, WFMin
<1>4. \A y \in T : ~ (y < x)
  BY <1>2, <1>3
<1>5. QED
  BY <1>4

\* Induction on natural numbers: what holds of 0 and passes on to the next
\* number holds of all.
THEOREM NatSetInduction ==
  ASSUME NEW G \in SUBSET Nat, 0 \in G, \A n \in G : n + 1 \in G
  PROVE  G = Nat
<1> SUFFICES ASSUME G # Nat PROVE FALSE
  OBVIOUS
<1>1. PICK x \in Nat \ G : \A y \in Nat \ G : x <= y
  BY LeastElement
<1>2. x # 0 /\ x - 1 \in Nat
  BY <1>1
<1>3. x - 1 \in G
  BY <1>1, <1>2
<1>4. (x - 1) + 1 \in G
  BY <1>3
<1>5. QED
  BY <1>1, <1>4

\* A sequence of partial sums of n numbers.
PartialSums(n, weight, sum) ==
  /\ sum \in [0 .. n -> Int]
  /\ sum[0] = 0
  /\ \A i \in 1 .. n : sum[i] = sum[i - 1] + weight[i]

\* Partial sums of finitely many numbers exist.
THEOREM PartialSumsExist ==
  ASSUME NEW n \in Nat, NEW weight \in [1 .. n -> Int]
  PROVE  \E sum : PartialSums(n, weight, sum)
<1> DEFINE G == {m \in Nat : m <= n => \E sum : PartialSums(m, weight, sum)}
<1>1. 0 \in G
  <2>1. PartialSums(0, weight, [i \in 0 .. 0 |-> 0])
    BY DEF PartialSums
  <2>2. QED
    BY <2>1
<1>2. ASSUME NEW m \in G PROVE m + 1 \in G
  <2> SUFFICES ASSUME m + 1 <= n
               PROVE  \E sum : PartialSums(m + 1, weight, sum)
    OBVIOUS
  <2>1. PICK sum : PartialSums(m, weight, sum)
    OBVIOUS
  <2> DEFINE next == [i \in 0 .. m + 1 |->
                        IF i <= m THEN sum[i] ELSE sum[m] + weight[m + 1]]
  <2>2. m \in Nat /\ weight[m + 1] \in Int /\ sum[m] \in Int
    BY <2>1 DEF PartialSums
  <2>3. next \in [0 .. m + 1 -> Int] /\ next[0] = 0
    BY <2>1, <2>2 DEF PartialSums
  <2>4. ASSUME NEW i \in 1 .. m + 1
        PROVE  next[i] = next[i - 1] + weight[i]
    <3>1. CASE i <= m
      BY <2>1, <2>2, <3>1 DEF PartialSums
    <3>2. CASE i = m + 1
      BY <2>1, <2>2, <3>2 DEF PartialSums
    <3>3. QED
      BY <2>2, <3>1, <3>2
  <2>5. PartialSums(m + 1, weight, next)
    BY <2>3, <2>4 DEF PartialSums
  <2>6. QED
    BY <2>5
<1>3. G = Nat
  <2> HIDE DEF G
  <2>1. G \in SUBSET Nat
    BY DEF G
  <2>2. QED
    BY <1>1, <1>2, <2>1, NatSetInduction
<1>4. n <= n => \E sum : PartialSums(n, weight, sum)
  <2>1. n \in G
    BY <1>3
  <2>2. QED
    BY <2>1
<1>5. QED
  BY <1>4

\* They are determined by the numbers: whatever satisfies the recurrence is them.
THEOREM PartialSumsUnique ==
  ASSUME NEW n \in Nat, NEW weight, NEW a, PartialSums(n, weight, a),
         NEW b, b = [i \in 0 .. n |-> IF i = 0 THEN 0 ELSE b[i - 1] + weight[i]]
  PROVE  a = b
<1> DEFINE G == {m \in Nat : m <= n => a[m] = b[m]}
<1>1. b[0] = 0 /\ \A i \in 1 .. n : b[i] = b[i - 1] + weight[i]
  OBVIOUS
<1>2. 0 \in G
  BY <1>1 DEF PartialSums
<1>3. ASSUME NEW m \in G PROVE m + 1 \in G
  <2> SUFFICES ASSUME m + 1 <= n PROVE a[m + 1] = b[m + 1]
    OBVIOUS
  <2>1. m \in Nat /\ a[m] = b[m] /\ m + 1 \in 1 .. n /\ (m + 1) - 1 = m
    OBVIOUS
  <2>2. b[m + 1] = b[m] + weight[m + 1] /\ a[m + 1] = a[m] + weight[m + 1]
    BY <1>1, <2>1 DEF PartialSums
  <2>3. QED
    BY <2>1, <2>2
<1>4. G = Nat
  <2> HIDE DEF G
  <2>1. G \in SUBSET Nat
    BY DEF G
  <2>2. QED
    BY <1>2, <1>3, <2>1, NatSetInduction
<1>5. ASSUME NEW m \in 0 .. n PROVE a[m] = b[m]
  <2>1. m \in Nat /\ m <= n
    OBVIOUS
  <2>2. m \in G
    BY <1>4, <2>1, Zenon
  <2>3. QED
    BY <2>1, <2>2
<1>6. DOMAIN a = 0 .. n /\ a = [m \in 0 .. n |-> a[m]]
  BY DEF PartialSums
<1>7. b = [m \in 0 .. n |-> b[m]]
  OBVIOUS
<1>8. QED
  BY <1>5, <1>6, <1>7
=============================================================================
