---------------------------- MODULE PrefixTrieProofs ----------------------------
(* The arithmetic on addresses, sorting, the prefixes a range is cut into,   *)
(* and the Patricia tries, for addresses of any number of bits.              *)
EXTENDS PrefixTrie, SetInduction

-----------------------------------------------------------------------------
(* Powers of two and masks *)

\* Powers of two double.
LEMMA PowerSteps ==
  /\ Power \in [0 .. Bits -> Nat \ {0}]
  /\ Power[0] = 1
  /\ \A n \in 1 .. Bits : Power[n] = 2 * Power[n - 1]
<1> DEFINE At(f, n) == IF n = 0 THEN 1 ELSE 2 * f[n - 1]
           Def(f) == [n \in 0 .. Bits |-> At(f, n)]
           f0 == CHOOSE f : f = Def(f)
           Exists(m) == \E f \in [0 .. m -> Nat \ {0}] : f = [n \in 0 .. m |-> At(f, n)]
           G == {m \in Nat : Exists(m)}
<1>0. Bits \in Nat
  BY BitsAssumption
<1>1. 0 \in G
  <2> DEFINE one == [n \in 0 .. 0 |-> 1]
  <2>1. one \in [0 .. 0 -> Nat \ {0}] /\ one = [n \in 0 .. 0 |-> At(one, n)]
    OBVIOUS
  <2> HIDE DEF one
  <2>2. QED
    BY <2>1
<1>2. ASSUME NEW m \in G PROVE m + 1 \in G
  <2>1. m \in Nat
    OBVIOUS
  <2>2. PICK f \in [0 .. m -> Nat \ {0}] : f = [n \in 0 .. m |-> At(f, n)]
    OBVIOUS
  <2> DEFINE g == [n \in 0 .. m + 1 |-> IF n <= m THEN f[n] ELSE At(f, n)]
  <2>3. ASSUME NEW n \in 0 .. m + 1 PROVE g[n] = At(g, n) /\ g[n] \in Nat \ {0}
    <3>1. n # 0 => n - 1 \in 0 .. m /\ g[n - 1] = f[n - 1]
      BY <2>1
    <3>2. g[n] = At(f, n) /\ g[n] \in Nat \ {0}
      <4>1. CASE n <= m
        <5>1. n \in 0 .. m /\ g[n] = f[n]
          BY <2>1, <4>1
        <5>2. QED
          BY <2>2, <5>1
      <4>2. CASE ~ (n <= m)
        BY <2>1, <4>2, <3>1
      <4>3. QED
        BY <4>1, <4>2
    <3> HIDE DEF g
    <3>3. QED
      BY <3>1, <3>2
  <2>4. g = [n \in 0 .. m + 1 |-> At(g, n)] /\ g \in [0 .. m + 1 -> Nat \ {0}]
    BY <2>3
  <2> HIDE DEF g
  <2>5. Exists(m + 1)
    BY <2>4
  <2> HIDE DEF Exists
  <2>6. QED
    BY <2>1, <2>5
<1>3. G = Nat
  <2> HIDE DEF G
  <2>1. G \in SUBSET Nat
    BY DEF G
  <2>2. QED
    BY <1>1, <1>2, <2>1, NatSetInduction
<1>4. PICK f \in [0 .. Bits -> Nat \ {0}] : f = Def(f)
  <2>1. Bits \in G
    BY <1>0, <1>3
  <2>2. QED
    BY <2>1
<1>5. f0 = Def(f0)
  BY <1>4
<1>6. Power = f0
  BY DEF Power
<1> HIDE DEF f0
<1>7. \A n \in 0 .. Bits : f0[n] = At(f0, n)
  BY <1>5
<1>8. \A n \in 0 .. Bits : f0[n] \in Nat \ {0}
  <2> DEFINE P(n) == n <= Bits => f0[n] \in Nat \ {0}
             H == {n \in Nat : P(n)}
  <2>1. 0 \in H
    BY <1>0, <1>7
  <2>2. ASSUME NEW n \in H PROVE n + 1 \in H
    <3>1. n \in Nat /\ P(n)
      OBVIOUS
    <3>2. ASSUME n + 1 <= Bits PROVE f0[n + 1] \in Nat \ {0}
      <4>1. n + 1 \in 0 .. Bits /\ (n + 1) - 1 = n /\ n + 1 # 0
        BY <1>0, <3>1, <3>2
      <4>2. f0[n + 1] = 2 * f0[n]
        BY <1>7, <4>1
      <4>3. QED
        BY <1>0, <3>1, <3>2, <4>2
    <3> HIDE DEF P
    <3>3. P(n + 1)
      BY <3>2 DEF P
    <3>4. QED
      BY <3>1, <3>3
  <2>3. H = Nat
    <3> HIDE DEF H
    <3>1. H \in SUBSET Nat
      BY DEF H
    <3>2. QED
      BY <2>1, <2>2, <3>1, NatSetInduction
  <2>4. ASSUME NEW n \in 0 .. Bits PROVE f0[n] \in Nat \ {0}
    <3>1. n \in H
      BY <2>3
    <3>2. QED
      BY <3>1
  <2>5. QED
    BY <2>4
<1>9. QED
  BY <1>0, <1>5, <1>6, <1>7, <1>8

\* The number of addresses of a prefix.
LEMMA SizeIsPositive ==
  ASSUME NEW length \in 0 .. Bits PROVE Size(length) \in Nat \ {0}
BY PowerSteps, BitsAssumption DEF Size

\* Clearing bits leaves an address.
LEMMA MaskedIsNat ==
  ASSUME NEW address \in Nat, NEW length \in 0 .. Bits
  PROVE  Masked(address, length) \in Nat
<1>1. Size(length) \in Nat \ {0}
  BY SizeIsPositive
<1>2. ASSUME NEW s \in Nat \ {0} PROVE address - (address % s) \in Nat
  <2>1. address % s \in 0 .. s - 1
    OBVIOUS
  <2>2. address = s * (address \div s) + (address % s)
    OBVIOUS
  <2>3. address \div s \in Nat
    OBVIOUS
  <2>4. s * (address \div s) \in Nat
    BY <2>3
  <2>5. QED
    BY <2>1, <2>2, <2>4
<1>3. QED
  BY <1>1, <1>2 DEF Masked

-----------------------------------------------------------------------------
(* Sorting *)

\* Taking the least element first, until nothing is left.
Sorts(P, least, from) ==
  from = [rest \in SUBSET P |->
            IF rest = {} THEN <<>> ELSE <<least[rest]>> \o from[rest \ {least[rest]}]]

\* A sequence of all elements of a set, in the order.
SequenceOf(set, order, seq) ==
  /\ seq \in Seq(set)
  /\ {seq[i] : i \in DOMAIN seq} = set
  /\ \A i, j \in DOMAIN seq : i < j => <<seq[i], seq[j]>> \in order

\* A finite set can be sorted that way, and then is in order.
LEMMA SortingWorks ==
  ASSUME NEW P, IsFiniteSet(P), NEW order, NEW least,
         \A rest \in SUBSET P : rest # {} =>
            /\ least[rest] \in rest
            /\ \A y \in rest \ {least[rest]} : <<least[rest], y>> \in order
  PROVE  /\ \E from : Sorts(P, least, from)
         /\ \A from : Sorts(P, least, from) => SequenceOf(P, order, from[P])
<1> DEFINE Less(rest) == rest \ {least[rest]}
           At(f, rest) == IF rest = {} THEN <<>> ELSE <<least[rest]>> \o f[Less(rest)]
           Part(n) == {rest \in SUBSET P : Cardinality(rest) <= n}
           Exists(n) == \E f : f = [rest \in Part(n) |-> At(f, rest)]
           G == {n \in Nat : Exists(n)}
<1>1. ASSUME NEW rest \in SUBSET P, rest # {}
      PROVE  /\ least[rest] \in rest
             /\ Cardinality(rest) \in Nat
             /\ Cardinality(Less(rest)) = Cardinality(rest) - 1
  <2>1. least[rest] \in rest
    BY <1>1
  <2>2. IsFiniteSet(rest)
    BY FS_Subset
  <2>3. QED
    BY <2>1, <2>2, FS_CardinalityType, FS_RemoveElement
<1>2. \A rest \in SUBSET P : /\ Cardinality(rest) \in Nat
                             /\ Cardinality(rest) = 0 => rest = {}
  BY FS_Subset, FS_EmptySet, FS_CardinalityType
<1>3. Cardinality(P) \in Nat /\ Part(Cardinality(P)) = SUBSET P
  <2>1. Cardinality(P) \in Nat
    BY FS_CardinalityType
  <2>2. ASSUME NEW rest \in SUBSET P PROVE Cardinality(rest) <= Cardinality(P)
    BY FS_Subset
  <2>3. QED
    BY <2>1, <2>2
<1>4. ASSUME NEW n \in Nat, NEW rest \in Part(n + 1), rest # {}
      PROVE  Less(rest) \in Part(n) /\ rest \in SUBSET P
  BY <1>1, <1>4
<1>5. /\ \A n \in Nat : Part(n) \subseteq Part(n + 1) /\ Part(n) \subseteq SUBSET P
      /\ \A rest \in Part(0) : rest = {}
  BY <1>2
<1> HIDE DEF Part, Less
<1>6. 0 \in G
  <2> DEFINE g == [rest \in Part(0) |-> <<>>]
  <2>1. g = [rest \in Part(0) |-> At(g, rest)]
    BY <1>5
  <2> HIDE DEF g
  <2>2. Exists(0)
    BY <2>1
  <2> HIDE DEF Exists
  <2>3. QED
    BY <2>2
<1>7. ASSUME NEW n \in G PROVE n + 1 \in G
  <2>1. n \in Nat
    OBVIOUS
  <2>2. PICK f : f = [rest \in Part(n) |-> At(f, rest)]
    OBVIOUS
  <2> DEFINE g == [rest \in Part(n + 1) |-> IF rest \in Part(n) THEN f[rest] ELSE At(f, rest)]
  <2>3. ASSUME NEW rest \in Part(n + 1) PROVE g[rest] = At(g, rest)
    <3>1. ASSUME rest # {} PROVE g[Less(rest)] = f[Less(rest)]
      BY <1>4, <1>5, <2>1, <3>1
    <3>2. g[rest] = At(f, rest)
      BY <2>2
    <3> HIDE DEF g
    <3>3. QED
      BY <3>1, <3>2
  <2>4. g = [rest \in Part(n + 1) |-> At(g, rest)]
    BY <2>3
  <2> HIDE DEF g
  <2>5. Exists(n + 1)
    BY <2>4
  <2> HIDE DEF Exists
  <2>6. QED
    BY <2>1, <2>5
<1>8. G = Nat
  <2> HIDE DEF G
  <2>1. G \in SUBSET Nat
    BY DEF G
  <2>2. QED
    BY <1>6, <1>7, <2>1, NatSetInduction
<1>9. \E from : Sorts(P, least, from)
  <2>1. Exists(Cardinality(P))
    BY <1>3, <1>8
  <2>2. QED
    BY <1>3, <2>1 DEF Sorts, Less
<1>10. ASSUME NEW from, Sorts(P, least, from) PROVE SequenceOf(P, order, from[P])
  <2> DEFINE Holds(n) == \A rest \in Part(n) : SequenceOf(rest, order, from[rest])
             H == {n \in Nat : Holds(n)}
  <2>1. \A rest \in SUBSET P : from[rest] = At(from, rest)
    BY <1>10 DEF Sorts, Less
  <2>2. ASSUME NEW rest \in SUBSET P, rest = {} PROVE SequenceOf(rest, order, from[rest])
    <3>1. from[rest] = <<>>
      BY <2>1, <2>2
    <3>2. QED
      BY <2>2, <3>1 DEF SequenceOf
  <2>3. 0 \in H
    BY <1>5, <2>2
  <2>4. ASSUME NEW n \in H PROVE n + 1 \in H
    <3>1. n \in Nat /\ Holds(n)
      OBVIOUS
    <3>2. ASSUME NEW rest \in Part(n + 1), rest # {}
          PROVE  SequenceOf(rest, order, from[rest])
      <4> DEFINE x == least[rest]
                 tail == from[Less(rest)]
                 seq == <<x>> \o tail
      <4>1. rest \in SUBSET P /\ Less(rest) \in Part(n)
        BY <1>4, <3>1, <3>2
      <4>2. /\ x \in rest /\ \A y \in Less(rest) : <<x, y>> \in order
            /\ from[rest] = seq
        BY <2>1, <3>2, <4>1 DEF Less
      <4>3. SequenceOf(Less(rest), order, tail)
        BY <3>1, <4>1
      <4>4. rest = Less(rest) \cup {x}
        BY <4>2 DEF Less
      <4> HIDE DEF x, tail
      <4>5. /\ tail \in Seq(Less(rest)) /\ tail \in Seq(rest) /\ Len(tail) \in Nat
            /\ DOMAIN tail = 1 .. Len(tail)
            /\ {tail[i] : i \in DOMAIN tail} = Less(rest)
            /\ \A i, j \in DOMAIN tail : i < j => <<tail[i], tail[j]>> \in order
        <5>1. tail \in Seq(Less(rest))
          BY <4>3 DEF SequenceOf
        <5>2. tail \in Seq(rest)
          BY <4>4, <5>1
        <5>3. QED
          BY <4>3, <5>1, <5>2 DEF SequenceOf
      <4>6. /\ seq \in Seq(rest) /\ seq[1] = x
            /\ DOMAIN seq = 1 .. Len(tail) + 1
            /\ \A i \in DOMAIN tail : seq[i + 1] = tail[i]
        BY <4>2, <4>5, SMTT(30), ZenonT(30)
      <4> HIDE DEF seq
      <4>7. ASSUME NEW i \in DOMAIN seq
            PROVE  i = 1 \/ (i - 1 \in DOMAIN tail /\ seq[i] = tail[i - 1])
        <5>1. i = 1 \/ (i - 1 \in DOMAIN tail /\ (i - 1) + 1 = i)
          BY <4>5, <4>6
        <5>2. QED
          BY <4>6, <5>1
      <4>8. ASSUME NEW y \in rest PROVE \E i \in DOMAIN seq : seq[i] = y
        <5>1. CASE y = x
          <6>1. 1 \in DOMAIN seq
            BY <4>5, <4>6
          <6>2. QED
            BY <4>6, <5>1, <6>1
        <5>2. CASE y # x
          <6>1. PICK i \in DOMAIN tail : tail[i] = y
            BY <4>4, <4>5, <5>2
          <6>2. i + 1 \in DOMAIN seq /\ seq[i + 1] = y
            BY <4>5, <4>6, <6>1
          <6>3. QED
            BY <6>2
        <5>3. QED
          BY <5>1, <5>2
      <4>9. {seq[i] : i \in DOMAIN seq} = rest
        BY <4>6, <4>8
      <4>10. ASSUME NEW i \in DOMAIN seq, NEW j \in DOMAIN seq, i < j
             PROVE  <<seq[i], seq[j]>> \in order
        <5>1. j - 1 \in DOMAIN tail /\ seq[j] = tail[j - 1]
          BY <4>6, <4>7, <4>10
        <5>2. CASE i = 1
          <6>1. tail[j - 1] \in Less(rest)
            BY <4>5, <5>1
          <6>2. QED
            BY <4>2, <4>6, <5>1, <5>2, <6>1
        <5>3. CASE i # 1
          <6>1. i - 1 \in DOMAIN tail /\ seq[i] = tail[i - 1] /\ i - 1 < j - 1
            BY <4>5, <4>6, <4>7, <4>10, <5>3
          <6>2. QED
            BY <4>5, <5>1, <6>1
        <5>4. QED
          BY <5>2, <5>3
      <4>11. SequenceOf(rest, order, seq)
        BY <4>6, <4>9, <4>10 DEF SequenceOf
      <4>12. QED
        BY <4>2, <4>11
    <3>3. Holds(n + 1)
      BY <1>5, <2>2, <3>1, <3>2
    <3> HIDE DEF Holds
    <3>4. QED
      BY <3>1, <3>3
  <2>5. H = Nat
    <3> HIDE DEF H
    <3>1. H \in SUBSET Nat
      BY DEF H
    <3>2. QED
      BY <2>3, <2>4, <3>1, NatSetInduction
  <2>6. Holds(Cardinality(P))
    <3> HIDE DEF Holds
    <3>1. QED
      BY <1>3, <2>5
  <2>7. QED
    BY <1>3, <2>6
<1>11. QED
  BY <1>9, <1>10

\* Numbers in ascending order.
LEMMA AscendingNumbers ==
  ASSUME NEW P \in SUBSET Nat, IsFiniteSet(P)
  PROVE  SequenceOf(P, {pair \in P \X P : pair[1] < pair[2]}, Ascending(P, LAMBDA x, y : x < y))
<1> DEFINE First(rest) == CHOOSE x \in rest : \A y \in rest \ {x} : x < y
           least == [rest \in SUBSET P |-> First(rest)]
           order == {pair \in P \X P : pair[1] < pair[2]}
           Def(f) == [rest \in SUBSET P |->
                        IF rest = {} THEN <<>> ELSE <<First(rest)>> \o f[rest \ {First(rest)}]]
           f0 == CHOOSE f : f = Def(f)
<1>1. ASSUME NEW rest \in SUBSET P, rest # {}
      PROVE  /\ First(rest) \in rest
             /\ \A y \in rest \ {First(rest)} : First(rest) < y
  <2>1. PICK x \in rest : \A y \in rest : x <= y
    BY <1>1, LeastElement
  <2>2. \A y \in rest \ {x} : x < y
    BY <2>1
  <2>3. QED
    BY <2>2
<1>2. Ascending(P, LAMBDA x, y : x < y) = f0[P]
  BY DEF Ascending
<1> HIDE DEF First
<1>3. \A f : f = Def(f) <=> Sorts(P, least, f)
  <2>1. ASSUME NEW f PROVE Def(f) = [rest \in SUBSET P |->
            IF rest = {} THEN <<>> ELSE <<least[rest]>> \o f[rest \ {least[rest]}]]
    OBVIOUS
  <2> HIDE DEF Def, least
  <2>2. QED
    BY <2>1 DEF Sorts
<1>4. \A rest \in SUBSET P : rest # {} =>
            /\ least[rest] \in rest
            /\ \A y \in rest \ {least[rest]} : <<least[rest], y>> \in order
  BY <1>1
<1> HIDE DEF Def, least, order
<1>5. /\ \E from : Sorts(P, least, from)
      /\ \A from : Sorts(P, least, from) => SequenceOf(P, order, from[P])
  BY <1>4, SortingWorks
<1>6. f0 = Def(f0)
  BY <1>3, <1>5
<1>7. SequenceOf(P, order, f0[P])
  BY <1>3, <1>5, <1>6
<1>8. QED
  BY <1>2, <1>7 DEF order

\* A greater power of two is a multiple of a smaller one.
LEMMA PowerDivides ==
  ASSUME NEW i \in 0 .. Bits, NEW j \in i .. Bits
  PROVE  \E k \in Nat \ {0} : Power[j] = k * Power[i]
<1> DEFINE Divides(m) == \E k \in Nat \ {0} : Power[i + m] = k * Power[i]
           G == {m \in Nat : i + m <= Bits => Divides(m)}
<1>0. Bits \in Nat /\ i \in Nat
  BY BitsAssumption
<1>1. 0 \in G
  <2>1. Power[i] \in Nat /\ i + 0 = i
    BY <1>0, PowerSteps
  <2>2. Power[i + 0] = 1 * Power[i]
    BY <2>1
  <2>3. QED
    BY <2>2
<1>2. ASSUME NEW m \in G PROVE m + 1 \in G
  <2> SUFFICES ASSUME i + (m + 1) <= Bits PROVE Divides(m + 1)
    OBVIOUS
  <2>1. m \in Nat /\ i + m <= Bits
    BY <1>0
  <2>2. PICK k \in Nat \ {0} : Power[i + m] = k * Power[i]
    BY <2>1
  <2>3. i + (m + 1) \in 1 .. Bits /\ (i + (m + 1)) - 1 = i + m
    BY <1>0, <2>1
  <2>4. Power[i + (m + 1)] = 2 * (k * Power[i])
    BY <2>2, <2>3, PowerSteps
  <2>5. Power[i] \in Nat /\ 2 * k \in Nat \ {0}
    BY <1>0, PowerSteps
  <2>6. 2 * (k * Power[i]) = (2 * k) * Power[i]
    BY <2>5
  <2>7. QED
    BY <2>4, <2>5, <2>6
<1>3. G = Nat
  <2> HIDE DEF G
  <2>1. G \in SUBSET Nat
    BY DEF G
  <2>2. QED
    BY <1>1, <1>2, <2>1, NatSetInduction
<1>4. j - i \in Nat /\ i + (j - i) = j
  BY <1>0
<1>5. j - i \in G
  BY <1>3, <1>4
<1>6. Divides(j - i)
  BY <1>0, <1>4, <1>5
<1>7. QED
  BY <1>4, <1>6

\* The quotient is determined by the division.
LEMMA QuotientIs ==
  ASSUME NEW m \in Nat \ {0}, NEW q \in Nat, NEW r \in Nat, r < m
  PROVE  (m * q + r) \div m = q
OBVIOUS

\* Dividing by a multiple first divides by the number.
LEMMA QuotientOfMultiple ==
  ASSUME NEW a \in Nat, NEW s \in Nat \ {0}, NEW k \in Nat \ {0}
  PROVE  a \div (k * s) = (a \div s) \div k
<1> DEFINE q == a \div s
           r == a % s
           u == q \div k
           v == q % k
<1>1. q \in Nat /\ r \in Nat /\ r < s /\ a = s * q + r
  OBVIOUS
<1> HIDE DEF q, r
<1>2. u \in Nat /\ v \in Nat /\ v < k /\ q = k * u + v
  BY <1>1
<1> HIDE DEF u, v
<1>3. v <= k - 1 /\ k - 1 \in Nat
  BY <1>2
<1>4. s * v <= s * (k - 1)
  BY <1>2, <1>3
<1>5. s * v + r < s * k
  BY <1>1, <1>2, <1>4
<1>6. s * v \in Nat /\ s * v + r \in Nat /\ k * s \in Nat \ {0} /\ k * s = s * k
  BY <1>1, <1>2
<1>7. a = (k * s) * u + (s * v + r)
  BY <1>1, <1>2
<1>8. a \div (k * s) = u
  BY <1>2, <1>5, <1>6, <1>7, QuotientIs
<1>9. QED
  BY <1>8 DEF q, u

\* Bits.
LEMMA BitType ==
  ASSUME NEW address \in Nat, NEW bit \in 0 .. Bits - 1
  PROVE  BitAt(address, bit) \in {0, 1}
<1>1. bit + 1 \in 0 .. Bits
  BY BitsAssumption
<1>2. Size(bit + 1) \in Nat \ {0}
  BY <1>1, SizeIsPositive
<1>3. address \div Size(bit + 1) \in Nat
  BY <1>2
<1>4. QED
  BY <1>3 DEF BitAt

\* Masking keeps the bits before the mask.
LEMMA MaskedBits ==
  ASSUME NEW address \in Nat, NEW length \in 0 .. Bits, NEW bit \in 0 .. length - 1
  PROVE  BitAt(Masked(address, length), bit) = BitAt(address, bit)
<1> DEFINE s == Size(length)
<1>1. s \in Nat \ {0}
  BY SizeIsPositive
<1>2. PICK k \in Nat \ {0} : Size(bit + 1) = k * s
  <2>1. /\ Bits - length \in 0 .. Bits
        /\ Bits - (bit + 1) \in (Bits - length) .. Bits
    BY BitsAssumption
  <2>2. QED
    BY <2>1, PowerDivides DEF Size
<1>3. Masked(address, length) \in Nat
  BY MaskedIsNat
<1>4. Masked(address, length) \div s = address \div s
  <2>1. address \div s \in Nat /\ Masked(address, length) = s * (address \div s) + 0
    BY <1>1 DEF Masked
  <2>2. QED
    BY <1>1, <2>1, QuotientIs
<1> HIDE DEF s
<1>5. Masked(address, length) \div (k * s) = address \div (k * s)
  <2>1. Masked(address, length) \div (k * s) = (Masked(address, length) \div s) \div k
    BY <1>1, <1>3, QuotientOfMultiple
  <2>2. address \div (k * s) = (address \div s) \div k
    BY <1>1, QuotientOfMultiple
  <2>3. QED
    BY <1>4, <2>1, <2>2
<1>6. QED
  BY <1>2, <1>5 DEF BitAt

-----------------------------------------------------------------------------
(* Common bits *)

\* The bits before `length` are the same.
Agree(left, right, length) == \A bit \in 0 .. length - 1 : BitAt(left, bit) = BitAt(right, bit)

\* CommonLength finds the first bit that differs.
LEMMA CommonIsMaximal ==
  ASSUME NEW left, NEW right, left.length \in 0 .. Bits, right.length \in 0 .. Bits
  PROVE  /\ CommonLength(left, right) \in Nat
         /\ CommonLength(left, right) <= left.length
         /\ CommonLength(left, right) <= right.length
         /\ Agree(left.address, right.address, CommonLength(left, right))
         /\ CommonLength(left, right) < left.length /\ CommonLength(left, right) < right.length
              => BitAt(left.address, CommonLength(left, right))
                   # BitAt(right.address, CommonLength(left, right))
<1> DEFINE limit == IF left.length < right.length THEN left.length ELSE right.length
           Upto(n) == \A bit \in 0 .. n - 1 :
                        BitAt(left.address, bit) = BitAt(right.address, bit)
           Right(n) == Upto(n) /\ (n < limit => ~ Upto(n + 1))
           T == {n \in 0 .. limit :
                   n = limit \/ BitAt(left.address, n) # BitAt(right.address, n)}
           c == CHOOSE n \in 0 .. limit : Right(n)
<1>1. limit \in Nat /\ limit <= left.length /\ limit <= right.length
      /\ (limit = left.length \/ limit = right.length)
  BY BitsAssumption
<1> HIDE DEF limit
<1>2. T \in SUBSET Nat /\ limit \in T
  BY <1>1
<1>3. PICK n \in T : \A k \in T : n <= k
  BY <1>2, LeastElement
<1>4. n \in 0 .. limit /\ n \in Nat
  BY <1>1
<1>5. Upto(n)
  <2> SUFFICES ASSUME NEW bit \in 0 .. n - 1
               PROVE  BitAt(left.address, bit) = BitAt(right.address, bit)
    OBVIOUS
  <2>1. bit \in 0 .. limit /\ bit < n
    BY <1>1, <1>4
  <2>2. bit \notin T
    BY <1>1, <1>3, <1>4, <2>1
  <2>3. QED
    BY <2>1, <2>2
<1>6. n < limit => ~ Upto(n + 1)
  <2> SUFFICES ASSUME n < limit PROVE ~ Upto(n + 1)
    OBVIOUS
  <2>1. n \in 0 .. (n + 1) - 1
    BY <1>4
  <2>2. BitAt(left.address, n) # BitAt(right.address, n)
    BY <1>1, <1>3, <1>4
  <2>3. QED
    BY <2>1, <2>2
<1>7. \E m \in 0 .. limit : Right(m)
  BY <1>4, <1>5, <1>6
<1>8. c \in 0 .. limit /\ Right(c)
  <2> HIDE DEF Right
  <2>1. QED
    BY <1>7
<1>9. CommonLength(left, right) = c
  BY DEF CommonLength, limit
<1> HIDE DEF c
<1>10. c < limit => BitAt(left.address, c) # BitAt(right.address, c)
  <2> SUFFICES ASSUME c < limit, BitAt(left.address, c) = BitAt(right.address, c)
               PROVE  Upto(c + 1)
    BY <1>8
  <2> SUFFICES ASSUME NEW bit \in 0 .. (c + 1) - 1
               PROVE  BitAt(left.address, bit) = BitAt(right.address, bit)
    OBVIOUS
  <2>1. bit \in 0 .. c - 1 \/ bit = c
    BY <1>1, <1>8
  <2>2. QED
    BY <1>8, <2>1
<1>11. c \in Nat /\ c <= limit /\ (c < left.length /\ c < right.length => c < limit)
  BY <1>1, <1>8
<1>12. c <= left.length /\ c <= right.length
  BY <1>1, <1>11
<1>13. Agree(left.address, right.address, c)
  BY <1>8 DEF Agree
<1>14. QED
  BY <1>9, <1>10, <1>11, <1>12, <1>13

\* Bits that agree are common.
LEMMA CommonIsAtLeast ==
  ASSUME NEW left, NEW right, left.length \in 0 .. Bits, right.length \in 0 .. Bits,
         NEW n \in Nat, n <= left.length, n <= right.length,
         Agree(left.address, right.address, n)
  PROVE  CommonLength(left, right) >= n
<1> DEFINE c == CommonLength(left, right)
<1>1. /\ c \in Nat
      /\ c < left.length /\ c < right.length
           => BitAt(left.address, c) # BitAt(right.address, c)
  BY CommonIsMaximal
<1> HIDE DEF c
<1>2. ASSUME c < n PROVE FALSE
  <2>1. c \in 0 .. n - 1 /\ c < left.length /\ c < right.length
    BY <1>1, <1>2, BitsAssumption
  <2>2. QED
    BY <1>1, <2>1 DEF Agree
<1>3. QED
  BY <1>1, <1>2 DEF c

\* A prefix covers what agrees with it.
LEMMA CoversAgreeing ==
  ASSUME NEW prefix, prefix.length \in 0 .. Bits, NEW address
  PROVE  Covers(prefix, address) <=> Agree(prefix.address, address, prefix.length)
<1> DEFINE other == [address |-> address, length |-> prefix.length]
           c == CommonLength(prefix, other)
<1>1. other.length = prefix.length /\ other.address = address /\ prefix.length \in Nat
  BY BitsAssumption
<1>2. c \in Nat /\ c <= prefix.length /\ Agree(prefix.address, address, c)
  BY <1>1, CommonIsMaximal
<1>3. Agree(prefix.address, address, prefix.length) => c >= prefix.length
  BY <1>1, CommonIsAtLeast
<1> HIDE DEF c
<1>4. Covers(prefix, address) <=> c = prefix.length
  BY DEF Covers, c
<1>5. QED
  BY <1>1, <1>2, <1>3, <1>4

-----------------------------------------------------------------------------
(* Tries *)

NodesOf(values) == [address : Nat, length : 0 .. Bits, child : [{1, 2} -> Nat], value : values]

\* A link leads to a node with a longer prefix below its own, in the slot of
\* the first bit that follows.
Hangs(nodes, ref, slot) ==
  LET next == nodes[ref].child[slot] IN
  /\ next \in 2 .. Len(nodes)
  /\ nodes[ref].length < nodes[next].length
  /\ Agree(nodes[ref].address, nodes[next].address, nodes[ref].length)
  /\ Branch(nodes[next], nodes[ref].length) = slot

\* A Patricia trie whose nodes hold one of the values, or nothing.
Patricia(nodes, values, nothing) ==
  /\ nodes \in Seq(NodesOf(values)) /\ Len(nodes) \in Nat \ {0}
  /\ nodes[1].length = 0
  /\ \A ref \in 1 .. Len(nodes), slot \in {1, 2} :
       nodes[ref].child[slot] # 0 => Hangs(nodes, ref, slot)
  /\ \A ref \in 2 .. Len(nodes) :
       \E above \in 1 .. Len(nodes), slot \in {1, 2} : nodes[above].child[slot] = ref
  /\ \A ref, other \in 1 .. Len(nodes), slot, side \in {1, 2} :
       nodes[ref].child[slot] # 0 /\ nodes[ref].child[slot] = nodes[other].child[side]
         => ref = other /\ slot = side
  /\ \A ref \in 2 .. Len(nodes) :
       nodes[ref].value = nothing => nodes[ref].child[1] # 0 /\ nodes[ref].child[2] # 0

APrefix(prefix) == prefix.address \in Nat /\ prefix.length \in 0 .. Bits

\* Where the descent for a prefix may stop.
StopsAt(nodes, prefix, stop) ==
  \/ /\ stop.parent = 0
     /\ stop.at \in 1 .. Len(nodes)
     /\ nodes[stop.at].length = prefix.length
     /\ Agree(nodes[stop.at].address, prefix.address, prefix.length)
  \/ /\ stop.parent \in 1 .. Len(nodes)
     /\ nodes[stop.parent].length < prefix.length
     /\ Agree(nodes[stop.parent].address, prefix.address, nodes[stop.parent].length)
     /\ stop.at = nodes[stop.parent].child[Branch(prefix, nodes[stop.parent].length)]
     /\ \/ stop.at = 0
        \/ CommonLength(nodes[stop.at], prefix) < nodes[stop.at].length

\* The descent ends: at the node of the prefix, or where it has to hang.
LEMMA DescentStops ==
  ASSUME NEW nodes, NEW values, NEW nothing, Patricia(nodes, values, nothing),
         NEW prefix, APrefix(prefix)
  PROVE  StopsAt(nodes, prefix, Stop(nodes, prefix))
<1> DEFINE Below(ref) == nodes[ref].child[Branch(prefix, nodes[ref].length)]
           Ends(ref) == Below(ref) = 0 \/ CommonLength(nodes[Below(ref)], prefix)
                                            < nodes[Below(ref)].length
           At(f, ref) == IF nodes[ref].length = prefix.length THEN [parent |-> 0, at |-> ref]
                         ELSE IF Ends(ref) THEN [parent |-> ref, at |-> Below(ref)]
                         ELSE f[Below(ref)]
           Refs == {ref \in DOMAIN nodes : nodes[ref].length <= prefix.length}
           Def(f) == [ref \in Refs |-> At(f, ref)]
           f0 == CHOOSE f : f = Def(f)
           Deep(n) == {ref \in Refs : nodes[ref].length + n >= prefix.length}
           Goes(ref) == nodes[ref].length # prefix.length /\ ~ Ends(ref)
           Above(ref) == Agree(nodes[ref].address, prefix.address, nodes[ref].length)
<1>1. /\ Bits \in Nat /\ Len(nodes) \in Nat \ {0} /\ DOMAIN nodes = 1 .. Len(nodes)
      /\ \A ref \in 1 .. Len(nodes) :
           /\ nodes[ref].address \in Nat /\ nodes[ref].length \in 0 .. Bits
           /\ nodes[ref].child \in [{1, 2} -> Nat]
      /\ nodes[1].length = 0
      /\ prefix.address \in Nat /\ prefix.length \in 0 .. Bits
  <2>1. /\ nodes \in Seq(NodesOf(values)) /\ Len(nodes) \in Nat \ {0} /\ nodes[1].length = 0
        /\ DOMAIN nodes = 1 .. Len(nodes)
    BY DEF Patricia
  <2>2. \A ref \in 1 .. Len(nodes) : nodes[ref] \in NodesOf(values)
    BY <2>1
  <2>3. \A ref \in 1 .. Len(nodes) :
           /\ nodes[ref].address \in Nat /\ nodes[ref].length \in 0 .. Bits
           /\ nodes[ref].child \in [{1, 2} -> Nat]
    BY <2>2 DEF NodesOf
  <2>4. QED
    BY <2>1, <2>3, BitsAssumption DEF APrefix
<1>2. ASSUME NEW ref \in Refs, nodes[ref].length # prefix.length
      PROVE  /\ ref \in 1 .. Len(nodes) /\ nodes[ref].length < prefix.length
             /\ Branch(prefix, nodes[ref].length) \in {1, 2}
             /\ Below(ref) # 0 => /\ Below(ref) \in 1 .. Len(nodes)
                                  /\ nodes[ref].length < nodes[Below(ref)].length
  <2>1. nodes[ref].length \in 0 .. Bits - 1 /\ nodes[ref].length < prefix.length
    BY <1>1, <1>2
  <2>2. Branch(prefix, nodes[ref].length) \in {1, 2}
    BY <1>1, <2>1, BitType DEF Branch
  <2>3. Below(ref) # 0 => Hangs(nodes, ref, Branch(prefix, nodes[ref].length))
    BY <1>1, <2>2 DEF Patricia
  <2>4. QED
    BY <1>1, <2>1, <2>2, <2>3 DEF Hangs
<1>3. ASSUME NEW ref \in Refs, Goes(ref)
      PROVE  /\ Below(ref) \in Refs /\ nodes[ref].length < nodes[Below(ref)].length
             /\ Above(Below(ref))
  <2> DEFINE next == Below(ref)
             c == CommonLength(nodes[next], prefix)
  <2>1. next \in 1 .. Len(nodes) /\ nodes[ref].length < nodes[next].length
    BY <1>2, <1>3
  <2>2. /\ c \in Nat /\ c <= nodes[next].length /\ c <= prefix.length
        /\ Agree(nodes[next].address, prefix.address, c)
    BY <1>1, <2>1, CommonIsMaximal
  <2>3. ~ (c < nodes[next].length)
    BY <1>3
  <2> HIDE DEF c, next
  <2>4. c = nodes[next].length
    BY <1>1, <2>1, <2>2, <2>3
  <2>5. next \in Refs /\ Above(next)
    BY <1>1, <2>1, <2>2, <2>4
  <2>6. QED
    BY <2>1, <2>5 DEF next
<1> HIDE DEF Ends, Below, Above
<1>4. ASSUME NEW n \in Nat, NEW ref \in Deep(n + 1), Goes(ref)
      PROVE  Below(ref) \in Deep(n)
  BY <1>1, <1>3, <1>4
<1>5. Deep(prefix.length) = Refs
  BY <1>1
<1>6. \E f : f = Def(f)
  <2> DEFINE Exists(n) == \E f : f = [ref \in Deep(n) |-> At(f, ref)]
             G == {n \in Nat : Exists(n)}
  <2>1. 0 \in G
    <3> DEFINE g == [ref \in Deep(0) |-> [parent |-> 0, at |-> ref]]
    <3>1. ASSUME NEW ref \in Deep(0) PROVE nodes[ref].length = prefix.length
      BY <1>1
    <3>2. g = [ref \in Deep(0) |-> At(g, ref)]
      BY <3>1
    <3>3. QED
      BY <3>2
  <2>2. ASSUME NEW n \in G PROVE n + 1 \in G
    <3>1. n \in Nat
      OBVIOUS
    <3>2. PICK f : f = [ref \in Deep(n) |-> At(f, ref)]
      OBVIOUS
    <3> DEFINE g == [ref \in Deep(n + 1) |-> At(f, ref)]
    <3>3. ASSUME NEW ref \in Deep(n) PROVE ref \in Deep(n + 1) /\ g[ref] = f[ref]
      <4>1. ref \in Deep(n + 1)
        BY <1>1, <3>1
      <4>2. f[ref] = At(f, ref)
        BY <3>2
      <4>3. QED
        BY <4>1, <4>2
    <3>4. ASSUME NEW ref \in Deep(n + 1) PROVE At(f, ref) = At(g, ref)
      <4>1. Goes(ref) => g[Below(ref)] = f[Below(ref)]
        BY <1>4, <3>1, <3>3
      <4> HIDE DEF g
      <4>2. QED
        BY <4>1
    <3>5. g = [ref \in Deep(n + 1) |-> At(g, ref)]
      BY <3>4
    <3>6. Exists(n + 1)
      BY <3>5
    <3> HIDE DEF Exists
    <3>7. QED
      BY <3>1, <3>6
  <2>3. G = Nat
    <3> HIDE DEF G
    <3>1. G \in SUBSET Nat
      BY DEF G
    <3>2. QED
      BY <2>1, <2>2, <3>1, NatSetInduction
  <2>4. prefix.length \in G
    <3>1. prefix.length \in Nat
      BY <1>1
    <3> HIDE DEF G
    <3>2. QED
      BY <2>3, <3>1
  <2>5. Exists(prefix.length)
    BY <2>4
  <2>6. PICK f : f = [ref \in Deep(prefix.length) |-> At(f, ref)]
    BY <2>5
  <2>7. f = Def(f)
    BY <1>5, <2>6
  <2>8. QED
    BY <2>7
<1>7. f0 = Def(f0)
  BY <1>6
<1>8. Stop(nodes, prefix) = f0[1]
  BY DEF Stop, Ends, Below
<1> HIDE DEF f0
<1>9. \A ref \in Refs : f0[ref] = At(f0, ref)
  BY <1>7
<1>10. \A n \in Nat : \A ref \in Deep(n) : Above(ref) => StopsAt(nodes, prefix, f0[ref])
  <2> DEFINE Right(n) == \A ref \in Deep(n) : Above(ref) => StopsAt(nodes, prefix, f0[ref])
             H == {n \in Nat : Right(n)}
  <2>1. ASSUME NEW ref \in Refs, Above(ref), ~ Goes(ref)
        PROVE  StopsAt(nodes, prefix, f0[ref])
    <3>1. ref \in 1 .. Len(nodes) /\ f0[ref] = At(f0, ref)
      BY <1>1, <1>9, SMTT(30), ZenonT(30)
    <3>2. CASE nodes[ref].length = prefix.length
      BY <2>1, <3>1, <3>2 DEF StopsAt, Above
    <3>3. CASE nodes[ref].length # prefix.length
      <4>1. Ends(ref) /\ f0[ref] = [parent |-> ref, at |-> Below(ref)]
        BY <2>1, <3>1, <3>3
      <4>2. nodes[ref].length < prefix.length
        BY <1>2, <3>3
      <4>3. Below(ref) = 0 \/ CommonLength(nodes[Below(ref)], prefix) < nodes[Below(ref)].length
        BY <4>1 DEF Ends
      <4>4. Agree(nodes[ref].address, prefix.address, nodes[ref].length)
        BY <2>1 DEF Above
      <4>5. f0[ref].parent = ref /\ f0[ref].at = Below(ref)
        BY <4>1
      <4>6. QED
        BY <3>1, <4>2, <4>3, <4>4, <4>5 DEF StopsAt, Below
    <3>4. QED
      BY <3>2, <3>3
  <2>2. 0 \in H
    <3>1. ASSUME NEW ref \in Deep(0) PROVE ref \in Refs /\ ~ Goes(ref)
      BY <1>1
    <3>2. QED
      BY <2>1, <3>1
  <2>3. ASSUME NEW n \in H PROVE n + 1 \in H
    <3>1. n \in Nat /\ Right(n)
      OBVIOUS
    <3>2. ASSUME NEW ref \in Deep(n + 1), Above(ref) PROVE StopsAt(nodes, prefix, f0[ref])
      <4>1. CASE ~ Goes(ref)
        BY <2>1, <3>2, <4>1
      <4>2. CASE Goes(ref)
        <5>1. Below(ref) \in Deep(n) /\ Above(Below(ref)) /\ ref \in Refs
          BY <1>3, <1>4, <3>1, <4>2
        <5>2. f0[ref] = f0[Below(ref)]
          BY <1>9, <4>2, <5>1
        <5>3. QED
          BY <3>1, <5>1, <5>2
      <4>3. QED
        BY <4>1, <4>2
    <3> HIDE DEF Right
    <3>3. Right(n + 1)
      BY <3>2 DEF Right
    <3>4. QED
      BY <3>1, <3>3
  <2>4. H = Nat
    <3> HIDE DEF H
    <3>1. H \in SUBSET Nat
      BY DEF H
    <3>2. QED
      BY <2>2, <2>3, <3>1, NatSetInduction
  <2>5. ASSUME NEW n \in Nat PROVE Right(n)
    <3>1. n \in H
      BY <2>4
    <3>2. QED
      BY <3>1
  <2>6. QED
    BY <2>5
<1>11. 1 \in Deep(prefix.length) /\ Above(1)
  BY <1>1 DEF Above, Agree
<1>12. QED
  BY <1>1, <1>8, <1>10, <1>11, SMTT(30), ZenonT(30)

\* What inserting does to the nodes that were there: one slot of one of them
\* leads to the first new node.
Relinked(nodes, more, parent, branch) ==
  \A ref \in 1 .. Len(nodes) :
    /\ more[ref].address = nodes[ref].address
    /\ more[ref].length = nodes[ref].length
    /\ more[ref].value = nodes[ref].value
    /\ \A slot \in {1, 2} :
         more[ref].child[slot] = IF ref = parent /\ slot = branch THEN Len(nodes) + 1
                                 ELSE nodes[ref].child[slot]

\* The first new node takes the place of what the slot led to, has that below
\* it, and perhaps a second new one.
TakesThePlace(nodes, more, nothing, parent, branch) ==
  LET new == Len(nodes) + 1
      old == nodes[parent].child[branch]
  IN
  /\ Relinked(nodes, more, parent, branch)
  /\ Len(more) \in {new, new + 1}
  /\ Hangs(more, parent, branch)
  /\ \A slot \in {1, 2} : more[new].child[slot] # 0 =>
       /\ Hangs(more, new, slot)
       /\ \/ more[new].child[slot] = old
          \/ Len(more) = new + 1 /\ more[new].child[slot] = new + 1
  /\ old # 0 => \E slot \in {1, 2} : more[new].child[slot] = old
  /\ Len(more) = new + 1 =>
       /\ \E slot \in {1, 2} : more[new].child[slot] = new + 1
       /\ more[new + 1].child[1] = 0 /\ more[new + 1].child[2] = 0
       /\ more[new + 1].value # nothing
  /\ more[new].child[1] # 0 => more[new].child[1] # more[new].child[2]
  /\ more[new].value = nothing => more[new].child[1] # 0 /\ more[new].child[2] # 0

\* A trie stays one when a new node takes the place of what a slot led to.
LEMMA SplicedIn ==
  ASSUME NEW nodes, NEW values, NEW nothing, Patricia(nodes, values, nothing),
         NEW parent \in 1 .. Len(nodes), NEW branch \in {1, 2},
         NEW more \in Seq(NodesOf(values)),
         TakesThePlace(nodes, more, nothing, parent, branch)
  PROVE  Patricia(more, values, nothing)
<1> DEFINE new == Len(nodes) + 1
<1>12. /\ Relinked(nodes, more, parent, branch)
       /\ Len(more) \in {new, new + 1}
       /\ Hangs(more, parent, branch)
       /\ \A slot \in {1, 2} : more[new].child[slot] # 0 => Hangs(more, new, slot)
       /\ \A slot \in {1, 2} : more[new].child[slot] # 0 =>
            \/ more[new].child[slot] = nodes[parent].child[branch]
            \/ Len(more) = new + 1 /\ more[new].child[slot] = new + 1
       /\ nodes[parent].child[branch] # 0 =>
            \E slot \in {1, 2} : more[new].child[slot] = nodes[parent].child[branch]
       /\ Len(more) = new + 1 =>
            /\ \E slot \in {1, 2} : more[new].child[slot] = new + 1
            /\ more[new + 1].child[1] = 0 /\ more[new + 1].child[2] = 0
            /\ more[new + 1].value # nothing
       /\ more[new].child[1] # 0 => more[new].child[1] # more[new].child[2]
       /\ more[new].value = nothing => more[new].child[1] # 0 /\ more[new].child[2] # 0
  BY DEF TakesThePlace
<1>13. new = Len(nodes) + 1
  OBVIOUS
<1> HIDE DEF new
<1> USE <1>12, <1>13
<1> DEFINE L == Len(nodes)
           old == nodes[parent].child[branch]
<1>1. /\ L \in Nat \ {0} /\ nodes[1].length = 0
      /\ \A ref \in 1 .. L, slot \in {1, 2} :
           nodes[ref].child[slot] # 0 => Hangs(nodes, ref, slot)
      /\ \A ref \in 2 .. L :
           \E above \in 1 .. L, slot \in {1, 2} : nodes[above].child[slot] = ref
      /\ \A ref, other \in 1 .. L, slot, side \in {1, 2} :
           nodes[ref].child[slot] # 0 /\ nodes[ref].child[slot] = nodes[other].child[side]
             => ref = other /\ slot = side
      /\ \A ref \in 2 .. L :
           nodes[ref].value = nothing => nodes[ref].child[1] # 0 /\ nodes[ref].child[2] # 0
  BY DEF Patricia
<1>2. /\ new \in 1 .. Len(more) /\ Len(more) \in Nat /\ L + 1 = new
      /\ \A ref \in 1 .. Len(more) : ref \in 1 .. L \/ ref = new
                                     \/ (Len(more) = new + 1 /\ ref = new + 1)
      /\ \A ref \in 1 .. L : ref \in 1 .. Len(more) /\ ref # new /\ ref # new + 1
  <2>1. L \in Nat \ {0} /\ L + 1 = new
    BY <1>1
  <2> HIDE DEF L
  <2>2. new \in Nat /\ (Len(more) = new \/ Len(more) = new + 1)
    BY <2>1
  <2>3. ASSUME NEW ref \in 1 .. Len(more)
        PROVE  ref \in 1 .. L \/ ref = new \/ (Len(more) = new + 1 /\ ref = new + 1)
    <3>1. ref \in Nat /\ ref >= 1 /\ (ref <= L + 1 \/ (Len(more) = new + 1 /\ ref <= L + 2))
      BY <2>1, <2>2
    <3>2. ref <= L \/ ref = L + 1 \/ (Len(more) = new + 1 /\ ref = L + 2)
      BY <2>1, <3>1
    <3>3. QED
      BY <2>1, <3>1, <3>2
  <2>4. ASSUME NEW ref \in 1 .. L
        PROVE  ref \in 1 .. Len(more) /\ ref # new /\ ref # new + 1
    BY <2>1, <2>2
  <2>5. new \in 1 .. Len(more) /\ Len(more) \in Nat
    BY <2>1, <2>2
  <2>6. QED
    BY <2>1, <2>3, <2>4, <2>5
<1>3. \A ref \in 1 .. L, slot \in {1, 2} :
        /\ nodes[ref].child[slot] # 0 => nodes[ref].child[slot] \in 2 .. L
        /\ more[ref].child[slot] = IF ref = parent /\ slot = branch THEN new
                                   ELSE nodes[ref].child[slot]
  <2>1. ASSUME NEW ref \in 1 .. L, NEW slot \in {1, 2}, nodes[ref].child[slot] # 0
        PROVE  nodes[ref].child[slot] \in 2 .. L
    BY <1>1, <2>1 DEF Hangs
  <2>2. \A ref \in 1 .. L, slot \in {1, 2} :
          more[ref].child[slot] = IF ref = parent /\ slot = branch THEN new
                                  ELSE nodes[ref].child[slot]
    BY DEF Relinked
  <2>3. QED
    BY <2>1, <2>2, SMTT(30), ZenonT(30)
<1>4. old # 0 => old \in 2 .. L
  BY <1>3
<1>5. ASSUME NEW ref \in 1 .. Len(more), NEW slot \in {1, 2}, more[ref].child[slot] # 0
      PROVE  Hangs(more, ref, slot)
  <2>1. CASE ref \in 1 .. L /\ ~ (ref = parent /\ slot = branch)
    <3> DEFINE next == nodes[ref].child[slot]
    <3>1. more[ref].child[slot] = next /\ next # 0
      BY <1>3, <1>5, <2>1, SMTT(30), ZenonT(30)
    <3>2. /\ next \in 2 .. L /\ nodes[ref].length < nodes[next].length
          /\ Agree(nodes[ref].address, nodes[next].address, nodes[ref].length)
          /\ Branch(nodes[next], nodes[ref].length) = slot
      BY <1>1, <2>1, <3>1 DEF Hangs
    <3> HIDE DEF next
    <3>3. /\ more[ref].length = nodes[ref].length /\ more[ref].address = nodes[ref].address
      BY <2>1 DEF Relinked
    <3>8. next \in 1 .. L
      BY <1>1, <3>2
    <3>4. more[next].length = nodes[next].length /\ more[next].address = nodes[next].address
      BY <3>8 DEF Relinked
    <3>5. next \in 2 .. Len(more)
      BY <1>1, <1>2, <3>2
    <3>6. Branch(more[next], more[ref].length) = slot
      BY <3>2, <3>3, <3>4 DEF Branch
    <3>7. QED
      BY <3>1, <3>2, <3>3, <3>4, <3>5, <3>6 DEF Hangs
  <2>2. CASE ref = parent /\ slot = branch
    BY <2>2
  <2>3. CASE ref = new
    BY <1>5, <2>3
  <2>4. CASE Len(more) = new + 1 /\ ref = new + 1
    BY <1>5, <2>4
  <2>5. QED
    BY <1>2, <2>1, <2>2, <2>3, <2>4
<1>6. ASSUME NEW ref \in 2 .. Len(more)
      PROVE  \E above \in 1 .. Len(more), slot \in {1, 2} : more[above].child[slot] = ref
  <2>1. CASE ref \in 1 .. L /\ ref # old
    <3>1. PICK above \in 1 .. L, slot \in {1, 2} : nodes[above].child[slot] = ref
      BY <1>1, <2>1
    <3>2. more[above].child[slot] = ref
      BY <1>3, <2>1, <3>1
    <3>3. QED
      BY <1>2, <3>2
  <2>2. CASE ref \in 1 .. L /\ ref = old
    <3>1. old # 0
      BY <2>2
    <3>2. QED
      BY <1>2, <2>2, <3>1
  <2>3. CASE ref = new
    <3>1. more[parent].child[branch] = new
      BY <1>3
    <3>2. QED
      BY <1>2, <2>3, <3>1
  <2>4. CASE Len(more) = new + 1 /\ ref = new + 1
    BY <1>2, <2>4
  <2>5. ref \in 1 .. Len(more)
    OBVIOUS
  <2>6. QED
    BY <1>2, <2>1, <2>2, <2>3, <2>4, <2>5
<1>7. ASSUME NEW ref \in 1 .. Len(more), NEW slot \in {1, 2}, more[ref].child[slot] # 0
      PROVE  /\ more[ref].child[slot] = new => ref = parent /\ slot = branch
             /\ more[ref].child[slot] = new + 1 => ref = new
             /\ more[ref].child[slot] = old => ref = new
             /\ more[ref].child[slot] \notin {new, new + 1, old} =>
                  ref \in 1 .. L /\ more[ref].child[slot] = nodes[ref].child[slot]
  <2>1. CASE ref \in 1 .. L /\ ~ (ref = parent /\ slot = branch)
    <3>1. /\ more[ref].child[slot] = nodes[ref].child[slot]
          /\ nodes[ref].child[slot] # 0 /\ nodes[ref].child[slot] \in 2 .. L
      BY <1>3, <1>7, <2>1
    <3>2. ASSUME nodes[ref].child[slot] = nodes[parent].child[branch] PROVE FALSE
      <4>1. \A other \in 1 .. Len(nodes), side \in {1, 2} :
              nodes[ref].child[slot] # 0 /\ nodes[ref].child[slot] = nodes[other].child[side]
                => ref = other /\ slot = side
        BY <1>1, <2>1, SMTT(30), ZenonT(30)
      <4>2. ref = parent /\ slot = branch
        BY <3>1, <3>2, <4>1
      <4>3. QED
        BY <2>1, <4>2
    <3>3. nodes[ref].child[slot] # new /\ nodes[ref].child[slot] # new + 1
      BY <1>1, <1>2, <3>1
    <3>4. QED
      BY <2>1, <3>1, <3>2, <3>3
  <2>2. CASE ref = parent /\ slot = branch
    <3>1. more[ref].child[slot] = new
      BY <1>3, <2>2
    <3>2. new # new + 1 /\ new # old
      BY <1>1, <1>2, <1>4
    <3>3. QED
      BY <2>2, <3>1, <3>2
  <2>3. CASE ref = new
    <3>1. \/ more[new].child[slot] = old
          \/ more[new].child[slot] = new + 1
      BY <1>7, <2>3
    <3>2. more[new].child[slot] # new
      BY <1>1, <1>2, <1>4, <1>7, <2>3, <3>1
    <3>3. QED
      BY <2>3, <3>1, <3>2
  <2>4. CASE Len(more) = new + 1 /\ ref = new + 1
    BY <1>7, <2>4
  <2>5. QED
    BY <1>2, <2>1, <2>2, <2>3, <2>4
<1>8. ASSUME NEW ref \in 1 .. Len(more), NEW other \in 1 .. Len(more),
             NEW slot \in {1, 2}, NEW side \in {1, 2},
             more[ref].child[slot] # 0, more[ref].child[slot] = more[other].child[side]
      PROVE  ref = other /\ slot = side
  <2>1. CASE more[ref].child[slot] = new
    <3>1. more[other].child[side] # 0 /\ more[other].child[side] = new
      BY <1>8, <2>1
    <3>2. ref = parent /\ slot = branch
      BY <1>7, <1>8, <2>1
    <3>3. other = parent /\ side = branch
      BY <1>7, <3>1
    <3>4. QED
      BY <3>2, <3>3
  <2>2. CASE more[ref].child[slot] \in {new + 1, old}
    <3>1. ref = new /\ other = new
      BY <1>7, <1>8, <2>2, ZenonT(60)
    <3>2. QED
      BY <1>8, <3>1
  <2>3. CASE more[ref].child[slot] \notin {new, new + 1, old}
    <3>1. /\ ref \in 1 .. L /\ more[ref].child[slot] = nodes[ref].child[slot]
          /\ other \in 1 .. L /\ more[other].child[side] = nodes[other].child[side]
      BY <1>7, <1>8, <2>3
    <3>2. nodes[ref].child[slot] # 0 /\ nodes[ref].child[slot] = nodes[other].child[side]
      BY <1>8, <3>1
    <3>3. QED
      BY <1>1, <3>1, <3>2, SMTT(30), ZenonT(30)
  <2>4. QED
    BY <2>1, <2>2, <2>3
<1>9. ASSUME NEW ref \in 2 .. Len(more), more[ref].value = nothing
      PROVE  more[ref].child[1] # 0 /\ more[ref].child[2] # 0
  <2>1. CASE ref \in 1 .. L
    <3>1. ref \in 2 .. L /\ nodes[ref].value = nothing
      BY <1>9, <2>1 DEF Relinked
    <3>2. nodes[ref].child[1] # 0 /\ nodes[ref].child[2] # 0 /\ new # 0
      BY <1>1, <1>2, <3>1
    <3>3. QED
      BY <1>3, <2>1, <3>2
  <2>2. CASE ref = new
    BY <1>9, <2>2
  <2>3. CASE Len(more) = new + 1 /\ ref = new + 1
    BY <1>9, <2>3
  <2>4. ref \in 1 .. Len(more)
    OBVIOUS
  <2>5. QED
    BY <1>2, <2>1, <2>2, <2>3, <2>4
<1>10. Len(more) \in Nat \ {0} /\ more[1].length = 0
  BY <1>1, <1>2 DEF Relinked
<1>11. QED
  BY <1>5, <1>6, <1>8, <1>9, <1>10 DEF Patricia

\* A new node with nothing below it.
LEMMA NewNode ==
  ASSUME NEW values, NEW value \in values, NEW prefix, APrefix(prefix)
  PROVE  LET node == Node(prefix, value) IN
         /\ node \in NodesOf(values)
         /\ node.length = prefix.length /\ node.value = value
         /\ node.child[1] = 0 /\ node.child[2] = 0
         /\ Agree(node.address, prefix.address, prefix.length)
<1>1. /\ prefix.address \in Nat /\ prefix.length \in 0 .. Bits
      /\ Masked(prefix.address, prefix.length) \in Nat
  BY MaskedIsNat DEF APrefix
<1>2. <<0, 0>> \in [{1, 2} -> Nat] /\ <<0, 0>>[1] = 0 /\ <<0, 0>>[2] = 0
  OBVIOUS
<1>3. Agree(Masked(prefix.address, prefix.length), prefix.address, prefix.length)
  BY <1>1, MaskedBits DEF Agree
<1>4. QED
  BY <1>1, <1>2, <1>3 DEF Node, NodesOf

\* The nodes after a slot of one of them is made to lead to the first new one.
Linked(nodes, parent, branch) == [nodes EXCEPT ![parent].child[branch] = Len(nodes) + 1]

\* The nodes are still nodes, and only that link is new.
LEMMA SlotSet ==
  ASSUME NEW nodes, NEW values, NEW nothing, Patricia(nodes, values, nothing),
         NEW parent \in 1 .. Len(nodes), NEW branch \in {1, 2}
  PROVE  /\ Linked(nodes, parent, branch) \in Seq(NodesOf(values))
         /\ Len(Linked(nodes, parent, branch)) = Len(nodes)
         /\ Relinked(nodes, Linked(nodes, parent, branch), parent, branch)
<1> DEFINE linked == [nodes EXCEPT ![parent].child[branch] = Len(nodes) + 1]
           child == [nodes[parent].child EXCEPT ![branch] = Len(nodes) + 1]
           node == [nodes[parent] EXCEPT !.child = child]
<1>1. /\ nodes \in Seq(NodesOf(values)) /\ Len(nodes) \in Nat /\ DOMAIN nodes = 1 .. Len(nodes)
  BY DEF Patricia
<1>2. \A ref \in 1 .. Len(nodes) : nodes[ref] \in NodesOf(values)
  BY <1>1
<1>3. /\ nodes[parent].child \in [{1, 2} -> Nat]
      /\ child \in [{1, 2} -> Nat]
      /\ \A slot \in {1, 2} : child[slot] = IF slot = branch THEN Len(nodes) + 1
                                            ELSE nodes[parent].child[slot]
  BY <1>1, <1>2 DEF NodesOf
<1> HIDE DEF child
<1>4. /\ node \in NodesOf(values) /\ node.child = child
      /\ node.address = nodes[parent].address /\ node.length = nodes[parent].length
      /\ node.value = nodes[parent].value
  BY <1>2, <1>3 DEF NodesOf
<1>5. linked = [nodes EXCEPT ![parent] = node]
  BY DEF child
<1> HIDE DEF node
<1>6. /\ linked \in Seq(NodesOf(values)) /\ Len(linked) = Len(nodes)
      /\ linked[parent] = node
      /\ \A ref \in 1 .. Len(nodes) : ref # parent => linked[ref] = nodes[ref]
  BY <1>1, <1>4, <1>5
<1> HIDE DEF linked
<1>7. Relinked(nodes, linked, parent, branch)
  BY <1>3, <1>4, <1>6 DEF Relinked
<1>8. QED
  BY <1>6, <1>7 DEF linked, Linked

\* A node put between the descent's last node and the one that it met.
LEMMA ForkedNode ==
  ASSUME NEW values, NEW nothing \in values, NEW prefix, APrefix(prefix),
         NEW length \in 0 .. Bits, length <= prefix.length,
         NEW old, NEW ref \in Nat, Branch(old, length) \in {1, 2}
  PROVE  LET fork == Fork(prefix, length, old, ref, nothing) IN
         /\ fork \in NodesOf(values)
         /\ fork.length = length /\ fork.value = nothing
         /\ \A slot \in {1, 2} : fork.child[slot] = IF slot = Branch(old, length) THEN ref ELSE 0
         /\ Agree(fork.address, prefix.address, length)
<1> DEFINE bare == Node([address |-> prefix.address, length |-> length], nothing)
           side == Branch(old, length)
<1>1. APrefix([address |-> prefix.address, length |-> length])
  BY DEF APrefix
<1>2. /\ bare \in NodesOf(values) /\ bare.length = length /\ bare.value = nothing
      /\ bare.child[1] = 0 /\ bare.child[2] = 0
      /\ Agree(bare.address, prefix.address, length)
  BY <1>1, NewNode
<1> HIDE DEF bare, side
<1>3. bare.child \in [{1, 2} -> Nat] /\ side \in {1, 2}
  BY <1>2 DEF NodesOf, side
<1>4. Fork(prefix, length, old, ref, nothing)
        = [bare EXCEPT !.child = [bare.child EXCEPT ![side] = ref]]
  BY DEF Fork, bare, side
<1>5. QED
  BY <1>2, <1>3, <1>4 DEF NodesOf, side

\* Below the descent's last node, the prefix goes to the slot of its next bit.
LEMMA StoppedAbove ==
  ASSUME NEW nodes, NEW values, NEW nothing, Patricia(nodes, values, nothing),
         NEW prefix, APrefix(prefix),
         NEW parent \in 1 .. Len(nodes), nodes[parent].length < prefix.length,
         Agree(nodes[parent].address, prefix.address, nodes[parent].length)
  PROVE  /\ nodes[parent].length \in 0 .. Bits - 1
         /\ Branch(prefix, nodes[parent].length) \in {1, 2}
         /\ \A node : Agree(node.address, prefix.address, nodes[parent].length + 1)
              => /\ Agree(nodes[parent].address, node.address, nodes[parent].length)
                 /\ Branch(node, nodes[parent].length) = Branch(prefix, nodes[parent].length)
<1> DEFINE n == nodes[parent].length
<1>1. nodes[parent] \in NodesOf(values)
  BY DEF Patricia
<1>2. n \in 0 .. Bits /\ prefix.length \in 0 .. Bits /\ prefix.address \in Nat /\ Bits \in Nat
  BY <1>1, BitsAssumption DEF NodesOf, APrefix
<1>3. n \in 0 .. Bits - 1 /\ n \in Nat /\ n \in 0 .. (n + 1) - 1
  BY <1>2
<1>4. Branch(prefix, n) \in {1, 2}
  BY <1>2, <1>3, BitType DEF Branch
<1> HIDE DEF n
<1>5. ASSUME NEW node, Agree(node.address, prefix.address, n + 1)
      PROVE  /\ Agree(nodes[parent].address, node.address, n)
             /\ Branch(node, n) = Branch(prefix, n)
  <2>1. \A bit \in 0 .. n - 1 : bit \in 0 .. (n + 1) - 1
    BY <1>3
  <2>2. Agree(nodes[parent].address, node.address, n)
    BY <1>5, <2>1 DEF Agree, n
  <2>3. BitAt(node.address, n) = BitAt(prefix.address, n)
    BY <1>3, <1>5 DEF Agree
  <2>4. QED
    BY <2>2, <2>3 DEF Branch
<1>6. QED
  BY <1>3, <1>4, <1>5 DEF n

\* Where the descent meets an empty slot, the prefix hangs there.
LEMMA LeafInserted ==
  ASSUME NEW nodes, NEW values, NEW nothing \in values, Patricia(nodes, values, nothing),
         NEW prefix, APrefix(prefix), NEW value \in values, value # nothing,
         NEW parent \in 1 .. Len(nodes), nodes[parent].length < prefix.length,
         Agree(nodes[parent].address, prefix.address, nodes[parent].length),
         NEW branch, branch = Branch(prefix, nodes[parent].length),
         nodes[parent].child[branch] = 0
  PROVE  Patricia(Append(Linked(nodes, parent, branch), Node(prefix, value)),
                  values, nothing)
<1> DEFINE linked == Linked(nodes, parent, branch)
           node == Node(prefix, value)
           more == Append(linked, node)
           new == Len(nodes) + 1
<1>1. nodes[parent].length \in 0 .. Bits - 1 /\ branch \in {1, 2}
  BY StoppedAbove
<1>10. ASSUME NEW other, Agree(other.address, prefix.address, nodes[parent].length + 1)
       PROVE  /\ Agree(nodes[parent].address, other.address, nodes[parent].length)
              /\ Branch(other, nodes[parent].length) = branch
  BY <1>10, StoppedAbove
<1>2. /\ node \in NodesOf(values) /\ node.length = prefix.length /\ node.value = value
      /\ node.child[1] = 0 /\ node.child[2] = 0
      /\ Agree(node.address, prefix.address, prefix.length)
  BY NewNode
<1>3. /\ linked \in Seq(NodesOf(values)) /\ Len(linked) = Len(nodes)
      /\ Relinked(nodes, linked, parent, branch)
  BY <1>1, SlotSet
<1>4. Len(nodes) \in Nat \ {0} /\ prefix.length \in Nat
  BY BitsAssumption DEF Patricia, APrefix
<1> HIDE DEF linked, node
<1>5. /\ more \in Seq(NodesOf(values)) /\ Len(more) = new /\ more[new] = node
      /\ \A ref \in 1 .. Len(nodes) : more[ref] = linked[ref]
  BY <1>2, <1>3, <1>4
<1> HIDE DEF more
<1>6. Relinked(nodes, more, parent, branch)
  BY <1>3, <1>5 DEF Relinked
<1>7. Hangs(more, parent, branch)
  <2>1. /\ more[parent].child[branch] = new /\ more[parent].length = nodes[parent].length
        /\ more[parent].address = nodes[parent].address
    BY <1>1, <1>6 DEF Relinked
  <2>2. Agree(node.address, prefix.address, nodes[parent].length + 1)
    BY <1>1, <1>2, <1>4 DEF Agree
  <2>3. /\ Agree(nodes[parent].address, node.address, nodes[parent].length)
        /\ Branch(node, nodes[parent].length) = branch
    BY <1>10, <2>2
  <2>4. new \in 2 .. Len(more)
    BY <1>4, <1>5
  <2>5. QED
    BY <1>2, <1>5, <2>1, <2>3, <2>4 DEF Hangs
<1>8. Patricia(more, values, nothing)
  <2>1. new # new + 1
    BY <1>4
  <2>2. TakesThePlace(nodes, more, nothing, parent, branch)
    BY <1>2, <1>5, <1>6, <1>7, <2>1 DEF TakesThePlace
  <2>3. QED
    BY <1>1, <1>5, <2>2, SplicedIn
<1>9. QED
  BY <1>8 DEF more, linked, node

\* Where it meets a node that does not cover the prefix, the two have more bits
\* in common than the node above them has.
LEMMA PartsBelow ==
  ASSUME NEW nodes, NEW values, NEW nothing, Patricia(nodes, values, nothing),
         NEW prefix, APrefix(prefix),
         NEW parent \in 1 .. Len(nodes), nodes[parent].length < prefix.length,
         Agree(nodes[parent].address, prefix.address, nodes[parent].length),
         NEW branch \in {1, 2}, Branch(prefix, nodes[parent].length) = branch,
         NEW at \in 2 .. Len(nodes), nodes[parent].child[branch] = at
  PROVE  /\ nodes[at].length \in 0 .. Bits /\ nodes[at].address \in Nat
         /\ CommonLength(nodes[at], prefix) > nodes[parent].length
<1> DEFINE n == nodes[parent].length
           other == nodes[at]
<1>1. other \in NodesOf(values) /\ nodes[parent] \in NodesOf(values)
  BY DEF Patricia
<1>2. /\ other.length \in 0 .. Bits /\ other.address \in Nat
      /\ n \in 0 .. Bits /\ prefix.length \in 0 .. Bits /\ prefix.address \in Nat
      /\ n < prefix.length /\ Bits \in Nat
  BY <1>1, BitsAssumption DEF NodesOf, APrefix
<1>3. n < other.length /\ Branch(other, n) = Branch(prefix, n)
      /\ Agree(nodes[parent].address, other.address, n)
      /\ Agree(nodes[parent].address, prefix.address, n)
  <2>1. Hangs(nodes, parent, branch)
    BY DEF Patricia
  <2>2. QED
    BY <2>1 DEF Hangs
<1> HIDE DEF n, other
<1>4. ASSUME NEW bit \in 0 .. (n + 1) - 1
      PROVE  BitAt(other.address, bit) = BitAt(prefix.address, bit)
  <2>1. CASE bit \in 0 .. n - 1
    BY <1>3, <2>1 DEF Agree
  <2>2. CASE bit = n
    <3>1. n \in 0 .. Bits - 1
      BY <1>2
    <3>2. BitAt(other.address, n) \in {0, 1} /\ BitAt(prefix.address, n) \in {0, 1}
      BY <1>2, <3>1, BitType
    <3>3. BitAt(other.address, n) = BitAt(prefix.address, n)
      BY <1>3, <3>2 DEF Branch
    <3>4. QED
      BY <2>2, <3>3
  <2>3. QED
    BY <1>2, <2>1, <2>2
<1>5. Agree(other.address, prefix.address, n + 1)
  BY <1>4 DEF Agree
<1>6. n + 1 \in Nat /\ n + 1 <= other.length /\ n + 1 <= prefix.length
  BY <1>2, <1>3
<1>7. CommonLength(other, prefix) >= n + 1
  BY <1>2, <1>5, <1>6, CommonIsAtLeast
<1>8. CommonLength(other, prefix) \in Nat
  BY <1>2, CommonIsMaximal
<1>9. QED
  BY <1>2, <1>6, <1>7, <1>8 DEF other, n

\* Then that node goes below the prefix, or the two part below a fork.
LEMMA ForkInserted ==
  ASSUME NEW nodes, NEW values, NEW nothing \in values, Patricia(nodes, values, nothing),
         NEW prefix, APrefix(prefix), NEW value \in values, value # nothing,
         NEW parent \in 1 .. Len(nodes), NEW n \in Nat, nodes[parent].length = n,
         Agree(nodes[parent].address, prefix.address, n),
         NEW branch \in {1, 2}, Branch(prefix, n) = branch,
         NEW at \in 2 .. Len(nodes), nodes[parent].child[branch] = at,
         nodes[at].length \in 0 .. Bits, nodes[at].address \in Nat,
         NEW common \in Nat, n < common,
         common <= prefix.length, common < nodes[at].length,
         Agree(nodes[at].address, prefix.address, common),
         common < prefix.length =>
           BitAt(nodes[at].address, common) # BitAt(prefix.address, common)
  PROVE  LET linked == Linked(nodes, parent, branch)
             fork == Fork(prefix, common, nodes[at], at, nothing)
         IN /\ common = prefix.length =>
                 Patricia(Append(linked, [fork EXCEPT !.value = value]), values, nothing)
            /\ common # prefix.length =>
                 Patricia(linked \o <<[fork EXCEPT !.child[Branch(prefix, common)]
                                                     = (Len(nodes) + 1) + 1],
                                      Node(prefix, value)>>, values, nothing)
<1> DEFINE linked == Linked(nodes, parent, branch)
           fork == Fork(prefix, common, nodes[at], at, nothing)
           new == Len(nodes) + 1
<1>1. ASSUME NEW other, Agree(other.address, prefix.address, n + 1)
      PROVE  /\ Agree(nodes[parent].address, other.address, n)
             /\ Branch(other, n) = branch
  <2>1. nodes[parent].length < prefix.length
    BY BitsAssumption DEF APrefix
  <2>2. QED
    BY <1>1, <2>1, StoppedAbove
<1>3. /\ linked \in Seq(NodesOf(values)) /\ Len(linked) = Len(nodes)
      /\ Relinked(nodes, linked, parent, branch)
  BY SlotSet
<1>4. /\ Len(nodes) \in Nat \ {0} /\ Bits \in Nat
      /\ prefix.length \in 0 .. Bits /\ prefix.address \in Nat
  BY BitsAssumption DEF Patricia, APrefix
<1>9. common \in 0 .. Bits - 1 /\ common \in 0 .. Bits
  BY <1>4
<1>10. Branch(nodes[at], common) \in {1, 2} /\ Branch(prefix, common) \in {1, 2}
  <2>1. BitAt(nodes[at].address, common) \in {0, 1} /\ BitAt(prefix.address, common) \in {0, 1}
    BY <1>4, <1>9, BitType
  <2>2. QED
    BY <2>1 DEF Branch
<1>11. /\ fork \in NodesOf(values) /\ fork.length = common /\ fork.value = nothing
       /\ \A slot \in {1, 2} :
            fork.child[slot] = IF slot = Branch(nodes[at], common) THEN at ELSE 0
       /\ Agree(fork.address, prefix.address, common)
  BY <1>9, <1>10, ForkedNode
<1>12. /\ Agree(fork.address, nodes[at].address, common)
       /\ Agree(nodes[parent].address, fork.address, n)
       /\ Branch(fork, n) = branch
  <2>1. Agree(fork.address, nodes[at].address, common)
    BY <1>11 DEF Agree
  <2>2. Agree(fork.address, prefix.address, n + 1)
    BY <1>1, <1>11 DEF Agree
  <2>3. QED
    BY <1>1, <2>1, <2>2
<1> HIDE DEF linked, fork
<1>13. ASSUME NEW more \in Seq(NodesOf(values)), Len(more) \in {new, new + 1},
              \A ref \in 1 .. Len(nodes) : more[ref] = linked[ref],
              more[new].length = common, more[new].address = fork.address
       PROVE  /\ Relinked(nodes, more, parent, branch)
              /\ Hangs(more, parent, branch)
              /\ more[new].child[Branch(nodes[at], common)] = at
                   => Hangs(more, new, Branch(nodes[at], common))
  <2>1. Relinked(nodes, more, parent, branch)
    <3>1. /\ Relinked(nodes, linked, parent, branch)
          /\ \A ref \in 1 .. Len(nodes) : more[ref] = linked[ref]
      BY <1>3, <1>13
    <3>2. ASSUME NEW ref \in 1 .. Len(nodes)
          PROVE  /\ more[ref].address = nodes[ref].address
                 /\ more[ref].length = nodes[ref].length
                 /\ more[ref].value = nodes[ref].value
                 /\ \A slot \in {1, 2} :
                      more[ref].child[slot] = IF ref = parent /\ slot = branch THEN new
                                              ELSE nodes[ref].child[slot]
      <4>1. more[ref] = linked[ref]
        BY <3>1
      <4>2. QED
        BY <3>1, <4>1 DEF Relinked
    <3>3. QED
      BY <3>2 DEF Relinked
  <2>2. /\ more[parent].child[branch] = new /\ more[parent].length = n
        /\ more[parent].address = nodes[parent].address
    BY <1>1, <2>1 DEF Relinked
  <2>3. new \in 2 .. Len(more) /\ at \in 2 .. Len(more) /\ at \in 1 .. Len(nodes)
    BY <1>4, <1>13
  <2>4. n < common
    BY <1>1
  <2>5. Hangs(more, parent, branch)
    <3>1. Branch(more[new], n) = branch
      BY <1>12, <1>13 DEF Branch
    <3>2. QED
      BY <1>12, <1>13, <2>2, <2>3, <2>4, <3>1 DEF Hangs
  <2>6. more[at].length = nodes[at].length /\ more[at].address = nodes[at].address
    BY <2>1, <2>3 DEF Relinked
  <2>7. Branch(more[at], common) = Branch(nodes[at], common)
    BY <2>6 DEF Branch
  <2>8. ASSUME more[new].child[Branch(nodes[at], common)] = at
        PROVE  Hangs(more, new, Branch(nodes[at], common))
    BY <1>12, <1>13, <2>3, <2>6, <2>7, <2>8 DEF Hangs
  <2>9. QED
    BY <2>1, <2>5, <2>8
<1>14. ASSUME common = prefix.length
       PROVE  Patricia(Append(linked, [fork EXCEPT !.value = value]), values, nothing)
  <2> DEFINE node == [fork EXCEPT !.value = value]
             more == Append(linked, node)
  <2>1. /\ node \in NodesOf(values) /\ node.length = common /\ node.value = value
        /\ node.address = fork.address /\ node.child = fork.child
    BY <1>11 DEF NodesOf
  <2> HIDE DEF node
  <2>2. /\ more \in Seq(NodesOf(values)) /\ Len(more) = new /\ more[new] = node
        /\ \A ref \in 1 .. Len(nodes) : more[ref] = linked[ref]
    BY <1>3, <1>4, <2>1, SMTT(30), ZenonT(30)
  <2> HIDE DEF more
  <2>3. /\ Relinked(nodes, more, parent, branch)
        /\ Hangs(more, parent, branch)
        /\ more[new].child[Branch(nodes[at], common)] = at
             => Hangs(more, new, Branch(nodes[at], common))
    BY <1>13, <2>1, <2>2
  <2>4. \A slot \in {1, 2} :
          more[new].child[slot] = IF slot = Branch(nodes[at], common) THEN at ELSE 0
    BY <1>11, <2>1, <2>2
  <2>5. /\ \A slot \in {1, 2} : more[new].child[slot] # 0 => Hangs(more, new, slot)
        /\ \A slot \in {1, 2} : more[new].child[slot] # 0 =>
              more[new].child[slot] = nodes[parent].child[branch]
        /\ \E slot \in {1, 2} : more[new].child[slot] = nodes[parent].child[branch]
        /\ more[new].child[1] # 0 => more[new].child[1] # more[new].child[2]
    BY <1>10, <2>3, <2>4
  <2>6. more[new].value # nothing
    BY <2>1, <2>2
  <2>7. new # new + 1
    BY <1>4
  <2>8. Patricia(more, values, nothing)
    <3>1. TakesThePlace(nodes, more, nothing, parent, branch)
      BY <2>2, <2>3, <2>5, <2>6, <2>7 DEF TakesThePlace
    <3>2. QED
      BY <2>2, <3>1, SplicedIn
  <2>9. QED
    BY <2>8 DEF more, node
<1>15. ASSUME common # prefix.length
       PROVE  Patricia(linked \o <<[fork EXCEPT !.child[Branch(prefix, common)] = new + 1],
                                   Node(prefix, value)>>, values, nothing)
  <2> DEFINE side == Branch(prefix, common)
             child == [fork.child EXCEPT ![side] = new + 1]
             node == [fork EXCEPT !.child = child]
             leaf == Node(prefix, value)
             more == linked \o <<node, leaf>>
  <2>1. side # Branch(nodes[at], common) /\ common < prefix.length /\ side \in {1, 2}
    <3>1. common < prefix.length
      BY <1>4, <1>15
    <3>2. /\ BitAt(nodes[at].address, common) \in {0, 1}
          /\ BitAt(prefix.address, common) \in {0, 1}
      BY <1>4, <1>9, BitType
    <3>3. QED
      BY <1>10, <3>1, <3>2 DEF Branch
  <2> HIDE DEF side
  <2>2. fork.child \in [{1, 2} -> Nat] /\ new + 1 \in Nat
    BY <1>4, <1>11 DEF NodesOf
  <2>3. /\ child \in [{1, 2} -> Nat] /\ child[side] = new + 1
        /\ child[Branch(nodes[at], common)] = at
        /\ \A slot \in {1, 2} : slot = side \/ slot = Branch(nodes[at], common)
    BY <1>10, <1>11, <2>1, <2>2
  <2> HIDE DEF child
  <2>4. /\ node \in NodesOf(values) /\ node.length = common /\ node.value = nothing
        /\ node.address = fork.address /\ node.child = child
    BY <1>11, <2>3 DEF NodesOf
  <2>5. /\ leaf \in NodesOf(values) /\ leaf.length = prefix.length /\ leaf.value = value
        /\ leaf.child[1] = 0 /\ leaf.child[2] = 0
        /\ Agree(leaf.address, prefix.address, prefix.length)
    BY NewNode
  <2> HIDE DEF node, leaf
  <2>6. /\ more \in Seq(NodesOf(values)) /\ Len(more) = new + 1
        /\ more[new] = node /\ more[new + 1] = leaf
        /\ \A ref \in 1 .. Len(nodes) : more[ref] = linked[ref]
    <3>1. /\ <<node, leaf>> \in Seq(NodesOf(values)) /\ Len(<<node, leaf>>) = 2
          /\ <<node, leaf>>[1] = node /\ <<node, leaf>>[2] = leaf
      BY <2>4, <2>5
    <3> DEFINE two == <<node, leaf>>
    <3> HIDE DEF two
    <3>2. QED
      BY <1>3, <1>4, <3>1 DEF two
  <2> HIDE DEF more
  <2>7. /\ Relinked(nodes, more, parent, branch)
        /\ Hangs(more, parent, branch)
        /\ more[new].child[Branch(nodes[at], common)] = at
             => Hangs(more, new, Branch(nodes[at], common))
    BY <1>13, <2>4, <2>6
  <2>8. Hangs(more, new, side)
    <3>1. /\ more[new].child[side] = new + 1 /\ more[new].length = common
          /\ more[new].address = fork.address /\ more[new + 1] = leaf
      BY <2>3, <2>4, <2>6
    <3>2. new + 1 \in 2 .. Len(more) /\ common < leaf.length
      BY <1>4, <2>1, <2>5, <2>6
    <3>3. Agree(fork.address, leaf.address, common)
      BY <1>11, <2>1, <2>5, <1>4 DEF Agree
    <3>4. Branch(leaf, common) = side
      <4>1. common \in 0 .. prefix.length - 1
        BY <1>4, <2>1
      <4>2. BitAt(leaf.address, common) = BitAt(prefix.address, common)
        BY <2>5, <4>1 DEF Agree
      <4>3. QED
        BY <4>2 DEF Branch, side
    <3>5. QED
      BY <3>1, <3>2, <3>3, <3>4 DEF Hangs
  <2>9. more[new].child = child /\ at # 0 /\ at # new + 1 /\ new + 1 # 0
    BY <1>4, <2>4, <2>6
  <2>10. /\ \A slot \in {1, 2} : more[new].child[slot] # 0 => Hangs(more, new, slot)
         /\ \A slot \in {1, 2} : more[new].child[slot] # 0 =>
              \/ more[new].child[slot] = nodes[parent].child[branch]
              \/ Len(more) = new + 1 /\ more[new].child[slot] = new + 1
         /\ \E slot \in {1, 2} : more[new].child[slot] = nodes[parent].child[branch]
         /\ \E slot \in {1, 2} : more[new].child[slot] = new + 1
         /\ more[new].child[1] # more[new].child[2]
         /\ more[new].child[1] # 0 /\ more[new].child[2] # 0
    <3>1. \A slot \in {1, 2} : more[new].child[slot] # 0 => Hangs(more, new, slot)
      BY <2>3, <2>7, <2>8, <2>9
    <3>2. QED
      BY <1>10, <2>1, <2>3, <2>6, <2>9, <3>1
  <2>11. /\ more[new + 1].child[1] = 0 /\ more[new + 1].child[2] = 0
         /\ more[new + 1].value # nothing
    BY <2>5, <2>6
  <2>12. Patricia(more, values, nothing)
    <3>1. TakesThePlace(nodes, more, nothing, parent, branch)
      BY <2>6, <2>7, <2>10, <2>11 DEF TakesThePlace
    <3>2. QED
      BY <2>6, <3>1, SplicedIn
  <2>13. QED
    BY <2>12 DEF more, node, leaf, child, side
<1>16. QED
  BY <1>14, <1>15 DEF linked, fork

\* A node may hold another value.
LEMMA ValueSet ==
  ASSUME NEW nodes, NEW values, NEW nothing, Patricia(nodes, values, nothing),
         NEW at \in 1 .. Len(nodes), NEW value \in values, value # nothing
  PROVE  Patricia([nodes EXCEPT ![at].value = value], values, nothing)
<1> DEFINE node == [nodes[at] EXCEPT !.value = value]
           more == [nodes EXCEPT ![at] = node]
<1>1. /\ nodes \in Seq(NodesOf(values)) /\ Len(nodes) \in Nat \ {0}
      /\ DOMAIN nodes = 1 .. Len(nodes)
      /\ nodes[at] \in NodesOf(values) /\ nodes[1].length = 0
  BY DEF Patricia
<1>2. /\ node \in NodesOf(values) /\ node.value = value /\ node.child = nodes[at].child
      /\ node.address = nodes[at].address /\ node.length = nodes[at].length
  BY <1>1 DEF NodesOf
<1>3. more = [nodes EXCEPT ![at].value = value]
  OBVIOUS
<1> HIDE DEF node
<1>4. more \in Seq(NodesOf(values)) /\ Len(more) = Len(nodes)
  BY <1>1, <1>2
<1>5. ASSUME NEW ref \in 1 .. Len(nodes)
      PROVE  /\ more[ref].child = nodes[ref].child /\ more[ref].address = nodes[ref].address
             /\ more[ref].length = nodes[ref].length
             /\ more[ref].value = IF ref = at THEN value ELSE nodes[ref].value
  BY <1>1, <1>2
<1> HIDE DEF more
<1>6. ASSUME NEW ref \in 1 .. Len(more), NEW slot \in {1, 2}, more[ref].child[slot] # 0
      PROVE  Hangs(more, ref, slot)
  <2> DEFINE next == nodes[ref].child[slot]
  <2>1. ref \in 1 .. Len(nodes) /\ more[ref].child[slot] = next /\ next # 0
    BY <1>4, <1>5, <1>6
  <2>2. Hangs(nodes, ref, slot)
    BY <2>1 DEF Patricia
  <2> HIDE DEF next
  <2>3. /\ next \in 2 .. Len(nodes) /\ nodes[ref].length < nodes[next].length
        /\ Agree(nodes[ref].address, nodes[next].address, nodes[ref].length)
        /\ Branch(nodes[next], nodes[ref].length) = slot
    BY <2>2 DEF Hangs, next
  <2>4. next \in 1 .. Len(nodes)
    BY <1>1, <2>3
  <2>5. Branch(more[next], more[ref].length) = slot
    BY <1>5, <2>1, <2>3, <2>4 DEF Branch
  <2>6. QED
    BY <1>4, <1>5, <2>1, <2>3, <2>4, <2>5 DEF Hangs
<1>7. ASSUME NEW ref \in 2 .. Len(more)
      PROVE  \E above \in 1 .. Len(more), slot \in {1, 2} : more[above].child[slot] = ref
  <2>1. PICK above \in 1 .. Len(nodes), slot \in {1, 2} : nodes[above].child[slot] = ref
    BY <1>4 DEF Patricia
  <2>2. QED
    BY <1>4, <1>5, <2>1
<1>8. ASSUME NEW ref \in 1 .. Len(more), NEW other \in 1 .. Len(more),
             NEW slot \in {1, 2}, NEW side \in {1, 2},
             more[ref].child[slot] # 0, more[ref].child[slot] = more[other].child[side]
      PROVE  ref = other /\ slot = side
  <2>1. nodes[ref].child[slot] # 0 /\ nodes[ref].child[slot] = nodes[other].child[side]
    BY <1>4, <1>5, <1>8
  <2>2. QED
    BY <1>4, <2>1 DEF Patricia
<1>9. ASSUME NEW ref \in 2 .. Len(more), more[ref].value = nothing
      PROVE  more[ref].child[1] # 0 /\ more[ref].child[2] # 0
  <2>1. ref \in 1 .. Len(nodes) /\ ref \in 2 .. Len(nodes)
    BY <1>1, <1>4
  <2>2. nodes[ref].value = nothing /\ more[ref].child = nodes[ref].child
    BY <1>5, <1>9, <2>1
  <2>3. QED
    BY <2>1, <2>2 DEF Patricia
<1>10. more[1].length = 0
  BY <1>1, <1>5
<1>11. Patricia(more, values, nothing)
  BY <1>1, <1>4, <1>6, <1>7, <1>8, <1>9, <1>10 DEF Patricia
<1>12. QED
  BY <1>3, <1>11

\* Inserting keeps a trie a Patricia trie.
THEOREM InsertKeepsPatricia ==
  ASSUME NEW nodes, NEW values, NEW nothing \in values, Patricia(nodes, values, nothing),
         NEW prefix, APrefix(prefix), NEW value \in values, value # nothing
  PROVE  Patricia(Insert(nodes, prefix, value, nothing), values, nothing)
<1> DEFINE stop == Stop(nodes, prefix)
           parent == stop.parent
           at == stop.at
           branch == Branch(prefix, nodes[parent].length)
           common == CommonLength(nodes[at], prefix)
           new == Len(nodes) + 1
           linked == Linked(nodes, parent, branch)
           fork == Fork(prefix, common, nodes[at], at, nothing)
<1>1. StopsAt(nodes, prefix, stop)
  BY DescentStops
<1>2. Insert(nodes, prefix, value, nothing)
        = IF parent = 0 THEN [nodes EXCEPT ![at].value = value]
          ELSE IF at = 0 THEN Append(linked, Node(prefix, value))
          ELSE IF common = prefix.length THEN Append(linked, [fork EXCEPT !.value = value])
          ELSE linked \o <<[fork EXCEPT !.child[Branch(prefix, common)] = new + 1],
                           Node(prefix, value)>>
  BY DEF Insert, Linked
<1> HIDE DEF stop
<1>3. CASE parent = 0
  <2>1. at \in 1 .. Len(nodes)
    BY <1>1, <1>3 DEF StopsAt, Patricia
  <2>2. Insert(nodes, prefix, value, nothing) = [nodes EXCEPT ![at].value = value]
    BY <1>2, <1>3
  <2> HIDE DEF at
  <2>3. Patricia([nodes EXCEPT ![at].value = value], values, nothing)
    BY <2>1, ValueSet
  <2>4. QED
    BY <2>2, <2>3
<1>4. CASE parent # 0
  <2>1. /\ parent \in 1 .. Len(nodes) /\ nodes[parent].length < prefix.length
        /\ Agree(nodes[parent].address, prefix.address, nodes[parent].length)
        /\ at = nodes[parent].child[branch]
        /\ at = 0 \/ common < nodes[at].length
    BY <1>1, <1>4 DEF StopsAt
  <2> HIDE DEF parent, at
  <2>2. nodes[parent].length \in 0 .. Bits - 1 /\ branch \in {1, 2}
    BY <2>1, StoppedAbove
  <2>3. CASE at = 0
    <3>1. Patricia(Append(linked, Node(prefix, value)), values, nothing)
      BY <2>1, <2>3, LeafInserted
    <3>2. QED
      BY <1>2, <1>4, <2>3, <3>1
  <2>4. CASE at # 0
    <3>1. Hangs(nodes, parent, branch)
      BY <2>1, <2>2, <2>4 DEF Patricia
    <3>2. at \in 2 .. Len(nodes)
      BY <2>1, <3>1 DEF Hangs
    <3>3. /\ nodes[at].length \in 0 .. Bits /\ nodes[at].address \in Nat
          /\ common > nodes[parent].length
      BY <2>1, <2>2, <3>2, PartsBelow
    <3>4. prefix.length \in 0 .. Bits
      BY DEF APrefix
    <3>5. /\ common \in Nat /\ common <= prefix.length
          /\ Agree(nodes[at].address, prefix.address, common)
          /\ common < nodes[at].length /\ common < prefix.length =>
               BitAt(nodes[at].address, common) # BitAt(prefix.address, common)
      BY <3>3, <3>4, CommonIsMaximal
    <3> DEFINE n == nodes[parent].length
    <3>6. n \in Nat /\ n < common
      BY <2>2, <3>3, <3>5, BitsAssumption
    <3>7. common < nodes[at].length /\ n = nodes[parent].length /\ nodes[parent].child[branch] = at
          /\ Branch(prefix, n) = branch
      BY <2>1, <2>4, SMTT(30), ZenonT(30)
    <3> HIDE DEF common, branch, n
    <3>8. LET l == Linked(nodes, parent, branch)
              f == Fork(prefix, common, nodes[at], at, nothing)
          IN /\ common = prefix.length =>
                  Patricia(Append(l, [f EXCEPT !.value = value]), values, nothing)
             /\ common # prefix.length =>
                  Patricia(l \o <<[f EXCEPT !.child[Branch(prefix, common)]
                                                      = (Len(nodes) + 1) + 1],
                                       Node(prefix, value)>>, values, nothing)
      BY <2>1, <2>2, <3>2, <3>3, <3>5, <3>6, <3>7, ForkInserted
    <3>9. QED
      BY <1>2, <1>4, <2>4, <3>8
  <2>5. QED
    BY <2>3, <2>4
<1>5. QED
  BY <1>3, <1>4

\* A trie begins as its root.
LEMMA EmptyIsPatricia ==
  ASSUME NEW values, NEW nothing \in values
  PROVE  Patricia(EmptyTrie(nothing), values, nothing)
<1> DEFINE root == Node([address |-> 0, length |-> 0], nothing)
           trie == <<root>>
<1>1. APrefix([address |-> 0, length |-> 0])
  BY BitsAssumption DEF APrefix
<1>2. root \in NodesOf(values) /\ root.length = 0 /\ root.child[1] = 0 /\ root.child[2] = 0
  BY <1>1, NewNode
<1> HIDE DEF root
<1>3. trie \in Seq(NodesOf(values)) /\ Len(trie) = 1 /\ trie[1] = root
  BY <1>2
<1> HIDE DEF trie
<1>4. \A ref \in 1 .. Len(trie) : ref = 1
  BY <1>3
<1>5. \A ref \in 1 .. Len(trie), slot \in {1, 2} : trie[ref].child[slot] = 0
  BY <1>2, <1>3, <1>4
<1>6. \A ref \in 2 .. Len(trie) : FALSE
  BY <1>3
<1>7. Patricia(trie, values, nothing)
  BY <1>2, <1>3, <1>5, <1>6 DEF Patricia
<1>8. QED
  BY <1>7 DEF EmptyTrie, trie, root

-----------------------------------------------------------------------------
(* Ranges *)

\* There is a largest aligned block that fits.
LEMMA BlockFits ==
  ASSUME NEW end \in Nat, NEW current \in Nat, current <= end
  PROVE  /\ BlockBits(current, end) \in 0 .. Bits
         /\ current % Power[BlockBits(current, end)] = 0
         /\ current + Power[BlockBits(current, end)] - 1 <= end
         /\ \A larger \in BlockBits(current, end) + 1 .. Bits :
              ~ (current % Power[larger] = 0 /\ current + Power[larger] - 1 <= end)
<1> DEFINE Fits(bits) == current % Power[bits] = 0 /\ current + Power[bits] - 1 <= end
           Largest(bits) == Fits(bits) /\ \A larger \in bits + 1 .. Bits : ~ Fits(larger)
           Left == {m \in Nat : m <= Bits /\ Fits(Bits - m)}
           b == CHOOSE bits \in 0 .. Bits : Largest(bits)
<1>0. Bits \in Nat
  BY BitsAssumption
<1>1. Fits(0)
  <2>1. current % 1 = 0 /\ current + 1 - 1 <= end
    OBVIOUS
  <2>2. QED
    BY <2>1, PowerSteps
<1> HIDE DEF Fits
<1>2. Left \in SUBSET Nat /\ Bits \in Left
  BY <1>0, <1>1
<1>3. PICK m \in Left : \A k \in Left : m <= k
  <2> HIDE DEF Left
  <2>1. QED
    BY <1>2, LeastElement
<1>4. Bits - m \in 0 .. Bits /\ Fits(Bits - m)
  BY <1>0
<1>5. ASSUME NEW larger \in (Bits - m) + 1 .. Bits, Fits(larger) PROVE FALSE
  <2>1. Bits - larger \in Nat /\ Bits - larger <= Bits /\ Bits - larger < m
    BY <1>0
  <2>2. Bits - (Bits - larger) = larger
    BY <1>0
  <2>3. Bits - larger \in Left
    BY <1>5, <2>1, <2>2
  <2>4. QED
    BY <1>3, <2>1, <2>3
<1>6. \E bits \in 0 .. Bits : Largest(bits)
  BY <1>4, <1>5
<1>7. b \in 0 .. Bits /\ Largest(b)
  <2> HIDE DEF Largest
  <2>1. QED
    BY <1>6
<1>8. BlockBits(current, end) = b
  BY DEF BlockBits, Fits
<1> HIDE DEF b
<1>9. QED
  BY <1>7, <1>8 DEF Fits

\* What the prefixes of a sequence make of the addresses from `first` to `end`.
Cuts(pieces, first, end) ==
  /\ pieces \in Seq(AllPrefixes)
  /\ \A i \in 1 .. Len(pieces) : first <= pieces[i].address /\ PrefixEnd(pieces[i]) <= end
  /\ \A i, j \in 1 .. Len(pieces) : i < j => PrefixEnd(pieces[i]) < pieces[j].address
  /\ \A address \in first .. end :
       \E i \in 1 .. Len(pieces) :
          pieces[i].address <= address /\ address <= PrefixEnd(pieces[i])

\* A prefix in front of what the rest is cut into.
LEMMA CutsExtend ==
  ASSUME NEW first \in Addresses, NEW end \in Addresses, first <= end,
         NEW bits \in 0 .. Bits, first % Power[bits] = 0, first + Power[bits] - 1 <= end,
         NEW rest, Cuts(rest, first + Power[bits], end)
  PROVE  Cuts(<<[address |-> first, length |-> Bits - bits]>> \o rest, first, end)
<1> DEFINE piece == [address |-> first, length |-> Bits - bits]
           power == Power[bits]
           all == <<piece>> \o rest
<1>1. /\ Bits \in Nat /\ power \in Nat \ {0} /\ first \in Nat /\ end \in Nat
      /\ Bits - bits \in 0 .. Bits /\ Size(Bits - bits) = power
  <2>1. Bits \in Nat
    BY BitsAssumption
  <2>2. power \in Nat \ {0} /\ Power[Bits] \in Nat \ {0} /\ Size(0) = Power[Bits]
    BY <2>1, PowerSteps DEF Size
  <2>3. first \in Nat /\ end \in Nat
    BY <2>2 DEF Addresses
  <2>4. Bits - bits \in 0 .. Bits /\ Bits - (Bits - bits) = bits
    BY <2>1
  <2>5. QED
    BY <2>1, <2>2, <2>3, <2>4 DEF Size
<1>2. first % power = 0 /\ first + power - 1 <= end /\ Cuts(rest, first + power, end)
  OBVIOUS
<1> HIDE DEF power
<1>3. piece.address = first /\ piece.length = Bits - bits /\ piece \in AllPrefixes
  <2>1. Masked(first, Bits - bits) = first
    BY <1>1, <1>2 DEF Masked
  <2>2. QED
    BY <1>1, <2>1 DEF AllPrefixes
<1>4. PrefixEnd(piece) = first + power - 1
  BY <1>1, <1>3 DEF PrefixEnd
<1> HIDE DEF piece
<1>5. /\ rest \in Seq(AllPrefixes) /\ Len(rest) \in Nat
      /\ \A i \in 1 .. Len(rest) :
            first + power <= rest[i].address /\ PrefixEnd(rest[i]) <= end
      /\ \A i, j \in 1 .. Len(rest) : i < j => PrefixEnd(rest[i]) < rest[j].address
      /\ \A address \in first + power .. end :
            \E i \in 1 .. Len(rest) :
               rest[i].address <= address /\ address <= PrefixEnd(rest[i])
  BY <1>2 DEF Cuts
<1>6. /\ all \in Seq(AllPrefixes) /\ Len(all) = Len(rest) + 1 /\ all[1] = piece
      /\ \A i \in 1 .. Len(rest) : all[i + 1] = rest[i]
  BY <1>3, <1>5
<1> HIDE DEF all
<1>7. ASSUME NEW i \in 1 .. Len(all)
      PROVE  i = 1 \/ (i - 1 \in 1 .. Len(rest) /\ all[i] = rest[i - 1])
  <2>1. i = 1 \/ (i - 1 \in 1 .. Len(rest) /\ (i - 1) + 1 = i)
    BY <1>5, <1>6
  <2>2. QED
    BY <1>6, <2>1
<1>8. ASSUME NEW i \in 1 .. Len(all)
      PROVE  first <= all[i].address /\ PrefixEnd(all[i]) <= end
  <2>1. CASE i = 1
    BY <1>1, <1>2, <1>3, <1>4, <1>6, <2>1
  <2>2. CASE i # 1
    <3>1. i - 1 \in 1 .. Len(rest) /\ all[i] = rest[i - 1]
      BY <1>7, <2>2
    <3>2. rest[i - 1].address \in Nat
      BY <1>5, <3>1 DEF AllPrefixes, Addresses
    <3>3. QED
      BY <1>1, <1>5, <3>1, <3>2
  <2>3. QED
    BY <2>1, <2>2
<1>9. ASSUME NEW i \in 1 .. Len(all), NEW j \in 1 .. Len(all), i < j
      PROVE  PrefixEnd(all[i]) < all[j].address
  <2>1. j - 1 \in 1 .. Len(rest) /\ all[j] = rest[j - 1]
    BY <1>7, <1>9, <1>6, <1>5
  <2>2. rest[j - 1].address \in Nat
    BY <1>5, <2>1 DEF AllPrefixes, Addresses
  <2>3. CASE i = 1
    BY <1>1, <1>4, <1>5, <1>6, <2>1, <2>2, <2>3, SMTT(30), ZenonT(30)
  <2>4. CASE i # 1
    <3>1. i - 1 \in 1 .. Len(rest) /\ all[i] = rest[i - 1] /\ i - 1 < j - 1
      BY <1>7, <1>9, <2>4
    <3>2. QED
      BY <1>5, <2>1, <3>1
  <2>5. QED
    BY <2>3, <2>4
<1>10. ASSUME NEW address \in first .. end
       PROVE  \E i \in 1 .. Len(all) :
                 all[i].address <= address /\ address <= PrefixEnd(all[i])
  <2>1. CASE address < first + power
    <3>1. address <= first + power - 1 /\ 1 \in 1 .. Len(all)
      BY <1>1, <1>5, <1>6, <2>1
    <3>2. QED
      BY <1>3, <1>4, <1>6, <3>1
  <2>2. CASE ~ (address < first + power)
    <3>1. address \in first + power .. end
      BY <1>1, <2>2
    <3>2. PICK i \in 1 .. Len(rest) :
             rest[i].address <= address /\ address <= PrefixEnd(rest[i])
      BY <1>5, <3>1
    <3>3. i + 1 \in 1 .. Len(all) /\ all[i + 1] = rest[i]
      BY <1>5, <1>6
    <3>4. QED
      BY <3>2, <3>3
  <2>3. QED
    BY <2>1, <2>2
<1>11. Cuts(all, first, end)
  BY <1>6, <1>8, <1>9, <1>10 DEF Cuts
<1>12. QED
  BY <1>11 DEF all, piece

\* The cut of a range, one block at a time.
LEMMA CutSteps ==
  ASSUME NEW range \in Ranges, range.start <= range.end
  PROVE  \E cut :
           /\ RangePrefixes(range) = cut[range.start]
           /\ \A current \in range.start .. range.end + 1 :
                cut[current] =
                  IF current > range.end THEN <<>>
                  ELSE <<[address |-> current, length |-> Bits - BlockBits(current, range.end)]>>
                         \o cut[current + Power[BlockBits(current, range.end)]]
<1> DEFINE start == range.start
           end == range.end
           block(current) == BlockBits(current, end)
           At(f, current) ==
             IF current > end THEN <<>>
             ELSE <<[address |-> current, length |-> Bits - block(current)]>>
                    \o f[current + Power[block(current)]]
           All == start .. end + 1
           Def(f) == [current \in All |-> At(f, current)]
           f0 == CHOOSE f : f = Def(f)
           Late(n) == {current \in All : current + n >= end + 1}
           Exists(n) == \E f : f = [current \in Late(n) |-> At(f, current)]
           G == {n \in Nat : Exists(n)}
<1>1. /\ start \in Addresses /\ end \in Addresses /\ start \in Nat /\ end \in Nat
      /\ start <= end
      /\ \A current \in start .. end : current \in Addresses
  <2>1. Size(0) \in Nat \ {0}
    BY SizeIsPositive, BitsAssumption
  <2>2. start \in Addresses /\ end \in Addresses /\ start <= end
    BY DEF Ranges
  <2>3. QED
    BY <2>1, <2>2 DEF Addresses
<1>2. RangePrefixes(range) = f0[start]
  BY DEF RangePrefixes
<1> HIDE DEF start, end
<1>3. ASSUME NEW current \in All, ~ (current > end)
      PROVE  /\ block(current) \in 0 .. Bits
             /\ current % Power[block(current)] = 0
             /\ current + Power[block(current)] - 1 <= end
             /\ Power[block(current)] \in Nat \ {0}
             /\ current \in start .. end
             /\ current + Power[block(current)] \in All
  <2>1. current \in Nat /\ current <= end /\ current \in start .. end
    BY <1>1, <1>3
  <2>2. /\ block(current) \in 0 .. Bits
        /\ current % Power[block(current)] = 0
        /\ current + Power[block(current)] - 1 <= end
    BY <1>1, <2>1, BlockFits
  <2>3. Power[block(current)] \in Nat \ {0}
    BY <2>2, PowerSteps
  <2>4. current + Power[block(current)] \in All
    BY <1>1, <2>1, <2>2, <2>3
  <2>5. QED
    BY <2>1, <2>2, <2>3, <2>4
<1> HIDE DEF block
<1>4. ASSUME NEW n \in Nat, NEW current \in Late(n + 1), ~ (current > end)
      PROVE  current + Power[block(current)] \in Late(n)
  BY <1>1, <1>3, <1>4
<1>5. ASSUME NEW current \in Late(0) PROVE current > end
  BY <1>1
<1>6. 0 \in G
  <2> DEFINE g == [current \in Late(0) |-> <<>>]
  <2>1. g = [current \in Late(0) |-> At(g, current)]
    BY <1>5
  <2> HIDE DEF g
  <2>2. Exists(0)
    BY <2>1
  <2> HIDE DEF Exists
  <2>3. QED
    BY <2>2
<1>7. ASSUME NEW n \in G PROVE n + 1 \in G
  <2>1. n \in Nat
    OBVIOUS
  <2>2. PICK f : f = [current \in Late(n) |-> At(f, current)]
    OBVIOUS
  <2> DEFINE g == [current \in Late(n + 1) |->
                     IF current \in Late(n) THEN f[current] ELSE At(f, current)]
  <2>3. ASSUME NEW current \in Late(n) PROVE current \in Late(n + 1)
    BY <1>1, <2>1
  <2>4. ASSUME NEW current \in Late(n + 1) PROVE g[current] = At(g, current)
    <3> DEFINE later == current + Power[block(current)]
    <3>1. ASSUME ~ (current > end) PROVE g[later] = f[later]
      <4>1. later \in Late(n)
        BY <1>4, <2>1, <3>1
      <4>2. later \in Late(n + 1)
        BY <2>3, <4>1
      <4> HIDE DEF later, Late
      <4>3. QED
        BY <4>1, <4>2
    <3>2. g[current] = At(f, current)
      <4> HIDE DEF Late
      <4>1. QED
        BY <2>2
    <3> HIDE DEF g
    <3>3. QED
      BY <3>1, <3>2
  <2>5. g = [current \in Late(n + 1) |-> At(g, current)]
    BY <2>4
  <2> HIDE DEF g
  <2>6. Exists(n + 1)
    BY <2>5
  <2> HIDE DEF Exists
  <2>7. QED
    BY <2>1, <2>6
<1>8. G = Nat
  <2> HIDE DEF G
  <2>1. G \in SUBSET Nat
    BY DEF G
  <2>2. QED
    BY <1>6, <1>7, <2>1, NatSetInduction
<1>9. end + 1 \in Nat /\ Late(end + 1) = All
  BY <1>1
<1>10. \E f : f = Def(f)
  <2>1. Exists(end + 1)
    BY <1>8, <1>9
  <2> HIDE DEF Late
  <2>2. QED
    BY <1>9, <2>1
<1>11. f0 = Def(f0)
  BY <1>10
<1> HIDE DEF f0
<1>12. \A current \in All : f0[current] = At(f0, current)
  BY <1>11
<1>13. QED
  BY <1>2, <1>12 DEF start, end, block

\* The prefixes a range is cut into.
LEMMA RangeIsCut ==
  ASSUME NEW range \in Ranges, range.start <= range.end
  PROVE  Cuts(RangePrefixes(range), range.start, range.end)
<1> DEFINE start == range.start
           end == range.end
           block(current) == BlockBits(current, end)
           All == start .. end + 1
           Late(n) == {current \in All : current + n >= end + 1}
<1>1. /\ start \in Addresses /\ end \in Addresses /\ start \in Nat /\ end \in Nat
      /\ start <= end
      /\ \A current \in start .. end : current \in Addresses
  <2>1. Size(0) \in Nat \ {0}
    BY SizeIsPositive, BitsAssumption
  <2>2. start \in Addresses /\ end \in Addresses /\ start <= end
    BY DEF Ranges
  <2>3. QED
    BY <2>1, <2>2 DEF Addresses
<1>2. PICK f0 :
        /\ RangePrefixes(range) = f0[start]
        /\ \A current \in All :
             f0[current] = IF current > end THEN <<>>
                           ELSE <<[address |-> current, length |-> Bits - block(current)]>>
                                  \o f0[current + Power[block(current)]]
  BY CutSteps
<1> HIDE DEF start, end
<1>3. ASSUME NEW current \in All, ~ (current > end)
      PROVE  /\ block(current) \in 0 .. Bits
             /\ current % Power[block(current)] = 0
             /\ current + Power[block(current)] - 1 <= end
             /\ Power[block(current)] \in Nat \ {0}
             /\ current \in start .. end
             /\ current + Power[block(current)] \in All
  <2>1. current \in Nat /\ current <= end /\ current \in start .. end
    BY <1>1, <1>3
  <2>2. /\ block(current) \in 0 .. Bits
        /\ current % Power[block(current)] = 0
        /\ current + Power[block(current)] - 1 <= end
    BY <1>1, <2>1, BlockFits
  <2>3. Power[block(current)] \in Nat \ {0}
    BY <2>2, PowerSteps
  <2>4. current + Power[block(current)] \in All
    BY <1>1, <2>1, <2>2, <2>3
  <2>5. QED
    BY <2>1, <2>2, <2>3, <2>4
<1> HIDE DEF block
<1>4. ASSUME NEW n \in Nat, NEW current \in Late(n + 1), ~ (current > end)
      PROVE  current + Power[block(current)] \in Late(n)
  BY <1>1, <1>3, <1>4
<1>5. ASSUME NEW current \in Late(0) PROVE current > end
  BY <1>1
<1>6. end + 1 \in Nat /\ Late(end + 1) = All
  BY <1>1
<1> DEFINE Holds(n) == \A current \in Late(n) : Cuts(f0[current], current, end)
           H == {n \in Nat : Holds(n)}
<1>7. ASSUME NEW current \in All, current > end PROVE Cuts(f0[current], current, end)
  <2>1. f0[current] = <<>>
    BY <1>2, <1>7
  <2>2. <<>> \in Seq(AllPrefixes) /\ Len(<<>>) = 0 /\ \A i \in 1 .. 0 : FALSE
    OBVIOUS
  <2>3. \A address \in current .. end : FALSE
    BY <1>1, <1>7
  <2>4. Cuts(<<>>, current, end)
    BY <2>2, <2>3 DEF Cuts
  <2>5. QED
    BY <2>1, <2>4
<1>8. 0 \in H
  BY <1>5, <1>7
<1>9. ASSUME NEW n \in H PROVE n + 1 \in H
  <2>1. n \in Nat /\ Holds(n)
    OBVIOUS
  <2>2. ASSUME NEW current \in Late(n + 1), ~ (current > end)
        PROVE  Cuts(f0[current], current, end)
    <3> DEFINE bits == block(current)
               rest == f0[current + Power[bits]]
    <3>1. Cuts(rest, current + Power[bits], end)
      BY <1>4, <2>1, <2>2
    <3>2. /\ bits \in 0 .. Bits /\ current \in Addresses /\ end \in Addresses
          /\ current <= end
          /\ current % Power[bits] = 0 /\ current + Power[bits] - 1 <= end
      BY <1>1, <1>3, <2>2
    <3>3. f0[current] = <<[address |-> current, length |-> Bits - bits]>> \o rest
      BY <1>2, <2>2
    <3> HIDE DEF bits, rest, Late
    <3>4. Cuts(<<[address |-> current, length |-> Bits - bits]>> \o rest, current, end)
      BY <3>1, <3>2, CutsExtend
    <3>5. QED
      BY <3>3, <3>4
  <2>3. Holds(n + 1)
    BY <1>7, <2>2
  <2> HIDE DEF Holds
  <2>4. QED
    BY <2>1, <2>3
<1>10. H = Nat
  <2> HIDE DEF H
  <2>1. H \in SUBSET Nat
    BY DEF H
  <2>2. QED
    BY <1>8, <1>9, <2>1, NatSetInduction
<1>11. Cuts(f0[start], start, end)
  <2>1. end + 1 \in H /\ start \in All
    <3> HIDE DEF H
    <3>1. QED
      BY <1>1, <1>6, <1>10
  <2>2. Holds(end + 1)
    BY <2>1
  <2> HIDE DEF Late
  <2>3. QED
    BY <1>6, <2>1, <2>2
<1>12. QED
  BY <1>2, <1>11 DEF start, end

\* A range is cut into prefixes exactly: in ascending order, none of which
\* overlaps another, and an address is in the range if and only if one of
\* them covers it.  (RangePrefixes, the greedy cut every index and every
\* selection trie is filled from.)
THEOREM RangesAreCutExactly ==
  ASSUME NEW range \in Ranges, range.start <= range.end
  PROVE  LET pieces == RangePrefixes(range) IN
         /\ pieces \in Seq(AllPrefixes)
         /\ \A i, j \in 1 .. Len(pieces) : i < j => PrefixEnd(pieces[i]) < pieces[j].address
         /\ \A address \in Addresses :
              InRange(range, address)
                <=> \E i \in 1 .. Len(pieces) :
                       pieces[i].address <= address /\ address <= PrefixEnd(pieces[i])
<1> DEFINE pieces == RangePrefixes(range)
<1>1. Cuts(pieces, range.start, range.end)
  BY RangeIsCut
<1> HIDE DEF pieces
<1>2. Size(0) \in Nat \ {0} /\ Bits \in Nat
  BY SizeIsPositive, BitsAssumption
<1>3. range.start \in Nat /\ range.end \in Nat
  BY <1>2 DEF Ranges, Addresses
<1>4. ASSUME NEW address \in Addresses
      PROVE  InRange(range, address)
               <=> \E i \in 1 .. Len(pieces) :
                      pieces[i].address <= address /\ address <= PrefixEnd(pieces[i])
  <2>1. address \in Nat
    BY <1>2 DEF Addresses
  <2>2. ASSUME InRange(range, address)
        PROVE  \E i \in 1 .. Len(pieces) :
                  pieces[i].address <= address /\ address <= PrefixEnd(pieces[i])
    <3>1. address \in range.start .. range.end
      BY <1>3, <2>1, <2>2 DEF InRange
    <3>2. QED
      BY <1>1, <3>1 DEF Cuts
  <2>3. ASSUME NEW i \in 1 .. Len(pieces),
               pieces[i].address <= address, address <= PrefixEnd(pieces[i])
        PROVE  InRange(range, address)
    <3>1. range.start <= pieces[i].address /\ PrefixEnd(pieces[i]) <= range.end
          /\ pieces[i] \in AllPrefixes
      BY <1>1 DEF Cuts
    <3>2. pieces[i].address \in Nat /\ PrefixEnd(pieces[i]) \in Int
      <4>1. pieces[i].address \in Nat /\ pieces[i].length \in 0 .. Bits
        BY <1>2, <3>1 DEF AllPrefixes, Addresses
      <4>2. Size(pieces[i].length) \in Nat
        BY <4>1, SizeIsPositive
      <4>3. QED
        BY <4>1, <4>2 DEF PrefixEnd
    <3>3. QED
      BY <1>3, <2>1, <2>3, <3>1, <3>2 DEF InRange
  <2>4. QED
    BY <2>2, <2>3
<1>5. QED
  BY <1>1, <1>4 DEF Cuts, pieces

-----------------------------------------------------------------------------
(* Tries of routes and of selections *)

\* What the nodes of a route trie hold, and those of a selection trie.
RouteValues == Seq(Nat \ {0})
SelectionValues == [id : Nat, width : Nat]

\* A candidate more.
LEMMA CandidateKeepsPatricia ==
  ASSUME NEW nodes, Patricia(nodes, SelectionValues, NoCandidate),
         NEW prefix \in AllPrefixes, NEW candidate \in SelectionValues, candidate.id # 0
  PROVE  Patricia(InsertCandidate(nodes, prefix, candidate), SelectionValues, NoCandidate)
<1>1. APrefix(prefix)
  <2>1. Size(0) \in Nat \ {0}
    BY SizeIsPositive, BitsAssumption
  <2>2. QED
    BY <2>1 DEF APrefix, AllPrefixes, Addresses
<1>2. candidate # NoCandidate /\ NoCandidate \in SelectionValues
  BY DEF NoCandidate, SelectionValues
<1>3. Patricia(Insert(nodes, prefix, candidate, NoCandidate), SelectionValues, NoCandidate)
  BY <1>1, <1>2, InsertKeepsPatricia
<1>4. QED
  BY <1>3 DEF InsertCandidate

\* In a Patricia trie every node but the root hangs below exactly one node,
\* which covers it, and a node that holds nothing has two children.
LEMMA PatriciaIsWellFormed ==
  ASSUME NEW nodes, NEW values, NEW nothing, Patricia(nodes, values, nothing),
         NEW ref \in DOMAIN nodes
  PROVE  LET Parents == {link \in (DOMAIN nodes) \X {1, 2} :
                           nodes[link[1]].child[link[2]] = ref}
         IN  /\ nodes[ref].value \in values
             /\ ref = 1 => nodes[ref].length = 0 /\ Parents = {}
             /\ ref # 1 =>
                  /\ Cardinality(Parents) = 1
                  /\ \A link \in Parents :
                        /\ nodes[link[1]].length < nodes[ref].length
                        /\ Covers(nodes[link[1]], nodes[ref].address)
                        /\ Branch(nodes[ref], nodes[link[1]].length) = link[2]
                  /\ nodes[ref].value = nothing
                       => nodes[ref].child[1] # 0 /\ nodes[ref].child[2] # 0
<1> DEFINE Parents == {link \in (DOMAIN nodes) \X {1, 2} :
                         nodes[link[1]].child[link[2]] = ref}
<1>1. /\ DOMAIN nodes = 1 .. Len(nodes) /\ Len(nodes) \in Nat \ {0}
      /\ nodes[1].length = 0
      /\ \A other \in 1 .. Len(nodes) : nodes[other] \in NodesOf(values)
  <2>1. nodes \in Seq(NodesOf(values)) /\ Len(nodes) \in Nat \ {0} /\ nodes[1].length = 0
    BY DEF Patricia
  <2>2. QED
    BY <2>1
<1>2. nodes[ref].value \in values
  BY <1>1 DEF NodesOf
<1>3. ASSUME NEW link \in Parents
      PROVE  /\ link[1] \in 1 .. Len(nodes) /\ link[2] \in {1, 2}
             /\ nodes[link[1]].child[link[2]] = ref
  BY <1>1
<1>4. ASSUME NEW above \in 1 .. Len(nodes), NEW slot \in {1, 2},
             nodes[above].child[slot] = ref
      PROVE  <<above, slot>> \in Parents
  BY <1>1, <1>4
<1>5. ref \in Nat \ {0}
  BY <1>1
<1>6. ASSUME NEW link \in Parents
      PROVE  /\ ref \in 2 .. Len(nodes)
             /\ nodes[link[1]].length < nodes[ref].length
             /\ Covers(nodes[link[1]], nodes[ref].address)
             /\ Branch(nodes[ref], nodes[link[1]].length) = link[2]
  <2>1. /\ link[1] \in 1 .. Len(nodes) /\ link[2] \in {1, 2}
        /\ nodes[link[1]].child[link[2]] = ref /\ ref # 0
    BY <1>3, <1>5
  <2>2. Hangs(nodes, link[1], link[2])
    BY <2>1 DEF Patricia
  <2>3. /\ ref \in 2 .. Len(nodes)
        /\ nodes[link[1]].length < nodes[ref].length
        /\ Agree(nodes[link[1]].address, nodes[ref].address, nodes[link[1]].length)
        /\ Branch(nodes[ref], nodes[link[1]].length) = link[2]
    BY <2>1, <2>2 DEF Hangs
  <2>4. nodes[link[1]].length \in 0 .. Bits
    BY <1>1, <2>1 DEF NodesOf
  <2>5. QED
    BY <2>3, <2>4, CoversAgreeing
<1>7. ref = 1 => nodes[ref].length = 0 /\ Parents = {}
  <2>1. ASSUME ref = 1, NEW link \in Parents PROVE FALSE
    <3>1. ref \in 2 .. Len(nodes)
      BY <1>6
    <3>2. QED
      BY <1>1, <2>1, <3>1
  <2>2. QED
    BY <1>1, <2>1
<1>8. ASSUME ref # 1 PROVE Cardinality(Parents) = 1
  <2>1. ref \in 2 .. Len(nodes)
    BY <1>1, <1>8
  <2>2. PICK above \in 1 .. Len(nodes), slot \in {1, 2} : nodes[above].child[slot] = ref
    BY <2>1 DEF Patricia
  <2>3. <<above, slot>> \in Parents
    BY <1>4, <2>2
  <2>4. ASSUME NEW link \in Parents PROVE link = <<above, slot>>
    <3>1. /\ link[1] \in 1 .. Len(nodes) /\ link[2] \in {1, 2}
          /\ nodes[link[1]].child[link[2]] = ref /\ link = <<link[1], link[2]>>
      BY <1>3
    <3>2. link[1] = above /\ link[2] = slot
      BY <1>5, <2>2, <3>1 DEF Patricia
    <3>3. QED
      BY <3>1, <3>2
  <2> HIDE DEF Parents
  <2>5. Parents = {<<above, slot>>}
    BY <2>3, <2>4
  <2>6. QED
    BY <2>5, FS_Singleton
<1>9. ASSUME ref # 1, nodes[ref].value = nothing
      PROVE  nodes[ref].child[1] # 0 /\ nodes[ref].child[2] # 0
  <2>1. ref \in 2 .. Len(nodes)
    BY <1>1, <1>9
  <2>2. QED
    BY <1>9, <2>1 DEF Patricia
<1> HIDE DEF Parents
<1>10. QED
  BY <1>2, <1>6, <1>7, <1>8, <1>9 DEF Parents

-----------------------------------------------------------------------------
(* Folding *)

Greatest(s) == CHOOSE x \in s : \A y \in s : x >= y

\* Taking the greatest index off, until nothing is left, counts down.
LEMMA GreatestIndex ==
  ASSUME NEW m \in Nat
  PROVE  /\ \A s \in SUBSET (1 .. m) : s # {} => Greatest(s) \in s
         /\ \A i \in 1 .. m : Greatest(1 .. i) = i /\ (1 .. i) \ {i} = 1 .. i - 1
<1>1. ASSUME NEW s \in SUBSET (1 .. m), s # {}
      PROVE  \E x \in s : \A y \in s : x >= y
  <2> DEFINE T == {k \in Nat : m - k \in s}
  <2>1. T \in SUBSET Nat /\ T # {}
    <3>1. PICK x \in s : TRUE
      BY <1>1
    <3>2. m - x \in Nat /\ m - (m - x) = x
      OBVIOUS
    <3>3. QED
      BY <3>2
  <2>2. PICK k \in T : \A j \in T : k <= j
    <3> HIDE DEF T
    <3>1. QED
      BY <2>1, LeastElement
  <2>3. ASSUME NEW y \in s PROVE m - k >= y
    <3>1. y \in Nat /\ m - y \in Nat /\ m - (m - y) = y
      OBVIOUS
    <3>2. k <= m - y
      BY <2>2, <3>1
    <3>3. QED
      BY <3>1, <3>2
  <2>4. QED
    BY <2>2, <2>3
<1>2. \A s \in SUBSET (1 .. m) : s # {} =>
        Greatest(s) \in s /\ \A y \in s : Greatest(s) >= y
  BY <1>1 DEF Greatest
<1>3. ASSUME NEW i \in 1 .. m
      PROVE  Greatest(1 .. i) = i /\ (1 .. i) \ {i} = 1 .. i - 1
  <2>1. (1 .. i) \in SUBSET (1 .. m) /\ i \in 1 .. i
    OBVIOUS
  <2>2. Greatest(1 .. i) \in 1 .. i /\ Greatest(1 .. i) >= i
    BY <1>2, <2>1
  <2>3. QED
    BY <2>2
<1>4. QED
  BY <1>2, <1>3

\* What a fold over a sequence of this length is: each element's step taken on
\* what the elements before it made.
FoldOf(m, base, step, f) ==
  \A s \in SUBSET (1 .. m) :
    f[s] = IF s = {} THEN base ELSE step[Greatest(s)][f[s \ {Greatest(s)}]]

SmallSets(m, n) == {s \in SUBSET (1 .. m) : Cardinality(s) <= n}

\* Sets of at most n elements have smaller ones without their greatest.
LEMMA SmallSteps ==
  ASSUME NEW m \in Nat
  PROVE  /\ \A s \in SmallSets(m, 0) : s = {}
         /\ \A n \in Nat : /\ SmallSets(m, n) \subseteq SmallSets(m, n + 1)
                           /\ SmallSets(m, n) \subseteq SUBSET (1 .. m)
         /\ \A n \in Nat : \A s \in SmallSets(m, n + 1) : s # {} =>
              s \ {Greatest(s)} \in SmallSets(m, n) /\ Greatest(s) \in 1 .. m
         /\ SmallSets(m, m) = SUBSET (1 .. m)
<1>1. IsFiniteSet(1 .. m) /\ Cardinality(1 .. m) = m
  BY FS_Interval
<1>2. ASSUME NEW s \in SUBSET (1 .. m)
      PROVE  /\ IsFiniteSet(s) /\ Cardinality(s) \in Nat
             /\ Cardinality(s) <= m
             /\ Cardinality(s) = 0 => s = {}
  <2>1. IsFiniteSet(s) /\ Cardinality(s) <= m
    BY <1>1, FS_Subset
  <2>2. QED
    BY <2>1, FS_EmptySet, FS_CardinalityType
<1>3. ASSUME NEW s \in SUBSET (1 .. m), s # {}
      PROVE  /\ Greatest(s) \in 1 .. m
             /\ Cardinality(s \ {Greatest(s)}) = Cardinality(s) - 1
  <2>1. Greatest(s) \in s
    BY <1>3, GreatestIndex
  <2>2. QED
    BY <1>2, <2>1, FS_RemoveElement
<1>4. \A s \in SmallSets(m, 0) : s = {}
  BY <1>2 DEF SmallSets
<1>5. ASSUME NEW n \in Nat
      PROVE  /\ SmallSets(m, n) \subseteq SmallSets(m, n + 1)
             /\ SmallSets(m, n) \subseteq SUBSET (1 .. m)
  BY <1>2 DEF SmallSets
<1>6. ASSUME NEW n \in Nat, NEW s \in SmallSets(m, n + 1), s # {}
      PROVE  s \ {Greatest(s)} \in SmallSets(m, n) /\ Greatest(s) \in 1 .. m
  <2>1. s \in SUBSET (1 .. m) /\ Cardinality(s) <= n + 1
    BY DEF SmallSets
  <2>2. /\ Greatest(s) \in 1 .. m
        /\ Cardinality(s \ {Greatest(s)}) = Cardinality(s) - 1
    BY <1>3, <1>6, <2>1
  <2>3. Cardinality(s \ {Greatest(s)}) <= n
    BY <1>2, <2>1, <2>2
  <2>4. QED
    BY <2>1, <2>2, <2>3 DEF SmallSets
<1>7. SmallSets(m, m) = SUBSET (1 .. m)
  BY <1>2 DEF SmallSets
<1>8. QED
  BY <1>4, <1>5, <1>6, <1>7

\* There is such a fold, and its results are values.
LEMMA FoldingWorks ==
  ASSUME NEW m \in Nat, NEW V, NEW base \in V, NEW step \in [1 .. m -> [V -> V]]
  PROVE  \E f \in [SUBSET (1 .. m) -> V] : FoldOf(m, base, step, f)
<1> DEFINE At(f, s) == IF s = {} THEN base ELSE step[Greatest(s)][f[s \ {Greatest(s)}]]
           Exists(n) == \E f \in [SmallSets(m, n) -> V] : f = [s \in SmallSets(m, n) |-> At(f, s)]
           G == {n \in Nat : Exists(n)}
<1>1. 0 \in G
  <2> DEFINE g == [s \in SmallSets(m, 0) |-> base]
  <2>1. g = [s \in SmallSets(m, 0) |-> At(g, s)] /\ g \in [SmallSets(m, 0) -> V]
    BY SmallSteps
  <2> HIDE DEF g
  <2>2. Exists(0)
    BY <2>1
  <2> HIDE DEF Exists
  <2>3. QED
    BY <2>2
<1>2. ASSUME NEW n \in G PROVE n + 1 \in G
  <2>1. n \in Nat
    OBVIOUS
  <2>2. PICK f \in [SmallSets(m, n) -> V] : f = [s \in SmallSets(m, n) |-> At(f, s)]
    OBVIOUS
  <2> DEFINE g == [s \in SmallSets(m, n + 1) |-> At(f, s)]
  <2>3. ASSUME NEW s \in SmallSets(m, n + 1), s # {}
        PROVE  /\ s \ {Greatest(s)} \in SmallSets(m, n) /\ Greatest(s) \in 1 .. m
               /\ s \ {Greatest(s)} \in SmallSets(m, n + 1)
               /\ g[s \ {Greatest(s)}] = f[s \ {Greatest(s)}]
    <3>1. s \ {Greatest(s)} \in SmallSets(m, n) /\ Greatest(s) \in 1 .. m
      BY <2>1, <2>3, SmallSteps
    <3>2. s \ {Greatest(s)} \in SmallSets(m, n + 1)
      BY <2>1, <3>1, SmallSteps
    <3>3. QED
      BY <2>2, <3>1, <3>2
  <2>4. ASSUME NEW s \in SmallSets(m, n + 1) PROVE g[s] = At(g, s) /\ g[s] \in V
    <3>1. g[s] = At(f, s)
      OBVIOUS
    <3> HIDE DEF g
    <3>2. CASE s = {}
      BY <3>1, <3>2
    <3>3. CASE s # {}
      <4>1. f[s \ {Greatest(s)}] \in V /\ step[Greatest(s)] \in [V -> V]
        BY <2>3, <3>3
      <4>2. step[Greatest(s)][f[s \ {Greatest(s)}]] \in V
        BY <4>1
      <4>3. QED
        BY <2>3, <3>1, <3>3, <4>2
    <3>4. QED
      BY <3>2, <3>3
  <2>5. g = [s \in SmallSets(m, n + 1) |-> At(g, s)] /\ g \in [SmallSets(m, n + 1) -> V]
    BY <2>4
  <2> HIDE DEF g
  <2>6. Exists(n + 1)
    BY <2>5
  <2> HIDE DEF Exists
  <2>7. QED
    BY <2>1, <2>6
<1>3. G = Nat
  <2> HIDE DEF G
  <2>1. G \in SUBSET Nat
    BY DEF G
  <2>2. QED
    BY <1>1, <1>2, <2>1, NatSetInduction
<1>4. Exists(m)
  BY <1>3
<1>5. PICK f \in [SUBSET (1 .. m) -> V] : f = [s \in SUBSET (1 .. m) |-> At(f, s)]
  <2>1. SmallSets(m, m) = SUBSET (1 .. m)
    BY SmallSteps
  <2>2. Exists(m) <=> \E f \in [SUBSET (1 .. m) -> V] : f = [s \in SUBSET (1 .. m) |-> At(f, s)]
    BY <2>1
  <2> HIDE DEF Exists
  <2>3. QED
    BY <1>4, <2>2
<1>6. \A s \in SUBSET (1 .. m) : f[s] = At(f, s)
  BY <1>5
<1>7. QED
  BY <1>6 DEF FoldOf

\* In the order of the sequence.
LEMMA FoldInOrder ==
  ASSUME NEW m \in Nat, NEW base, NEW step, NEW f, FoldOf(m, base, step, f)
  PROVE  /\ f[1 .. 0] = base
         /\ \A i \in 1 .. m : f[1 .. i] = step[i][f[1 .. i - 1]]
<1>1. f[1 .. 0] = base
  <2>1. (1 .. 0) \in SUBSET (1 .. m) /\ 1 .. 0 = {}
    OBVIOUS
  <2>2. QED
    BY <2>1 DEF FoldOf
<1>2. ASSUME NEW i \in 1 .. m PROVE f[1 .. i] = step[i][f[1 .. i - 1]]
  <2>1. (1 .. i) \in SUBSET (1 .. m) /\ 1 .. i # {}
    OBVIOUS
  <2>2. Greatest(1 .. i) = i /\ (1 .. i) \ {i} = 1 .. i - 1
    BY GreatestIndex
  <2>3. f[1 .. i] = step[Greatest(1 .. i)][f[(1 .. i) \ {Greatest(1 .. i)}]]
    BY <2>1 DEF FoldOf
  <2>4. QED
    BY <2>2, <2>3
<1>3. QED
  BY <1>1, <1>2

\* Two folds that take the same steps are the same.
LEMMA FoldsAgree ==
  ASSUME NEW m \in Nat, NEW f, NEW g,
         \A s \in SUBSET (1 .. m) :
            (s = {} \/ f[s \ {Greatest(s)}] = g[s \ {Greatest(s)}]) => f[s] = g[s]
  PROVE  f[1 .. m] = g[1 .. m]
<1> DEFINE Same(n) == \A s \in SmallSets(m, n) : f[s] = g[s]
           G == {n \in Nat : Same(n)}
<1>1. 0 \in G
  BY SmallSteps
<1>2. ASSUME NEW n \in G PROVE n + 1 \in G
  <2>1. n \in Nat /\ Same(n)
    OBVIOUS
  <2>2. ASSUME NEW s \in SmallSets(m, n + 1) PROVE f[s] = g[s]
    <3>1. s \in SUBSET (1 .. m)
      BY <2>1, SmallSteps
    <3>2. s # {} => s \ {Greatest(s)} \in SmallSets(m, n)
      BY <2>1, SmallSteps
    <3>3. QED
      BY <2>1, <3>1, <3>2
  <2> HIDE DEF Same
  <2>3. Same(n + 1)
    BY <2>2 DEF Same
  <2>4. QED
    BY <2>1, <2>3
<1>3. G = Nat
  <2> HIDE DEF G
  <2>1. G \in SUBSET Nat
    BY DEF G
  <2>2. QED
    BY <1>1, <1>2, <2>1, NatSetInduction
<1>4. Same(m)
  BY <1>3
<1>5. QED
  BY <1>4, SmallSteps

-----------------------------------------------------------------------------
(* Prefixes and the addresses they cover *)

\* Addresses agree in as many bits when they lie in the same block of that
\* size.
LEMMA AgreeIsQuotient ==
  ASSUME NEW left \in Addresses, NEW right \in Addresses, NEW length \in 0 .. Bits
  PROVE  Agree(left, right, length) <=> left \div Size(length) = right \div Size(length)
<1> DEFINE Same(n) == Agree(left, right, n) <=> left \div Size(n) = right \div Size(n)
           G == {n \in Nat : n <= Bits => Same(n)}
<1>1. Bits \in Nat /\ left \in Nat /\ right \in Nat
  BY BitsAssumption DEF Addresses
<1>2. 0 \in G
  <2>1. Size(0) \in Nat \ {0} /\ left < Size(0) /\ right < Size(0)
    BY <1>1, SizeIsPositive DEF Addresses
  <2> DEFINE s == Size(0)
  <2> HIDE DEF s
  <2>2. s * 0 + left = left /\ s * 0 + right = right
    BY <1>1, <2>1 DEF s
  <2>3. left \div s = 0 /\ right \div s = 0
    BY <1>1, <2>1, <2>2, QuotientIs DEF s
  <2>4. Agree(left, right, 0)
    BY DEF Agree
  <2>5. QED
    BY <2>3, <2>4 DEF s
<1>3. ASSUME NEW n \in G PROVE n + 1 \in G
  <2> SUFFICES ASSUME n + 1 <= Bits PROVE Same(n + 1)
    OBVIOUS
  <2>1. n \in Nat /\ n <= Bits /\ Same(n) /\ n + 1 \in 0 .. Bits
    BY <1>1
  <2> DEFINE s == Size(n + 1)
             u == left \div s
             v == right \div s
  <2>2. s \in Nat \ {0} /\ Size(n) = 2 * s
    <3>1. Bits - n \in 1 .. Bits /\ (Bits - n) - 1 = Bits - (n + 1)
      BY <1>1, <2>1
    <3>2. QED
      BY <2>1, <3>1, SizeIsPositive, PowerSteps DEF Size
  <2>3. BitAt(left, n) = u % 2 /\ BitAt(right, n) = v % 2
    BY DEF BitAt
  <2> HIDE DEF s
  <2>4. left \div Size(n) = u \div 2 /\ right \div Size(n) = v \div 2
    <3>1. s \in Nat \ {0} /\ 2 \in Nat \ {0} /\ left \in Nat /\ right \in Nat
      BY <1>1, <2>2
    <3>2. left \div (2 * s) = (left \div s) \div 2
      BY ONLY <3>1, QuotientOfMultiple
    <3>3. right \div (2 * s) = (right \div s) \div 2
      BY ONLY <3>1, QuotientOfMultiple
    <3>4. QED
      BY <2>2, <3>2, <3>3
  <2>5. u \in Nat /\ v \in Nat
    BY <1>1, <2>2
  <2> HIDE DEF u, v
  <2>6. u = v <=> u \div 2 = v \div 2 /\ u % 2 = v % 2
    BY <2>5
  <2>7. Agree(left, right, n + 1) <=> Agree(left, right, n) /\ BitAt(left, n) = BitAt(right, n)
    <3>1. 0 .. (n + 1) - 1 = (0 .. n - 1) \cup {n}
      BY <2>1
    <3>2. QED
      BY <3>1 DEF Agree
  <2>8. QED
    BY <2>1, <2>3, <2>4, <2>6, <2>7 DEF u, v, s
<1>4. G = Nat
  <2> HIDE DEF G
  <2>1. G \in SUBSET Nat
    BY DEF G
  <2>2. QED
    BY <1>2, <1>3, <2>1, NatSetInduction
<1>5. length \in G
  BY <1>1, <1>4
<1>6. QED
  BY <1>5

\* The addresses that agree with a prefix are those from its first to its last.
LEMMA CoversIsRange ==
  ASSUME NEW prefix \in AllPrefixes, NEW address \in Addresses
  PROVE  Agree(prefix.address, address, prefix.length)
           <=> prefix.address <= address /\ address <= PrefixEnd(prefix)
<1> DEFINE first == prefix.address
           s == Size(prefix.length)
           k == first \div s
<1>1. /\ first \in Addresses /\ prefix.length \in 0 .. Bits /\ first = first - (first % s)
      /\ first \in Nat /\ address \in Nat
  BY DEF AllPrefixes, Masked, Addresses
<1>2. s \in Nat \ {0}
  BY <1>1, SizeIsPositive
<1>3. Agree(first, address, prefix.length) <=> k = address \div s
  BY <1>1, AgreeIsQuotient
<1>4. PrefixEnd(prefix) = first + s - 1
  BY DEF PrefixEnd
<1> HIDE DEF s, first
<1>5. k \in Nat /\ first = s * k + (first % s) /\ first % s \in Nat
  BY <1>1, <1>2
<1> HIDE DEF k
<1>6. first = s * k /\ s * k \in Nat
  BY <1>1, <1>2, <1>5
<1>7. ASSUME first <= address, address <= first + s - 1 PROVE k = address \div s
  <2> DEFINE r == address - first
  <2>1. r \in Nat /\ r < s /\ address = first + r
    BY <1>1, <1>2, <1>7
  <2> HIDE DEF r
  <2>2. address = s * k + r
    BY <1>6, <2>1
  <2>3. QED
    BY <1>2, <1>5, <2>1, <2>2, QuotientIs
<1>8. ASSUME k = address \div s PROVE first <= address /\ address <= first + s - 1
  <2> DEFINE r == address % s
             q == address \div s
  <2>1. r \in Nat /\ r < s /\ address = s * q + r
    BY <1>1, <1>2
  <2> HIDE DEF r
  <2>2. address = first + r
    BY <1>6, <1>8, <2>1
  <2>3. QED
    BY <1>1, <1>2, <2>1, <2>2
<1>9. QED
  BY <1>3, <1>4, <1>7, <1>8 DEF first

\* Prefixes of one length that agree are the same.
LEMMA AgreeingPrefixes ==
  ASSUME NEW left \in AllPrefixes, NEW right \in AllPrefixes, left.length = right.length,
         Agree(left.address, right.address, left.length)
  PROVE  left = right
<1> DEFINE s == Size(left.length)
           x == left.address
           y == right.address
<1>1. /\ x \in Addresses /\ y \in Addresses /\ left.length \in 0 .. Bits
      /\ x = x - (x % s) /\ y = y - (y % s) /\ x \in Nat /\ y \in Nat
  BY DEF AllPrefixes, Masked, Addresses
<1>2. s \in Nat \ {0}
  BY <1>1, SizeIsPositive
<1>3. x \div s = y \div s
  BY <1>1, AgreeIsQuotient
<1>4. left = right <=> x = y
  BY DEF AllPrefixes
<1> HIDE DEF s, x, y
<1>5. x = s * (x \div s) + (x % s) /\ y = s * (y \div s) + (y % s)
      /\ x % s \in Nat /\ y % s \in Nat /\ x \div s \in Nat
  BY <1>1, <1>2
<1> DEFINE k == x \div s
           a == x % s
           b == y % s
<1>6. x = s * k + a /\ y = s * k + b /\ a \in Nat /\ b \in Nat /\ x = x - a /\ y = y - b
  BY <1>1, <1>3, <1>5
<1> HIDE DEF k, a, b
<1>7. a = 0 /\ b = 0
  BY <1>1, <1>6
<1>8. x = y
  BY <1>6, <1>7
<1>9. QED
  BY <1>4, <1>8

-----------------------------------------------------------------------------
(* Lookups *)

\* The nodes that cover an address, and where a lookup goes from one.
Covering(nodes, address) ==
  {ref \in 1 .. Len(nodes) : Agree(nodes[ref].address, address, nodes[ref].length)}

Onward(nodes, ref, address) == nodes[ref].child[BitAt(address, nodes[ref].length) + 1]

\* What is above a node that covers an address covers it too, and leads to it.
LEMMA CoveringAbove ==
  ASSUME NEW nodes, NEW values, NEW nothing, Patricia(nodes, values, nothing),
         NEW address \in Nat, NEW ref \in Covering(nodes, address), nodes[ref].length # 0
  PROVE  \E above \in Covering(nodes, address) :
           nodes[above].length < nodes[ref].length /\ Onward(nodes, above, address) = ref
<1>1. /\ Len(nodes) \in Nat \ {0} /\ nodes[1].length = 0 /\ Bits \in Nat
      /\ \A i \in 1 .. Len(nodes) : nodes[i] \in NodesOf(values)
  BY BitsAssumption DEF Patricia
<1>2. ref \in 2 .. Len(nodes) /\ Agree(nodes[ref].address, address, nodes[ref].length)
  BY <1>1 DEF Covering
<1>3. PICK above \in 1 .. Len(nodes), slot \in {1, 2} : nodes[above].child[slot] = ref
  BY <1>2 DEF Patricia
<1>4. Hangs(nodes, above, slot)
  BY <1>1, <1>2, <1>3 DEF Patricia
<1> DEFINE n == nodes[above].length
           l == nodes[ref].length
<1>5. n < l /\ Agree(nodes[above].address, nodes[ref].address, n)
      /\ BitAt(nodes[ref].address, n) + 1 = slot
  BY <1>3, <1>4 DEF Hangs, Branch
<1>6. n \in Nat /\ l \in Nat
  BY <1>1, <1>2 DEF NodesOf
<1> HIDE DEF n, l
<1>7. (0 .. n - 1) \subseteq (0 .. l - 1) /\ n \in 0 .. l - 1
  BY <1>5, <1>6
<1>8. Agree(nodes[above].address, address, n) /\ BitAt(nodes[ref].address, n) = BitAt(address, n)
  BY <1>2, <1>5, <1>7 DEF Agree, l
<1>9. above \in Covering(nodes, address)
  BY <1>8 DEF Covering, n
<1>10. Onward(nodes, above, address) = ref
  BY <1>3, <1>5, <1>8 DEF Onward, n
<1>11. QED
  BY <1>5, <1>9, <1>10 DEF n, l

\* The nodes that cover an address are a chain, link by link.
LEMMA CoveringChain ==
  ASSUME NEW nodes, NEW values, NEW nothing, Patricia(nodes, values, nothing),
         NEW address \in Nat,
         NEW one \in Covering(nodes, address), NEW two \in Covering(nodes, address)
  PROVE  /\ nodes[one].length = nodes[two].length => one = two
         /\ nodes[one].length < nodes[two].length =>
              /\ Onward(nodes, one, address) \in Covering(nodes, address)
              /\ nodes[one].length < nodes[Onward(nodes, one, address)].length
              /\ nodes[Onward(nodes, one, address)].length <= nodes[two].length
<1> DEFINE C == Covering(nodes, address)
           L(ref) == nodes[ref].length
           To(ref) == Onward(nodes, ref, address)
           Leads(ref, other) ==
             /\ L(ref) = L(other) => ref = other
             /\ L(ref) < L(other) =>
                  To(ref) \in C /\ L(ref) < L(To(ref)) /\ L(To(ref)) <= L(other)
           Chain(n) == \A ref, other \in C : L(other) <= n => Leads(ref, other)
           G == {n \in Nat : Chain(n)}
<1>1. \A ref \in C : L(ref) \in Nat
  <2>1. \A ref \in 1 .. Len(nodes) : nodes[ref] \in NodesOf(values)
    BY DEF Patricia
  <2>2. QED
    BY <2>1, BitsAssumption DEF NodesOf, Covering
<1>2. ASSUME NEW ref \in C, L(ref) # 0
      PROVE  \E above \in C : L(above) < L(ref) /\ To(above) = ref
  BY <1>2, CoveringAbove
<1>3. ASSUME NEW ref \in C, L(ref) = 0 PROVE ref = 1
  <2>1. ASSUME ref # 1 PROVE FALSE
    <3>1. ref \in 2 .. Len(nodes) /\ Len(nodes) \in Nat
      BY <2>1 DEF Covering, Patricia
    <3>2. PICK above \in 1 .. Len(nodes), slot \in {1, 2} : nodes[above].child[slot] = ref
      BY <3>1 DEF Patricia
    <3>3. Hangs(nodes, above, slot)
      BY <3>1, <3>2 DEF Patricia
    <3>4. L(above) < 0
      BY <1>3, <3>2, <3>3 DEF Hangs
    <3>5. nodes[above] \in NodesOf(values)
      BY DEF Patricia
    <3>6. QED
      BY <3>4, <3>5, BitsAssumption DEF NodesOf
  <2>2. QED
    BY <2>1
<1> HIDE DEF C, L, To
<1>4. 0 \in G
  BY <1>1, <1>3
<1>5. ASSUME NEW n \in G PROVE n + 1 \in G
  <2>1. n \in Nat /\ Chain(n)
    OBVIOUS
  <2>2. ASSUME NEW ref \in C, NEW other \in C, L(other) = n + 1 PROVE Leads(ref, other)
    <3>1. PICK p \in C : L(p) < L(other) /\ To(p) = other
      BY <1>1, <1>2, <2>1, <2>2
    <3>2. L(ref) \in Nat /\ L(p) \in Nat /\ L(p) <= n
      BY <1>1, <2>1, <2>2, <3>1
    <3>3. ASSUME L(ref) = L(other) PROVE ref = other
      <4>1. PICK q \in C : L(q) < L(ref) /\ To(q) = ref
        BY <1>1, <1>2, <2>1, <2>2, <3>3
      <4>2. L(q) \in Nat /\ L(q) <= n
        BY <1>1, <2>1, <2>2, <3>3, <4>1
      <4>3. Leads(p, q) /\ Leads(q, p)
        BY <2>1, <3>2, <4>2
      <4>4. L(p) = L(q)
        BY <2>2, <3>1, <3>2, <3>3, <4>1, <4>2, <4>3
      <4>5. QED
        BY <3>1, <4>1, <4>3, <4>4
    <3>4. ASSUME L(ref) < L(other)
          PROVE  To(ref) \in C /\ L(ref) < L(To(ref)) /\ L(To(ref)) <= L(other)
      <4>1. CASE L(ref) < L(p)
        <5>1. Leads(ref, p)
          BY <2>1, <3>2
        <5>2. To(ref) \in C /\ L(ref) < L(To(ref)) /\ L(To(ref)) <= L(p)
          BY <4>1, <5>1
        <5>3. QED
          BY <1>1, <3>1, <3>2, <5>2
      <4>2. CASE L(ref) = L(p)
        <5>1. ref = p
          BY <2>1, <3>2, <4>2
        <5>2. QED
          BY <1>1, <3>1, <3>4, <5>1
      <4>3. CASE L(ref) > L(p)
        <5>1. L(ref) <= n
          BY <2>1, <2>2, <3>2, <3>4
        <5>2. Leads(p, ref)
          BY <2>1, <5>1
        <5>3. L(To(p)) <= L(ref)
          BY <3>2, <4>3, <5>2
        <5>4. QED
          BY <1>1, <2>1, <2>2, <3>1, <3>2, <3>4, <5>3
      <4>4. QED
        BY <3>2, <4>1, <4>2, <4>3
    <3>5. QED
      BY <3>3, <3>4
  <2>3. ASSUME NEW ref \in C, NEW other \in C, L(other) <= n + 1 PROVE Leads(ref, other)
    <3>1. L(other) <= n \/ L(other) = n + 1
      BY <1>1, <2>1, <2>3
    <3> HIDE DEF Leads
    <3>2. QED
      BY <2>1, <2>2, <3>1
  <2>4. Chain(n + 1)
    BY <2>3
  <2> HIDE DEF Chain
  <2>5. QED
    BY <2>1, <2>4
<1>6. G = Nat
  <2> HIDE DEF G
  <2>1. G \in SUBSET Nat
    BY DEF G
  <2>2. QED
    BY <1>4, <1>5, <2>1, NatSetInduction
<1>7. one \in C /\ two \in C
  BY DEF C
<1>8. Chain(L(two))
  BY <1>1, <1>6, <1>7
<1>9. Leads(one, two)
  BY <1>1, <1>7, <1>8
<1>10. QED
  BY <1>9 DEF C, L, To

\* An element before a sequence of others that all come after it.
LEMMA Prepended ==
  ASSUME NEW rest, NEW order, NEW tail, SequenceOf(rest, order, tail),
         NEW x, \A y \in rest : <<x, y>> \in order
  PROVE  SequenceOf(rest \cup {x}, order, <<x>> \o tail)
<1> DEFINE seq == <<x>> \o tail
           all == rest \cup {x}
<1>1. /\ tail \in Seq(rest) /\ tail \in Seq(all) /\ Len(tail) \in Nat
      /\ DOMAIN tail = 1 .. Len(tail)
      /\ {tail[i] : i \in DOMAIN tail} = rest
      /\ \A i, j \in DOMAIN tail : i < j => <<tail[i], tail[j]>> \in order
  <2>1. tail \in Seq(rest)
    BY DEF SequenceOf
  <2>2. tail \in Seq(all)
    BY <2>1
  <2>3. QED
    BY <2>1, <2>2 DEF SequenceOf
<1>2. /\ seq \in Seq(all) /\ seq[1] = x
      /\ DOMAIN seq = 1 .. Len(tail) + 1
      /\ \A i \in DOMAIN tail : seq[i + 1] = tail[i]
  <2>1. x \in all
    OBVIOUS
  <2> HIDE DEF all
  <2>2. QED
    BY <1>1, <2>1
<1> HIDE DEF seq
<1>3. ASSUME NEW i \in DOMAIN seq
      PROVE  i = 1 \/ (i - 1 \in DOMAIN tail /\ seq[i] = tail[i - 1])
  <2>1. i = 1 \/ (i - 1 \in DOMAIN tail /\ (i - 1) + 1 = i)
    BY <1>1, <1>2
  <2>2. QED
    BY <1>2, <2>1
<1>4. ASSUME NEW y \in all PROVE \E i \in DOMAIN seq : seq[i] = y
  <2>1. CASE y = x
    <3>1. 1 \in DOMAIN seq
      BY <1>1, <1>2
    <3>2. QED
      BY <1>2, <2>1, <3>1
  <2>2. CASE y # x
    <3>1. PICK i \in DOMAIN tail : tail[i] = y
      BY <1>1, <2>2
    <3>2. i + 1 \in DOMAIN seq /\ seq[i + 1] = y
      BY <1>1, <1>2, <3>1
    <3>3. QED
      BY <3>2
  <2>3. QED
    BY <2>1, <2>2
<1>5. ASSUME NEW i \in DOMAIN seq, NEW j \in DOMAIN seq, i < j
      PROVE  <<seq[i], seq[j]>> \in order
  <2>1. j - 1 \in DOMAIN tail /\ seq[j] = tail[j - 1]
    BY <1>1, <1>2, <1>3, <1>5
  <2>2. CASE i = 1
    <3>1. tail[j - 1] \in rest
      BY <1>1, <2>1
    <3>2. QED
      BY <1>2, <2>1, <2>2, <3>1
  <2>3. CASE i # 1
    <3>1. i - 1 \in DOMAIN tail /\ seq[i] = tail[i - 1] /\ i - 1 < j - 1
      BY <1>1, <1>2, <1>3, <1>5, <2>3
    <3>2. QED
      BY <1>1, <2>1, <3>1
  <2>4. QED
    BY <2>2, <2>3
<1>6. {seq[i] : i \in DOMAIN seq} = all
  BY <1>2, <1>4
<1>7. SequenceOf(all, order, seq)
  BY <1>2, <1>5, <1>6 DEF SequenceOf
<1>8. QED
  BY <1>7 DEF seq

\* Shorter prefixes before longer ones.
Downward(values) ==
  {pair \in NodesOf(values) \X NodesOf(values) : pair[1].length < pair[2].length}

\* A lookup visits the nodes that cover its address, all of them, downward.
LEMMA WalkVisits ==
  ASSUME NEW nodes, NEW values, NEW nothing, Patricia(nodes, values, nothing),
         NEW address \in Nat
  PROVE  SequenceOf({nodes[ref] : ref \in Covering(nodes, address)}, Downward(values),
                    Walk(nodes, address))
<1> DEFINE C == Covering(nodes, address)
           L(ref) == nodes[ref].length
           To(ref) == IF L(ref) < Bits THEN nodes[ref].child[BitAt(address, L(ref)) + 1] ELSE 0
           At(f, ref) == IF ~ Covers(nodes[ref], address) THEN <<>>
                         ELSE IF To(ref) = 0 THEN <<nodes[ref]>>
                         ELSE <<nodes[ref]>> \o f[To(ref)]
           D == DOMAIN nodes
           Def(f) == [ref \in D |-> At(f, ref)]
           f0 == CHOOSE f : f = Def(f)
           Deep(n) == {ref \in D : L(ref) + n >= Bits}
           Goes(ref) == Covers(nodes[ref], address) /\ To(ref) # 0
           From(ref) == {nodes[other] : other \in {o \in C : L(o) >= L(ref)}}
           order == Downward(values)
<1>1. Walk(nodes, address) = f0[1]
  BY DEF Walk
<1>2. /\ Bits \in Nat /\ Len(nodes) \in Nat \ {0} /\ D = 1 .. Len(nodes)
      /\ \A ref \in D : nodes[ref] \in NodesOf(values) /\ L(ref) \in 0 .. Bits
      /\ L(1) = 0
  <2>1. \A ref \in 1 .. Len(nodes) : nodes[ref] \in NodesOf(values)
    BY DEF Patricia
  <2>2. /\ nodes \in Seq(NodesOf(values)) /\ Len(nodes) \in Nat \ {0}
        /\ D = 1 .. Len(nodes) /\ L(1) = 0
    BY DEF Patricia
  <2>3. QED
    BY <2>1, <2>2, BitsAssumption DEF NodesOf
<1>3. ASSUME NEW ref \in D PROVE Covers(nodes[ref], address) <=> ref \in C
  BY <1>2, CoversAgreeing DEF Covering
<1>4. ASSUME NEW ref \in D, Goes(ref)
      PROVE  To(ref) \in D /\ L(ref) < L(To(ref)) /\ To(ref) = Onward(nodes, ref, address)
  <2>1. L(ref) \in 0 .. Bits - 1 /\ To(ref) = nodes[ref].child[BitAt(address, L(ref)) + 1]
    BY <1>2, <1>4
  <2>2. BitAt(address, L(ref)) + 1 \in {1, 2}
    BY <2>1, BitType
  <2>3. Hangs(nodes, ref, BitAt(address, L(ref)) + 1)
    BY <1>2, <1>4, <2>1, <2>2 DEF Patricia
  <2>4. QED
    BY <1>2, <2>1, <2>3 DEF Hangs, Onward
<1>5. \A ref, other \in C : L(ref) < L(other) => To(ref) = Onward(nodes, ref, address)
  <2>1. C \subseteq D
    BY <1>2 DEF Covering
  <2>2. QED
    BY <1>2, <2>1 DEF Onward
<1> HIDE DEF To, C, D
<1>6. ASSUME NEW n \in Nat, NEW ref \in Deep(n + 1), Goes(ref) PROVE To(ref) \in Deep(n)
  <2>1. To(ref) \in D /\ L(ref) < L(To(ref)) /\ L(ref) \in Nat /\ L(To(ref)) \in Nat
    BY <1>2, <1>4, <1>6
  <2>2. QED
    BY <1>2, <1>6, <2>1
<1>7. \A ref \in Deep(0) : ~ Goes(ref)
  <2>1. ASSUME NEW ref \in Deep(0), Goes(ref) PROVE FALSE
    <3>1. To(ref) \in D /\ L(ref) < L(To(ref)) /\ L(ref) = Bits
      BY <1>2, <1>4, <2>1
    <3>2. QED
      BY <1>2, <3>1
  <2>2. QED
    BY <2>1
<1>8. /\ Deep(Bits) = D
      /\ \A n \in Nat : Deep(n) \subseteq Deep(n + 1) /\ Deep(n) \subseteq D
  BY <1>2
<1> HIDE DEF L, Deep
<1>9. \E f : f = Def(f)
  <2> DEFINE Exists(n) == \E f : f = [ref \in Deep(n) |-> At(f, ref)]
             G == {n \in Nat : Exists(n)}
  <2>1. 0 \in G
    <3> DEFINE g == [ref \in Deep(0) |-> IF ~ Covers(nodes[ref], address) THEN <<>>
                                         ELSE <<nodes[ref]>>]
    <3>1. g = [ref \in Deep(0) |-> At(g, ref)]
      BY <1>7
    <3> HIDE DEF g
    <3>2. Exists(0)
      BY <3>1
    <3> HIDE DEF Exists
    <3>3. QED
      BY <3>2
  <2>2. ASSUME NEW n \in G PROVE n + 1 \in G
    <3>1. n \in Nat
      OBVIOUS
    <3>2. PICK f : f = [ref \in Deep(n) |-> At(f, ref)]
      OBVIOUS
    <3> DEFINE g == [ref \in Deep(n + 1) |-> At(f, ref)]
    <3>3. ASSUME NEW ref \in Deep(n) PROVE ref \in Deep(n + 1) /\ g[ref] = f[ref]
      BY <1>8, <3>1, <3>2
    <3>4. ASSUME NEW ref \in Deep(n + 1) PROVE At(f, ref) = At(g, ref)
      <4>1. Goes(ref) => g[To(ref)] = f[To(ref)]
        BY <1>6, <3>1, <3>3
      <4> HIDE DEF g
      <4>2. QED
        BY <4>1
    <3>5. g = [ref \in Deep(n + 1) |-> At(g, ref)]
      BY <3>4
    <3>6. Exists(n + 1)
      BY <3>5
    <3> HIDE DEF Exists
    <3>7. QED
      BY <3>1, <3>6
  <2>3. G = Nat
    <3> HIDE DEF G
    <3>1. G \in SUBSET Nat
      BY DEF G
    <3>2. QED
      BY <2>1, <2>2, <3>1, NatSetInduction
  <2>4. Exists(Bits)
    BY <1>2, <2>3
  <2>5. QED
    BY <1>8, <2>4
<1>10. f0 = Def(f0)
  BY <1>9
<1> HIDE DEF f0
<1>11. \A ref \in D : f0[ref] = At(f0, ref)
  BY <1>10
<1>12. ASSUME NEW ref \in C, NEW other \in C
       PROVE  /\ L(ref) \in Nat /\ L(other) \in Nat /\ ref \in D
              /\ nodes[ref] \in NodesOf(values)
              /\ L(ref) = L(other) => ref = other
              /\ L(ref) < L(other) =>
                   To(ref) \in C /\ L(ref) < L(To(ref)) /\ L(To(ref)) <= L(other)
  <2>1. ref \in D /\ other \in D
    BY <1>2 DEF C, Covering
  <2>2. /\ L(ref) = L(other) => ref = other
        /\ L(ref) < L(other) =>
              /\ Onward(nodes, ref, address) \in C
              /\ L(ref) < L(Onward(nodes, ref, address))
              /\ L(Onward(nodes, ref, address)) <= L(other)
    BY CoveringChain DEF C, L
  <2>3. QED
    BY <1>2, <1>5, <2>1, <2>2
<1> DEFINE Right(ref) == SequenceOf(From(ref), order, f0[ref])
<1>13. ASSUME NEW ref \in C, Goes(ref) => (To(ref) \in C => Right(To(ref))) PROVE Right(ref)
  <2>1. ref \in D /\ Covers(nodes[ref], address)
    BY <1>3, <1>12
  <2>2. CASE To(ref) \in C
    <3>1. Goes(ref) /\ f0[ref] = <<nodes[ref]>> \o f0[To(ref)]
      <4>1. To(ref) # 0
        BY <1>2, <1>12, <2>2
      <4>2. QED
        BY <1>11, <2>1, <4>1
    <3>2. L(ref) < L(To(ref))
      BY <1>4, <2>1, <3>1
    <3>3. \A o \in C : L(o) >= L(ref) <=> o = ref \/ L(o) >= L(To(ref))
      <4>1. ASSUME NEW o \in C PROVE L(o) >= L(ref) <=> o = ref \/ L(o) >= L(To(ref))
        <5>1. L(o) \in Nat /\ L(ref) \in Nat /\ L(To(ref)) \in Nat
          BY <1>12, <2>2
        <5>2. L(ref) = L(o) => ref = o
          BY <1>12
        <5>3. L(ref) < L(o) => L(To(ref)) <= L(o)
          BY <1>12
        <5>4. QED
          BY <3>2, <5>1, <5>2, <5>3
      <4>2. QED
        BY <4>1
    <3>4. From(ref) = From(To(ref)) \cup {nodes[ref]}
      BY <3>3
    <3>5. ASSUME NEW y \in From(To(ref)) PROVE <<nodes[ref], y>> \in order
      <4>1. PICK o \in C : L(o) >= L(To(ref)) /\ y = nodes[o]
        OBVIOUS
      <4>2. nodes[ref] \in NodesOf(values) /\ y \in NodesOf(values)
        BY <1>12, <4>1
      <4>3. L(ref) \in Nat /\ L(To(ref)) \in Nat /\ L(o) \in Nat
        BY <1>12, <2>2
      <4>4. nodes[ref].length < y.length
        BY <3>2, <4>1, <4>3 DEF L
      <4>5. QED
        BY <4>2, <4>4 DEF Downward
    <3>6. SequenceOf(From(To(ref)), order, f0[To(ref)])
      BY <1>13, <2>2, <3>1
    <3> HIDE DEF From, order
    <3>7. SequenceOf(From(To(ref)) \cup {nodes[ref]}, order, <<nodes[ref]>> \o f0[To(ref)])
      BY <3>5, <3>6, Prepended
    <3>8. QED
      BY <3>1, <3>4, <3>7
  <2>3. CASE To(ref) \notin C
    <3>1. ASSUME NEW o \in C PROVE L(o) >= L(ref) <=> o = ref
      <4>1. L(o) \in Nat /\ L(ref) \in Nat /\ ~ (L(ref) < L(o)) /\ (L(ref) = L(o) => ref = o)
        BY <1>12, <2>3
      <4>2. QED
        BY <4>1
    <3>2. From(ref) = {nodes[ref]}
      BY <3>1
    <3>3. f0[ref] = <<nodes[ref]>>
      <4>1. CASE To(ref) = 0
        BY <1>11, <2>1, <4>1
      <4>2. CASE To(ref) # 0
        <5>1. To(ref) \in D /\ ~ Covers(nodes[To(ref)], address)
          BY <1>3, <1>4, <2>1, <2>3, <4>2
        <5>2. f0[To(ref)] = <<>>
          BY <1>11, <5>1
        <5>3. f0[ref] = <<nodes[ref]>> \o f0[To(ref)]
          BY <1>11, <2>1, <4>2
        <5>4. QED
          BY <5>2, <5>3
      <4>3. QED
        BY <4>1, <4>2
    <3> HIDE DEF From, order
    <3>4. SequenceOf({nodes[ref]}, order, <<nodes[ref]>>)
      BY DEF SequenceOf
    <3>5. QED
      BY <3>2, <3>3, <3>4
  <2>4. QED
    BY <2>2, <2>3
<1> HIDE DEF Right
<1>14. \A n \in Nat : \A ref \in Deep(n) : ref \in C => Right(ref)
  <2> DEFINE All(n) == \A ref \in Deep(n) : ref \in C => Right(ref)
             H == {n \in Nat : All(n)}
  <2>1. 0 \in H
    BY <1>7, <1>13
  <2>2. ASSUME NEW n \in H PROVE n + 1 \in H
    <3>1. n \in Nat /\ All(n)
      OBVIOUS
    <3>2. ASSUME NEW ref \in Deep(n + 1), ref \in C PROVE Right(ref)
      <4>1. Goes(ref) => To(ref) \in Deep(n)
        BY <1>6, <3>1
      <4>2. Goes(ref) => (To(ref) \in C => Right(To(ref)))
        BY <3>1, <4>1
      <4> HIDE DEF Goes
      <4>3. QED
        BY <1>13, <3>2, <4>2
    <3> HIDE DEF All
    <3>3. All(n + 1)
      BY <3>2 DEF All
    <3>4. QED
      BY <3>1, <3>3
  <2>3. H = Nat
    <3> HIDE DEF H
    <3>1. H \in SUBSET Nat
      BY DEF H
    <3>2. QED
      BY <2>1, <2>2, <3>1, NatSetInduction
  <2>4. ASSUME NEW n \in Nat PROVE All(n)
    <3>1. n \in H
      BY <2>3
    <3>2. QED
      BY <3>1
  <2>5. QED
    BY <2>4
<1>15. 1 \in C /\ 1 \in D /\ L(1) = 0
  BY <1>2 DEF C, Covering, Agree, L
<1>16. Right(1)
  BY <1>2, <1>8, <1>14, <1>15
<1>17. From(1) = {nodes[ref] : ref \in C}
  <2>1. \A o \in C : L(o) >= L(1)
    BY <1>12, <1>15
  <2>2. QED
    BY <2>1
<1>18. QED
  BY <1>1, <1>16, <1>17 DEF Right, C

-----------------------------------------------------------------------------
(* What a trie holds *)

SamePrefix(one, two) == one.length = two.length /\ Agree(one.address, two.address, one.length)

\* The node of a prefix: at most one.
NodesAt(nodes, prefix) == {ref \in 1 .. Len(nodes) : SamePrefix(nodes[ref], prefix)}

HoldsAt(nodes, prefix, value) == \E ref \in NodesAt(nodes, prefix) : nodes[ref].value = value

\* A prefix has one node.
LEMMA OneNodeEach ==
  ASSUME NEW nodes, NEW values, NEW nothing, Patricia(nodes, values, nothing),
         NEW prefix, APrefix(prefix),
         NEW one \in NodesAt(nodes, prefix), NEW two \in NodesAt(nodes, prefix)
  PROVE  one = two
<1>1. one \in Covering(nodes, prefix.address) /\ two \in Covering(nodes, prefix.address)
  BY DEF NodesAt, SamePrefix, Covering
<1>2. nodes[one].length = nodes[two].length /\ prefix.address \in Nat
  BY DEF NodesAt, SamePrefix, APrefix
<1>3. QED
  BY <1>1, <1>2, CoveringChain

\* The first nodes are those that were there, and the last ones are new: one of
\* the prefix, with its value, and perhaps an empty one.
LEMMA InsertedNodes ==
  ASSUME NEW nodes, NEW values, NEW nothing \in values, Patricia(nodes, values, nothing),
         NEW prefix, APrefix(prefix), NEW value \in values, value # nothing
  PROVE  LET more == Insert(nodes, prefix, value, nothing) IN
         /\ Len(nodes) \in Nat /\ Len(more) \in Nat /\ Len(nodes) <= Len(more)
         /\ \A ref \in 1 .. Len(nodes) :
              /\ more[ref].address = nodes[ref].address
              /\ more[ref].length = nodes[ref].length
              /\ more[ref].value = nodes[ref].value \/ ref \in NodesAt(more, prefix)
         /\ \A ref \in Len(nodes) + 1 .. Len(more) :
              ref \in NodesAt(more, prefix) \/ more[ref].value = nothing
         /\ HoldsAt(more, prefix, value)
<1> DEFINE stop == Stop(nodes, prefix)
           parent == stop.parent
           at == stop.at
           branch == Branch(prefix, nodes[parent].length)
           common == CommonLength(nodes[at], prefix)
           new == Len(nodes) + 1
           linked == Linked(nodes, parent, branch)
           fork == Fork(prefix, common, nodes[at], at, nothing)
           Right(more) ==
             /\ Len(nodes) \in Nat /\ Len(more) \in Nat /\ Len(nodes) <= Len(more)
             /\ \A ref \in 1 .. Len(nodes) :
                  /\ more[ref].address = nodes[ref].address
                  /\ more[ref].length = nodes[ref].length
                  /\ more[ref].value = nodes[ref].value \/ ref \in NodesAt(more, prefix)
             /\ \A ref \in Len(nodes) + 1 .. Len(more) :
                  ref \in NodesAt(more, prefix) \/ more[ref].value = nothing
             /\ HoldsAt(more, prefix, value)
<1>1. StopsAt(nodes, prefix, stop)
  BY DescentStops
<1>2. Insert(nodes, prefix, value, nothing)
        = IF parent = 0 THEN [nodes EXCEPT ![at].value = value]
          ELSE IF at = 0 THEN Append(linked, Node(prefix, value))
          ELSE IF common = prefix.length THEN Append(linked, [fork EXCEPT !.value = value])
          ELSE linked \o <<[fork EXCEPT !.child[Branch(prefix, common)] = new + 1],
                           Node(prefix, value)>>
  BY DEF Insert, Linked
<1>3. /\ nodes \in Seq(NodesOf(values)) /\ Len(nodes) \in Nat \ {0} /\ DOMAIN nodes = 1 .. Len(nodes)
      /\ \A ref \in 1 .. Len(nodes) : nodes[ref] \in NodesOf(values)
      /\ prefix.address \in Nat /\ prefix.length \in 0 .. Bits /\ prefix.length \in Nat /\ Bits \in Nat
  <2>1. \A ref \in 1 .. Len(nodes) : nodes[ref] \in NodesOf(values)
    BY DEF Patricia
  <2>2. nodes \in Seq(NodesOf(values)) /\ Len(nodes) \in Nat \ {0} /\ DOMAIN nodes = 1 .. Len(nodes)
    BY DEF Patricia
  <2>3. QED
    BY <2>1, <2>2, BitsAssumption DEF APrefix
<1>4. /\ Node(prefix, value) \in NodesOf(values)
      /\ SamePrefix(Node(prefix, value), prefix) /\ Node(prefix, value).value = value
  BY NewNode DEF SamePrefix
<1> HIDE DEF stop
<1>5. CASE parent = 0
  <2> DEFINE more == [nodes EXCEPT ![at].value = value]
             node == [nodes[at] EXCEPT !.value = value]
  <2>1. at \in 1 .. Len(nodes) /\ SamePrefix(nodes[at], prefix)
    BY <1>1, <1>5 DEF StopsAt, SamePrefix, Patricia
  <2> HIDE DEF at
  <2>2. /\ node.value = value /\ node.address = nodes[at].address
        /\ node.length = nodes[at].length
    BY <1>3, <2>1 DEF NodesOf
  <2>3. more = [nodes EXCEPT ![at] = node]
    OBVIOUS
  <2> HIDE DEF node
  <2>4. /\ Len(more) = Len(nodes) /\ more[at] = node
        /\ \A ref \in 1 .. Len(nodes) : ref # at => more[ref] = nodes[ref]
    BY <1>3, <2>1, <2>3
  <2> HIDE DEF more
  <2>5. at \in NodesAt(more, prefix)
    BY <2>1, <2>2, <2>4 DEF NodesAt, SamePrefix
  <2>6. HoldsAt(more, prefix, value)
    BY <2>2, <2>4, <2>5 DEF HoldsAt
  <2>7. ASSUME NEW ref \in 1 .. Len(nodes)
        PROVE  /\ more[ref].address = nodes[ref].address /\ more[ref].length = nodes[ref].length
               /\ more[ref].value = nodes[ref].value \/ ref \in NodesAt(more, prefix)
    BY <2>2, <2>4, <2>5
  <2>8. \A ref \in Len(nodes) + 1 .. Len(more) : FALSE
    BY <1>3, <2>4
  <2>9. Right(more)
    BY <1>3, <2>4, <2>6, <2>7, <2>8
  <2>10. QED
    BY <1>2, <1>5, <2>9 DEF more
<1>6. CASE parent # 0
  <2>1. /\ parent \in 1 .. Len(nodes) /\ nodes[parent].length < prefix.length
        /\ Agree(nodes[parent].address, prefix.address, nodes[parent].length)
        /\ at = nodes[parent].child[branch]
        /\ at = 0 \/ common < nodes[at].length
    BY <1>1, <1>6 DEF StopsAt
  <2> HIDE DEF parent, at
  <2>2. nodes[parent].length \in 0 .. Bits - 1 /\ branch \in {1, 2}
    BY <2>1, StoppedAbove
  <2>3. /\ linked \in Seq(NodesOf(values)) /\ Len(linked) = Len(nodes)
        /\ Relinked(nodes, linked, parent, branch)
    BY <2>1, <2>2, SlotSet
  <2> HIDE DEF branch, linked
  <2>4. ASSUME NEW more, Len(more) \in Nat, Len(more) >= new,
               \A ref \in 1 .. Len(nodes) : more[ref] = linked[ref],
               \A ref \in new .. Len(more) :
                  SamePrefix(more[ref], prefix) \/ more[ref].value = nothing,
               NEW last \in new .. Len(more), SamePrefix(more[last], prefix),
               more[last].value = value
        PROVE  Right(more)
    <3>1. ASSUME NEW ref \in 1 .. Len(nodes)
          PROVE  /\ more[ref].address = nodes[ref].address
                 /\ more[ref].length = nodes[ref].length
                 /\ more[ref].value = nodes[ref].value
      <4>1. more[ref] = linked[ref]
        BY <2>4
      <4>2. QED
        BY <2>3, <4>1 DEF Relinked
    <3>2. last \in 1 .. Len(more) /\ \A ref \in new .. Len(more) : ref \in 1 .. Len(more)
      BY <1>3, <2>4
    <3>3. HoldsAt(more, prefix, value)
      BY <2>4, <3>2 DEF HoldsAt, NodesAt
    <3>4. \A ref \in Len(nodes) + 1 .. Len(more) :
            ref \in NodesAt(more, prefix) \/ more[ref].value = nothing
      BY <2>4, <3>2 DEF NodesAt
    <3>5. Len(nodes) \in Nat /\ Len(nodes) <= Len(more)
      BY <1>3, <2>4
    <3>6. QED
      BY <2>4, <3>1, <3>3, <3>4, <3>5
  <2>5. ASSUME NEW node \in NodesOf(values), SamePrefix(node, prefix), node.value = value
        PROVE  Right(Append(linked, node))
    <3> DEFINE more == Append(linked, node)
    <3>1. /\ Len(more) = new /\ more[new] = node
          /\ \A ref \in 1 .. Len(nodes) : more[ref] = linked[ref]
      BY <1>3, <2>3
    <3> HIDE DEF more
    <3>2. \A ref \in new .. Len(more) : ref = new
      BY <1>3, <3>1
    <3>3. Right(more)
      <4>1. Len(more) \in Nat /\ Len(more) >= new /\ new \in new .. Len(more)
        BY <1>3, <3>1
      <4>2. \A ref \in new .. Len(more) :
              SamePrefix(more[ref], prefix) \/ more[ref].value = nothing
        BY <2>5, <3>1, <3>2
      <4> HIDE DEF Right
      <4>3. QED
        BY <2>4, <2>5, <3>1, <4>1, <4>2
    <3>4. QED
      BY <3>3 DEF more
  <2>6. CASE at = 0
    <3>1. Right(Append(linked, Node(prefix, value)))
      BY <1>4, <2>5
    <3> HIDE DEF Right
    <3>2. Right(Insert(nodes, prefix, value, nothing))
      BY <1>2, <1>6, <2>6, <3>1
    <3>3. QED
      BY <3>2 DEF Right
  <2>7. CASE at # 0
    <3>1. Hangs(nodes, parent, branch)
      BY <2>1, <2>2, <2>7 DEF Patricia
    <3>2. at \in 2 .. Len(nodes) /\ at \in 1 .. Len(nodes) /\ at \in Nat
      BY <1>3, <2>1, <3>1 DEF Hangs
    <3>3. /\ nodes[at].length \in 0 .. Bits /\ nodes[at].length \in Nat /\ nodes[at].address \in Nat
      <4>1. nodes[at] \in NodesOf(values)
        BY <1>3, <3>2
      <4>2. QED
        BY ONLY <4>1, BitsAssumption DEF NodesOf
    <3>4. common \in Nat /\ common <= prefix.length /\ common < nodes[at].length
      BY <1>3, <2>1, <2>7, <3>3, CommonIsMaximal
    <3>5. common \in 0 .. Bits - 1 /\ common \in 0 .. Bits
      BY <1>3, <3>3, <3>4
    <3>6. Branch(nodes[at], common) \in {1, 2} /\ Branch(prefix, common) \in {1, 2}
      <4>1. /\ BitAt(nodes[at].address, common) \in {0, 1}
            /\ BitAt(prefix.address, common) \in {0, 1}
        BY <1>3, <3>3, <3>5, BitType
      <4>2. QED
        BY <4>1 DEF Branch
    <3> HIDE DEF common
    <3>7. /\ fork \in NodesOf(values) /\ fork.length = common /\ fork.value = nothing
          /\ Agree(fork.address, prefix.address, common)
      BY <3>2, <3>4, <3>5, <3>6, ForkedNode
    <3> HIDE DEF fork
    <3>8. CASE common = prefix.length
      <4> DEFINE node == [fork EXCEPT !.value = value]
      <4>1. node \in NodesOf(values) /\ node.value = value /\ SamePrefix(node, prefix)
        BY <3>7, <3>8 DEF NodesOf, SamePrefix
      <4>2. Right(Append(linked, node))
        <5> HIDE DEF node, Right
        <5>1. QED
          BY <2>5, <4>1
      <4> HIDE DEF Right
      <4>3. Right(Insert(nodes, prefix, value, nothing))
        BY <1>2, <1>6, <2>7, <3>8, <4>2
      <4>4. QED
        BY <4>3 DEF Right
    <3>9. CASE common # prefix.length
      <4> DEFINE child == [fork.child EXCEPT ![Branch(prefix, common)] = new + 1]
                 one == [fork EXCEPT !.child = child]
                 two == Node(prefix, value)
                 more == linked \o <<one, two>>
      <4>1. child \in [{1, 2} -> Nat]
        BY <1>3, <3>6, <3>7, SMTT(30), ZenonT(30) DEF NodesOf
      <4>2. one = [fork EXCEPT !.child[Branch(prefix, common)] = new + 1]
        OBVIOUS
      <4> HIDE DEF child
      <4>3. one \in NodesOf(values) /\ one.value = nothing
        BY <3>7, <4>1 DEF NodesOf
      <4>4. two \in NodesOf(values) /\ SamePrefix(two, prefix) /\ two.value = value
        BY <1>4
      <4> HIDE DEF one, two
      <4>5. /\ Len(more) = new + 1 /\ more[new] = one /\ more[new + 1] = two
            /\ \A ref \in 1 .. Len(nodes) : more[ref] = linked[ref]
        <5>1. <<one, two>> \in Seq(NodesOf(values)) /\ Len(<<one, two>>) = 2
          BY <4>3, <4>4
        <5>2. QED
          BY <1>3, <2>3, <5>1
      <4> HIDE DEF more
      <4>6. \A ref \in new .. Len(more) : ref = new \/ ref = new + 1
        BY <1>3, <4>5
      <4>7. Right(more)
        <5>1. Len(more) \in Nat /\ Len(more) >= new /\ new + 1 \in new .. Len(more)
          BY <1>3, <4>5
        <5>2. \A ref \in new .. Len(more) :
                SamePrefix(more[ref], prefix) \/ more[ref].value = nothing
          BY <4>3, <4>4, <4>5, <4>6
        <5> HIDE DEF Right
        <5>3. QED
          BY <2>4, <4>4, <4>5, <5>1, <5>2
      <4> HIDE DEF Right
      <4>8. Right(Insert(nodes, prefix, value, nothing))
        BY <1>2, <1>6, <2>7, <3>9, <4>2, <4>7 DEF more, two
      <4>9. QED
        BY <4>8 DEF Right
    <3>10. QED
      BY <3>8, <3>9
  <2>8. QED
    BY <2>6, <2>7
<1>7. QED
  BY <1>5, <1>6

\* Prefixes that are the same.
LEMMA SamePrefixes ==
  ASSUME NEW one, NEW two, NEW three, SamePrefix(one, three)
  PROVE  SamePrefix(one, two) <=> SamePrefix(two, three)
<1>1. one.length = three.length /\ Agree(one.address, three.address, one.length)
  BY DEF SamePrefix
<1>2. ASSUME SamePrefix(one, two) PROVE SamePrefix(two, three)
  BY <1>1, <1>2 DEF SamePrefix, Agree
<1>3. ASSUME SamePrefix(two, three) PROVE SamePrefix(one, two)
  BY <1>1, <1>3 DEF SamePrefix, Agree
<1>4. QED
  BY <1>2, <1>3

\* insert changes what one prefix holds and nothing else.
THEOREM InsertSetsOne ==
  ASSUME NEW nodes, NEW values, NEW nothing \in values, Patricia(nodes, values, nothing),
         NEW prefix, APrefix(prefix), NEW value \in values, value # nothing,
         NEW other, APrefix(other), NEW found, found # nothing
  PROVE  HoldsAt(Insert(nodes, prefix, value, nothing), other, found)
           <=> IF SamePrefix(other, prefix) THEN found = value
               ELSE HoldsAt(nodes, other, found)
<1> DEFINE more == Insert(nodes, prefix, value, nothing)
<1>1. /\ Len(nodes) \in Nat /\ Len(more) \in Nat /\ Len(nodes) <= Len(more)
      /\ \A ref \in 1 .. Len(nodes) :
           /\ more[ref].address = nodes[ref].address
           /\ more[ref].length = nodes[ref].length
           /\ more[ref].value = nodes[ref].value \/ ref \in NodesAt(more, prefix)
      /\ \A ref \in Len(nodes) + 1 .. Len(more) :
           ref \in NodesAt(more, prefix) \/ more[ref].value = nothing
      /\ HoldsAt(more, prefix, value)
  BY InsertedNodes
<1>2. Patricia(more, values, nothing)
  BY InsertKeepsPatricia
<1> HIDE DEF more
<1>3. ASSUME NEW ref \in NodesAt(more, prefix) PROVE more[ref].value = value
  BY <1>1, <1>2, OneNodeEach DEF HoldsAt
<1>4. ASSUME SamePrefix(other, prefix) PROVE NodesAt(more, other) = NodesAt(more, prefix)
  <2>1. \A ref \in 1 .. Len(more) : SamePrefix(more[ref], other) <=> SamePrefix(more[ref], prefix)
    BY <1>4 DEF SamePrefix, Agree
  <2>2. QED
    BY <2>1 DEF NodesAt
<1>5. ASSUME ~ SamePrefix(other, prefix), NEW ref \in NodesAt(more, other)
      PROVE  ref \notin NodesAt(more, prefix)
  <2>1. ASSUME SamePrefix(more[ref], prefix), SamePrefix(more[ref], other)
        PROVE  SamePrefix(other, prefix)
    BY <2>1, SamePrefixes
  <2>2. QED
    BY <1>5, <2>1 DEF NodesAt
<1>6. CASE SamePrefix(other, prefix)
  <2>1. HoldsAt(more, other, found) <=> HoldsAt(more, prefix, found)
    BY <1>4, <1>6 DEF HoldsAt
  <2>2. HoldsAt(more, prefix, found) <=> found = value
    BY <1>1, <1>3 DEF HoldsAt
  <2>3. QED
    BY <1>6, <2>1, <2>2 DEF more
<1>7. CASE ~ SamePrefix(other, prefix)
  <2>1. ASSUME HoldsAt(more, other, found) PROVE HoldsAt(nodes, other, found)
    <3>1. PICK ref \in NodesAt(more, other) : more[ref].value = found
      BY <2>1 DEF HoldsAt
    <3>2. ref \notin NodesAt(more, prefix) /\ ref \in 1 .. Len(more)
      BY <1>5, <1>7 DEF NodesAt
    <3>3. ref \in 1 .. Len(nodes)
      <4>1. ref \notin Len(nodes) + 1 .. Len(more)
        BY <1>1, <3>1, <3>2
      <4>2. QED
        BY <1>1, <3>2, <4>1
    <3>4. ref \in NodesAt(nodes, other) /\ nodes[ref].value = found
      BY <1>1, <3>1, <3>2, <3>3 DEF NodesAt, SamePrefix
    <3>5. QED
      BY <3>4 DEF HoldsAt
  <2>2. ASSUME HoldsAt(nodes, other, found) PROVE HoldsAt(more, other, found)
    <3>1. PICK ref \in NodesAt(nodes, other) : nodes[ref].value = found
      BY <2>2 DEF HoldsAt
    <3>2. ref \in 1 .. Len(nodes) /\ ref \in 1 .. Len(more)
      BY <1>1 DEF NodesAt
    <3>3. ref \in NodesAt(more, other)
      BY <1>1, <3>2 DEF NodesAt, SamePrefix
    <3>4. more[ref].value = found
      BY <1>1, <1>5, <1>7, <3>1, <3>2, <3>3
    <3>5. QED
      BY <3>3, <3>4 DEF HoldsAt
  <2>3. QED
    BY <1>7, <2>1, <2>2 DEF more
<1>8. QED
  BY <1>6, <1>7

\* What insert finds at a prefix is what the trie holds there.
LEMMA HeldIsThere ==
  ASSUME NEW nodes, NEW values, NEW nothing \in values, Patricia(nodes, values, nothing),
         NEW prefix, APrefix(prefix), NEW value, value # nothing
  PROVE  Held(nodes, prefix, nothing) = value <=> HoldsAt(nodes, prefix, value)
<1> DEFINE stop == Stop(nodes, prefix)
           parent == stop.parent
           at == stop.at
<1>1. StopsAt(nodes, prefix, stop)
  BY DescentStops
<1>2. Held(nodes, prefix, nothing) = IF parent = 0 THEN nodes[at].value ELSE nothing
  BY DEF Held
<1>3. /\ prefix.address \in Nat /\ prefix.length \in 0 .. Bits
      /\ \A ref \in 1 .. Len(nodes) : nodes[ref].length \in 0 .. Bits
  <2>1. \A ref \in 1 .. Len(nodes) : nodes[ref] \in NodesOf(values)
    BY DEF Patricia
  <2>2. QED
    BY <2>1 DEF NodesOf, APrefix
<1> HIDE DEF stop
<1>4. CASE parent = 0
  <2>1. at \in NodesAt(nodes, prefix)
    BY <1>1, <1>4 DEF StopsAt, NodesAt, SamePrefix, Patricia
  <2>2. \A ref \in NodesAt(nodes, prefix) : ref = at
    BY <2>1, OneNodeEach
  <2>3. QED
    BY <1>2, <1>4, <2>1, <2>2 DEF HoldsAt
<1>5. CASE parent # 0
  <2>1. /\ parent \in 1 .. Len(nodes) /\ nodes[parent].length < prefix.length
        /\ Agree(nodes[parent].address, prefix.address, nodes[parent].length)
        /\ at = nodes[parent].child[Branch(prefix, nodes[parent].length)]
        /\ at = 0 \/ CommonLength(nodes[at], prefix) < nodes[at].length
    BY <1>1, <1>5 DEF StopsAt
  <2> HIDE DEF parent, at
  <2>2. ASSUME NEW ref \in NodesAt(nodes, prefix) PROVE FALSE
    <3>1. /\ parent \in Covering(nodes, prefix.address) /\ ref \in Covering(nodes, prefix.address)
          /\ nodes[parent].length < nodes[ref].length /\ nodes[ref].length = prefix.length
      BY <2>1 DEF NodesAt, SamePrefix, Covering
    <3>2. Onward(nodes, parent, prefix.address) = at
      BY <2>1 DEF Onward, Branch
    <3>3. at \in Covering(nodes, prefix.address) /\ nodes[at].length <= prefix.length
      BY <1>3, <3>1, <3>2, CoveringChain
    <3>4. at \in 1 .. Len(nodes) /\ Agree(nodes[at].address, prefix.address, nodes[at].length)
      BY <3>3 DEF Covering
    <3>5. CommonLength(nodes[at], prefix) >= nodes[at].length
      BY <1>3, <3>3, <3>4, CommonIsAtLeast, BitsAssumption
    <3>6. CommonLength(nodes[at], prefix) \in Nat /\ nodes[at].length \in Nat
      BY <1>3, <3>4, CommonIsMaximal, BitsAssumption
    <3>7. at # 0
      BY <3>4, BitsAssumption DEF Patricia
    <3>8. QED
      BY <2>1, <3>5, <3>6, <3>7
  <2>3. QED
    BY <1>2, <1>5, <2>2 DEF HoldsAt
<1>6. QED
  BY <1>4, <1>5

\* A trie begins with nothing in it.
LEMMA EmptyHoldsNothing ==
  ASSUME NEW nothing, NEW prefix, NEW value, value # nothing
  PROVE  ~ HoldsAt(EmptyTrie(nothing), prefix, value)
<1>1. /\ Len(EmptyTrie(nothing)) = 1
      /\ EmptyTrie(nothing)[1].value = nothing
  BY DEF EmptyTrie, Node
<1>2. QED
  BY <1>1 DEF HoldsAt, NodesAt

-----------------------------------------------------------------------------
(* What lookups in a trie return *)

\* What the elements of the walk are.
LEMMA WalkNodes ==
  ASSUME NEW nodes, NEW values, NEW nothing, Patricia(nodes, values, nothing),
         NEW address \in Nat
  PROVE  LET path == Walk(nodes, address) IN
         /\ Len(path) \in Nat /\ DOMAIN path = 1 .. Len(path)
         /\ \A i \in 1 .. Len(path) :
              path[i] \in NodesOf(values) /\ \E ref \in Covering(nodes, address) : path[i] = nodes[ref]
         /\ \A ref \in Covering(nodes, address) : \E i \in 1 .. Len(path) : path[i] = nodes[ref]
         /\ \A i, j \in 1 .. Len(path) : i < j => path[i].length < path[j].length
<1> DEFINE path == Walk(nodes, address)
           seen == {nodes[ref] : ref \in Covering(nodes, address)}
<1>1. SequenceOf(seen, Downward(values), path)
  BY WalkVisits
<1>2. \A node \in seen : node \in NodesOf(values)
  <2>1. \A ref \in 1 .. Len(nodes) : nodes[ref] \in NodesOf(values)
    BY DEF Patricia
  <2>2. QED
    BY <2>1 DEF Covering
<1> HIDE DEF path
<1>3. /\ path \in Seq(seen) /\ Len(path) \in Nat /\ DOMAIN path = 1 .. Len(path)
      /\ {path[i] : i \in 1 .. Len(path)} = seen
      /\ \A i, j \in 1 .. Len(path) : i < j => <<path[i], path[j]>> \in Downward(values)
  <2>1. path \in Seq(seen)
    BY <1>1 DEF SequenceOf
  <2>2. DOMAIN path = 1 .. Len(path) /\ Len(path) \in Nat
    BY <2>1
  <2>3. QED
    BY <1>1, <2>1, <2>2 DEF SequenceOf
<1>4. \A i \in 1 .. Len(path) : path[i] \in seen
  BY <1>3
<1>5. \A ref \in Covering(nodes, address) : \E i \in 1 .. Len(path) : path[i] = nodes[ref]
  <2>1. ASSUME NEW ref \in Covering(nodes, address)
        PROVE  \E i \in 1 .. Len(path) : path[i] = nodes[ref]
    <3>1. nodes[ref] \in {path[i] : i \in 1 .. Len(path)}
      BY <1>3
    <3>2. QED
      BY <3>1
  <2>2. QED
    BY <2>1
<1>6. \A i, j \in 1 .. Len(path) : i < j => path[i].length < path[j].length
  BY <1>3 DEF Downward
<1>7. QED
  BY <1>2, <1>3, <1>4, <1>5, <1>6 DEF path

\* What is found is what the last of the first n nodes that holds routes holds.
LastFull(path, n, found) ==
  \/ found = NoRoutes /\ \A k \in 1 .. n : path[k].value = NoRoutes
  \/ \E k \in 1 .. n : /\ path[k].value = found /\ found # NoRoutes
                       /\ \A j \in k + 1 .. n : path[j].value = NoRoutes

\* One node more.
LEMMA LastFullOnward ==
  ASSUME NEW path, NEW n \in Nat, NEW found, LastFull(path, n, found)
  PROVE  LastFull(path, n + 1,
                  IF path[n + 1].value = NoRoutes THEN found ELSE path[n + 1].value)
<1>1. \A k \in 1 .. n + 1 : k \in 1 .. n \/ k = n + 1
  OBVIOUS
<1>2. CASE path[n + 1].value = NoRoutes
  <2>1. CASE found = NoRoutes /\ \A k \in 1 .. n : path[k].value = NoRoutes
    <3>1. \A k \in 1 .. n + 1 : path[k].value = NoRoutes
      BY <1>1, <1>2, <2>1
    <3>2. QED
      BY <1>2, <2>1, <3>1 DEF LastFull
  <2>2. ASSUME NEW k \in 1 .. n, path[k].value = found, found # NoRoutes,
               \A j \in k + 1 .. n : path[j].value = NoRoutes
        PROVE  LastFull(path, n + 1, found)
    <3>1. \A j \in k + 1 .. n + 1 : j \in k + 1 .. n \/ j = n + 1
      OBVIOUS
    <3>2. \A j \in k + 1 .. n + 1 : path[j].value = NoRoutes
      BY <1>2, <2>2, <3>1
    <3>3. k \in 1 .. n + 1
      OBVIOUS
    <3>4. QED
      BY <2>2, <3>2, <3>3 DEF LastFull
  <2>3. QED
    BY <1>2, <2>1, <2>2 DEF LastFull
<1>3. CASE path[n + 1].value # NoRoutes
  <2>1. n + 1 \in 1 .. n + 1 /\ \A j \in (n + 1) + 1 .. n + 1 : FALSE
    OBVIOUS
  <2>2. QED
    BY <1>3, <2>1 DEF LastFull
<1>4. QED
  BY <1>2, <1>3

\* A lookup of routes returns what the longest of the covering nodes that hold
\* routes holds.
THEOREM RouteLookupIsLongest ==
  ASSUME NEW nodes, Patricia(nodes, RouteValues, NoRoutes), NEW address \in Nat
  PROVE  LET found == LookupRouteLPM(nodes, address)
             Full == {ref \in Covering(nodes, address) : nodes[ref].value # NoRoutes}
         IN  IF Full = {} THEN found = NoRoutes
             ELSE \E ref \in Full : /\ nodes[ref].value = found
                                    /\ \A other \in Full : nodes[other].length <= nodes[ref].length
<1> DEFINE path == Walk(nodes, address)
           m == Len(path)
           Pick(best, node) == IF node.value = NoRoutes THEN best ELSE node.value
           step == [i \in 1 .. m |-> [best \in RouteValues |-> Pick(best, path[i])]]
           At(f, s) == IF s = {} THEN NoRoutes
                       ELSE Pick(f[s \ {Greatest(s)}], path[Greatest(s)])
           D == DOMAIN path
           Def(f) == [s \in SUBSET D |-> At(f, s)]
           f0 == CHOOSE f : f = Def(f)
           Full == {ref \in Covering(nodes, address) : nodes[ref].value # NoRoutes}
<1>1. LookupRouteLPM(nodes, address) = f0[D]
  BY DEF LookupRouteLPM, FoldLeft, MapThenFoldSet, Max, Greatest
<1>2. /\ m \in Nat /\ D = 1 .. m
      /\ \A i \in 1 .. m : path[i] \in NodesOf(RouteValues)
      /\ \A i \in 1 .. m : \E ref \in Covering(nodes, address) : path[i] = nodes[ref]
      /\ \A ref \in Covering(nodes, address) : \E i \in 1 .. m : path[i] = nodes[ref]
      /\ \A i, j \in 1 .. m : i < j => path[i].length < path[j].length
  BY WalkNodes
<1> HIDE DEF path, m, D
<1>3. NoRoutes \in RouteValues
  BY DEF NoRoutes, RouteValues
<1>4. \A i \in 1 .. m, best \in RouteValues : Pick(best, path[i]) \in RouteValues
  BY <1>2 DEF NodesOf
<1>5. step \in [1 .. m -> [RouteValues -> RouteValues]]
  BY <1>4
<1>6. \A i \in 1 .. m, best \in RouteValues : step[i][best] = Pick(best, path[i])
  OBVIOUS
<1> HIDE DEF step, Pick
<1>7. PICK f \in [SUBSET (1 .. m) -> RouteValues] : FoldOf(m, NoRoutes, step, f)
  BY <1>2, <1>3, <1>5, FoldingWorks
<1>8. ASSUME NEW s \in SUBSET D PROVE f[s] = At(f, s)
  <2>1. f[s] = IF s = {} THEN NoRoutes ELSE step[Greatest(s)][f[s \ {Greatest(s)}]]
    BY <1>2, <1>7 DEF FoldOf
  <2>2. s # {} => /\ Greatest(s) \in 1 .. m /\ s \ {Greatest(s)} \in SUBSET (1 .. m)
                  /\ f[s \ {Greatest(s)}] \in RouteValues
    BY <1>2, GreatestIndex
  <2>3. QED
    BY <1>6, <2>1, <2>2
<1>9. f0 = Def(f0)
  <2>1. f = Def(f)
    BY <1>2, <1>8
  <2>2. QED
    BY <2>1
<1> HIDE DEF f0
<1>10. f0[1 .. m] = f[1 .. m]
  <2>1. ASSUME NEW s \in SUBSET (1 .. m),
               s = {} \/ f0[s \ {Greatest(s)}] = f[s \ {Greatest(s)}]
        PROVE  f0[s] = f[s]
    <3>1. f0[s] = At(f0, s) /\ f[s] = At(f, s)
      BY <1>2, <1>8, <1>9
    <3>2. QED
      BY <2>1, <3>1
  <2>2. QED
    BY <1>2, <2>1, FoldsAgree
<1>11. /\ f[1 .. 0] = NoRoutes
       /\ \A i \in 1 .. m : f[1 .. i] = Pick(f[1 .. i - 1], path[i])
  <2>0. f[1 .. 0] = NoRoutes /\ \A i \in 1 .. m : f[1 .. i] = step[i][f[1 .. i - 1]]
    <3>1. m \in Nat /\ FoldOf(m, NoRoutes, step, f)
      BY <1>2, <1>7
    <3>2. QED
      BY ONLY <3>1, FoldInOrder
  <2>1. \A i \in 1 .. m : f[1 .. i] = step[i][f[1 .. i - 1]] /\ f[1 .. i - 1] \in RouteValues
    <3>1. ASSUME NEW i \in 1 .. m PROVE f[1 .. i - 1] \in RouteValues
      <4>1. (1 .. i - 1) \in SUBSET (1 .. m)
        BY <1>2
      <4>2. QED
        BY <4>1
    <3>2. QED
      BY <2>0, <3>1
  <2>2. QED
    BY <1>6, <2>0, <2>1
<1> DEFINE G == {n \in Nat : n <= m => LastFull(path, n, f[1 .. n])}
<1>12. 0 \in G
  BY <1>11 DEF LastFull
<1>13. ASSUME NEW n \in G PROVE n + 1 \in G
  <2> SUFFICES ASSUME n + 1 <= m PROVE LastFull(path, n + 1, f[1 .. n + 1])
    OBVIOUS
  <2>1. n \in Nat /\ n + 1 \in 1 .. m /\ (n + 1) - 1 = n
    BY <1>2
  <2>2. LastFull(path, n, f[1 .. n])
    BY <1>2, <2>1
  <2>3. f[1 .. n + 1] = IF path[n + 1].value = NoRoutes THEN f[1 .. n] ELSE path[n + 1].value
    BY <1>11, <2>1 DEF Pick
  <2>4. QED
    BY <2>1, <2>2, <2>3, LastFullOnward
<1>14. G = Nat
  <2> HIDE DEF G
  <2>1. G \in SUBSET Nat
    BY DEF G
  <2>2. QED
    BY <1>12, <1>13, <2>1, NatSetInduction
<1>15. LastFull(path, m, f[1 .. m])
  BY <1>2, <1>14
<1> DEFINE found == LookupRouteLPM(nodes, address)
<1>16. found = f[1 .. m]
  BY <1>1, <1>2, <1>10
<1> HIDE DEF found
<1>17. CASE found = NoRoutes /\ \A k \in 1 .. m : path[k].value = NoRoutes
  <2>1. Full = {}
    BY <1>2, <1>17
  <2>2. QED
    BY <1>17, <2>1 DEF found
<1>18. ASSUME NEW k \in 1 .. m, path[k].value = found, found # NoRoutes,
              \A j \in k + 1 .. m : path[j].value = NoRoutes
       PROVE  \E ref \in Full : /\ nodes[ref].value = found
                                /\ \A other \in Full : nodes[other].length <= nodes[ref].length
  <2>1. PICK ref \in Covering(nodes, address) : path[k] = nodes[ref]
    BY <1>2
  <2>2. ref \in Full /\ nodes[ref].value = found
    BY <1>18, <2>1
  <2>3. ASSUME NEW other \in Full PROVE nodes[other].length <= nodes[ref].length
    <3>1. PICK j \in 1 .. m : path[j] = nodes[other]
      BY <1>2
    <3>2. path[j].value # NoRoutes
      BY <3>1
    <3>3. j < k \/ j = k
      <4>1. j \in Nat /\ k \in Nat /\ j <= m
        BY <1>2
      <4>2. j \notin k + 1 .. m
        BY <1>18, <3>2
      <4>3. QED
        BY <1>2, <4>1, <4>2
    <3>4. path[k].length \in Nat /\ path[j].length \in Nat
      <4>1. path[k] \in NodesOf(RouteValues) /\ path[j] \in NodesOf(RouteValues)
        BY <1>2
      <4>2. QED
        BY <4>1, BitsAssumption DEF NodesOf
    <3>5. j < k => path[j].length < path[k].length
      BY <1>2
    <3>6. path[j].length <= path[k].length
      BY <3>3, <3>4, <3>5
    <3>7. QED
      BY <2>1, <3>1, <3>6
  <2>4. QED
    BY <2>2, <2>3
<1>19. QED
  <2>1. CASE \E k \in 1 .. m : /\ path[k].value = found /\ found # NoRoutes
                               /\ \A j \in k + 1 .. m : path[j].value = NoRoutes
    <3>1. \E ref \in Full : /\ nodes[ref].value = found
                            /\ \A other \in Full : nodes[other].length <= nodes[ref].length
      BY <1>18, <2>1
    <3>2. Full # {}
      BY <3>1
    <3>3. QED
      BY <3>1, <3>2 DEF found
  <2>2. QED
    BY <1>15, <1>16, <1>17, <2>1 DEF LastFull

\* What a selection begins with, and what it is after the first n nodes: the
\* best of the candidates among them.
NoneYet == [value |-> NoCandidate, length |-> 0]

BestSoFar(path, n, best) ==
  \/ best = NoneYet /\ \A k \in 1 .. n : path[k].value = NoCandidate
  \/ \E k \in 1 .. n : /\ path[k] = best /\ best.value # NoCandidate
                       /\ \A j \in 1 .. n : path[j].value # NoCandidate => ~ SelectionLess(path[j], best)

Better(best, node) ==
  IF node.value # NoCandidate /\ (best.value = NoCandidate \/ SelectionLess(node, best))
  THEN node ELSE best

\* The order of the selection is strict.
LEMMA SelectionOrder ==
  ASSUME NEW one \in NodesOf(SelectionValues), NEW two \in NodesOf(SelectionValues)
  PROVE  /\ ~ SelectionLess(one, one)
         /\ ~ SelectionLess(one, two) => two.value.width <= one.value.width
         /\ \A three \in NodesOf(SelectionValues) :
              SelectionLess(three, two) /\ SelectionLess(two, one) => SelectionLess(three, one)
<1>1. \A node \in NodesOf(SelectionValues) :
        node.value.width \in Nat /\ node.value.id \in Nat /\ node.length \in Nat
  BY BitsAssumption DEF NodesOf, SelectionValues
<1>2. QED
  BY <1>1 DEF SelectionLess

\* One node more.
LEMMA BestOnward ==
  ASSUME NEW path, NEW n \in Nat, NEW best, BestSoFar(path, n, best),
         \A k \in 1 .. n + 1 : path[k] \in NodesOf(SelectionValues)
  PROVE  BestSoFar(path, n + 1, Better(best, path[n + 1]))
<1> DEFINE node == path[n + 1]
<1>1. \A k \in 1 .. n + 1 : k \in 1 .. n \/ k = n + 1
  OBVIOUS
<1>2. n + 1 \in 1 .. n + 1 /\ \A k \in 1 .. n : k \in 1 .. n + 1
  OBVIOUS
<1>3. CASE node.value = NoCandidate
  <2>1. Better(best, node) = best
    BY <1>3 DEF Better
  <2>2. \A j \in 1 .. n + 1 : path[j].value # NoCandidate => j \in 1 .. n
    BY <1>1, <1>3
  <2>3. QED
    BY <1>1, <1>2, <1>3, <2>1, <2>2 DEF BestSoFar
<1>4. CASE node.value # NoCandidate
  <2>1. CASE best = NoneYet /\ \A k \in 1 .. n : path[k].value = NoCandidate
    <3>1. Better(best, node) = node
      BY <1>4, <2>1 DEF Better, NoneYet
    <3>2. \A j \in 1 .. n + 1 : path[j].value # NoCandidate => ~ SelectionLess(path[j], node)
      <4>1. ~ SelectionLess(node, node)
        BY <1>2, SelectionOrder
      <4>2. QED
        BY <1>1, <2>1, <4>1
    <3>3. QED
      BY <1>2, <1>4, <3>1, <3>2 DEF BestSoFar
  <2>2. ASSUME NEW k \in 1 .. n, path[k] = best, best.value # NoCandidate,
               \A j \in 1 .. n : path[j].value # NoCandidate => ~ SelectionLess(path[j], best)
        PROVE  BestSoFar(path, n + 1, Better(best, node))
    <3>1. best \in NodesOf(SelectionValues) /\ node \in NodesOf(SelectionValues)
      BY <1>2, <2>2
    <3>2. CASE SelectionLess(node, best)
      <4>1. Better(best, node) = node
        BY <1>4, <3>2 DEF Better
      <4>2. ASSUME NEW j \in 1 .. n + 1, path[j].value # NoCandidate
            PROVE  ~ SelectionLess(path[j], node)
        <5>1. CASE j \in 1 .. n
          <6>1. ~ SelectionLess(path[j], best) /\ path[j] \in NodesOf(SelectionValues)
            BY <1>2, <2>2, <4>2, <5>1
          <6>2. QED
            BY <3>1, <3>2, <6>1, SelectionOrder
        <5>2. CASE j = n + 1
          BY <3>1, <5>2, SelectionOrder
        <5>3. QED
          BY <1>1, <5>1, <5>2
      <4>3. QED
        BY <1>2, <1>4, <4>1, <4>2 DEF BestSoFar
    <3>3. CASE ~ SelectionLess(node, best)
      <4>1. Better(best, node) = best
        BY <2>2, <3>3 DEF Better
      <4>2. \A j \in 1 .. n + 1 : path[j].value # NoCandidate => ~ SelectionLess(path[j], best)
        BY <1>1, <2>2, <3>3
      <4>3. QED
        BY <1>2, <2>2, <4>1, <4>2 DEF BestSoFar
    <3>4. QED
      BY <3>2, <3>3
  <2>3. QED
    BY <2>1, <2>2 DEF BestSoFar
<1>5. QED
  BY <1>3, <1>4

\* A lookup of a selection returns the record of the best of the candidates that
\* the covering nodes hold.
THEOREM SelectionLookupIsBest ==
  ASSUME NEW nodes, Patricia(nodes, SelectionValues, NoCandidate), NEW address \in Nat
  PROVE  LET found == LookupSelectionLPM(nodes, address)
             Full == {ref \in Covering(nodes, address) : nodes[ref].value # NoCandidate}
         IN  IF Full = {} THEN found = 0
             ELSE \E ref \in Full : /\ nodes[ref].value.id = found
                                    /\ \A other \in Full : ~ SelectionLess(nodes[other], nodes[ref])
<1> DEFINE path == Walk(nodes, address)
           m == Len(path)
           V == NodesOf(SelectionValues) \cup {NoneYet}
           step == [i \in 1 .. m |-> [best \in V |-> Better(best, path[i])]]
           At(f, s) == IF s = {} THEN NoneYet
                       ELSE Better(f[s \ {Greatest(s)}], path[Greatest(s)])
           D == DOMAIN path
           Def(f) == [s \in SUBSET D |-> At(f, s)]
           f0 == CHOOSE f : f = Def(f)
           Full == {ref \in Covering(nodes, address) : nodes[ref].value # NoCandidate}
<1>1. LookupSelectionLPM(nodes, address) = f0[D].value.id
  BY DEF LookupSelectionLPM, FoldLeft, MapThenFoldSet, Max, Greatest, Better, NoneYet
<1>2. /\ m \in Nat /\ D = 1 .. m
      /\ \A i \in 1 .. m : path[i] \in NodesOf(SelectionValues)
      /\ \A i \in 1 .. m : \E ref \in Covering(nodes, address) : path[i] = nodes[ref]
      /\ \A ref \in Covering(nodes, address) : \E i \in 1 .. m : path[i] = nodes[ref]
  BY WalkNodes
<1> HIDE DEF path, m, D
<1>3. NoneYet \in V
  OBVIOUS
<1>4. \A i \in 1 .. m, best \in V : Better(best, path[i]) \in V
  BY <1>2 DEF Better
<1> HIDE DEF V
<1>5. step \in [1 .. m -> [V -> V]]
  BY <1>4
<1>6. \A i \in 1 .. m, best \in V : step[i][best] = Better(best, path[i])
  OBVIOUS
<1> HIDE DEF step
<1>7. PICK f \in [SUBSET (1 .. m) -> V] : FoldOf(m, NoneYet, step, f)
  BY <1>2, <1>3, <1>5, FoldingWorks
<1>8. ASSUME NEW s \in SUBSET D PROVE f[s] = At(f, s)
  <2>1. f[s] = IF s = {} THEN NoneYet ELSE step[Greatest(s)][f[s \ {Greatest(s)}]]
    BY <1>2, <1>7 DEF FoldOf
  <2>2. s # {} => /\ Greatest(s) \in 1 .. m /\ s \ {Greatest(s)} \in SUBSET (1 .. m)
                  /\ f[s \ {Greatest(s)}] \in V
    BY <1>2, GreatestIndex
  <2>3. QED
    BY <1>6, <2>1, <2>2
<1>9. f0 = Def(f0)
  <2>1. f = Def(f)
    BY <1>2, <1>8
  <2>2. QED
    BY <2>1
<1> HIDE DEF f0
<1>10. f0[1 .. m] = f[1 .. m]
  <2>1. ASSUME NEW s \in SUBSET (1 .. m),
               s = {} \/ f0[s \ {Greatest(s)}] = f[s \ {Greatest(s)}]
        PROVE  f0[s] = f[s]
    <3>1. f0[s] = At(f0, s) /\ f[s] = At(f, s)
      BY <1>2, <1>8, <1>9
    <3>2. QED
      BY <2>1, <3>1
  <2>2. QED
    BY <1>2, <2>1, FoldsAgree
<1>11. /\ f[1 .. 0] = NoneYet
       /\ \A i \in 1 .. m : f[1 .. i] = Better(f[1 .. i - 1], path[i])
  <2>1. f[1 .. 0] = NoneYet /\ \A i \in 1 .. m : f[1 .. i] = step[i][f[1 .. i - 1]]
    <3>1. m \in Nat /\ FoldOf(m, NoneYet, step, f)
      BY <1>2, <1>7
    <3>2. QED
      BY ONLY <3>1, FoldInOrder
  <2>2. ASSUME NEW i \in 1 .. m PROVE f[1 .. i - 1] \in V
    <3>1. (1 .. i - 1) \in SUBSET (1 .. m)
      BY <1>2
    <3>2. QED
      BY <3>1
  <2>3. QED
    BY <1>6, <2>1, <2>2
<1> DEFINE G == {n \in Nat : n <= m => BestSoFar(path, n, f[1 .. n])}
<1>12. 0 \in G
  BY <1>11 DEF BestSoFar
<1>13. ASSUME NEW n \in G PROVE n + 1 \in G
  <2> SUFFICES ASSUME n + 1 <= m PROVE BestSoFar(path, n + 1, f[1 .. n + 1])
    OBVIOUS
  <2>1. n \in Nat /\ n + 1 \in 1 .. m /\ (n + 1) - 1 = n
    BY <1>2
  <2>2. BestSoFar(path, n, f[1 .. n])
    BY <1>2, <2>1
  <2>3. f[1 .. n + 1] = Better(f[1 .. n], path[n + 1])
    BY <1>11, <2>1
  <2>4. \A k \in 1 .. n + 1 : path[k] \in NodesOf(SelectionValues)
    BY <1>2, <2>1
  <2>5. QED
    BY <2>1, <2>2, <2>3, <2>4, BestOnward
<1>14. G = Nat
  <2> HIDE DEF G
  <2>1. G \in SUBSET Nat
    BY DEF G
  <2>2. QED
    BY <1>12, <1>13, <2>1, NatSetInduction
<1>15. BestSoFar(path, m, f[1 .. m])
  BY <1>2, <1>14
<1> DEFINE found == LookupSelectionLPM(nodes, address)
           best == f[1 .. m]
<1>16. found = best.value.id
  BY <1>1, <1>2, <1>10
<1> HIDE DEF found, best
<1>17. CASE best = NoneYet /\ \A k \in 1 .. m : path[k].value = NoCandidate
  <2>1. Full = {}
    BY <1>2, <1>17
  <2>2. QED
    BY <1>16, <1>17, <2>1 DEF found, NoneYet, NoCandidate
<1>18. ASSUME NEW k \in 1 .. m, path[k] = best, best.value # NoCandidate,
              \A j \in 1 .. m : path[j].value # NoCandidate => ~ SelectionLess(path[j], best)
       PROVE  \E ref \in Full : /\ nodes[ref].value.id = found
                                /\ \A other \in Full : ~ SelectionLess(nodes[other], nodes[ref])
  <2>1. PICK ref \in Covering(nodes, address) : path[k] = nodes[ref]
    BY <1>2
  <2>2. ref \in Full /\ nodes[ref].value.id = found
    BY <1>16, <1>18, <2>1
  <2>3. ASSUME NEW other \in Full PROVE ~ SelectionLess(nodes[other], nodes[ref])
    <3>1. PICK j \in 1 .. m : path[j] = nodes[other]
      BY <1>2
    <3>2. QED
      BY <1>18, <2>1, <3>1
  <2>4. QED
    BY <2>2, <2>3
<1>19. QED
  <2>1. CASE \E k \in 1 .. m : /\ path[k] = best /\ best.value # NoCandidate
                /\ \A j \in 1 .. m : path[j].value # NoCandidate => ~ SelectionLess(path[j], best)
    <3>1. \E ref \in Full : /\ nodes[ref].value.id = found
                            /\ \A other \in Full : ~ SelectionLess(nodes[other], nodes[ref])
      BY <1>18, <2>1
    <3>2. Full # {}
      BY <3>1
    <3>3. QED
      BY <3>1, <3>2 DEF found
  <2>2. QED
    BY <1>15, <1>17, <2>1 DEF BestSoFar, best

\* A masked prefix is a prefix as the tries take it.
LEMMA PrefixKinds ==
  /\ \A prefix \in AllPrefixes : APrefix(prefix) /\ prefix.address \in Addresses
  /\ \A address \in Addresses : address \in Nat
  /\ \A left, right \in AllPrefixes :
       SamePrefix(left, right) <=> left.address = right.address /\ left.length = right.length
  /\ \A left, right \in AllPrefixes : SamePrefix(left, right) => left = right
<1>1. \A address \in Addresses : address \in Nat
  BY DEF Addresses
<1>2. \A prefix \in AllPrefixes :
        /\ APrefix(prefix) /\ prefix.address \in Addresses
        /\ prefix = [address |-> prefix.address, length |-> prefix.length]
  BY <1>1 DEF AllPrefixes, APrefix
<1>3. ASSUME NEW left \in AllPrefixes, NEW right \in AllPrefixes, SamePrefix(left, right)
      PROVE  left = right
  BY <1>3, AgreeingPrefixes DEF SamePrefix
<1>4. ASSUME NEW left \in AllPrefixes, NEW right \in AllPrefixes,
             left.address = right.address, left.length = right.length
      PROVE  SamePrefix(left, right)
  BY <1>4 DEF SamePrefix, Agree
<1>5. QED
  BY <1>1, <1>2, <1>3, <1>4

\* Two prefixes of an address agree in the shorter one's bits.
LEMMA CoveringAgree ==
  ASSUME NEW one, NEW two, NEW address, one.length = two.length,
         Agree(one.address, address, one.length), Agree(two.address, address, two.length)
  PROVE  SamePrefix(one, two)
BY DEF SamePrefix, Agree

-----------------------------------------------------------------------------
(* What a selection trie holds *)

\* A candidate entered at a prefix.
Entries == [prefix : AllPrefixes, candidate : {c \in SelectionValues : c.id # 0}]

\* A selection trie holds at a prefix one of the best of the candidates entered
\* there, and something wherever one was entered.
HoldsBest(nodes, entered) ==
  /\ \A prefix, value : APrefix(prefix) /\ value # NoCandidate /\ HoldsAt(nodes, prefix, value) =>
       /\ \E entry \in entered : SamePrefix(entry.prefix, prefix) /\ entry.candidate = value
       /\ \A entry \in entered :
            SamePrefix(entry.prefix, prefix) => ~ CandidateLess(entry.candidate, value)
  /\ \A entry \in entered :
       \E value \in SelectionValues \ {NoCandidate} : HoldsAt(nodes, entry.prefix, value)

\* What is held at a prefix does not depend on how the prefix is written.
LEMMA HoldsAtSame ==
  ASSUME NEW nodes, NEW one, NEW two, SamePrefix(one, two), NEW value
  PROVE  HoldsAt(nodes, one, value) <=> HoldsAt(nodes, two, value)
<1>1. \A ref \in 1 .. Len(nodes) : SamePrefix(nodes[ref], one) <=> SamePrefix(nodes[ref], two)
  BY DEF SamePrefix, Agree
<1>2. QED
  BY <1>1 DEF HoldsAt, NodesAt

\* The order of candidates is strict.
LEMMA CandidateOrder ==
  ASSUME NEW one \in SelectionValues, NEW two \in SelectionValues
  PROVE  /\ ~ CandidateLess(one, one)
         /\ ~ CandidateLess(one, two) => two.width <= one.width
         /\ \A three \in SelectionValues :
              CandidateLess(three, two) /\ CandidateLess(two, one) => CandidateLess(three, one)
BY DEF CandidateLess, SelectionValues

\* An entry more.
LEMMA CandidateEntered ==
  ASSUME NEW nodes, Patricia(nodes, SelectionValues, NoCandidate),
         NEW entered \in SUBSET Entries, HoldsBest(nodes, entered), NEW new \in Entries
  PROVE  HoldsBest(InsertCandidate(nodes, new.prefix, new.candidate), entered \cup {new})
<1> DEFINE prefix == new.prefix
           candidate == new.candidate
           held == Held(nodes, prefix, NoCandidate)
           more == InsertCandidate(nodes, prefix, candidate)
           all == entered \cup {new}
<1>1. /\ prefix \in AllPrefixes /\ APrefix(prefix)
      /\ candidate \in SelectionValues /\ candidate # NoCandidate
      /\ NoCandidate \in SelectionValues
  BY PrefixKinds DEF Entries, NoCandidate, SelectionValues
<1>2. \A entry \in entered : /\ entry.prefix \in AllPrefixes /\ APrefix(entry.prefix)
                             /\ entry.candidate \in SelectionValues
  BY PrefixKinds DEF Entries
<1>3. \A one, two : SamePrefix(one, two) => SamePrefix(two, one)
  BY DEF SamePrefix, Agree
<1>4. \A value : value # NoCandidate => (held = value <=> HoldsAt(nodes, prefix, value))
  BY <1>1, HeldIsThere
<1>5. ASSUME NEW p, NEW value, APrefix(p), value # NoCandidate, HoldsAt(nodes, p, value)
      PROVE  /\ \E entry \in entered : SamePrefix(entry.prefix, p) /\ entry.candidate = value
             /\ \A entry \in entered :
                  SamePrefix(entry.prefix, p) => ~ CandidateLess(entry.candidate, value)
  BY <1>5 DEF HoldsBest
<1>6. \A entry \in entered :
        \E value \in SelectionValues \ {NoCandidate} : HoldsAt(nodes, entry.prefix, value)
  BY DEF HoldsBest
<1>7. more = IF held = NoCandidate \/ CandidateLess(candidate, held)
             THEN Insert(nodes, prefix, candidate, NoCandidate) ELSE nodes
  BY DEF InsertCandidate
<1> HIDE DEF prefix, candidate, held, more
<1>8. CASE held = NoCandidate \/ CandidateLess(candidate, held)
  <2>1. ASSUME NEW p, APrefix(p), NEW value, value # NoCandidate
        PROVE  HoldsAt(more, p, value) <=> IF SamePrefix(p, prefix) THEN value = candidate
                                           ELSE HoldsAt(nodes, p, value)
    <3>1. more = Insert(nodes, prefix, candidate, NoCandidate)
      BY <1>7, <1>8
    <3>2. QED
      BY <1>1, <2>1, <3>1, InsertSetsOne
  <2>2. ASSUME NEW p, NEW value, APrefix(p), value # NoCandidate, HoldsAt(more, p, value)
        PROVE  /\ \E entry \in all : SamePrefix(entry.prefix, p) /\ entry.candidate = value
               /\ \A entry \in all :
                    SamePrefix(entry.prefix, p) => ~ CandidateLess(entry.candidate, value)
    <3>1. CASE SamePrefix(p, prefix)
      <4>1. value = candidate /\ SamePrefix(prefix, p)
        BY <1>3, <2>1, <2>2, <3>1
      <4>2. ASSUME NEW entry \in entered, SamePrefix(entry.prefix, p)
            PROVE  ~ CandidateLess(entry.candidate, candidate)
        <5>1. PICK v \in SelectionValues \ {NoCandidate} : HoldsAt(nodes, entry.prefix, v)
          BY <1>6
        <5>2. SamePrefix(entry.prefix, prefix)
          BY <3>1, <4>2 DEF SamePrefix, Agree
        <5>3. HoldsAt(nodes, prefix, v)
          BY <5>1, <5>2, HoldsAtSame
        <5>4. held = v
          BY <1>4, <5>3
        <5>5. CandidateLess(candidate, held)
          BY <1>8, <5>4
        <5>6. ~ CandidateLess(entry.candidate, held)
          BY <1>1, <1>5, <5>2, <5>3, <5>4
        <5>7. QED
          BY <1>1, <1>2, <5>4, <5>5, <5>6, CandidateOrder
      <4>3. ~ CandidateLess(candidate, candidate)
        BY <1>1, CandidateOrder
      <4>4. QED
        BY <4>1, <4>2, <4>3 DEF prefix, candidate
    <3>2. CASE ~ SamePrefix(p, prefix)
      <4>1. HoldsAt(nodes, p, value)
        BY <2>1, <2>2, <3>2
      <4>2. ~ SamePrefix(prefix, p)
        BY <1>3, <3>2
      <4>3. QED
        BY <1>5, <2>2, <4>1, <4>2 DEF prefix
    <3>3. QED
      BY <3>1, <3>2
  <2>3. ASSUME NEW entry \in all
        PROVE  \E value \in SelectionValues \ {NoCandidate} : HoldsAt(more, entry.prefix, value)
    <3>1. APrefix(entry.prefix)
      BY <1>1, <1>2 DEF prefix
    <3>2. CASE SamePrefix(entry.prefix, prefix)
      BY <1>1, <2>1, <3>1, <3>2
    <3>3. CASE ~ SamePrefix(entry.prefix, prefix)
      <4>1. entry \in entered
        BY <3>3 DEF prefix, SamePrefix, Agree
      <4>2. QED
        BY <1>6, <2>1, <3>1, <3>3, <4>1
    <3>4. QED
      BY <3>2, <3>3
  <2>4. QED
    BY <2>2, <2>3 DEF HoldsBest, more, prefix, candidate
<1>9. CASE held # NoCandidate /\ ~ CandidateLess(candidate, held)
  <2>1. more = nodes /\ HoldsAt(nodes, prefix, held)
    BY <1>4, <1>7, <1>9
  <2>2. ASSUME NEW p, NEW value, APrefix(p), value # NoCandidate, HoldsAt(nodes, p, value)
        PROVE  /\ \E entry \in all : SamePrefix(entry.prefix, p) /\ entry.candidate = value
               /\ \A entry \in all :
                    SamePrefix(entry.prefix, p) => ~ CandidateLess(entry.candidate, value)
    <3>1. ASSUME SamePrefix(prefix, p) PROVE ~ CandidateLess(candidate, value)
      <4>1. HoldsAt(nodes, prefix, value)
        BY <2>2, <3>1, HoldsAtSame
      <4>2. held = value
        BY <1>4, <2>2, <4>1
      <4>3. QED
        BY <1>9, <4>2
    <3>2. QED
      BY <1>5, <2>2, <3>1 DEF prefix, candidate
  <2>3. held \in SelectionValues
    <3>1. \E entry \in entered : entry.candidate = held
      BY <1>1, <1>5, <1>9, <2>1
    <3>2. QED
      BY <1>2, <3>1
  <2>4. ASSUME NEW entry \in all
        PROVE  \E value \in SelectionValues \ {NoCandidate} : HoldsAt(nodes, entry.prefix, value)
    <3>1. CASE entry = new
      BY <1>9, <2>1, <2>3, <3>1 DEF prefix
    <3>2. QED
      BY <1>6, <3>1
  <2>5. QED
    BY <2>1, <2>2, <2>4 DEF HoldsBest, more, prefix, candidate
<1>10. QED
  BY <1>8, <1>9
=============================================================================
