---------------------------- MODULE PagesProofs ----------------------------
(* Pages put together are the result of the query, for any published file,   *)
(* any query and any page size: what each page takes of what is left, where  *)
(* its cursor stands, and that the next page carries on from there.          *)
EXTENDS Pages, LookupsProofs, SequenceTheorems

-----------------------------------------------------------------------------
(* Sorted sequences, and parts of them *)

\* A sequence of n values.
Listing(seq, n) == n \in Nat /\ Len(seq) = n /\ seq = [i \in 1 .. n |-> seq[i]]

\* The first n values of a sequence, and the others.
FirstOf(seq, n) == [i \in 1 .. n |-> seq[i]]
Others(seq, n) == [i \in 1 .. Len(seq) - n |-> seq[n + i]]

\* No two members of a set come before each other.
OneWay(set, order) == \A x, y \in set : <<x, y>> \in order => <<y, x>> \notin order

\* What a sorted sequence is.
LEMMA SortedListing ==
  ASSUME NEW P, NEW order, NEW seq, SequenceOf(P, order, seq)
  PROVE  /\ Listing(seq, Len(seq)) /\ DOMAIN seq = 1 .. Len(seq) /\ Len(seq) \in Nat
         /\ \A i \in 1 .. Len(seq) : seq[i] \in P
         /\ \A x \in P : \E i \in 1 .. Len(seq) : seq[i] = x
         /\ \A i, j \in 1 .. Len(seq) : i < j => <<seq[i], seq[j]>> \in order
         /\ P = {seq[i] : i \in 1 .. Len(seq)}
<1>1. seq \in Seq(P) /\ {seq[i] : i \in DOMAIN seq} = P
  BY DEF SequenceOf
<1>2. Len(seq) \in Nat /\ DOMAIN seq = 1 .. Len(seq)
  BY <1>1
<1>3. seq = [i \in 1 .. Len(seq) |-> seq[i]]
  BY <1>1
<1>4. \A i, j \in 1 .. Len(seq) : i < j => <<seq[i], seq[j]>> \in order
  BY <1>2 DEF SequenceOf
<1>5. QED
  BY <1>1, <1>2, <1>3, <1>4 DEF Listing

\* And the other way round.
LEMMA ListingSorted ==
  ASSUME NEW P, NEW order, NEW seq, NEW n, Listing(seq, n),
         P = {seq[i] : i \in 1 .. n},
         \A i, j \in 1 .. n : i < j => <<seq[i], seq[j]>> \in order
  PROVE  SequenceOf(P, order, seq)
<1>1. n \in Nat /\ DOMAIN seq = 1 .. n /\ \A i \in 1 .. n : seq[i] \in P
  BY DEF Listing
<1>2. seq \in Seq(P)
  <2>1. seq = [i \in 1 .. n |-> seq[i]]
    BY DEF Listing
  <2>2. seq \in [1 .. n -> P]
    BY <1>1, <2>1
  <2>3. n \in Nat
    BY <1>1
  <2>4. QED
    BY ONLY <2>2, <2>3
<1>3. QED
  BY <1>1, <1>2 DEF SequenceOf

\* A set is sorted in one way only.
LEMMA OneOrder ==
  ASSUME NEW P, NEW order, OneWay(P, order), NEW a, NEW b,
         SequenceOf(P, order, a), SequenceOf(P, order, b)
  PROVE  a = b
<1> DEFINE m == Len(a)
           l == Len(b)
           place == [i \in 1 .. m |-> CHOOSE j \in 1 .. l : b[j] = a[i]]
           number == [j \in 1 .. l |-> j]
<1>1. /\ Listing(a, m) /\ m \in Nat /\ \A i \in 1 .. m : a[i] \in P
      /\ \A x \in P : \E i \in 1 .. m : a[i] = x
      /\ \A i, j \in 1 .. m : i < j => <<a[i], a[j]>> \in order
  BY SortedListing
<1>2. /\ Listing(b, l) /\ l \in Nat /\ \A i \in 1 .. l : b[i] \in P
      /\ \A x \in P : \E i \in 1 .. l : b[i] = x
      /\ \A i, j \in 1 .. l : i < j => <<b[i], b[j]>> \in order
  BY SortedListing
<1> HIDE DEF m, l
<1>3. \A i \in 1 .. m : place[i] \in 1 .. l /\ b[place[i]] = a[i]
  BY <1>1, <1>2
<1> HIDE DEF place
<1>4. ASSUME NEW i \in 1 .. m, NEW j \in 1 .. m, i < j PROVE place[i] < place[j]
  <2>1. <<a[i], a[j]>> \in order /\ <<a[j], a[i]>> \notin order
    BY <1>1, <1>4 DEF OneWay
  <2>2. place[i] # place[j]
    BY <1>3, <2>1
  <2>3. ~ (place[j] < place[i])
    BY <1>2, <1>3, <2>1
  <2>4. place[i] \in Nat /\ place[j] \in Nat
    BY <1>2, <1>3
  <2>5. QED
    BY <2>2, <2>3, <2>4
<1>5. Rises(place, m) /\ Rises(number, l)
  BY <1>1, <1>2, <1>3, <1>4 DEF Rises
<1>6. \A j \in 1 .. l : \E i \in 1 .. m : place[i] = j
  <2>1. ASSUME NEW j \in 1 .. l PROVE \E i \in 1 .. m : place[i] = j
    <3>1. PICK i \in 1 .. m : a[i] = b[j]
      BY <1>1, <1>2
    <3>2. b[place[i]] = b[j] /\ place[i] \in 1 .. l
      BY <1>3, <3>1
    <3>3. ~ (place[i] < j) /\ ~ (j < place[i])
      BY <1>2, <3>2 DEF OneWay
    <3>4. QED
      BY <1>2, <3>2, <3>3
  <2>2. QED
    BY <2>1
<1>7. Within(place, m, number, l) /\ Within(number, l, place, m)
  BY <1>3, <1>6 DEF Within
<1>8. Begins(place, m, number, l) /\ Begins(number, l, place, m)
  BY <1>5, <1>7, AscendingAgree
<1>9. m = l
  BY <1>1, <1>2, <1>8 DEF Begins
<1>10. \A i \in 1 .. m : place[i] = i
  BY <1>8, <1>9 DEF Begins
<1>11. \A i \in 1 .. m : a[i] = b[i]
  BY <1>3, <1>10
<1>12. a = [i \in 1 .. m |-> a[i]] /\ b = [i \in 1 .. m |-> b[i]]
  BY <1>1, <1>2, <1>9 DEF Listing
<1>13. [i \in 1 .. m |-> a[i]] = [i \in 1 .. m |-> b[i]]
  BY <1>11
<1>14. QED
  BY <1>12, <1>13

\* What is left of a sorted sequence is sorted.
LEMMA OthersSorted ==
  ASSUME NEW P, NEW order, NEW seq, SequenceOf(P, order, seq), NEW n \in 0 .. Len(seq)
  PROVE  /\ SequenceOf({seq[i] : i \in n + 1 .. Len(seq)}, order, Others(seq, n))
         /\ Listing(Others(seq, n), Len(seq) - n)
<1> DEFINE m == Len(seq)
           rest == Others(seq, n)
<1>1. /\ m \in Nat /\ n \in 0 .. m
      /\ \A i, j \in 1 .. m : i < j => <<seq[i], seq[j]>> \in order
  BY SortedListing
<1>2. rest = [i \in 1 .. m - n |-> seq[n + i]]
  BY DEF Others
<1> HIDE DEF m, rest
<1>3. m - n \in Nat
  BY <1>1
<1>4. \A i \in 1 .. m - n : rest[i] = seq[n + i] /\ n + i \in n + 1 .. m /\ n + i \in 1 .. m
  BY <1>1, <1>2
<1>5. Listing(rest, m - n)
  <2>1. DOMAIN rest = 1 .. m - n
    BY <1>2
  <2>2. Len(rest) = m - n
    BY <1>3, <2>1
  <2>3. rest = [i \in 1 .. m - n |-> rest[i]]
    BY <1>2
  <2>4. QED
    BY <1>3, <2>2, <2>3 DEF Listing
<1>6. {seq[i] : i \in n + 1 .. m} = {rest[i] : i \in 1 .. m - n}
  <2>1. \A i \in n + 1 .. m : i - n \in 1 .. m - n /\ n + (i - n) = i
    BY <1>1
  <2>2. ASSUME NEW i \in n + 1 .. m PROVE \E j \in 1 .. m - n : rest[j] = seq[i]
    BY <1>4, <2>1
  <2>3. ASSUME NEW j \in 1 .. m - n PROVE \E i \in n + 1 .. m : rest[j] = seq[i]
    BY <1>4
  <2>4. QED
    BY <2>2, <2>3
<1>7. \A i, j \in 1 .. m - n : i < j => <<rest[i], rest[j]>> \in order
  <2>1. ASSUME NEW i \in 1 .. m - n, NEW j \in 1 .. m - n, i < j
        PROVE  <<rest[i], rest[j]>> \in order
    <3>1. n + i < n + j
      BY <1>1, <2>1
    <3>2. QED
      BY <1>1, <1>4, <3>1
  <2>2. QED
    BY <2>1
<1>8. QED
  BY <1>5, <1>6, <1>7, ListingSorted DEF m, rest

\* What comes after one of a sorted sequence.
LEMMA AfterSorted ==
  ASSUME NEW P, NEW order, OneWay(P, order), NEW seq, SequenceOf(P, order, seq),
         NEW n \in 1 .. Len(seq)
  PROVE  {x \in P : <<seq[n], x>> \in order} = {seq[i] : i \in n + 1 .. Len(seq)}
<1>1. /\ Len(seq) \in Nat /\ \A i \in 1 .. Len(seq) : seq[i] \in P
      /\ \A x \in P : \E i \in 1 .. Len(seq) : seq[i] = x
      /\ \A i, j \in 1 .. Len(seq) : i < j => <<seq[i], seq[j]>> \in order
  BY SortedListing
<1>2. ASSUME NEW i \in 1 .. Len(seq) PROVE <<seq[n], seq[i]>> \in order <=> n < i
  <2>1. i < n => <<seq[n], seq[i]>> \notin order
    BY <1>1 DEF OneWay
  <2>2. i = n => <<seq[n], seq[i]>> \notin order
    BY <1>1 DEF OneWay
  <2>3. QED
    BY <1>1, <2>1, <2>2
<1>3. \A i \in 1 .. Len(seq) : i \in n + 1 .. Len(seq) <=> n < i
  BY <1>1
<1>4. \A i \in n + 1 .. Len(seq) : i \in 1 .. Len(seq)
  BY <1>1
<1>5. QED
  BY <1>1, <1>2, <1>3, <1>4

\* Each of these comes before each of those.
AllBefore(set, others, order) == \A x \in set : \A y \in others : <<x, y>> \in order

\* Two sorted sequences one after the other.
LEMMA JoinSorted ==
  ASSUME NEW P, NEW Q, NEW order, NEW a, NEW b,
         SequenceOf(P, order, a), SequenceOf(Q, order, b),
         AllBefore(P, Q, order)
  PROVE  /\ SequenceOf(P \cup Q, order, a \o b)
         /\ Listing(a \o b, Len(a) + Len(b))
         /\ \A i \in 1 .. Len(a) + Len(b) :
              (a \o b)[i] = IF i <= Len(a) THEN a[i] ELSE b[i - Len(a)]
<1> DEFINE m == Len(a)
           l == Len(b)
           At(i) == IF i <= m THEN a[i] ELSE b[i - m]
           both == a \o b
<1>1. /\ m \in Nat /\ \A i \in 1 .. m : a[i] \in P
      /\ \A x \in P : \E i \in 1 .. m : a[i] = x
      /\ \A i, j \in 1 .. m : i < j => <<a[i], a[j]>> \in order
  BY SortedListing
<1>2. /\ l \in Nat /\ \A i \in 1 .. l : b[i] \in Q
      /\ \A x \in Q : \E i \in 1 .. l : b[i] = x
      /\ \A i, j \in 1 .. l : i < j => <<b[i], b[j]>> \in order
  BY SortedListing
<1>3. both = [i \in 1 .. m + l |-> At(i)] /\ Len(both) = m + l
  <2>1. a \in Seq(P \cup Q) /\ b \in Seq(P \cup Q)
    BY DEF SequenceOf
  <2>2. /\ both \in Seq(P \cup Q) /\ Len(both) = m + l
        /\ \A i \in 1 .. m + l : both[i] = At(i)
    BY <2>1, ConcatProperties
  <2>3. both = [i \in 1 .. m + l |-> both[i]]
    <3> HIDE DEF both, m, l
    <3>1. QED
      BY <2>2
  <2> HIDE DEF both, At
  <2>4. QED
    BY <2>2, <2>3
<1> HIDE DEF m, l, both
<1>4. \A i \in 1 .. m + l : both[i] = At(i)
  BY <1>3
<1>5. \A i \in 1 .. m + l : i \in 1 .. m \/ (~ (i <= m) /\ i - m \in 1 .. l)
  BY <1>1, <1>2
<1>6. \A i \in 1 .. m : i \in 1 .. m + l /\ i <= m
  BY <1>1, <1>2
<1>7. \A i \in 1 .. l : m + i \in 1 .. m + l /\ ~ (m + i <= m) /\ (m + i) - m = i
  BY <1>1, <1>2
<1>8. P \cup Q = {both[i] : i \in 1 .. m + l}
  <2>1. \A i \in 1 .. m + l : both[i] \in P \cup Q
    BY <1>1, <1>2, <1>4, <1>5
  <2>2. \A x \in P : \E i \in 1 .. m + l : both[i] = x
    BY <1>1, <1>4, <1>6
  <2>3. \A x \in Q : \E i \in 1 .. m + l : both[i] = x
    BY <1>2, <1>4, <1>7
  <2>4. QED
    BY <2>1, <2>2, <2>3
<1>9. \A i, j \in 1 .. m + l : i < j => <<both[i], both[j]>> \in order
  <2>1. ASSUME NEW i \in 1 .. m + l, NEW j \in 1 .. m + l, i < j
        PROVE  <<both[i], both[j]>> \in order
    <3>1. CASE j <= m
      <4>1. i \in 1 .. m /\ j \in 1 .. m /\ i <= m
        BY <1>1, <2>1, <3>1
      <4>2. QED
        BY <1>1, <1>4, <2>1, <3>1, <4>1
    <3>2. CASE ~ (i <= m)
      <4>1. i - m \in 1 .. l /\ j - m \in 1 .. l /\ i - m < j - m /\ ~ (j <= m)
        BY <1>1, <1>2, <2>1, <3>2
      <4>2. QED
        BY <1>2, <1>4, <3>2, <4>1
    <3>3. CASE i <= m /\ ~ (j <= m)
      <4>1. i \in 1 .. m /\ j - m \in 1 .. l
        BY <1>1, <1>2, <2>1, <3>3
      <4>2. QED
        BY <1>1, <1>2, <1>4, <3>3, <4>1 DEF AllBefore
    <3>4. QED
      BY <3>1, <3>2, <3>3
  <2>2. QED
    BY <2>1
<1>10. Listing(both, m + l)
  BY <1>1, <1>2, <1>3 DEF Listing
<1> HIDE DEF At
<1>11. SequenceOf(P \cup Q, order, both)
  BY <1>8, <1>9, <1>10, ListingSorted
<1>12. QED
  BY <1>4, <1>10, <1>11 DEF both, m, l, At

-----------------------------------------------------------------------------
(* The orders of pages *)

\* Range keys, their order and that of IDs, as relations.
RangeKeyKind == [start : Nat, end : Nat, id : Nat]

RangeOrder == {pair \in RangeKeyKind \X RangeKeyKind : RangeBefore(pair[1], pair[2])}

IDOrder == {pair \in Nat \X Nat : pair[1] < pair[2]}

\* Keys and IDs come one after the other.
LEMMA PageOrders ==
  /\ OneWay(RangeKeyKind, RangeOrder) /\ OneWay(Nat, IDOrder)
  /\ \A one, two \in RangeKeyKind : <<one, two>> \in RangeOrder <=> RangeBefore(one, two)
  /\ \A one, two \in Nat : <<one, two>> \in IDOrder <=> one < two
<1>1. \A one, two \in RangeKeyKind : <<one, two>> \in RangeOrder <=> RangeBefore(one, two)
  BY DEF RangeOrder
<1>2. \A one, two \in Nat : <<one, two>> \in IDOrder <=> one < two
  BY DEF IDOrder
<1>3. \A key \in RangeKeyKind : key.start \in Nat /\ key.end \in Nat /\ key.id \in Nat
  BY DEF RangeKeyKind
<1>4. \A one, two \in RangeKeyKind : RangeBefore(one, two) => ~ RangeBefore(two, one)
  BY <1>3 DEF RangeBefore
<1>5. OneWay(RangeKeyKind, RangeOrder)
  BY <1>1, <1>4 DEF OneWay
<1>6. OneWay(Nat, IDOrder)
  BY <1>2 DEF OneWay
<1>7. QED
  BY <1>1, <1>2, <1>5, <1>6

\* Some key is first.
LEMMA FirstKey ==
  ASSUME NEW rest \in SUBSET RangeKeyKind, rest # {}
  PROVE  \E x \in rest : \A y \in rest \ {x} : RangeBefore(x, y)
<1> DEFINE S == {x.start : x \in rest}
<1>1. /\ \A x \in rest : x.start \in Nat /\ x.end \in Nat /\ x.id \in Nat
      /\ \A x, y \in rest : x.start = y.start /\ x.end = y.end /\ x.id = y.id => x = y
  BY DEF RangeKeyKind
<1>2. S \in SUBSET Nat /\ S # {}
  BY <1>1
<1>3. PICK s \in S : \A k \in S : s <= k
  <2> HIDE DEF S
  <2>1. QED
    BY <1>2, LeastElement
<1> DEFINE E == {x.end : x \in {y \in rest : y.start = s}}
<1>4. E \in SUBSET Nat /\ E # {}
  BY <1>1
<1>5. PICK e \in E : \A k \in E : e <= k
  <2> HIDE DEF E
  <2>1. QED
    BY <1>4, LeastElement
<1> DEFINE I == {x.id : x \in {y \in rest : y.start = s /\ y.end = e}}
<1>6. I \in SUBSET Nat /\ I # {}
  BY <1>1
<1>7. PICK i \in I : \A k \in I : i <= k
  <2> HIDE DEF I
  <2>1. QED
    BY <1>6, LeastElement
<1>8. PICK x \in rest : x.start = s /\ x.end = e /\ x.id = i
  OBVIOUS
<1>9. ASSUME NEW y \in rest \ {x} PROVE RangeBefore(x, y)
  <2>1. s <= y.start
    BY <1>3
  <2>2. y.start = s => e <= y.end
    BY <1>5
  <2>3. y.start = s /\ y.end = e => i <= y.id
    BY <1>7
  <2>4. ~ (y.start = s /\ y.end = e /\ y.id = i)
    BY <1>1, <1>8
  <2>5. y.start \in Nat /\ y.end \in Nat /\ y.id \in Nat /\ s \in Nat /\ e \in Nat /\ i \in Nat
    BY <1>1, <1>8
  <2> HIDE DEF S, E, I
  <2>6. QED
    BY <1>8, <2>1, <2>2, <2>3, <2>4, <2>5 DEF RangeBefore
<1>10. QED
  BY <1>9

\* A set of keys is sorted by their order.
LEMMA KeysSorted ==
  ASSUME NEW P \in SUBSET RangeKeyKind, IsFiniteSet(P)
  PROVE  SequenceOf(P, RangeOrder, KeysInOrder(P))
<1> DEFINE First(rest) == CHOOSE x \in rest : \A y \in rest \ {x} : RangeBefore(x, y)
           least == [rest \in SUBSET P |-> First(rest)]
           Def(f) == [rest \in SUBSET P |->
                        IF rest = {} THEN <<>> ELSE <<First(rest)>> \o f[rest \ {First(rest)}]]
           f0 == CHOOSE f : f = Def(f)
<1>1. ASSUME NEW rest \in SUBSET P, rest # {}
      PROVE  /\ First(rest) \in rest
             /\ \A y \in rest \ {First(rest)} : RangeBefore(First(rest), y)
  BY <1>1, FirstKey
<1>2. Ascending(P, RangeBefore) = f0[P]
  BY DEF Ascending
<1> HIDE DEF First
<1>3. \A f : f = Def(f) <=> Sorts(P, least, f)
  <2>1. ASSUME NEW f PROVE Def(f) = [rest \in SUBSET P |->
            IF rest = {} THEN <<>> ELSE <<least[rest]>> \o f[rest \ {least[rest]}]]
    OBVIOUS
  <2> HIDE DEF Def, least
  <2>2. QED
    BY <2>1 DEF Sorts
<1>4. \A rest \in SUBSET P : rest # {} =>
            /\ least[rest] \in rest
            /\ \A y \in rest \ {least[rest]} : <<least[rest], y>> \in RangeOrder
  BY <1>1, PageOrders
<1> HIDE DEF Def, least
<1>5. /\ \E from : Sorts(P, least, from)
      /\ \A from : Sorts(P, least, from) => SequenceOf(P, RangeOrder, from[P])
  BY <1>4, SortingWorks
<1>6. f0 = Def(f0)
  BY <1>3, <1>5
<1>7. SequenceOf(P, RangeOrder, f0[P])
  BY <1>3, <1>5, <1>6
<1>8. QED
  BY <1>2, <1>7 DEF KeysInOrder

\* A set of IDs is sorted by number.
LEMMA IDsSorted ==
  ASSUME NEW P \in SUBSET Nat, IsFiniteSet(P)
  PROVE  SequenceOf(P, IDOrder, IDsInOrder(P))
<1> DEFINE order == {pair \in P \X P : pair[1] < pair[2]}
           sorted == IDsInOrder(P)
<1>1. SequenceOf(P, order, sorted)
  BY AscendingNumbers DEF IDsInOrder
<1>2. \A x, y : <<x, y>> \in order => <<x, y>> \in IDOrder
  BY DEF IDOrder
<1> HIDE DEF order, sorted
<1>3. SequenceOf(P, IDOrder, sorted)
  BY <1>1, <1>2 DEF SequenceOf
<1>4. QED
  BY <1>3 DEF sorted

-----------------------------------------------------------------------------
(* One page *)

\* The number of values that fit.
Least(m, n) == IF m <= n THEN m ELSE n

\* What was received and the next of what is left.
LEMMA PagesJoin ==
  ASSUME NEW seq, NEW m, Listing(seq, m), NEW n \in 0 .. m, NEW k \in 0 .. m - n
  PROVE  FirstOf(seq, n) \o FirstOf(Others(seq, n), k) = FirstOf(seq, n + k)
<1> DEFINE V == {seq[i] : i \in 1 .. m}
           a == FirstOf(seq, n)
           b == FirstOf(Others(seq, n), k)
           both == a \o b
<1>1. m \in Nat /\ n \in Nat /\ k \in Nat /\ n + k \in Nat /\ n + k <= m /\ Len(seq) = m
  BY DEF Listing
<1>2. \A i \in 1 .. n : a[i] = seq[i] /\ i \in 1 .. m
  BY <1>1 DEF FirstOf
<1>3. \A i \in 1 .. k : b[i] = seq[n + i] /\ n + i \in 1 .. m
  <2>1. \A i \in 1 .. k : i \in 1 .. m - n /\ n + i \in 1 .. m
    BY <1>1
  <2>2. QED
    BY <1>1, <2>1 DEF FirstOf, Others
<1>4. a \in [1 .. n -> V] /\ b \in [1 .. k -> V]
  <2>1. a = [i \in 1 .. n |-> a[i]] /\ b = [i \in 1 .. k |-> b[i]]
    BY DEF FirstOf
  <2> HIDE DEF a, b
  <2>2. \A i \in 1 .. m : seq[i] \in V
    OBVIOUS
  <2> HIDE DEF V
  <2>3. QED
    BY <1>2, <1>3, <2>1, <2>2
<1> HIDE DEF a, b, V
<1>5. a \in Seq(V) /\ b \in Seq(V) /\ Len(a) = n /\ Len(b) = k
  <2>1. a \in Seq(V) /\ Len(a) = n
    BY ONLY <1>1, <1>4
  <2>2. b \in Seq(V) /\ Len(b) = k
    BY ONLY <1>1, <1>4
  <2>3. QED
    BY <2>1, <2>2
<1>6. /\ both \in Seq(V) /\ Len(both) = n + k
      /\ \A i \in 1 .. n + k : both[i] = IF i <= n THEN a[i] ELSE b[i - n]
  BY <1>5, ConcatProperties
<1> HIDE DEF both
<1>7. both = [i \in 1 .. n + k |-> both[i]]
  BY <1>6
<1>8. \A i \in 1 .. n + k : both[i] = seq[i]
  <2>1. \A i \in 1 .. n + k : \/ i \in 1 .. n /\ i <= n
                              \/ ~ (i <= n) /\ i - n \in 1 .. k /\ n + (i - n) = i
    BY <1>1
  <2>2. QED
    BY <1>2, <1>3, <1>6, <2>1
<1>9. [i \in 1 .. n + k |-> both[i]] = [i \in 1 .. n + k |-> seq[i]]
  BY <1>8
<1>10. QED
  BY <1>7, <1>9 DEF FirstOf, both, a, b

\* A page of IDs is the next of them, and its cursor the last one, if any are left.
LEMMA IDPageIs ==
  ASSUME NEW ids, NEW m, Listing(ids, m), NEW limit \in Nat \ {0}
  PROVE  /\ IDPage(ids, limit).entries = FirstOf(ids, Least(m, limit))
         /\ IDPage(ids, limit).next = IF m <= limit THEN NoCursor ELSE From("id", ids[limit])
<1>1. m \in Nat /\ Len(ids) = m /\ ids = [i \in 1 .. Len(ids) |-> ids[i]]
  BY DEF Listing
<1>2. Upto(ids, limit) = [i \in 1 .. (IF Len(ids) <= limit THEN Len(ids) ELSE limit) |-> ids[i]]
  BY <1>1, UptoIsFront
<1>3. QED
  BY <1>1, <1>2 DEF IDPage, FirstOf, Least

\* These are the direct records after a cursor.
DirectAfter(kind, range, after, seq) ==
  \A maximum \in Int : DirectEntries(kind, range, after, maximum) = Upto(seq, maximum)

\* A page of at most `limit` of these covering and direct records.
PageOfParts(page, C, D, limit, start) ==
  /\ page.entries = FirstOf(C \o D, Least(Len(C) + Len(D), limit))
  /\ page.next = IF Len(C) > limit THEN From("covering", C[limit])
                 ELSE IF Len(C) + Len(D) <= limit THEN NoCursor
                 ELSE IF Len(C) = limit THEN From("direct", StartKey(start))
                 ELSE From("direct", D[limit - Len(C)])

\* A range page is the next of what is left of the covering and the direct records.
LEMMA RangePageIs ==
  ASSUME NEW kind, NEW range, NEW limit \in Nat \ {0}, NEW after,
         NEW C \in Seq(RangeKeyKind), NEW D \in Seq(RangeKeyKind),
         CoveringLeft(kind, range.start, after) = C,
         DirectAfter(kind, range, after, D)
  PROVE  PageOfParts(RangePage(kind, range, limit, after), C, D, limit, range.start)
<1> DEFINE S == RangeKeyKind
           c == Len(C)
           d == Len(D)
           maximum == limit - c + 1
           direct == Upto(D, maximum)
           taken == C \o direct
           all == C \o D
           entries == Upto(taken, limit)
           k == Least(c + d, limit)
           page == RangePage(kind, range, limit, after)
<1>1. c \in Nat /\ d \in Nat /\ maximum \in Int
      /\ (c <= limit => maximum \in Nat \ {0})
      /\ D = [i \in 1 .. d |-> D[i]]
  OBVIOUS
<1> SUFFICES /\ page.entries = FirstOf(all, k)
             /\ page.next = IF c > limit THEN From("covering", C[limit])
                            ELSE IF c + d <= limit THEN NoCursor
                            ELSE IF c = limit THEN From("direct", StartKey(range.start))
                            ELSE From("direct", D[limit - c])
  BY DEF PageOfParts
<1>2. /\ page.entries = entries
      /\ page.next = IF c > limit THEN From("covering", Last(entries))
                     ELSE IF Len(direct) < maximum THEN NoCursor
                     ELSE IF c = limit THEN From("direct", StartKey(range.start))
                     ELSE From("direct", Last(entries))
  BY <1>1 DEF RangePage, DirectAfter
<1>3. /\ Len(all) = c + d /\ all \in Seq(S)
      /\ \A i \in 1 .. c + d : all[i] = IF i <= c THEN C[i] ELSE D[i - c]
  BY ConcatProperties
<1>4. CASE c > limit
  <2>1. direct = <<>>
    <3>1. maximum <= 0
      BY <1>1, <1>4
    <3>2. Len(D) > maximum => SubSeq(D, 1, maximum) = <<>>
      BY <1>1, <3>1, SubSeqEmpty
    <3>3. ~ (Len(D) > maximum) => D = <<>>
      BY <1>1, <3>1
    <3> HIDE DEF maximum
    <3>4. QED
      BY <3>2, <3>3 DEF Upto
  <2>2. taken = C
    <3> HIDE DEF direct
    <3>1. QED
      BY <2>1, ConcatEmptySeq
  <2>3. entries = [i \in 1 .. limit |-> C[i]] /\ Len(entries) = limit
    <3>1. C = [i \in 1 .. c |-> C[i]]
      OBVIOUS
    <3>2. /\ Upto(C, limit) = [i \in 1 .. (IF c <= limit THEN c ELSE limit) |-> C[i]]
          /\ Len(Upto(C, limit)) = IF c <= limit THEN c ELSE limit
      BY <1>1, <3>1, UptoIsFront
    <3> HIDE DEF taken, c
    <3>3. QED
      BY <1>1, <1>4, <2>2, <3>2
  <2> HIDE DEF entries, taken, direct, maximum, c, d, all
  <2>4. k = limit
    BY <1>1, <1>4 DEF Least
  <2>5. entries = FirstOf(all, k)
    <3>0. \A i \in 1 .. limit : i \in 1 .. c + d /\ i <= c
      BY <1>1, <1>4
    <3>1. \A i \in 1 .. limit : all[i] = C[i]
      BY <1>3, <3>0
    <3>2. QED
      BY <2>3, <2>4, <3>1 DEF FirstOf
  <2>6. Last(entries) = C[limit]
    BY <2>3 DEF Last
  <2>7. QED
    BY <1>1, <1>2, <1>4, <2>5, <2>6 DEF c, d, all
<1>5. CASE ~ (c > limit)
  <2>1. maximum \in Nat \ {0} /\ c <= limit
    BY <1>1, <1>5
  <2> DEFINE e == IF d <= maximum THEN d ELSE maximum
  <2>2. direct = [i \in 1 .. e |-> D[i]] /\ Len(direct) = e /\ e \in Nat
    <3> HIDE DEF maximum
    <3>1. /\ Upto(D, maximum) = [i \in 1 .. (IF Len(D) <= maximum THEN Len(D) ELSE maximum) |-> D[i]]
          /\ Len(Upto(D, maximum)) = IF Len(D) <= maximum THEN Len(D) ELSE maximum
      BY <1>1, <2>1, UptoIsFront
    <3>2. QED
      BY <1>1, <2>1, <3>1
  <2>3. direct \in Seq(S)
    <3>1. \A i \in 1 .. e : D[i] \in S
      BY <1>1, <2>1
    <3> HIDE DEF e
    <3>2. direct \in [1 .. e -> S]
      BY <2>2, <3>1
    <3> HIDE DEF direct
    <3>3. QED
      BY ONLY <2>2, <3>2
  <2> HIDE DEF direct
  <2>4. /\ Len(taken) = c + e /\ taken \in Seq(S)
        /\ \A i \in 1 .. c + e : taken[i] = IF i <= c THEN C[i] ELSE direct[i - c]
    BY <2>2, <2>3, ConcatProperties
  <2> HIDE DEF taken, all
  <2>5. \A i \in 1 .. c + e : taken[i] = all[i] /\ i \in 1 .. c + d
    <3>1. e <= d
      BY <1>1, <2>1
    <3>2. \A i \in 1 .. c + e : i \in 1 .. c + d /\ (~ (i <= c) => i - c \in 1 .. e)
      BY <1>1, <2>2, <3>1
    <3> HIDE DEF c, d, e
    <3>3. QED
      BY <1>3, <2>2, <2>4, <3>2
  <2>6. k = (IF c + e <= limit THEN c + e ELSE limit)
    BY <1>1, <2>1 DEF Least
  <2>7. /\ entries = [i \in 1 .. k |-> taken[i]] /\ Len(entries) = k
    <3>1. taken = [i \in 1 .. Len(taken) |-> taken[i]] /\ Len(taken) \in Nat
      BY <2>4
    <3>2. /\ Upto(taken, limit)
                = [i \in 1 .. (IF Len(taken) <= limit THEN Len(taken) ELSE limit) |-> taken[i]]
          /\ Len(Upto(taken, limit)) = IF Len(taken) <= limit THEN Len(taken) ELSE limit
      BY <3>1, UptoIsFront
    <3> HIDE DEF k, e, c
    <3>3. QED
      BY <2>4, <2>6, <3>2
  <2> HIDE DEF entries
  <2>8. entries = FirstOf(all, k)
    <3>1. k \in Nat /\ k <= c + e
      BY <1>1, <2>2, <2>6
    <3>2. \A i \in 1 .. k : i \in 1 .. c + e
      BY <1>1, <2>2, <3>1
    <3> HIDE DEF k, c, e
    <3>3. \A i \in 1 .. k : taken[i] = all[i]
      BY <2>5, <3>2
    <3>4. QED
      BY <2>7, <3>3 DEF FirstOf
  <2>9. Len(direct) < maximum <=> c + d <= limit
    BY <1>1, <2>1, <2>2
  <2>10. c < limit /\ c + d > limit => Last(entries) = D[limit - c]
    <3> SUFFICES ASSUME c < limit, c + d > limit PROVE Last(entries) = D[limit - c]
      OBVIOUS
    <3>1. k = limit /\ limit \in 1 .. c + e /\ limit \in 1 .. c + d
      BY <1>1, <2>1, <2>2, <2>6
    <3>2. Last(entries) = all[limit]
      <4>1. limit \in 1 .. k
        BY <3>1
      <4> HIDE DEF k, c, d, e
      <4>2. entries[k] = all[limit]
        BY <2>8, <3>1, <4>1 DEF FirstOf
      <4>3. QED
        BY <2>7, <4>2 DEF Last
    <3>3. all[limit] = D[limit - c]
      BY <1>1, <1>3, <3>1
    <3>4. QED
      BY <3>2, <3>3
  <2> HIDE DEF k, maximum, e, page
  <2>11. QED
    BY <1>1, <1>2, <1>5, <2>1, <2>8, <2>9, <2>10 DEF all, k, page
<1>6. QED
  BY <1>4, <1>5

-----------------------------------------------------------------------------
(* What a query selects *)

\* The range indexes and the lists of a published file.
LEMMA ServedKeys ==
  ASSUME BuildInv, Served
  PROVE  /\ Data.allocationRange = RangeKeys(Data.allocations)
         /\ Data.routeRange = RouteKeys(Data.routes)
         /\ ASNLists(Data.asnRoutes, Data.routes)
<1>1. IsDatasetOf(output.content, input)
  <2>1. OutputInv
    BY DEF BuildInv
  <2>2. output.is = "data" /\ NoFile.is = "none"
    BY DEF Served, NoFile
  <2>3. QED
    BY <2>1, <2>2 DEF OutputInv
<1>2. QED
  BY <1>1 DEF IsDatasetOf, Data

\* The IDs of the records of a kind.
IDsOf(kind) == DOMAIN (IF kind = "allocations" THEN Data.allocations ELSE Data.routes)

\* What the range pages read of a published file.
LEMMA ServedSpans ==
  ASSUME BuildInv, Served, NEW kind \in RangeKinds
  PROVE  /\ IsFiniteSet(IDsOf(kind)) /\ IDsOf(kind) \in SUBSET (Nat \ {0})
         /\ \A id \in IDsOf(kind) : LET span == RangeOf(kind, id) IN
              span.start \in Nat /\ span.end \in Nat /\ span.start <= span.end
         /\ RangeIndex(kind) = {RangeKey(RangeOf(kind, id), id) : id \in IDsOf(kind)}
         /\ \A address \in Addresses :
              {entry.id : entry \in Matching(PointIndex(kind), address)}
                 = {id \in IDsOf(kind) : InRange(RangeOf(kind, id), address)}
<1>1. /\ Data.allocations \in Seq(Ranges)
      /\ \A id \in DOMAIN Data.allocations :
           Data.allocations[id].start <= Data.allocations[id].end
      /\ Data.routes \in Seq(KeptRoute)
      /\ Data.allocationIndex = RangeEntries(Data.allocations)
      /\ Data.routeIndex = RouteEntries(Data.routes)
      /\ Data.allocationRange = RangeKeys(Data.allocations)
      /\ Data.routeRange = RouteKeys(Data.routes)
  <2>1. ASSUME NEW data, data = output.content PROVE data = Data
    BY <2>1 DEF Data
  <2>2. QED
    BY ServedData, ServedKeys DEF Data
<1>2. CASE kind = "allocations"
  <2>1. /\ IDsOf(kind) = DOMAIN Data.allocations
        /\ \A id : RangeOf(kind, id) = Data.allocations[id]
        /\ PointIndex(kind) = RangeEntries(Data.allocations)
        /\ RangeIndex(kind) = RangeKeys(Data.allocations)
    BY <1>1, <1>2 DEF IDsOf, RangeOf, PointIndex, RangeIndex
  <2> DEFINE records == Data.allocations
  <2>2. /\ records \in Seq(Ranges) /\ \A id \in DOMAIN records : records[id].start <= records[id].end
    BY <1>1
  <2> HIDE DEF records
  <2>3. /\ DOMAIN records = 1 .. Len(records) /\ Len(records) \in Nat
        /\ \A id \in DOMAIN records : records[id] \in Ranges
    BY <2>2
  <2>4. IsFiniteSet(DOMAIN records) /\ DOMAIN records \in SUBSET (Nat \ {0})
    <3>1. IsFiniteSet(DOMAIN records)
      BY <2>3, FS_Interval
    <3>2. \A id \in DOMAIN records : id \in Nat \ {0}
      BY <2>3
    <3>3. QED
      BY <3>1, <3>2
  <2>5. \A id \in DOMAIN records : records[id].start \in Nat /\ records[id].end \in Nat
    BY <2>3 DEF Ranges, Addresses
  <2>6. ASSUME NEW address \in Addresses
        PROVE  {entry.id : entry \in Matching(RangeEntries(records), address)}
                  = {id \in DOMAIN records : InRange(records[id], address)}
    <3>1. FoundFor(Matching(RangeEntries(records), address),
                   {id \in DOMAIN records : InRange(records[id], address)})
      BY <2>2, RangesFound
    <3>2. QED
      BY <3>1 DEF FoundFor
  <2>7. RangeKeys(records) = {RangeKey(records[id], id) : id \in DOMAIN records}
    BY DEF RangeKeys
  <2>8. /\ IDsOf(kind) = DOMAIN records /\ \A id : RangeOf(kind, id) = records[id]
        /\ PointIndex(kind) = RangeEntries(records) /\ RangeIndex(kind) = RangeKeys(records)
    BY <2>1 DEF records
  <2>9. QED
    BY ONLY <2>2, <2>4, <2>5, <2>6, <2>7, <2>8
<1>3. CASE kind = "routes"
  <2>1. /\ IDsOf(kind) = DOMAIN Data.routes
        /\ \A id : RangeOf(kind, id) = PrefixRange(Data.routes[id].prefix)
        /\ PointIndex(kind) = RouteEntries(Data.routes)
        /\ RangeIndex(kind) = RouteKeys(Data.routes)
    BY <1>1, <1>3 DEF IDsOf, RangeOf, PointIndex, RangeIndex
  <2> DEFINE records == Data.routes
             Span(id) == PrefixRange(records[id].prefix)
  <2>2. records \in Seq(KeptRoute)
    BY <1>1
  <2> HIDE DEF records
  <2>3. /\ DOMAIN records = 1 .. Len(records) /\ Len(records) \in Nat
        /\ \A id \in DOMAIN records : records[id].prefix \in AllPrefixes
    <3>1. \A id \in DOMAIN records : records[id] \in KeptRoute
      BY <2>2
    <3>2. QED
      BY <2>2, <3>1 DEF KeptRoute
  <2>4. IsFiniteSet(DOMAIN records) /\ DOMAIN records \in SUBSET (Nat \ {0})
    <3>1. IsFiniteSet(DOMAIN records)
      BY <2>3, FS_Interval
    <3>2. \A id \in DOMAIN records : id \in Nat \ {0}
      BY <2>3
    <3>3. QED
      BY <3>1, <3>2
  <2>5. ASSUME NEW id \in DOMAIN records
        PROVE  Span(id).start \in Nat /\ Span(id).end \in Nat /\ Span(id).start <= Span(id).end
    <3>1. /\ records[id].prefix.address \in Nat
          /\ Size(records[id].prefix.length) \in Nat \ {0}
      BY <2>3, PrefixKinds, SizeIsPositive DEF APrefix
    <3>2. QED
      BY <3>1 DEF PrefixRange, PrefixEnd
  <2>6. ASSUME NEW address \in Addresses
        PROVE  {entry.id : entry \in Matching(RouteEntries(records), address)}
                  = {id \in DOMAIN records : InRange(Span(id), address)}
    <3>1. FoundFor(Matching(RouteEntries(records), address),
                   {id \in DOMAIN records : InRange(PrefixRange(records[id].prefix), address)})
      BY <2>2, RoutesFound
    <3>2. QED
      BY <3>1 DEF FoundFor
  <2>7. RouteKeys(records) = {RangeKey(Span(id), id) : id \in DOMAIN records}
    BY DEF RouteKeys
  <2>8. /\ IDsOf(kind) = DOMAIN records /\ \A id : RangeOf(kind, id) = Span(id)
        /\ PointIndex(kind) = RouteEntries(records) /\ RangeIndex(kind) = RouteKeys(records)
    BY <2>1 DEF records
  <2> HIDE DEF Span
  <2>9. QED
    BY ONLY <2>4, <2>5, <2>6, <2>7, <2>8
<1>4. QED
  BY <1>2, <1>3 DEF RangeKinds

\* The keys that begin in a range.
DirectKeys(kind, range) ==
  {key \in RangeIndex(kind) : range.start <= key.start /\ key.start <= range.end}

\* The records that overlap a range are those that began before it and reach into
\* it, and those that begin in it; the keys of the former come first.
LEMMA OverlapSplit ==
  ASSUME BuildInv, Served, NEW kind \in RangeKinds,
         NEW range \in Ranges, range.start <= range.end
  PROVE  /\ OverlapKeys(kind, range)
              = CoveringEntries(kind, range.start) \cup DirectKeys(kind, range)
         /\ RangeIndex(kind) \in SUBSET RangeKeyKind
         /\ CoveringEntries(kind, range.start) \in SUBSET RangeIndex(kind)
         /\ IsFiniteSet(RangeIndex(kind))
         /\ \A key \in RangeIndex(kind) : key.id > 0
         /\ \A key \in CoveringEntries(kind, range.start) : key.start < range.start
<1> DEFINE ids == IDsOf(kind)
           Span(id) == RangeOf(kind, id)
           Key(id) == RangeKey(Span(id), id)
           start == range.start
           found == {entry.id : entry \in Matching(PointIndex(kind), start)}
<1>1. start \in Addresses /\ start \in Nat /\ range.end \in Nat /\ start <= range.end
  BY DEF Ranges, Addresses
<1>2. /\ IsFiniteSet(ids) /\ ids \in SUBSET (Nat \ {0})
      /\ \A id \in ids : Span(id).start \in Nat /\ Span(id).end \in Nat /\ Span(id).start <= Span(id).end
      /\ RangeIndex(kind) = {Key(id) : id \in ids}
      /\ found = {id \in ids : InRange(Span(id), start)}
  BY <1>1, ServedSpans
<1>3. \A id \in ids : /\ Key(id).start = Span(id).start /\ Key(id).end = Span(id).end
                      /\ Key(id).id = id /\ Key(id) \in RangeKeyKind
  BY <1>2 DEF RangeKey, RangeKeyKind
<1>4. CoveringEntries(kind, start) = {Key(id) : id \in {id \in found : CoversStart(Span(id), start)}}
  BY DEF CoveringEntries
<1>5. OverlapKeys(kind, range)
        = {Key(id) : id \in {id \in ids : Span(id).start <= range.end /\ Span(id).end >= start}}
  BY DEF OverlapKeys, Overlapping, IDsOf
<1> HIDE DEF ids, Span, Key, start, found
<1>6. \A id \in ids : CoversStart(Span(id), start) <=> Span(id).start < start /\ start <= Span(id).end
  BY DEF CoversStart
<1>7. \A id \in ids : CoversStart(Span(id), start) => id \in found
  BY <1>1, <1>2, <1>6 DEF InRange
<1>8. found \in SUBSET ids
  BY <1>2
<1>9. \A key : key \in CoveringEntries(kind, start) <=>
        \E id \in ids : key = Key(id) /\ Span(id).start < start /\ start <= Span(id).end
  BY <1>4, <1>6, <1>7, <1>8
<1>10. \A key : key \in DirectKeys(kind, range) <=>
         \E id \in ids : key = Key(id) /\ start <= Span(id).start /\ Span(id).start <= range.end
  BY <1>2, <1>3 DEF DirectKeys, start
<1>11. \A key : key \in OverlapKeys(kind, range) <=>
         \E id \in ids : key = Key(id) /\ Span(id).start <= range.end /\ Span(id).end >= start
  BY <1>5
<1>12. \A id \in ids : (Span(id).start <= range.end /\ Span(id).end >= start) <=>
           \/ Span(id).start < start /\ start <= Span(id).end
           \/ start <= Span(id).start /\ Span(id).start <= range.end
  BY <1>1, <1>2
<1>13. \A key : key \in OverlapKeys(kind, range) <=>
           key \in CoveringEntries(kind, start) \/ key \in DirectKeys(kind, range)
  BY <1>9, <1>10, <1>11, <1>12
<1>14. IsFiniteSet(RangeIndex(kind))
  <2> DEFINE keyed == [id \in ids |-> Key(id)]
  <2>1. keyed \in Surjection(ids, RangeIndex(kind))
    BY <1>2 DEF Surjection
  <2> HIDE DEF keyed
  <2>2. QED
    BY <1>2, <2>1, FS_Surjection
<1>15. RangeIndex(kind) \in SUBSET RangeKeyKind /\ \A key \in RangeIndex(kind) : key.id > 0
  BY <1>2, <1>3
<1>16. CoveringEntries(kind, start) \in SUBSET RangeIndex(kind)
  BY <1>2, <1>9
<1>17. \A key \in CoveringEntries(kind, start) : key.start < start
  BY <1>3, <1>9
<1>18. OverlapKeys(kind, range) = CoveringEntries(kind, start) \cup DirectKeys(kind, range)
  BY <1>13
<1>19. QED
  BY <1>14, <1>15, <1>16, <1>17, <1>18 DEF start

-----------------------------------------------------------------------------
(* Range pages *)

\* A query of a published file for what overlaps a range.
RangeQuery ==
  /\ BuildInv /\ Served /\ query.kind \in RangeKinds
  /\ query.range \in Ranges /\ query.range.start <= query.range.end

\* What it selects: the records that began before the range, then the others.
CoveringPart == KeysInOrder(CoveringEntries(query.kind, query.range.start))
DirectPart == KeysInOrder(DirectKeys(query.kind, query.range))

\* Sets of keys of a published file are sorted, in one way.
LEMMA KeySets ==
  ASSUME BuildInv, Served, NEW kind \in RangeKinds, NEW P \in SUBSET RangeIndex(kind),
         IsFiniteSet(RangeIndex(kind)), RangeIndex(kind) \in SUBSET RangeKeyKind
  PROVE  /\ SequenceOf(P, RangeOrder, KeysInOrder(P))
         /\ P \in SUBSET RangeKeyKind /\ OneWay(P, RangeOrder)
         /\ \A seq : SequenceOf(P, RangeOrder, seq) => seq = KeysInOrder(P)
<1>1. IsFiniteSet(P)
  BY FS_Subset
<1>2. P \in SUBSET RangeKeyKind
  OBVIOUS
<1>3. SequenceOf(P, RangeOrder, KeysInOrder(P))
  BY <1>1, <1>2, KeysSorted
<1>4. OneWay(P, RangeOrder)
  BY <1>2, PageOrders DEF OneWay
<1> DEFINE sorted == KeysInOrder(P)
<1>5. SequenceOf(P, RangeOrder, sorted)
  BY <1>3
<1> HIDE DEF sorted
<1>6. ASSUME NEW seq, SequenceOf(P, RangeOrder, seq) PROVE seq = sorted
  BY <1>4, <1>5, <1>6, OneOrder
<1>7. QED
  BY <1>2, <1>3, <1>4, <1>6 DEF sorted

\* The result of a range query: its covering part, then its direct part.
LEMMA RangeResult ==
  ASSUME RangeQuery
  PROVE  /\ SequenceOf(CoveringEntries(query.kind, query.range.start), RangeOrder, CoveringPart)
         /\ SequenceOf(DirectKeys(query.kind, query.range), RangeOrder, DirectPart)
         /\ Result = CoveringPart \o DirectPart
         /\ Listing(Result, Len(CoveringPart) + Len(DirectPart))
         /\ \A i \in 1 .. Len(CoveringPart) + Len(DirectPart) :
              Result[i] = IF i <= Len(CoveringPart) THEN CoveringPart[i]
                          ELSE DirectPart[i - Len(CoveringPart)]
<1> DEFINE kind == query.kind
           range == query.range
           start == query.range.start
           P == CoveringEntries(kind, start)
           Q == DirectKeys(kind, range)
           O == OverlapKeys(kind, range)
<1>1. BuildInv /\ Served /\ kind \in RangeKinds /\ range \in Ranges /\ range.start <= range.end
  BY DEF RangeQuery
<1>2. Result = KeysInOrder(O)
  <2>1. query.kind \in RangeKinds /\ query.kind # "prefix"
    BY <1>1 DEF RangeKinds
  <2>2. QED
    BY <2>1 DEF Result
<1> HIDE DEF kind, range
<1>3. /\ O = P \cup Q
      /\ RangeIndex(kind) \in SUBSET RangeKeyKind /\ IsFiniteSet(RangeIndex(kind))
      /\ P \in SUBSET RangeIndex(kind)
      /\ \A key \in P : key.start < start
  BY <1>1, OverlapSplit DEF range
<1>4. Q \in SUBSET RangeIndex(kind)
  BY DEF DirectKeys
<1> HIDE DEF P, Q, O
<1>5. O \in SUBSET RangeIndex(kind)
  BY <1>3, <1>4
<1>6. SequenceOf(P, RangeOrder, CoveringPart) /\ SequenceOf(Q, RangeOrder, DirectPart)
  BY <1>1, <1>3, <1>4, KeySets DEF CoveringPart, DirectPart, P, Q, kind, range
<1>7. AllBefore(P, Q, RangeOrder)
  <2> SUFFICES ASSUME NEW x \in P, NEW y \in Q PROVE <<x, y>> \in RangeOrder
    BY DEF AllBefore
  <2>1. x \in RangeKeyKind /\ y \in RangeKeyKind /\ x.start < start /\ start <= y.start
    BY <1>3, <1>4 DEF Q, DirectKeys, range
  <2>2. x.start \in Nat /\ y.start \in Nat /\ start \in Nat
    BY <1>1, <2>1 DEF RangeKeyKind, Ranges, Addresses, range
  <2>3. RangeBefore(x, y)
    BY <2>1, <2>2 DEF RangeBefore
  <2>4. QED
    BY <2>1, <2>3, PageOrders
<1>8. /\ SequenceOf(P \cup Q, RangeOrder, CoveringPart \o DirectPart)
      /\ Listing(CoveringPart \o DirectPart, Len(CoveringPart) + Len(DirectPart))
      /\ \A i \in 1 .. Len(CoveringPart) + Len(DirectPart) :
           (CoveringPart \o DirectPart)[i]
              = IF i <= Len(CoveringPart) THEN CoveringPart[i]
                ELSE DirectPart[i - Len(CoveringPart)]
  <2>1. SequenceOf(P \cup Q, RangeOrder, CoveringPart \o DirectPart)
    BY ONLY <1>6, <1>7, JoinSorted
  <2>2. Listing(CoveringPart \o DirectPart, Len(CoveringPart) + Len(DirectPart))
    BY ONLY <1>6, <1>7, JoinSorted
  <2>3. \A i \in 1 .. Len(CoveringPart) + Len(DirectPart) :
           (CoveringPart \o DirectPart)[i]
              = IF i <= Len(CoveringPart) THEN CoveringPart[i]
                ELSE DirectPart[i - Len(CoveringPart)]
    BY ONLY <1>6, <1>7, JoinSorted
  <2>4. QED
    BY <2>1, <2>2, <2>3
<1>9. CoveringPart \o DirectPart = KeysInOrder(O)
  <2> DEFINE both == CoveringPart \o DirectPart
  <2>1. SequenceOf(O, RangeOrder, both)
    BY <1>3, <1>8
  <2> HIDE DEF both
  <2>2. both = KeysInOrder(O)
    BY <1>1, <1>3, <1>5, <2>1, KeySets
  <2>3. QED
    BY <2>2 DEF both
<1>10. Result = CoveringPart \o DirectPart
  BY <1>2, <1>9
<1>11. QED
  BY <1>6, <1>8, <1>10 DEF P, Q, kind, range

\* What a client has yet to receive after the covering part, or some of it.
LEMMA CoveringPassed ==
  ASSUME RangeQuery, NEW n \in 0 .. Len(CoveringPart), NEW after,
         \/ n = 0 /\ after = FirstPage
         \/ n > 0 /\ after = From("covering", CoveringPart[n])
  PROVE  /\ CoveringLeft(query.kind, query.range.start, after) = Others(CoveringPart, n)
         /\ DirectAfter(query.kind, query.range, after, DirectPart)
<1> DEFINE kind == query.kind
           range == query.range
           start == query.range.start
           P == CoveringEntries(kind, start)
           Later == {key \in P : after.phase = "covering" => RangeBefore(after.key, key)}
           c == Len(CoveringPart)
<1>1. BuildInv /\ Served /\ kind \in RangeKinds /\ range \in Ranges /\ range.start <= range.end
  BY DEF RangeQuery
<1>2. /\ RangeIndex(kind) \in SUBSET RangeKeyKind /\ IsFiniteSet(RangeIndex(kind))
      /\ P \in SUBSET RangeIndex(kind)
  BY <1>1, OverlapSplit
<1>3. SequenceOf(P, RangeOrder, CoveringPart) /\ OneWay(P, RangeOrder) /\ P \in SUBSET RangeKeyKind
  BY <1>1, <1>2, RangeResult, KeySets
<1>4. /\ c \in Nat /\ \A i \in 1 .. c : CoveringPart[i] \in P
      /\ P = {CoveringPart[i] : i \in 1 .. c}
  BY <1>3, SortedListing
<1>5. after.phase # "direct" /\ (after.phase = "covering" <=> n > 0)
  BY <1>4 DEF FirstPage, From
<1>6. n > 0 => after.key = CoveringPart[n] /\ n \in 1 .. c /\ after.key \in RangeKeyKind
  BY <1>3, <1>4 DEF From
<1>7. CoveringLeft(kind, start, after) = KeysInOrder(Later)
  BY <1>5 DEF CoveringLeft
<1>8. Later = {CoveringPart[i] : i \in n + 1 .. c}
  <2> HIDE DEF P, c
  <2>1. CASE n = 0
    <3>1. Later = P
      BY <1>5, <2>1
    <3>2. n + 1 = 1
      BY <2>1
    <3>3. QED
      BY <1>4, <3>1, <3>2
  <2>2. CASE n > 0
    <3>1. {x \in P : <<CoveringPart[n], x>> \in RangeOrder} = {CoveringPart[i] : i \in n + 1 .. c}
      BY <1>3, <1>6, <2>2, AfterSorted DEF c
    <3>2. Later = {x \in P : <<CoveringPart[n], x>> \in RangeOrder}
      BY <1>3, <1>5, <1>6, <2>2, PageOrders
    <3>3. QED
      BY <3>1, <3>2
  <2>3. QED
    BY <1>4, <2>1, <2>2
<1> HIDE DEF Later, kind, start, range
<1>9. SequenceOf(Later, RangeOrder, Others(CoveringPart, n))
  BY <1>3, <1>8, OthersSorted
<1>10. Later \in SUBSET RangeIndex(kind)
  BY <1>2 DEF Later
<1>11. Others(CoveringPart, n) = KeysInOrder(Later)
  <2> DEFINE others == Others(CoveringPart, n)
  <2>1. SequenceOf(Later, RangeOrder, others)
    BY <1>9
  <2> HIDE DEF others
  <2>2. others = KeysInOrder(Later)
    BY <1>1, <1>2, <1>10, <2>1, KeySets
  <2>3. QED
    BY <2>2 DEF others
<1>12. ASSUME NEW maximum \in Int
       PROVE  DirectEntries(kind, range, after, maximum) = Upto(DirectPart, maximum)
  <2> DEFINE Reached == {key \in RangeIndex(kind) :
                  /\ IF after.phase = "direct" THEN RangeBefore(after.key, key)
                     ELSE range.start <= key.start
                  /\ key.start <= range.end}
  <2>1. DirectEntries(kind, range, after, maximum) = Upto(KeysInOrder(Reached), maximum)
    BY DEF DirectEntries
  <2>2. Reached = DirectKeys(kind, range)
    BY <1>5 DEF DirectKeys
  <2> HIDE DEF Reached
  <2>3. QED
    BY <2>1, <2>2 DEF DirectPart, kind, range
<1>13. QED
  BY <1>7, <1>11, <1>12 DEF DirectAfter, kind, start, range

\* What a client has yet to receive of the direct part.
LEMMA DirectPassed ==
  ASSUME RangeQuery, NEW n \in 0 .. Len(DirectPart), NEW after,
         \/ n = 0 /\ after = From("direct", StartKey(query.range.start))
         \/ n > 0 /\ after = From("direct", DirectPart[n])
  PROVE  /\ CoveringLeft(query.kind, query.range.start, after) = <<>>
         /\ DirectAfter(query.kind, query.range, after, Others(DirectPart, n))
<1> DEFINE kind == query.kind
           range == query.range
           Q == DirectKeys(kind, range)
           Later == {key \in RangeIndex(kind) :
                       RangeBefore(after.key, key) /\ key.start <= range.end}
           d == Len(DirectPart)
<1>1. BuildInv /\ Served /\ kind \in RangeKinds /\ range \in Ranges /\ range.start <= range.end
  BY DEF RangeQuery
<1>2. /\ RangeIndex(kind) \in SUBSET RangeKeyKind /\ IsFiniteSet(RangeIndex(kind))
      /\ \A key \in RangeIndex(kind) : key.id > 0
  BY <1>1, OverlapSplit
<1>3. Q \in SUBSET RangeIndex(kind) /\ \A key \in RangeIndex(kind) :
        key \in Q <=> range.start <= key.start /\ key.start <= range.end
  BY DEF DirectKeys
<1>4. SequenceOf(Q, RangeOrder, DirectPart) /\ OneWay(Q, RangeOrder)
  BY <1>1, <1>2, <1>3, RangeResult, KeySets
<1>5. /\ d \in Nat /\ \A i \in 1 .. d : DirectPart[i] \in Q
      /\ Q = {DirectPart[i] : i \in 1 .. d}
  BY <1>4, SortedListing
<1>6. after.phase = "direct"
  BY DEF From
<1>7. CoveringLeft(kind, range.start, after) = <<>>
  BY <1>6 DEF CoveringLeft
<1>8. Later = {DirectPart[i] : i \in n + 1 .. d}
  <2> HIDE DEF Q, d, kind, range
  <2>0. range.start \in Nat /\ \A key \in RangeKeyKind :
          key.start \in Nat /\ key.end \in Nat /\ key.id \in Nat
    BY <1>1 DEF RangeKeyKind, Ranges, Addresses
  <2>1. CASE n = 0
    <3>1. after.key = StartKey(range.start)
      BY <2>1 DEF From, range
    <3>2. after.key.start = range.start /\ after.key.end = 0 /\ after.key.id = 0
      BY <3>1 DEF StartKey, RangeKey
    <3>3. \A key \in RangeIndex(kind) : RangeBefore(after.key, key) <=> range.start <= key.start
      BY <1>2, <2>0, <3>2 DEF RangeBefore
    <3>4. Later = Q
      BY <1>3, <3>3
    <3>5. QED
      BY <1>5, <2>1, <3>4
  <2>2. CASE n > 0
    <3>1. after.key = DirectPart[n] /\ n \in 1 .. d /\ after.key \in Q
      BY <1>5, <2>2 DEF From, d
    <3>2. {x \in Q : <<DirectPart[n], x>> \in RangeOrder} = {DirectPart[i] : i \in n + 1 .. d}
      BY <1>4, <3>1, AfterSorted DEF d
    <3>3. after.key \in RangeKeyKind /\ range.start <= after.key.start /\ after.key.start \in Nat
      BY <1>2, <1>3, <2>0, <3>1
    <3>4. \A key \in RangeKeyKind : RangeBefore(after.key, key) => range.start <= key.start
      BY <2>0, <3>3 DEF RangeBefore
    <3>5. \A key \in RangeKeyKind : RangeBefore(after.key, key) <=> <<after.key, key>> \in RangeOrder
      BY <3>3, PageOrders
    <3>6. \A key : key \in Later <=> key \in {x \in Q : <<DirectPart[n], x>> \in RangeOrder}
      BY <1>2, <1>3, <3>1, <3>4, <3>5
    <3>7. QED
      BY <3>2, <3>6
  <2>3. QED
    BY <1>5, <2>1, <2>2
<1> HIDE DEF Later, kind, range
<1>9. SequenceOf(Later, RangeOrder, Others(DirectPart, n))
  BY <1>4, <1>8, OthersSorted
<1>10. Later \in SUBSET RangeIndex(kind)
  BY DEF Later
<1>11. Others(DirectPart, n) = KeysInOrder(Later)
  <2> DEFINE others == Others(DirectPart, n)
  <2>1. SequenceOf(Later, RangeOrder, others)
    BY <1>9
  <2> HIDE DEF others
  <2>2. others = KeysInOrder(Later)
    BY <1>1, <1>2, <1>10, <2>1, KeySets
  <2>3. QED
    BY <2>2 DEF others
<1>12. ASSUME NEW maximum \in Int
       PROVE  DirectEntries(kind, range, after, maximum) = Upto(Others(DirectPart, n), maximum)
  <2> DEFINE Reached == {key \in RangeIndex(kind) :
                  /\ IF after.phase = "direct" THEN RangeBefore(after.key, key)
                     ELSE range.start <= key.start
                  /\ key.start <= range.end}
  <2>1. DirectEntries(kind, range, after, maximum) = Upto(KeysInOrder(Reached), maximum)
    BY DEF DirectEntries
  <2>2. Reached = Later
    BY <1>6 DEF Later
  <2> HIDE DEF Reached
  <2>3. QED
    BY <1>11, <2>1, <2>2
<1>13. QED
  BY <1>7, <1>12 DEF DirectAfter, kind, range

\* Where the cursor of a range query stands after n records.
RangeStands(after, n) ==
  \/ n = 0 /\ after = FirstPage
  \/ n \in 1 .. Len(CoveringPart) - 1 /\ after = From("covering", Result[n])
  \/ /\ n \in 1 .. Len(Result) - 1 /\ n >= Len(CoveringPart)
     /\ after = From("direct", IF n = Len(CoveringPart) THEN StartKey(query.range.start)
                               ELSE Result[n])

\* What a page must be after n of m records: the next ones, and a cursor that
\* stands behind them if any are left.
NextRecords(page, n, m, Stands(_, _)) ==
  \E k \in 0 .. m - n :
     /\ page.entries = FirstOf(Others(Result, n), k)
     /\ \/ page.next = NoCursor /\ n + k = m
        \/ k > 0 /\ n + k < m /\ Stands(page.next, n + k)

\* What is left of both parts is what is left of the result.
LEMMA PartsLeft ==
  ASSUME RangeQuery, NEW n \in 0 .. Len(Result)
  PROVE  LET c == Len(CoveringPart)
             d == Len(DirectPart)
         IN  /\ c \in Nat /\ d \in Nat /\ Len(Result) = c + d
             /\ \A i \in 1 .. c : Result[i] = CoveringPart[i]
             /\ \A i \in c + 1 .. c + d : Result[i] = DirectPart[i - c]
             /\ n <= c => /\ Others(CoveringPart, n) \in Seq(RangeKeyKind)
                          /\ Len(Others(CoveringPart, n)) = c - n
                          /\ DirectPart \in Seq(RangeKeyKind)
                          /\ Others(Result, n) = Others(CoveringPart, n) \o DirectPart
             /\ n >= c => /\ Others(DirectPart, n - c) \in Seq(RangeKeyKind)
                          /\ Len(Others(DirectPart, n - c)) = c + d - n
                          /\ Others(Result, n) = <<>> \o Others(DirectPart, n - c)
<1> DEFINE c == Len(CoveringPart)
           d == Len(DirectPart)
           C == CoveringPart
           D == DirectPart
           R == Result
           K == RangeKeyKind
<1>1. /\ Listing(R, c + d)
      /\ \A i \in 1 .. c + d : R[i] = IF i <= c THEN C[i] ELSE D[i - c]
      /\ SequenceOf(CoveringEntries(query.kind, query.range.start), RangeOrder, C)
      /\ SequenceOf(DirectKeys(query.kind, query.range), RangeOrder, D)
  BY RangeResult
<1>2. /\ CoveringEntries(query.kind, query.range.start) \in SUBSET K
      /\ DirectKeys(query.kind, query.range) \in SUBSET K
  BY OverlapSplit DEF RangeQuery, DirectKeys
<1>3. /\ Listing(C, c) /\ c \in Nat /\ \A i \in 1 .. c : C[i] \in K
      /\ Listing(D, d) /\ d \in Nat /\ \A i \in 1 .. d : D[i] \in K
  BY <1>1, <1>2, SortedListing
<1>4. Len(R) = c + d
  BY <1>1 DEF Listing
<1> HIDE DEF c, d, C, D, R, K
<1>5. /\ \A i \in 1 .. c : R[i] = C[i]
      /\ \A i \in c + 1 .. c + d : R[i] = D[i - c]
  <2>1. \A i \in 1 .. c : i \in 1 .. c + d /\ i <= c
    BY <1>3
  <2>2. \A i \in c + 1 .. c + d : i \in 1 .. c + d /\ ~ (i <= c)
    BY <1>3
  <2>3. QED
    BY <1>1, <2>1, <2>2
<1>6. n \in Nat /\ n <= c + d /\ c + d - n \in Nat
  BY <1>3, <1>4 DEF R
<1>7. Others(R, n) = [i \in 1 .. c + d - n |-> R[n + i]]
  <2>1. Others(R, n) = [i \in 1 .. Len(R) - n |-> R[n + i]]
    BY DEF Others
  <2>2. Len(R) - n = c + d - n
    BY <1>3, <1>4, <1>6
  <2>3. QED
    BY <2>1, <2>2
<1>8. ASSUME n <= c
      PROVE  /\ Others(C, n) \in Seq(K) /\ Len(Others(C, n)) = c - n /\ D \in Seq(K)
             /\ Others(R, n) = Others(C, n) \o D
  <2> DEFINE rest == Others(C, n)
             both == rest \o D
  <2>1. c - n \in Nat
    BY <1>3, <1>6, <1>8
  <2>2. rest = [i \in 1 .. c - n |-> C[n + i]]
    BY <1>3 DEF Others, Listing
  <2>3. \A i \in 1 .. c - n : n + i \in 1 .. c
    BY <1>3, <1>6
  <2> HIDE DEF rest
  <2>4. rest \in [1 .. c - n -> K]
    BY <1>3, <2>2, <2>3
  <2>5. rest \in Seq(K) /\ Len(rest) = c - n
    BY ONLY <2>1, <2>4
  <2>6. D \in Seq(K) /\ Len(D) = d
    <3>1. D = [i \in 1 .. d |-> D[i]] /\ Len(D) = d
      BY <1>3 DEF Listing
    <3>2. D \in [1 .. d -> K]
      BY <1>3, <3>1
    <3>3. d \in Nat
      BY <1>3
    <3>4. D \in Seq(K)
      BY ONLY <3>2, <3>3
    <3>5. QED
      BY <3>1, <3>4
  <2>7. /\ both \in Seq(K) /\ Len(both) = (c - n) + d
        /\ \A i \in 1 .. (c - n) + d : both[i] = IF i <= c - n THEN rest[i] ELSE D[i - (c - n)]
    <3>1. /\ both \in Seq(K) /\ Len(both) = Len(rest) + Len(D)
          /\ \A i \in 1 .. Len(rest) + Len(D) :
                both[i] = IF i <= Len(rest) THEN rest[i] ELSE D[i - Len(rest)]
      BY <2>5, <2>6, ConcatProperties
    <3> HIDE DEF both
    <3>2. QED
      BY <2>5, <2>6, <3>1
  <2> HIDE DEF both
  <2>8. both = [i \in 1 .. c + d - n |-> both[i]]
    <3>1. (c - n) + d = c + d - n
      BY <1>3, <1>6
    <3>2. QED
      BY <2>7, <3>1
  <2>9. ASSUME NEW i \in 1 .. c + d - n PROVE both[i] = R[n + i]
    <3>1. i \in 1 .. (c - n) + d
      BY <1>3, <1>6
    <3>2. CASE i <= c - n
      <4>1. i \in 1 .. c - n /\ n + i \in 1 .. c
        BY <1>3, <1>6, <3>2
      <4>2. both[i] = C[n + i]
        BY <2>2, <2>7, <3>1, <3>2, <4>1
      <4>3. QED
        BY <1>5, <4>1, <4>2
    <3>3. CASE ~ (i <= c - n)
      <4>1. n + i \in c + 1 .. c + d /\ i - (c - n) = (n + i) - c
        BY <1>3, <1>6, <3>3
      <4>2. both[i] = D[(n + i) - c]
        BY <2>7, <3>1, <3>3, <4>1
      <4>3. QED
        BY <1>5, <4>1, <4>2
    <3>4. QED
      BY <3>2, <3>3
  <2>10. both = Others(R, n)
    BY <1>7, <2>8, <2>9
  <2>11. QED
    BY <2>5, <2>6, <2>10 DEF rest, both
<1>9. ASSUME n >= c
      PROVE  /\ Others(D, n - c) \in Seq(K) /\ Len(Others(D, n - c)) = c + d - n
             /\ Others(R, n) = <<>> \o Others(D, n - c)
  <2> DEFINE rest == Others(D, n - c)
  <2>1. d - (n - c) = c + d - n
    BY <1>3, <1>6
  <2>2. rest = [i \in 1 .. c + d - n |-> D[(n - c) + i]]
    BY <1>3, <2>1 DEF Others, Listing
  <2>3. \A i \in 1 .. c + d - n : /\ (n - c) + i \in 1 .. d /\ n + i \in c + 1 .. c + d
                                  /\ (n + i) - c = (n - c) + i
    BY <1>3, <1>6, <1>9
  <2> HIDE DEF rest
  <2>4. rest \in [1 .. c + d - n -> K]
    BY <1>3, <2>2, <2>3
  <2>5. rest \in Seq(K) /\ Len(rest) = c + d - n
    BY ONLY <1>6, <2>4
  <2>6. Others(R, n) = rest
    BY <1>5, <1>7, <2>2, <2>3
  <2>7. <<>> \o rest = rest
    BY <2>5, ConcatEmptySeq
  <2>8. QED
    BY <2>5, <2>6, <2>7 DEF rest
<1>10. QED
  BY <1>3, <1>4, <1>5, <1>8, <1>9 DEF c, d, C, D, R, K

\* A range page carries on where its cursor stands.
LEMMA RangeNext ==
  ASSUME RangeQuery, query.limit \in Nat \ {0}, NEW n \in 0 .. Len(Result),
         NEW after, RangeStands(after, n)
  PROVE  NextRecords(RangePage(query.kind, query.range, query.limit, after), n, Len(Result),
                     RangeStands)
<1> DEFINE c == Len(CoveringPart)
           d == Len(DirectPart)
           m == Len(Result)
           limit == query.limit
           start == query.range.start
           page == RangePage(query.kind, query.range, limit, after)
           k == Least(m - n, limit)
           l == n + k
<1>1. /\ c \in Nat /\ d \in Nat /\ m = c + d
      /\ \A i \in 1 .. c : Result[i] = CoveringPart[i]
      /\ \A i \in c + 1 .. c + d : Result[i] = DirectPart[i - c]
  BY PartsLeft
<1>2. limit \in Nat \ {0} /\ n \in Nat /\ n <= m
  BY <1>1
<1>3. k \in 0 .. m - n /\ k \in Nat /\ l \in Nat /\ l <= m /\ k = Least(m - n, limit)
  BY <1>1, <1>2 DEF Least
<1> SUFFICES /\ page.entries = FirstOf(Others(Result, n), k)
             /\ \/ page.next = NoCursor /\ l = m
                \/ k > 0 /\ l < m /\ RangeStands(page.next, l)
  BY <1>3 DEF NextRecords
<1> HIDE DEF page, c, d, m, limit
<1>4. ASSUME NEW left \in Seq(RangeKeyKind), NEW direct \in Seq(RangeKeyKind),
             NEW b, Len(left) = b, Len(left) + Len(direct) = m - n,
             left \o direct = Others(Result, n),
             CoveringLeft(query.kind, start, after) = left,
             DirectAfter(query.kind, query.range, after, direct)
      PROVE  /\ page.entries = FirstOf(Others(Result, n), k)
             /\ b > limit => page.next = From("covering", left[limit])
             /\ m - n <= limit => page.next = NoCursor
             /\ b = limit /\ m - n > limit => page.next = From("direct", StartKey(start))
             /\ b < limit /\ m - n > limit => page.next = From("direct", direct[limit - b])
  <2>0. /\ limit \in Nat \ {0} /\ left \in Seq(RangeKeyKind) /\ direct \in Seq(RangeKeyKind)
        /\ CoveringLeft(query.kind, query.range.start, after) = left
        /\ DirectAfter(query.kind, query.range, after, direct)
    BY <1>2, <1>4
  <2>1. PageOfParts(RangePage(query.kind, query.range, limit, after), left, direct, limit,
                    query.range.start)
    BY ONLY <2>0, RangePageIs
  <2>2. /\ page.entries = FirstOf(left \o direct, Least(Len(left) + Len(direct), limit))
        /\ page.next = IF Len(left) > limit THEN From("covering", left[limit])
                       ELSE IF Len(left) + Len(direct) <= limit THEN NoCursor
                       ELSE IF Len(left) = limit THEN From("direct", StartKey(start))
                       ELSE From("direct", direct[limit - Len(left)])
    BY <2>1 DEF PageOfParts, page
  <2>6. Len(left) \in Nat /\ Len(direct) \in Nat
    OBVIOUS
  <2>7. Len(left) = limit /\ m - n > limit => Len(direct) > 0
    BY <1>2, <1>4, <2>6
  <2>8. QED
    BY <1>2, <1>4, <2>1, <2>2, <2>6, <2>7
<1>5. /\ m - n <= limit => l = m
      /\ m - n > limit => k = limit /\ k > 0 /\ l < m /\ l = n + limit /\ l \in 1 .. m - 1
  BY <1>1, <1>2, <1>3 DEF Least
<1>6. CASE n <= c /\ (n > 0 => n < c)
  <2> DEFINE left == Others(CoveringPart, n)
  <2>1. /\ left \in Seq(RangeKeyKind) /\ Len(left) = c - n /\ DirectPart \in Seq(RangeKeyKind)
        /\ left \o DirectPart = Others(Result, n)
        /\ Len(left) + Len(DirectPart) = m - n
    BY <1>1, <1>2, <1>6, PartsLeft DEF c, d, m
  <2>2. (n = 0 /\ after = FirstPage) \/ (n > 0 /\ after = From("covering", CoveringPart[n]))
    BY <1>1, <1>2, <1>6 DEF RangeStands, c
  <2>3. /\ CoveringLeft(query.kind, start, after) = left
        /\ DirectAfter(query.kind, query.range, after, DirectPart)
    BY <1>2, <1>6, <2>2, CoveringPassed DEF c
  <2>4. left = [i \in 1 .. c - n |-> CoveringPart[n + i]]
    BY DEF Others, c
  <2> HIDE DEF left
  <2>5. /\ page.entries = FirstOf(Others(Result, n), k)
        /\ c - n > limit => page.next = From("covering", left[limit])
        /\ m - n <= limit => page.next = NoCursor
        /\ c - n = limit /\ m - n > limit => page.next = From("direct", StartKey(start))
        /\ c - n < limit /\ m - n > limit => page.next = From("direct", DirectPart[limit - (c - n)])
    BY <1>4, <2>1, <2>3
  <2>6. CASE m - n > limit
    <3>1. CASE c - n > limit
      <4>1. limit \in 1 .. c - n /\ l \in 1 .. c - 1 /\ l \in 1 .. c
        BY <1>1, <1>2, <1>5, <2>6, <3>1
      <4>2. page.next = From("covering", Result[l])
        BY <1>1, <1>5, <2>4, <2>5, <2>6, <3>1, <4>1
      <4>3. RangeStands(page.next, l)
        BY <4>1, <4>2 DEF RangeStands, c
      <4>4. QED
        BY <1>5, <2>5, <2>6, <4>3
    <3>2. CASE c - n = limit
      <4>1. l = c
        BY <1>1, <1>2, <1>5, <2>6, <3>2
      <4>2. RangeStands(page.next, l)
        BY <1>1, <1>5, <2>5, <2>6, <3>2, <4>1 DEF RangeStands, c, m, start
      <4>3. QED
        BY <1>5, <2>5, <2>6, <4>2
    <3>3. CASE c - n < limit
      <4>1. l > c /\ l \in c + 1 .. c + d /\ l - c = limit - (c - n) /\ l # c /\ l >= c
        BY <1>1, <1>2, <1>5, <2>6, <3>3
      <4>2. page.next = From("direct", Result[l])
        BY <1>1, <2>5, <2>6, <3>3, <4>1
      <4>3. RangeStands(page.next, l)
        BY <1>1, <1>5, <2>6, <4>1, <4>2 DEF RangeStands, c, m
      <4>4. QED
        BY <1>5, <2>5, <2>6, <4>3
    <3>4. QED
      BY <1>1, <1>2, <3>1, <3>2, <3>3
  <2>7. QED
    BY <1>1, <1>2, <1>5, <2>5, <2>6
<1>7. CASE n > 0 /\ n >= c
  <2> DEFINE direct == Others(DirectPart, n - c)
  <2>1. /\ direct \in Seq(RangeKeyKind) /\ Len(direct) = m - n
        /\ <<>> \o direct = Others(Result, n)
        /\ <<>> \in Seq(RangeKeyKind) /\ Len(<<>>) = 0 /\ Len(<<>>) + Len(direct) = m - n
    BY <1>1, <1>2, <1>7, PartsLeft DEF c, d, m
  <2>2. /\ n - c \in 0 .. d
        /\ \/ n - c = 0 /\ after = From("direct", StartKey(start))
           \/ n - c > 0 /\ after = From("direct", DirectPart[n - c])
    <3>1. n \in 1 .. m - 1 /\ after = From("direct", IF n = c THEN StartKey(start) ELSE Result[n])
      BY <1>1, <1>2, <1>7 DEF RangeStands, c, m, start
    <3>2. n # c => n \in c + 1 .. c + d
      BY <1>1, <1>2, <1>7
    <3>3. QED
      BY <1>1, <1>2, <1>7, <3>1, <3>2
  <2>3. /\ CoveringLeft(query.kind, start, after) = <<>>
        /\ DirectAfter(query.kind, query.range, after, direct)
    BY <2>2, DirectPassed DEF d
  <2>4. direct = [i \in 1 .. d - (n - c) |-> DirectPart[(n - c) + i]]
    BY DEF Others, d
  <2> HIDE DEF direct
  <2>5. /\ page.entries = FirstOf(Others(Result, n), k)
        /\ m - n <= limit => page.next = NoCursor
        /\ m - n > limit => page.next = From("direct", direct[limit - 0])
    <3>1. 0 < limit /\ ~ (0 > limit) /\ 0 # limit
      BY <1>2
    <3>2. QED
      BY <1>4, <2>1, <2>3, <3>1
  <2>6. CASE m - n > limit
    <3>1. /\ limit - 0 \in 1 .. d - (n - c) /\ l \in c + 1 .. c + d
          /\ (n - c) + (limit - 0) = l - c /\ l # c /\ l >= c
      BY <1>1, <1>2, <1>5, <1>7, <2>6
    <3>2. page.next = From("direct", Result[l])
      BY <1>1, <2>4, <2>5, <2>6, <3>1
    <3>3. RangeStands(page.next, l)
      BY <1>1, <1>5, <2>6, <3>1, <3>2 DEF RangeStands, c, m
    <3>4. QED
      BY <1>5, <2>5, <2>6, <3>3
  <2>7. QED
    BY <1>1, <1>2, <1>5, <2>5, <2>6
<1>8. QED
  <2>1. \/ n <= c /\ (n > 0 => n < c)
        \/ n > 0 /\ n >= c
    BY <1>1, <1>2
  <2>2. QED
    BY <1>6, <1>7, <2>1

-----------------------------------------------------------------------------
(* Pages of route IDs *)

\* A set of IDs is sorted in one way.
LEMMA IDSets ==
  ASSUME NEW S \in SUBSET Nat, IsFiniteSet(S)
  PROVE  /\ SequenceOf(S, IDOrder, IDsInOrder(S)) /\ OneWay(S, IDOrder)
         /\ \A seq : SequenceOf(S, IDOrder, seq) => seq = IDsInOrder(S)
<1> DEFINE sorted == IDsInOrder(S)
<1>1. SequenceOf(S, IDOrder, sorted)
  BY IDsSorted
<1>2. OneWay(S, IDOrder)
  BY PageOrders DEF OneWay
<1> HIDE DEF sorted
<1>3. ASSUME NEW seq, SequenceOf(S, IDOrder, seq) PROVE seq = sorted
  BY <1>1, <1>2, <1>3, OneOrder
<1>4. QED
  BY <1>1, <1>2, <1>3 DEF sorted

\* The IDs after the last one sent are what is left.
LEMMA IDsAfter ==
  ASSUME NEW S \in SUBSET (Nat \ {0}), IsFiniteSet(S), NEW n \in 0 .. Len(IDsInOrder(S)),
         NEW after, n = 0 => after = 0, n > 0 => after = IDsInOrder(S)[n]
  PROVE  IDsInOrder({id \in S : id > after}) = Others(IDsInOrder(S), n)
<1> DEFINE seq == IDsInOrder(S)
           m == Len(seq)
           Later == {id \in S : id > after}
           others == Others(seq, n)
<1>1. SequenceOf(S, IDOrder, seq) /\ OneWay(S, IDOrder)
  BY IDSets
<1> HIDE DEF seq
<1>2. /\ m \in Nat /\ \A i \in 1 .. m : seq[i] \in S
      /\ S = {seq[i] : i \in 1 .. m}
  BY <1>1, SortedListing
<1>3. n \in 0 .. Len(seq) /\ (n > 0 => after = seq[n]) /\ n \in Nat
  BY DEF seq
<1>4. Later = {seq[i] : i \in n + 1 .. m}
  <2>1. CASE n = 0
    <3>1. after = 0 /\ n + 1 = 1 /\ \A id \in S : id \in Nat \ {0}
      BY <2>1
    <3>2. \A id \in S : id > after
      BY <3>1
    <3>3. Later = S
      BY <3>2
    <3> HIDE DEF Later
    <3>4. QED
      BY <1>2, <3>1, <3>3
  <2>2. CASE n > 0
    <3>1. n \in 1 .. Len(seq) /\ seq[n] \in Nat
      BY <1>2, <1>3, <2>2
    <3>2. {x \in S : <<seq[n], x>> \in IDOrder} = {seq[i] : i \in n + 1 .. Len(seq)}
      BY <1>1, <3>1, AfterSorted
    <3>3. \A x \in S : <<seq[n], x>> \in IDOrder <=> x > after
      BY <1>3, <2>2, <3>1, PageOrders
    <3>4. QED
      BY <3>2, <3>3
  <2>3. QED
    BY <1>3, <2>1, <2>2
<1> HIDE DEF m
<1>5. SequenceOf(Later, IDOrder, others)
  BY <1>1, <1>3, <1>4, OthersSorted DEF m
<1>6. Later \in SUBSET Nat /\ IsFiniteSet(Later)
  BY FS_Subset
<1> HIDE DEF others, Later
<1>7. others = IDsInOrder(Later)
  BY <1>5, <1>6, IDSets
<1>8. QED
  BY <1>7 DEF others, Later, seq

\* The routes of a published file.
LEMMA ServedRoutes ==
  ASSUME BuildInv, Served
  PROVE  /\ Data.routes \in Seq(KeptRoute) /\ Data.routeIndex = RouteEntries(Data.routes)
         /\ IsFiniteSet(DOMAIN Data.routes) /\ DOMAIN Data.routes \in SUBSET (Nat \ {0})
         /\ DOMAIN Data.routes = 1 .. Len(Data.routes) /\ Len(Data.routes) \in Nat
         /\ \A id : RangeOf("routes", id) = PrefixRange(Data.routes[id].prefix)
<1>1. Data.routes \in Seq(KeptRoute) /\ Data.routeIndex = RouteEntries(Data.routes)
  BY ServedData DEF Data
<1> DEFINE routes == Data.routes
<1>2. routes \in Seq(KeptRoute)
  BY <1>1
<1> HIDE DEF routes
<1>3. DOMAIN routes = 1 .. Len(routes) /\ Len(routes) \in Nat
  BY <1>2
<1>4. \A id \in DOMAIN routes : id \in Nat \ {0}
  BY <1>3
<1>5. IsFiniteSet(DOMAIN routes)
  BY <1>3, FS_Interval
<1>6. \A id : RangeOf("routes", id) = PrefixRange(Data.routes[id].prefix)
  BY DEF RangeOf
<1>7. QED
  BY <1>1, <1>3, <1>4, <1>5, <1>6 DEF routes

\* The routes whose prefix covers the start and those whose prefix begins in the
\* range are those that overlap it.
LEMMA PrefixIDs ==
  ASSUME BuildInv, Served, NEW range \in Ranges, range.start <= range.end, NEW after
  PROVE  /\ OverlapIDs(range, after)
              = IDsInOrder({id \in Overlapping("routes", range) : id > after})
         /\ Overlapping("routes", range) \in SUBSET DOMAIN Data.routes
<1> DEFINE routes == Data.routes
           start == range.start
           covering == EntriesCovering(start)
           within == EntriesWithin(range)
           ids == {entry.id : entry \in covering \cup within}
           overlap == Overlapping("routes", range)
           Span(id) == RangeOf("routes", id)
<1>1. start \in Addresses /\ start \in Nat /\ range.end \in Nat /\ start <= range.end
  BY DEF Ranges, Addresses
<1>2. /\ \A id \in DOMAIN routes : /\ Span(id).start \in Nat /\ Span(id).end \in Nat
                                   /\ Span(id).start <= Span(id).end
      /\ {entry.id : entry \in covering} = {id \in DOMAIN routes : InRange(Span(id), start)}
  <2>1. /\ "routes" \in RangeKinds /\ IDsOf("routes") = DOMAIN routes
        /\ PointIndex("routes") = Data.routeIndex
    BY DEF RangeKinds, IDsOf, PointIndex
  <2>2. /\ \A id \in IDsOf("routes") :
             Span(id).start \in Nat /\ Span(id).end \in Nat /\ Span(id).start <= Span(id).end
        /\ {entry.id : entry \in Matching(PointIndex("routes"), start)}
              = {id \in IDsOf("routes") : InRange(Span(id), start)}
    BY <1>1, <2>1, ServedSpans
  <2>3. QED
    BY <2>1, <2>2 DEF EntriesCovering
<1>3. /\ Data.routeIndex = RouteEntries(routes)
      /\ \A id \in DOMAIN routes : Span(id).start = routes[id].prefix.address
  BY ServedRoutes DEF PrefixRange
<1>4. overlap = {id \in DOMAIN routes : Span(id).start <= range.end /\ Span(id).end >= start}
  BY DEF Overlapping
<1>5. \A entry : entry \in within <=>
        \E id \in DOMAIN routes : /\ InRange(range, routes[id].prefix.address)
                                  /\ entry = [address |-> routes[id].prefix.address,
                                              length |-> routes[id].prefix.length, id |-> id]
  <2>1. \A entry : entry \in within <=> /\ entry \in RouteEntries(routes)
                                        /\ InRange(range, entry.address)
    BY <1>3 DEF EntriesWithin
  <2>2. \A entry : entry \in RouteEntries(routes) <=>
          \E id \in DOMAIN routes : entry \in IndexEntries({routes[id].prefix}, id)
    BY DEF RouteEntries
  <2>3. \A entry, id : entry \in IndexEntries({routes[id].prefix}, id) <=>
          entry = [address |-> routes[id].prefix.address,
                   length |-> routes[id].prefix.length, id |-> id]
    BY DEF IndexEntries
  <2> DEFINE Entry(id) == [address |-> routes[id].prefix.address,
                           length |-> routes[id].prefix.length, id |-> id]
  <2>4. \A id : Entry(id).address = routes[id].prefix.address
    OBVIOUS
  <2>5. \A entry, id : entry \in IndexEntries({routes[id].prefix}, id) <=> entry = Entry(id)
    BY <2>3
  <2> HIDE DEF within, routes, Entry
  <2>6. \A entry : entry \in within <=>
          \E id \in DOMAIN routes : InRange(range, routes[id].prefix.address) /\ entry = Entry(id)
    BY <2>1, <2>2, <2>4, <2>5
  <2>7. QED
    BY <2>6 DEF Entry
<1> HIDE DEF within, covering, routes, Span, overlap, start
<1>6. \A id : (\E entry \in within : entry.id = id) <=>
               id \in DOMAIN routes /\ InRange(range, Span(id).start)
  <2>1. ASSUME NEW entry \in within
        PROVE  entry.id \in DOMAIN routes /\ InRange(range, Span(entry.id).start)
    BY <1>3, <1>5
  <2>2. ASSUME NEW id \in DOMAIN routes, InRange(range, Span(id).start)
        PROVE  \E entry \in within : entry.id = id
    <3> DEFINE entry == [address |-> routes[id].prefix.address,
                         length |-> routes[id].prefix.length, id |-> id]
    <3>1. entry.id = id
      OBVIOUS
    <3>2. entry \in within
      BY <1>3, <1>5, <2>2
    <3> HIDE DEF entry
    <3>3. QED
      BY <3>1, <3>2
  <2>3. QED
    BY <2>1, <2>2
<1>7. \A id : (\E entry \in covering : entry.id = id) <=>
               id \in DOMAIN routes /\ InRange(Span(id), start)
  BY <1>2
<1>8. \A id \in DOMAIN routes :
        (Span(id).start <= range.end /\ Span(id).end >= start) <=>
           InRange(range, Span(id).start) \/ InRange(Span(id), start)
  BY <1>1, <1>2 DEF InRange, start
<1>9. \A id : id \in ids <=> id \in overlap
  <2>1. \A id : id \in ids <=> (\E entry \in covering : entry.id = id)
                               \/ (\E entry \in within : entry.id = id)
    OBVIOUS
  <2> HIDE DEF ids
  <2>2. QED
    BY <1>4, <1>6, <1>7, <1>8, <2>1
<1>10. OverlapIDs(range, after) = IDsInOrder({id \in ids : id > after})
  BY DEF OverlapIDs, covering, within, start
<1> HIDE DEF ids
<1>11. {id \in ids : id > after} = {id \in overlap : id > after}
  BY <1>9
<1>12. overlap \in SUBSET DOMAIN routes
  BY <1>4
<1>13. QED
  BY <1>10, <1>11, <1>12 DEF overlap, routes

\* The list of an ASN is the routes with its origin, in ID order.
LEMMA ASNIDs ==
  ASSUME BuildInv, Served, NEW asn \in Nat \ {NoNumber}
  PROVE  ASNRoutes(asn) = IDsInOrder(RoutesFrom(asn)) /\ RoutesFrom(asn) \in SUBSET DOMAIN Data.routes
<1> DEFINE lists == Data.asnRoutes
           S == RoutesFrom(asn)
           ids == ASNRoutes(asn)
<1>1. /\ IsFiniteSet(DOMAIN Data.routes) /\ DOMAIN Data.routes \in SUBSET (Nat \ {0})
      /\ ASNLists(lists, Data.routes)
  BY ServedRoutes, ServedKeys
<1>2. S = {id \in DOMAIN Data.routes : Data.routes[id].origin = asn}
  BY DEF RoutesFrom
<1>3. S \in SUBSET DOMAIN Data.routes /\ S \in SUBSET Nat /\ IsFiniteSet(S)
  BY <1>1, <1>2, FS_Subset
<1>4. CASE asn \in DOMAIN lists
  <2>1. /\ ids = lists[asn] /\ lists[asn] \in Seq(Nat) /\ ToSet(lists[asn]) = S
        /\ \A i, j \in DOMAIN lists[asn] : i < j => lists[asn][i] < lists[asn][j]
    BY <1>1, <1>2, <1>4 DEF ASNRoutes, ASNLists
  <2> HIDE DEF ids, lists, S
  <2>2. ids \in Seq(Nat) /\ ToSet(ids) = S /\ \A i, j \in DOMAIN ids : i < j => ids[i] < ids[j]
    BY <2>1
  <2>3. /\ Listing(ids, Len(ids)) /\ DOMAIN ids = 1 .. Len(ids)
        /\ \A i \in 1 .. Len(ids) : ids[i] \in Nat
    BY <2>2 DEF Listing
  <2>4. S = {ids[i] : i \in 1 .. Len(ids)}
    BY <2>2, <2>3 DEF ToSet
  <2>5. \A i, j \in 1 .. Len(ids) : i < j => <<ids[i], ids[j]>> \in IDOrder
    BY <2>2, <2>3, PageOrders
  <2>6. SequenceOf(S, IDOrder, ids)
    BY <2>3, <2>4, <2>5, ListingSorted
  <2>7. ids = IDsInOrder(S)
    BY <1>3, <2>6, IDSets
  <2>8. QED
    BY <1>3, <2>7 DEF ids, S
<1>5. CASE asn \notin DOMAIN lists
  <2>1. S = {}
    BY <1>1, <1>2, <1>5 DEF ASNLists
  <2>2. ids = <<>>
    BY <1>5 DEF ASNRoutes
  <2>3. SequenceOf({}, IDOrder, <<>>)
    BY DEF SequenceOf
  <2> HIDE DEF ids, lists, S
  <2>4. ids = IDsInOrder(S)
    BY <1>3, <2>1, <2>2, <2>3, IDSets
  <2>5. QED
    BY <1>3, <2>4 DEF ids, S
<1>6. QED
  BY <1>4, <1>5

\* The search for a cursor finds what is left.
LEMMA ASNRoutesLeft ==
  ASSUME BuildInv, Served, NEW asn \in Nat \ {NoNumber},
         NEW n \in 0 .. Len(IDsInOrder(RoutesFrom(asn))),
         NEW after, n = 0 => after = 0, n > 0 => after = IDsInOrder(RoutesFrom(asn))[n]
  PROVE  ASNRoutesAfter(asn, after) = Others(IDsInOrder(RoutesFrom(asn)), n)
<1> DEFINE S == RoutesFrom(asn)
           ids == IDsInOrder(S)
           m == Len(ids)
           Here(i) == (i <= Len(ids) => ids[i] > after) /\ \A j \in 1 .. i - 1 : ids[j] <= after
           first == CHOOSE i \in 1 .. Len(ids) + 1 : Here(i)
<1>1. IsFiniteSet(S) /\ S \in SUBSET (Nat \ {0}) /\ S \in SUBSET Nat
  <2>1. S \in SUBSET DOMAIN Data.routes
    BY ASNIDs
  <2>2. IsFiniteSet(DOMAIN Data.routes) /\ DOMAIN Data.routes \in SUBSET (Nat \ {0})
    BY ServedRoutes
  <2> HIDE DEF S
  <2>3. QED
    BY <2>1, <2>2, FS_Subset
<1>2. ASNRoutesAfter(asn, after) = SubSeq(ids, first, Len(ids))
  BY ASNIDs DEF ASNRoutesAfter
<1> HIDE DEF S
<1>3. SequenceOf(S, IDOrder, ids)
  BY <1>1, IDSets
<1>4. n \in 0 .. m /\ (n = 0 => after = 0) /\ (n > 0 => after = ids[n])
  BY DEF S
<1> HIDE DEF ids
<1>5. /\ m \in Nat /\ \A i \in 1 .. m : ids[i] \in Nat \ {0}
      /\ \A i, j \in 1 .. m : i < j => ids[i] < ids[j]
      /\ Listing(ids, m)
  <2>1. /\ m \in Nat /\ \A i \in 1 .. m : ids[i] \in S
        /\ \A i, j \in 1 .. m : i < j => <<ids[i], ids[j]>> \in IDOrder
        /\ Listing(ids, m)
    BY <1>3, SortedListing
  <2>2. \A i \in 1 .. m : ids[i] \in Nat \ {0} /\ ids[i] \in Nat
    BY <1>1, <2>1
  <2>3. QED
    BY <2>1, <2>2, PageOrders
<1> HIDE DEF m
<1>6. after \in Nat /\ n \in Nat /\ n <= m
  BY <1>4, <1>5
<1>7. \A i \in 1 .. m : ids[i] > after <=> i > n
  <2> SUFFICES ASSUME NEW i \in 1 .. m PROVE ids[i] > after <=> i > n
    OBVIOUS
  <2>1. CASE n = 0
    BY <1>4, <1>5, <2>1
  <2>2. CASE n > 0
    <3>1. n \in 1 .. m /\ after = ids[n]
      BY <1>4, <1>6, <2>2
    <3>2. i < n => ids[i] < ids[n]
      BY <1>5, <3>1
    <3>3. n < i => ids[n] < ids[i]
      BY <1>5, <3>1
    <3>4. ids[i] \in Nat /\ ids[n] \in Nat /\ i \in Nat
      BY <1>5, <3>1
    <3>5. QED
      BY <1>6, <3>1, <3>2, <3>3, <3>4
  <2>3. QED
    BY <1>6, <2>1, <2>2
<1>8. ASSUME NEW i \in 1 .. m + 1 PROVE Here(i) <=> i = n + 1
  <2>0. m = Len(ids)
    BY DEF m
  <2>1. ASSUME i = n + 1 PROVE Here(i)
    <3>1. i <= m => ids[i] > after
      BY <1>5, <1>6, <1>7, <2>1
    <3>2. \A j \in 1 .. i - 1 : j \in 1 .. m /\ ~ (j > n)
      BY <1>5, <1>6, <2>1
    <3>3. \A j \in 1 .. i - 1 : ids[j] <= after
      BY <1>5, <1>6, <1>7, <3>2
    <3>4. QED
      BY <2>0, <3>1, <3>3
  <2>2. ASSUME Here(i), i < n + 1 PROVE FALSE
    <3>1. i \in 1 .. m /\ i <= Len(ids) /\ ~ (i > n)
      BY <1>5, <1>6, <2>0, <2>2
    <3>2. QED
      BY <1>7, <2>2, <3>1
  <2>3. ASSUME Here(i), i > n + 1 PROVE FALSE
    <3>1. n + 1 \in 1 .. m /\ n + 1 \in 1 .. i - 1 /\ n + 1 > n
      BY <1>5, <1>6, <2>3
    <3>2. ids[n + 1] <= after /\ ids[n + 1] > after
      BY <1>7, <2>3, <3>1
    <3>3. QED
      BY <1>5, <1>6, <3>1, <3>2
  <2>4. i \in Nat
    BY <1>5
  <2>5. QED
    BY <1>6, <2>1, <2>2, <2>3, <2>4
<1>9. first = n + 1
  <2>1. n + 1 \in 1 .. m + 1 /\ 1 .. m + 1 = 1 .. Len(ids) + 1
    BY <1>5, <1>6 DEF m
  <2> HIDE DEF Here
  <2>2. QED
    BY <1>8, <2>1
<1> HIDE DEF first
<1>10. SubSeq(ids, n + 1, m) = [i \in 1 .. m - n |-> ids[n + i]]
  <2>1. SubSeq(ids, n + 1, m) = [i \in 1 .. 1 + m - (n + 1) |-> ids[i + (n + 1) - 1]]
    BY <1>5, <1>6
  <2>2. 1 + m - (n + 1) = m - n /\ \A i \in 1 .. m - n : i + (n + 1) - 1 = n + i
    BY <1>5, <1>6
  <2>3. QED
    BY <2>1, <2>2
<1>11. Others(ids, n) = [i \in 1 .. m - n |-> ids[n + i]]
  BY DEF Others, m
<1>12. QED
  BY <1>2, <1>9, <1>10, <1>11 DEF m, ids, S

\* Where the cursor of a query for IDs stands after n of them.
IDStands(after, n) ==
  \/ n = 0 /\ after = FirstPage
  \/ n \in 1 .. Len(Result) - 1 /\ after = From("id", Result[n])

\* And that of a query by page number.
NumberStands(after, n) ==
  \/ n = 0 /\ after = FirstPage
  \/ /\ n \in 1 .. Len(Result) - 1
     /\ \E number \in 2 .. Len(Result) :
           n = (number - 1) * query.limit /\ after = From("page", number)

\* A query of a published file for route IDs, and the routes it selects.
IDQuery(S) ==
  /\ BuildInv /\ Served
  /\ \/ /\ query.kind = "prefix" /\ S = Overlapping("routes", query.range)
        /\ query.range \in Ranges /\ query.range.start <= query.range.end
     \/ /\ query.kind \in {"asn", "asnPage"} /\ S = RoutesFrom(query.asn)
        /\ query.asn \in Nat \ {NoNumber}

\* The result of a query for IDs: the routes it selects, in ID order.
LEMMA IDResult ==
  ASSUME NEW S, IDQuery(S)
  PROVE  /\ S \in SUBSET (Nat \ {0}) /\ S \in SUBSET DOMAIN Data.routes /\ IsFiniteSet(S)
         /\ Result = IDsInOrder(S) /\ SequenceOf(S, IDOrder, Result)
         /\ Listing(Result, Len(Result)) /\ Len(Result) \in Nat
         /\ \A i \in 1 .. Len(Result) : Result[i] \in Nat \ {0}
<1>1. BuildInv /\ Served
  BY DEF IDQuery
<1>2. S \in SUBSET DOMAIN Data.routes
  BY <1>1, PrefixIDs, ASNIDs DEF IDQuery
<1>3. IsFiniteSet(DOMAIN Data.routes) /\ DOMAIN Data.routes \in SUBSET (Nat \ {0})
  BY <1>1, ServedRoutes
<1>4. S \in SUBSET (Nat \ {0}) /\ S \in SUBSET Nat /\ IsFiniteSet(S)
  BY <1>2, <1>3, FS_Subset
<1>5. Result = IDsInOrder(S)
  <2>1. CASE query.kind = "prefix" /\ S = Overlapping("routes", query.range)
    <3>1. query.kind \notin RangeKinds /\ query.kind = "prefix"
      BY <2>1 DEF RangeKinds
    <3>2. QED
      BY <2>1, <3>1 DEF Result
  <2>2. CASE query.kind \in {"asn", "asnPage"} /\ S = RoutesFrom(query.asn)
    <3>1. query.kind \notin RangeKinds /\ query.kind # "prefix"
      BY <2>2 DEF RangeKinds
    <3>2. QED
      BY <2>2, <3>1 DEF Result
  <2>3. QED
    BY <2>1, <2>2 DEF IDQuery
<1>6. SequenceOf(S, IDOrder, IDsInOrder(S))
  BY <1>4, IDSets
<1>7. SequenceOf(S, IDOrder, Result)
  BY <1>5, <1>6
<1>8. /\ Listing(Result, Len(Result)) /\ Len(Result) \in Nat
      /\ \A i \in 1 .. Len(Result) : Result[i] \in S
  BY <1>7, SortedListing
<1>9. QED
  BY <1>2, <1>4, <1>5, <1>7, <1>8

\* A page of IDs carries on where its cursor stands.
LEMMA IDNext ==
  ASSUME NEW S, IDQuery(S), query.kind \in {"prefix", "asn"}, query.limit \in Nat \ {0},
         NEW n \in 0 .. Len(Result), NEW after, IDStands(after, n)
  PROVE  LET left == IF query.kind = "prefix" THEN OverlapIDs(query.range, LastID(after))
                     ELSE ASNRoutesAfter(query.asn, LastID(after))
         IN  NextRecords(IDPage(left, query.limit), n, Len(Result), IDStands)
<1> DEFINE left == IF query.kind = "prefix" THEN OverlapIDs(query.range, LastID(after))
                   ELSE ASNRoutesAfter(query.asn, LastID(after))
           limit == query.limit
           page == IDPage(left, limit)
           m == Len(Result)
           others == Others(Result, n)
           k == Least(m - n, limit)
<1>1. /\ S \in SUBSET (Nat \ {0}) /\ IsFiniteSet(S) /\ Result = IDsInOrder(S) /\ m \in Nat
      /\ SequenceOf(S, IDOrder, Result)
  BY IDResult
<1>2. (n = 0 => LastID(after) = 0) /\ (n > 0 => LastID(after) = Result[n])
  BY <1>1 DEF IDStands, FirstPage, From, LastID
<1>3. left = others
  <2>1. CASE query.kind = "prefix"
    <3>1. /\ BuildInv /\ Served /\ query.range \in Ranges /\ query.range.start <= query.range.end
          /\ S = Overlapping("routes", query.range)
      BY <2>1 DEF IDQuery
    <3>2. left = IDsInOrder({id \in S : id > LastID(after)})
      BY <2>1, <3>1, PrefixIDs
    <3>3. IDsInOrder({id \in S : id > LastID(after)}) = Others(IDsInOrder(S), n)
      BY <1>1, <1>2, IDsAfter
    <3>4. QED
      BY <1>1, <3>2, <3>3
  <2>2. CASE query.kind = "asn"
    <3>1. /\ BuildInv /\ Served /\ query.asn \in Nat \ {NoNumber} /\ S = RoutesFrom(query.asn)
      BY <2>2 DEF IDQuery
    <3>2. ASNRoutesAfter(query.asn, LastID(after)) = Others(IDsInOrder(RoutesFrom(query.asn)), n)
      BY <1>1, <1>2, <3>1, ASNRoutesLeft
    <3>3. QED
      BY <1>1, <2>2, <3>1, <3>2
  <2>3. QED
    BY <2>1, <2>2
<1> HIDE DEF left
<1>4. limit \in Nat \ {0} /\ n \in Nat /\ n <= m /\ m - n \in Nat /\ n \in 0 .. m
  BY <1>1
<1>5. Listing(others, m - n)
  BY <1>1, <1>4, OthersSorted
<1>6. /\ page.entries = FirstOf(others, k)
      /\ page.next = IF m - n <= limit THEN NoCursor ELSE From("id", others[limit])
  BY <1>3, <1>4, <1>5, IDPageIs
<1>7. others = [i \in 1 .. m - n |-> Result[n + i]]
  BY DEF Others
<1> HIDE DEF page, others, m, limit
<1>8. k \in 0 .. m - n
  BY <1>4 DEF Least
<1>9. CASE m - n <= limit
  <2>1. page.next = NoCursor /\ n + k = m
    BY <1>1, <1>4, <1>6, <1>9 DEF Least
  <2>2. QED
    BY <1>6, <1>8, <2>1 DEF NextRecords, page, others, m, limit, left
<1>10. CASE ~ (m - n <= limit)
  <2>1. k = limit /\ k > 0 /\ n + k < m /\ n + k \in 1 .. m - 1 /\ limit \in 1 .. m - n
    BY <1>1, <1>4, <1>10 DEF Least
  <2>2. page.next = From("id", Result[n + k])
    BY <1>6, <1>7, <1>10, <2>1
  <2>3. IDStands(page.next, n + k)
    BY <2>1, <2>2 DEF IDStands, m
  <2>4. QED
    BY <1>6, <1>8, <2>1, <2>3 DEF NextRecords, page, others, m, limit, left
<1>11. QED
  BY <1>9, <1>10

-----------------------------------------------------------------------------
(* Numbered pages *)

\* There is a page after this one if it does not reach the last of L values.
LEMMA PageCount ==
  ASSUME NEW L \in Nat, NEW l \in Nat \ {0}, NEW p \in Nat \ {0}
  PROVE  /\ p < (L + l - 1) \div l <=> p * l < L
         /\ p * l < L => p + 1 <= L
         /\ p * l = (p - 1) * l + l
<1> DEFINE t == (L + l - 1) \div l
           r == (L + l - 1) % l
<1>1. t \in Nat /\ r \in Nat /\ r < l /\ L + l - 1 = l * t + r /\ l * t = t * l
  <2> DEFINE a == L + l - 1
  <2>1. a \in Nat
    OBVIOUS
  <2> HIDE DEF a
  <2>2. a \div l \in Nat /\ a % l \in Nat /\ a % l < l /\ a = l * (a \div l) + (a % l)
    BY <2>1
  <2>3. l * (a \div l) = (a \div l) * l
    BY <2>2
  <2>4. QED
    BY <2>2, <2>3 DEF a
<1> HIDE DEF t, r
<1>2. p * l \in Nat /\ t * l \in Nat
  BY <1>1
<1>3. p < t => p * l + l <= t * l
  <2> SUFFICES ASSUME p < t PROVE p * l + l <= t * l
    OBVIOUS
  <2>1. PICK k \in Nat : t = (p + 1) + k
    <3>1. t - (p + 1) \in Nat /\ t = (p + 1) + (t - (p + 1))
      BY <1>1
    <3>2. QED
      BY <3>1
  <2>2. ((p + 1) + k) * l = p * l + l + k * l /\ k * l \in Nat
    OBVIOUS
  <2>3. QED
    BY <1>2, <2>1, <2>2
<1>4. ~ (p < t) => t * l <= p * l
  <2> SUFFICES ASSUME ~ (p < t) PROVE t * l <= p * l
    OBVIOUS
  <2>1. PICK k \in Nat : p = t + k
    <3>1. p - t \in Nat /\ p = t + (p - t)
      BY <1>1
    <3>2. QED
      BY <3>1
  <2>2. (t + k) * l = t * l + k * l /\ k * l \in Nat
    BY <1>1
  <2>3. QED
    BY <1>2, <2>1, <2>2
<1>5. p < t <=> p * l < L
  BY <1>1, <1>2, <1>3, <1>4
<1>6. p <= p * l
  <2>1. p * l = p + p * (l - 1) /\ p * (l - 1) \in Nat
    OBVIOUS
  <2>2. QED
    BY <2>1
<1>7. p * l = (p - 1) * l + l
  OBVIOUS
<1>8. QED
  BY <1>2, <1>5, <1>6, <1>7 DEF t

\* A numbered page carries on where the last one ended.
LEMMA NumberNext ==
  ASSUME NEW S, IDQuery(S), query.kind = "asnPage", query.limit \in Nat \ {0},
         NEW n \in 0 .. Len(Result), NEW after, NumberStands(after, n)
  PROVE  NextRecords(NumberedPage(ASNRoutes(query.asn), query.limit,
                                  IF after.phase = "first" THEN 1 ELSE after.key),
                     n, Len(Result), NumberStands)
<1> DEFINE number == IF after.phase = "first" THEN 1 ELSE after.key
           limit == query.limit
           ids == ASNRoutes(query.asn)
           page == NumberedPage(ids, limit, number)
           m == Len(Result)
           others == Others(Result, n)
           rest == SubSeq(Result, n + 1, m)
           k == Least(m - n, limit)
<1>1. /\ Result = IDsInOrder(S) /\ m \in Nat /\ Listing(Result, m)
      /\ SequenceOf(S, IDOrder, Result)
  BY IDResult
<1>2. ids = Result
  <2>1. BuildInv /\ Served /\ query.asn \in Nat \ {NoNumber} /\ S = RoutesFrom(query.asn)
    BY DEF IDQuery
  <2>2. QED
    BY <1>1, <2>1, ASNIDs
<1>3. limit \in Nat \ {0} /\ n \in Nat /\ n <= m /\ m - n \in Nat /\ n \in 0 .. m
  BY <1>1
<1>4. number \in Nat \ {0} /\ (number - 1) * limit = n
  <2>1. CASE n = 0 /\ after = FirstPage
    <3>1. number = 1 /\ (1 - 1) * limit = 0
      BY <1>3, <2>1 DEF FirstPage
    <3>2. QED
      BY <2>1, <3>1
  <2>2. CASE \E p \in 2 .. m : n = (p - 1) * limit /\ after = From("page", p)
    <3>1. PICK p \in 2 .. m : n = (p - 1) * limit /\ after = From("page", p)
      BY <2>2
    <3>2. number = p
      BY <3>1 DEF From
    <3>3. p \in Nat \ {0}
      BY <1>1
    <3>4. QED
      BY <3>1, <3>2, <3>3
  <2>3. QED
    BY <2>1, <2>2 DEF NumberStands
<1> HIDE DEF number, limit, ids
<1>5. /\ number < (m + limit - 1) \div limit <=> n + limit < m
      /\ n + limit < m => number + 1 <= m
      /\ n + limit = ((number + 1) - 1) * limit
  <2>1. /\ number < (m + limit - 1) \div limit <=> number * limit < m
        /\ number * limit < m => number + 1 <= m
        /\ number * limit = (number - 1) * limit + limit
    BY <1>1, <1>3, <1>4, PageCount
  <2>2. (number + 1) - 1 = number
    BY <1>4
  <2>3. QED
    BY <1>4, <2>1, <2>2
<1>6. Listing(others, m - n) /\ others = [i \in 1 .. m - n |-> Result[n + i]]
  BY <1>1, <1>3, OthersSorted DEF Others
<1> HIDE DEF m, others
<1>7. rest = others
  <2>1. rest = [i \in 1 .. 1 + m - (n + 1) |-> Result[i + (n + 1) - 1]]
    BY <1>1, <1>3
  <2>2. 1 + m - (n + 1) = m - n /\ \A i \in 1 .. m - n : i + (n + 1) - 1 = n + i
    BY <1>1, <1>3
  <2>3. QED
    BY <1>6, <2>1, <2>2
<1>8. /\ page.entries = Upto(rest, limit)
      /\ page.next = IF n + limit < m THEN From("page", number + 1) ELSE NoCursor
  BY <1>2, <1>4, <1>5 DEF NumberedPage, m
<1> HIDE DEF page, rest
<1>9. page.entries = FirstOf(others, k)
  <2>1. Len(others) = m - n /\ Len(others) \in Nat /\ others = [i \in 1 .. Len(others) |-> others[i]]
    BY <1>6 DEF Listing
  <2>2. Upto(others, limit)
          = [i \in 1 .. (IF Len(others) <= limit THEN Len(others) ELSE limit) |-> others[i]]
    BY <1>3, <2>1, UptoIsFront
  <2>3. QED
    BY <1>7, <1>8, <2>1, <2>2 DEF FirstOf, Least
<1>10. k \in 0 .. m - n
  BY <1>3 DEF Least
<1>11. CASE ~ (n + limit < m)
  <2>1. page.next = NoCursor /\ n + k = m
    BY <1>1, <1>3, <1>8, <1>11 DEF Least
  <2>2. QED
    BY <1>9, <1>10, <2>1 DEF NextRecords, page, others, m, limit, ids, number
<1>12. CASE n + limit < m
  <2>1. k = limit /\ k > 0 /\ n + k < m /\ n + k \in 1 .. m - 1 /\ number + 1 \in 2 .. m
    BY <1>1, <1>3, <1>4, <1>5, <1>12 DEF Least
  <2>2. page.next = From("page", number + 1) /\ n + k = ((number + 1) - 1) * limit
    BY <1>5, <1>8, <1>12, <2>1
  <2>3. NumberStands(page.next, n + k)
    BY <2>1, <2>2 DEF NumberStands, m, limit
  <2>4. QED
    BY <1>9, <1>10, <2>1, <2>3 DEF NextRecords, page, others, m, limit, ids, number
<1>13. QED
  BY <1>11, <1>12

-----------------------------------------------------------------------------
(* Paging through a query *)

\* Where a cursor stands after n records of the query's result.
Stands(after, n) ==
  \/ query.kind \in RangeKinds /\ RangeStands(after, n)
  \/ query.kind \in {"prefix", "asn"} /\ IDStands(after, n)
  \/ query.kind = "asnPage" /\ NumberStands(after, n)

\* What was received is where the result begins, and the cursor stands behind it.
PagesInv ==
  /\ input \in Inputs
  /\ status \in {"none", "asked", "paging", "refused", "done"}
  /\ status = "none" => query = [kind |-> "none"]
  /\ status # "none" => query \in Queries(input) /\ Served
  /\ status \in {"none", "asked", "refused"} => items = <<>> /\ cursor = FirstPage
  /\ status = "paging" =>
       /\ query.kind = "prefix" => ~ TooBroad(query.range)
       /\ \E n \in 1 .. Len(Result) - 1 : items = FirstOf(Result, n) /\ Stands(cursor, n)
  /\ status = "done" => items = Result /\ cursor = NoCursor

\* A query that a client may ask.
LEMMA QueryAsked ==
  ASSUME BuildInv, Served, input \in Inputs, query \in Queries(input)
  PROVE  /\ query.limit \in Nat \ {0} /\ query.kind \in Kinds
         /\ query.kind \in RangeKinds => RangeQuery
         /\ query.kind = "prefix" => IDQuery(Overlapping("routes", query.range))
         /\ query.kind \in {"asn", "asnPage"} => IDQuery(RoutesFrom(query.asn))
<1>1. /\ query.kind \in Kinds /\ query.limit \in Nat \ {0}
      /\ query.kind \in RangeKinds \cup {"prefix"} =>
            query.range \in Ranges /\ query.range.start <= query.range.end
      /\ query.kind \in {"asn", "asnPage"} => query.asn \in Nat \ {NoNumber}
  BY PagesAssumption
<1>2. query.kind \in RangeKinds => RangeQuery
  BY <1>1 DEF RangeQuery
<1>3. query.kind = "prefix" => IDQuery(Overlapping("routes", query.range))
  BY <1>1 DEF IDQuery
<1>4. query.kind \in {"asn", "asnPage"} => IDQuery(RoutesFrom(query.asn))
  BY <1>1 DEF IDQuery
<1>5. QED
  BY <1>1, <1>2, <1>3, <1>4

\* Its result is a sequence, and the first page begins it.
LEMMA ResultListed ==
  ASSUME BuildInv, Served, input \in Inputs, query \in Queries(input)
  PROVE  Listing(Result, Len(Result)) /\ Len(Result) \in Nat /\ Stands(FirstPage, 0)
<1>1. CASE query.kind \in RangeKinds
  <2>1. RangeQuery
    BY <1>1, QueryAsked
  <2>2. Listing(Result, Len(CoveringPart) + Len(DirectPart))
    BY <2>1, RangeResult
  <2>3. Listing(Result, Len(Result)) /\ Len(Result) \in Nat
    BY <2>2 DEF Listing
  <2>4. QED
    BY <1>1, <2>3 DEF Stands, RangeStands
<1>2. CASE query.kind \in {"prefix", "asn", "asnPage"}
  <2>1. PICK S : IDQuery(S)
    BY <1>2, QueryAsked
  <2>2. Listing(Result, Len(Result)) /\ Len(Result) \in Nat
    BY <2>1, IDResult
  <2>3. QED
    BY <1>2, <2>2 DEF Stands, IDStands, NumberStands
<1>3. QED
  BY <1>1, <1>2, QueryAsked DEF Kinds

\* Whatever the kind of the query, its next page carries on.
LEMMA PageFollows ==
  ASSUME BuildInv, Served, input \in Inputs, query \in Queries(input),
         NEW n \in 0 .. Len(Result), Stands(cursor, n)
  PROVE  NextRecords(Page, n, Len(Result), Stands)
<1>0. query.limit \in Nat \ {0} /\ query.kind \in Kinds
  BY QueryAsked
<1>1. CASE query.kind \in RangeKinds
  <2>1. RangeQuery /\ RangeStands(cursor, n)
    BY <1>1, QueryAsked DEF Stands, RangeKinds
  <2>2. NextRecords(RangePage(query.kind, query.range, query.limit, cursor), n, Len(Result),
                    RangeStands)
    BY <1>0, <2>1, RangeNext
  <2>3. Page = RangePage(query.kind, query.range, query.limit, cursor)
    <3>1. query.kind # "prefix" /\ query.kind # "asn" /\ query.kind # "asnPage"
      BY <1>1 DEF RangeKinds
    <3>2. QED
      BY <1>1, <3>1 DEF Page
  <2>4. QED
    BY <1>1, <2>2, <2>3 DEF NextRecords, Stands
<1>2. CASE query.kind \in {"prefix", "asn"}
  <2> DEFINE left == IF query.kind = "prefix" THEN OverlapIDs(query.range, LastID(cursor))
                     ELSE ASNRoutesAfter(query.asn, LastID(cursor))
  <2>0. query.kind \notin RangeKinds
    BY <1>2 DEF RangeKinds
  <2>1. PICK S : IDQuery(S)
    BY <1>2, QueryAsked
  <2>2. IDStands(cursor, n)
    BY <1>2, <2>0 DEF Stands
  <2>3. NextRecords(IDPage(left, query.limit), n, Len(Result), IDStands)
    BY <1>0, <1>2, <2>1, <2>2, IDNext
  <2>4. Page = IDPage(left, query.limit)
    BY <1>2, <2>0 DEF Page
  <2> HIDE DEF left
  <2>5. QED
    BY <1>2, <2>3, <2>4 DEF NextRecords, Stands
<1>3. CASE query.kind = "asnPage"
  <2> DEFINE number == IF cursor.phase = "first" THEN 1 ELSE cursor.key
  <2>0. query.kind \notin RangeKinds
    BY <1>3 DEF RangeKinds
  <2>1. PICK S : IDQuery(S)
    BY <1>3, QueryAsked
  <2>2. NumberStands(cursor, n)
    BY <1>3, <2>0 DEF Stands
  <2>3. NextRecords(NumberedPage(ASNRoutes(query.asn), query.limit, number), n, Len(Result),
                    NumberStands)
    BY <1>0, <1>3, <2>1, <2>2, NumberNext
  <2>4. Page = NumberedPage(ASNRoutes(query.asn), query.limit, number)
    BY <1>3, <2>0 DEF Page
  <2> HIDE DEF number
  <2>5. QED
    BY <1>3, <2>3, <2>4 DEF NextRecords, Stands
<1>4. QED
  BY <1>0, <1>1, <1>2, <1>3 DEF Kinds

\* What a query selects of a file does not change.
LEMMA ResultKept ==
  ASSUME output' = output, query' = query
  PROVE  /\ Result' = Result /\ CoveringPart' = CoveringPart
         /\ TooBroad(query.range)' = TooBroad(query.range)
<1> DEFINE SpanIn(data, kind, id) ==
             IF kind = "allocations" THEN data.allocations[id] ELSE PrefixRange(data.routes[id].prefix)
           OverlapIn(data, kind, range) ==
             LET records == IF kind = "allocations" THEN data.allocations ELSE data.routes
             IN  {id \in DOMAIN records : /\ SpanIn(data, kind, id).start <= range.end
                                          /\ SpanIn(data, kind, id).end >= range.start}
           KeysIn(data, kind, range) ==
             {RangeKey(SpanIn(data, kind, id), id) : id \in OverlapIn(data, kind, range)}
           FromIn(data, asn) == {id \in DOMAIN data.routes : data.routes[id].origin = asn}
           ResultIn(data, q) ==
             CASE q.kind \in RangeKinds -> KeysInOrder(KeysIn(data, q.kind, q.range))
               [] q.kind = "prefix" -> IDsInOrder(OverlapIn(data, "routes", q.range))
               [] OTHER -> IDsInOrder(FromIn(data, q.asn))
           IndexIn(data, kind) ==
             IF kind = "allocations" THEN data.allocationIndex ELSE data.routeIndex
           CoveringIn(data, kind, start) ==
             LET ids == {entry.id : entry \in Matching(IndexIn(data, kind), start)}
             IN  {RangeKey(SpanIn(data, kind, id), id) :
                    id \in {id \in ids : CoversStart(SpanIn(data, kind, id), start)}}
           BroadIn(data, range) ==
             Cardinality(Matching(data.routeIndex, range.start))
               + Cardinality({entry \in data.routeIndex : InRange(range, entry.address)})
                   > MaxOverlapIndexEntries
<1>1. Result = ResultIn(output.content, query) /\ Result' = ResultIn(output'.content, query')
  BY DEF Result, OverlapKeys, Overlapping, RoutesFrom, RangeOf, Data
<1>2. /\ CoveringPart = KeysInOrder(CoveringIn(output.content, query.kind, query.range.start))
      /\ CoveringPart' = KeysInOrder(CoveringIn(output'.content, query'.kind, query'.range.start))
  BY DEF CoveringPart, CoveringEntries, PointIndex, RangeOf, Data
<1>3. /\ TooBroad(query.range) = BroadIn(output.content, query.range)
      /\ TooBroad(query.range)' = BroadIn(output'.content, query'.range)
  BY DEF TooBroad, EntriesCovering, EntriesWithin, Data
<1> HIDE DEF ResultIn, CoveringIn, BroadIn
<1>4. QED
  BY <1>1, <1>2, <1>3

\* And neither does where a cursor stands.
LEMMA StandsKept ==
  ASSUME output' = output, query' = query, NEW after, NEW n
  PROVE  Stands(after, n)' <=> Stands(after, n)
BY ResultKept DEF Stands, RangeStands, IDStands, NumberStands

\* A build reads the same files throughout, and does nothing once it has published.
LEMMA BuildReads ==
  ASSUME BuildInv, Build
  PROVE  input' = input /\ ~ Served
<1>1. CASE Deriving
  <2>1. input' = input
    BY <1>1, TablesKept DEF BuildInv
  <2>2. phase # "published"
    BY <1>1 DEF Deriving, EndOfFile, WriteASNRoutes, InsertRouteGroup, StoreRouteLPM, InsertObject,
       StoreSelectionLPM, WriteSummaries, Sync, Compact, SyncCompact, Publish
  <2>3. QED
    BY <2>1, <2>2 DEF Served
<1>2. CASE AddAllocation \/ AddRoute \/ AddGeofeed \/ AddAutnum
  <2>1. input' = input
    BY <1>2 DEF AddAllocation, AddRoute, AddGeofeed, AddAutnum, Row
  <2>2. phase # "published"
    BY <1>2 DEF AddAllocation, AddRoute, AddGeofeed, AddAutnum, Row
  <2>3. QED
    BY <2>1, <2>2 DEF Served
<1>3. CASE Start
  BY <1>3 DEF Start, Served
<1>4. QED
  BY <1>1, <1>2, <1>3 DEF Build, Deriving

\* A cursor that stands somewhere is not the end.
LEMMA StandsIsCursor ==
  ASSUME NEW after, NEW n, Stands(after, n)
  PROVE  after # NoCursor
<1>1. \/ after = FirstPage
      \/ \E part \in {"covering", "direct", "id", "page"} : \E key : after = From(part, key)
  BY DEF Stands, RangeStands, IDStands, NumberStands
<1>2. after.phase # "end"
  BY <1>1 DEF FirstPage, From
<1>3. QED
  BY <1>2 DEF NoCursor

\* A page received carries the invariant on.
LEMMA NextPageStep ==
  ASSUME BuildInv, PagesInv, NextPage PROVE PagesInv'
<1>1. /\ status \in {"asked", "paging"} /\ input \in Inputs /\ query \in Queries(input) /\ Served
      /\ query.kind = "prefix" => ~ TooBroad(query.range)
      /\ UNCHANGED <<vars, query>>
  BY DEF NextPage, PagesInv
<1>2. input' = input /\ query' = query /\ output' = output /\ (Served' <=> Served)
  BY <1>1 DEF vars, files, Served
<1> DEFINE R == Result
           m == Len(R)
<1>3. Listing(R, m) /\ m \in Nat
  BY <1>1, ResultListed
<1>4. PICK n \in 0 .. m : items = FirstOf(R, n) /\ Stands(cursor, n)
  <2>1. CASE status = "asked"
    <3>1. items = <<>> /\ Stands(cursor, 0)
      BY <1>1, <2>1, ResultListed DEF PagesInv
    <3> HIDE DEF R
    <3>2. FirstOf(R, 0) = <<>>
      BY DEF FirstOf
    <3>3. QED
      BY <1>3, <3>1, <3>2
  <2>2. CASE status = "paging"
    <3>1. \E n \in 1 .. m - 1 : items = FirstOf(R, n) /\ Stands(cursor, n)
      BY <2>2 DEF PagesInv
    <3> HIDE DEF R
    <3>2. \A n \in 1 .. m - 1 : n \in 0 .. m
      BY <1>3
    <3>3. QED
      BY <3>1, <3>2
  <2>3. QED
    BY <1>1, <2>1, <2>2
<1> DEFINE page == Page
<1>5. NextRecords(page, n, m, Stands)
  BY <1>1, <1>4, PageFollows
<1>6. /\ items' = items \o page.entries /\ cursor' = page.next
      /\ status' = IF page.next = NoCursor THEN "done" ELSE "paging"
  BY DEF NextPage
<1>7. PICK k \in 0 .. m - n :
        /\ page.entries = FirstOf(Others(R, n), k)
        /\ \/ page.next = NoCursor /\ n + k = m
           \/ k > 0 /\ n + k < m /\ Stands(page.next, n + k)
  BY <1>5 DEF NextRecords
<1> HIDE DEF page, R
<1>8. items' = FirstOf(R, n + k)
  <2>1. FirstOf(R, n) \o FirstOf(Others(R, n), k) = FirstOf(R, n + k)
    BY <1>3, PagesJoin
  <2>2. QED
    BY <1>4, <1>6, <1>7, <2>1
<1>9. Result' = R /\ TooBroad(query.range)' = TooBroad(query.range)
  BY <1>2, ResultKept DEF R
<1>10. status' # "none" /\ status' # "asked" /\ status' # "refused"
  BY <1>6
<1>11. CASE page.next = NoCursor /\ n + k = m
  <2>1. FirstOf(R, m) = R
    BY <1>3 DEF Listing, FirstOf
  <2>2. status' = "done" /\ cursor' = NoCursor /\ items' = Result'
    BY <1>6, <1>8, <1>9, <1>11, <2>1
  <2>3. QED
    BY <1>1, <1>2, <2>2 DEF PagesInv
<1>12. CASE k > 0 /\ n + k < m /\ Stands(page.next, n + k)
  <2>1. status' = "paging" /\ cursor' = page.next
    BY <1>6, <1>12, StandsIsCursor
  <2>2. n + k \in 1 .. m - 1 /\ m = Len(Result')
    BY <1>3, <1>9, <1>12
  <2>3. Stands(cursor, n + k)'
    <3>1. PICK after : after = page.next
      OBVIOUS
    <3>2. Stands(after, n + k)
      BY <1>12, <3>1
    <3>3. Stands(after, n + k)'
      BY <1>2, <3>2, StandsKept
    <3>4. after = cursor'
      BY <2>1, <3>1
    <3>5. QED
      BY <3>3, <3>4 DEF Stands, RangeStands, IDStands, NumberStands
  <2>4. (\E l \in 1 .. Len(Result) - 1 : items = FirstOf(Result, l) /\ Stands(cursor, l))'
    BY <1>8, <1>9, <2>2, <2>3
  <2>5. (query'.kind = "prefix" => ~ TooBroad(query.range)') /\ query' = query
    BY <1>1, <1>2, <1>9
  <2>6. QED
    BY <1>1, <1>2, <2>1, <2>4, <2>5 DEF PagesInv
<1>13. QED
  BY <1>7, <1>11, <1>12

\* Every step of a build or a client keeps the invariant.
LEMMA PagesStep ==
  ASSUME BuildInv, PagesInv, [PagesNext]_pagesVars PROVE PagesInv'
<1>1. CASE NextPage
  BY <1>1, NextPageStep
<1>2. CASE Ask
  <2>1. /\ Served /\ status = "none" /\ query' \in Queries(input) /\ status' = "asked"
        /\ input' = input /\ items' = items /\ cursor' = cursor /\ (Served' <=> Served)
    BY <1>2 DEF Ask, vars, files, Served
  <2>2. input \in Inputs /\ items = <<>> /\ cursor = FirstPage
    BY <2>1 DEF PagesInv
  <2>3. QED
    BY <2>1, <2>2 DEF PagesInv
<1>3. CASE Refuse
  <2>1. /\ query.kind = "prefix" /\ TooBroad(query.range) /\ status \in {"asked", "paging"}
        /\ status' = "refused" /\ query' = query /\ items' = items /\ cursor' = cursor
        /\ input' = input /\ (Served' <=> Served)
    BY <1>3 DEF Refuse, vars, files, Served
  <2>2. /\ status = "asked" /\ items = <<>> /\ cursor = FirstPage
        /\ input \in Inputs /\ query \in Queries(input) /\ Served
    BY <2>1 DEF PagesInv
  <2>3. QED
    BY <2>1, <2>2 DEF PagesInv
<1>4. CASE BuildStep
  <2>1. input' = input /\ ~ Served /\ UNCHANGED clientVars
    BY <1>4, BuildReads DEF BuildStep
  <2>2. /\ input \in Inputs /\ status = "none" /\ query = [kind |-> "none"]
        /\ items = <<>> /\ cursor = FirstPage
    BY <2>1 DEF PagesInv
  <2>3. QED
    BY <2>1, <2>2 DEF PagesInv, clientVars
<1>5. CASE UNCHANGED pagesVars
  <2>1. /\ input' = input /\ output' = output /\ query' = query /\ status' = status
        /\ items' = items /\ cursor' = cursor /\ (Served' <=> Served)
    BY <1>5 DEF pagesVars, clientVars, vars, files, Served
  <2>2. Result' = Result /\ TooBroad(query.range)' = TooBroad(query.range)
    BY <2>1, ResultKept
  <2>3. ASSUME status = "paging"
        PROVE  (\E n \in 1 .. Len(Result) - 1 : items = FirstOf(Result, n) /\ Stands(cursor, n))'
    <3>1. PICK n \in 1 .. Len(Result) - 1 : items = FirstOf(Result, n) /\ Stands(cursor, n)
      BY <2>3 DEF PagesInv
    <3>2. PICK after : after = cursor
      OBVIOUS
    <3>3. Stands(after, n)
      BY <3>1, <3>2
    <3>4. Stands(after, n)'
      BY <2>1, <3>3, StandsKept
    <3>5. after = cursor'
      BY <2>1, <3>2
    <3>6. Stands(cursor, n)'
      BY <3>4, <3>5 DEF Stands, RangeStands, IDStands, NumberStands
    <3>7. QED
      BY <2>1, <2>2, <3>1, <3>6
  <2>4. QED
    BY <2>1, <2>2, <2>3 DEF PagesInv
<1>6. QED
  BY <1>1, <1>2, <1>3, <1>4, <1>5 DEF PagesNext

\* Clients leave the build alone, so what holds of every build holds here.
LEMMA PagesBuild == PagesSpec => []BuildInv
<1>1. PagesInit => Init
  BY DEF PagesInit
<1>2. [PagesNext]_pagesVars => [Next]_vars
  <2>1. BuildStep => Next
    BY DEF BuildStep, Next
  <2>2. Ask \/ Refuse \/ NextPage => UNCHANGED vars
    BY DEF Ask, Refuse, NextPage
  <2>3. UNCHANGED pagesVars => UNCHANGED vars
    BY DEF pagesVars
  <2>4. QED
    BY <2>1, <2>2, <2>3 DEF PagesNext
<1>3. PagesSpec => Spec
  BY <1>1, <1>2, PTL DEF PagesSpec, Spec
<1>4. QED
  BY <1>3, BuildInvariance, PTL

\* The pages of any build and any client.
THEOREM PagesInvariance == PagesSpec => [](BuildInv /\ PagesInv)
<1>1. PagesInit => PagesInv
  BY DEF PagesInit, Init, PagesInv
<1>2. BuildInv /\ PagesInv /\ [PagesNext]_pagesVars => PagesInv'
  BY PagesStep
<1>3. QED
  BY <1>1, <1>2, PagesBuild, PTL DEF PagesSpec

\* The result of a query that is paged through is a sequence.
LEMMA PagedResult ==
  ASSUME BuildInv, PagesInv, status # "none"
  PROVE  Listing(Result, Len(Result)) /\ Len(Result) \in Nat
BY ResultListed DEF PagesInv

\* The pages put together.
THEOREM PagesAreExact == PagesSpec => []PagesAreTheResult
<1>1. ASSUME BuildInv, PagesInv PROVE PagesAreTheResult
  <2>1. ASSUME status = "paging" PROVE IsStrictPrefix(items, Result)
    <3> DEFINE R == Result
               m == Len(R)
    <3>1. Listing(R, m) /\ m \in Nat
      BY <1>1, <2>1, PagedResult
    <3>2. PICK n \in 1 .. m - 1 : items = FirstOf(R, n)
      BY <1>1, <2>1 DEF PagesInv
    <3> HIDE DEF R
    <3>3. n \in Nat \ {0} /\ n < m /\ 1 \in Nat
      BY <3>1
    <3>4. items = [i \in 1 .. n |-> R[i]] /\ DOMAIN items = 1 .. n
      BY <3>2 DEF FirstOf
    <3>5. Len(items) = n
      BY <3>3, <3>4
    <3>6. SubSeq(R, 1, n) = [i \in 1 .. n |-> R[i]]
      <4>1. SubSeq(R, 1, n) = [i \in 1 .. 1 + n - 1 |-> R[i + 1 - 1]]
        BY <3>1, <3>3
      <4>2. 1 + n - 1 = n /\ \A i \in 1 .. n : i + 1 - 1 = i
        BY <3>3
      <4>3. QED
        BY <4>1, <4>2
    <3>7. SubSeq(items, 1, n) = items
      <4>1. SubSeq(items, 1, n) = [i \in 1 .. 1 + n - 1 |-> items[i + 1 - 1]]
        BY <3>3, <3>5
      <4>2. 1 + n - 1 = n /\ \A i \in 1 .. n : i + 1 - 1 = i
        BY <3>3
      <4>3. items = [i \in 1 .. n |-> items[i]]
        BY <3>4
      <4>4. QED
        BY <4>1, <4>2, <4>3
    <3>8. IsPrefix(items, R)
      BY <3>1, <3>3, <3>4, <3>5, <3>6, <3>7 DEF IsPrefix
    <3>9. items # R
      BY <3>1, <3>3, <3>5
    <3>10. QED
      BY <3>8, <3>9 DEF IsStrictPrefix, R
  <2>2. QED
    BY <1>1, <2>1 DEF PagesAreTheResult, PagesInv
<1>2. QED
  BY <1>1, PagesInvariance, PTL

-----------------------------------------------------------------------------
(* Types *)

\* No more routes are listed than there are.
LEMMA ListedAtMost ==
  ASSUME NEW S, IDQuery(S)
  PROVE  Len(Result) \in Nat /\ Len(Result) <= Len(Data.routes) /\ Len(Data.routes) \in Nat
<1> DEFINE R == Result
           m == Len(R)
           l == Len(Data.routes)
<1>1. /\ S \in SUBSET DOMAIN Data.routes /\ S \in SUBSET (Nat \ {0}) /\ m \in Nat
      /\ SequenceOf(S, IDOrder, R) /\ Listing(R, m)
  BY IDResult
<1>2. DOMAIN Data.routes = 1 .. l /\ l \in Nat
  BY ServedRoutes DEF IDQuery
<1> HIDE DEF R, l
<1>3. /\ \A i \in 1 .. m : R[i] \in S
      /\ \A i, j \in 1 .. m : i < j => <<R[i], R[j]>> \in IDOrder
  BY <1>1, SortedListing
<1>4. \A i \in 1 .. m : R[i] \in Nat /\ R[i] \in 1 .. l
  BY <1>1, <1>2, <1>3
<1>5. \A i, j \in 1 .. m : i < j => R[i] < R[j]
  BY <1>3, <1>4, PageOrders
<1>6. R = [i \in 1 .. m |-> R[i]]
  BY <1>1 DEF Listing
<1> HIDE DEF m
<1>7. R \in [1 .. m -> 1 .. l]
  BY <1>4, <1>6
<1>8. \A i, j \in 1 .. m : R[i] = R[j] => i = j
  <2> SUFFICES ASSUME NEW i \in 1 .. m, NEW j \in 1 .. m, R[i] = R[j] PROVE i = j
    OBVIOUS
  <2>1. i \in Nat /\ j \in Nat /\ R[i] \in Nat /\ R[j] \in Nat
    BY <1>1, <1>4
  <2>2. ~ (i < j) /\ ~ (j < i)
    BY <1>5, <2>1
  <2>3. QED
    BY <2>1, <2>2
<1>9. R \in Injection(1 .. m, 1 .. l)
  BY <1>7, <1>8 DEF Injection, IsInjective
<1>10. /\ IsFiniteSet(1 .. m) /\ IsFiniteSet(1 .. l)
       /\ Cardinality(1 .. m) = m /\ Cardinality(1 .. l) = l
  <2>1. /\ IsFiniteSet(1 .. m) /\ Cardinality(1 .. m) = IF 1 > m THEN 0 ELSE m - 1 + 1
        /\ IsFiniteSet(1 .. l) /\ Cardinality(1 .. l) = IF 1 > l THEN 0 ELSE l - 1 + 1
    BY <1>1, <1>2, FS_Interval
  <2>2. QED
    BY <1>1, <1>2, <2>1
<1>11. m <= l
  BY <1>9, <1>10, FS_Injection
<1>12. QED
  BY <1>1, <1>2, <1>11 DEF m, l, R

\* What clients and cursors are.
THEOREM PagesTypes == PagesSpec => []PagesTypeOK
<1>1. ASSUME BuildInv, PagesInv PROVE PagesTypeOK
  <2>1. ASSUME status = "paging"
        PROVE  /\ cursor # NoCursor
               /\ \/ cursor.phase \in {"covering", "direct"} /\ query.kind \in RangeKinds
                  \/ /\ cursor.phase = "id" /\ query.kind \in {"prefix", "asn"}
                     /\ cursor.key = Last(items)
                  \/ /\ cursor.phase = "page" /\ query.kind = "asnPage"
                     /\ cursor.key \in 2 .. Len(Data.routes)
    <3>1. PICK n \in 1 .. Len(Result) - 1 : items = FirstOf(Result, n) /\ Stands(cursor, n)
      BY <1>1, <2>1 DEF PagesInv
    <3>2. Len(Result) \in Nat /\ Served /\ input \in Inputs /\ query \in Queries(input)
      BY <1>1, <2>1, PagedResult DEF PagesInv
    <3>3. n # 0 /\ n \in Nat \ {0}
      BY <3>2
    <3>4. cursor # NoCursor
      BY <3>1, StandsIsCursor
    <3>5. CASE query.kind \in RangeKinds /\ RangeStands(cursor, n)
      BY <3>3, <3>4, <3>5 DEF RangeStands, From
    <3>6. CASE query.kind \in {"prefix", "asn"} /\ IDStands(cursor, n)
      <4>1. cursor = From("id", Result[n])
        BY <3>3, <3>6 DEF IDStands
      <4>2. cursor.phase = "id" /\ cursor.key = Result[n]
        BY <4>1 DEF From
      <4>3. Len(items) = n /\ items[n] = Result[n]
        BY <3>1, <3>3 DEF FirstOf
      <4>4. QED
        BY <3>4, <3>6, <4>2, <4>3 DEF Last
    <3>7. CASE query.kind = "asnPage" /\ NumberStands(cursor, n)
      <4>1. PICK number \in 2 .. Len(Result) : cursor = From("page", number)
        BY <3>3, <3>7 DEF NumberStands
      <4>2. IDQuery(RoutesFrom(query.asn))
        BY <1>1, <3>2, <3>7, QueryAsked
      <4>3. Len(Result) <= Len(Data.routes) /\ Len(Data.routes) \in Nat
        BY <4>2, ListedAtMost
      <4>4. number \in 2 .. Len(Data.routes)
        BY <3>2, <4>3
      <4>5. cursor.phase = "page" /\ cursor.key = number
        BY <4>1 DEF From
      <4>6. QED
        BY <3>4, <3>7, <4>4, <4>5
    <3>8. QED
      BY <3>1, <3>5, <3>6, <3>7 DEF Stands
  <2>2. FirstPage # NoCursor
    <3>1. FirstPage.phase = "first" /\ NoCursor.phase = "end"
      BY DEF FirstPage, NoCursor
    <3>2. QED
      BY <3>1
  <2>3. query = [kind |-> "none"] \/ query \in Queries(input)
    BY <1>1 DEF PagesInv
  <2>4. status \in {"none", "asked", "paging", "refused", "done"}
    BY <1>1 DEF PagesInv
  <2>5. status \in {"none", "asked", "refused"} => items = <<>> /\ cursor = FirstPage
    BY <1>1 DEF PagesInv
  <2>6. status = "done" <=> cursor = NoCursor
    BY <1>1, <2>1, <2>2, <2>4, <2>5 DEF PagesInv
  <2>7. QED
    BY <2>1, <2>3, <2>4, <2>5, <2>6 DEF PagesTypeOK
<1>2. QED
  BY <1>1, PagesInvariance, PTL
=============================================================================
