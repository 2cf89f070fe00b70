--------------------------- MODULE PipelineProofs ---------------------------
(***************************************************************************)
(* A published release agrees with itself and with its sources: both       *)
(* editions hold the same dataset, and it is what the registries and the   *)
(* feeds published.                                                        *)
(*                                                                         *)
(* The argument follows the rows.  A file "lists" a family of values when  *)
(* it has one row for each member; a parse job's file lists the rows of    *)
(* the accepted objects by their places, the merged file those of all      *)
(* registries, and geolocations.csv the lines read so far.  PipelineInv    *)
(* says this of every state; what a build makes of its input is            *)
(* LookupsProofs'.                                                         *)
(***************************************************************************)
EXTENDS Pipeline, LookupsProofs, SequenceTheorems

-----------------------------------------------------------------------------
(* Sequences that list a family of values, each member once *)

\* The numbers from 1 to m, one for each member of a set.
Numbers(place, m, set) ==
  /\ m \in Nat /\ place \in [1 .. m -> set]
  /\ \A k, l \in 1 .. m : place[k] = place[l] => k = l
  /\ \A p \in set : \E k \in 1 .. m : place[k] = p

\* A sequence of the values of a family, one for each of its places.
Lists(seq, family) ==
  \E place : Numbers(place, Len(seq), DOMAIN family)
            /\ seq = [k \in 1 .. Len(seq) |-> family[place[k]]]

\* A sequence is the function of its places.
LEMMA AsFunction ==
  ASSUME NEW S, NEW seq \in Seq(S)
  PROVE  /\ seq = [k \in 1 .. Len(seq) |-> seq[k]] /\ DOMAIN seq = 1 .. Len(seq)
         /\ Len(seq) \in Nat /\ \A k \in 1 .. Len(seq) : seq[k] \in S
OBVIOUS

\* A sequence with one more value.
LEMMA AppendedTo ==
  ASSUME NEW m \in Nat, NEW seq, seq = [k \in 1 .. m |-> seq[k]], NEW value
  PROVE  Append(seq, value) = [k \in 1 .. m + 1 |-> IF k <= m THEN seq[k] ELSE value]
<1>1. seq \in Seq({seq[k] : k \in 1 .. m}) /\ Len(seq) = m
  OBVIOUS
<1>2. QED
  BY <1>1

\* A set with a number for each of its members, and one member more.
LEMMA NumbersMore ==
  ASSUME NEW m, NEW set, NEW place, Numbers(place, m, set), NEW x, x \notin set
  PROVE  Numbers([k \in 1 .. m + 1 |-> IF k <= m THEN place[k] ELSE x], m + 1, set \cup {x})
<1> DEFINE more == [k \in 1 .. m + 1 |-> IF k <= m THEN place[k] ELSE x]
<1>1. m \in Nat /\ place \in [1 .. m -> set]
  BY DEF Numbers
<1>2. \A k \in 1 .. m : k \in 1 .. m + 1 /\ more[k] = place[k]
  BY <1>1
<1>3. m + 1 \in 1 .. m + 1 /\ more[m + 1] = x
  BY <1>1
<1>4. \A k \in 1 .. m + 1 : k \in 1 .. m \/ k = m + 1
  BY <1>1
<1>5. more \in [1 .. m + 1 -> set \cup {x}]
  BY <1>1
<1> HIDE DEF more
<1>6. \A k, l \in 1 .. m + 1 : more[k] = more[l] => k = l
  BY <1>1, <1>2, <1>3, <1>4 DEF Numbers
<1>7. \A p \in set \cup {x} : \E k \in 1 .. m + 1 : more[k] = p
  BY <1>2, <1>3 DEF Numbers
<1>8. QED
  BY <1>1, <1>5, <1>6, <1>7 DEF Numbers, more

\* Whatever the values are, what is kept of them stands at the accepted places.
KeptAt(accepted, n, m, place) ==
  /\ Numbers(place, m, {i \in 1 .. n : i \in accepted})
  /\ \A values : Len(values) \in Nat /\ n <= Len(values) =>
       Kept(values, accepted)[n] = [k \in 1 .. m |-> values[place[k]]]

\* Every prefix of a file has such places.
LEMMA KeptPlaces ==
  ASSUME NEW accepted, NEW n \in Nat
  PROVE  \E m, place : KeptAt(accepted, n, m, place)
<1> DEFINE Good(j) == \E m, place : KeptAt(accepted, j, m, place)
           G == {j \in Nat : Good(j)}
<1>1. 0 \in G
  <2>1. Numbers(<<>>, 0, {i \in 1 .. 0 : i \in accepted})
    BY DEF Numbers
  <2>2. ASSUME NEW values, Len(values) \in Nat
        PROVE Kept(values, accepted)[0] = [k \in 1 .. 0 |-> values[<<>>[k]]]
    BY <2>2, KeptSteps
  <2>3. KeptAt(accepted, 0, 0, <<>>)
    BY <2>1, <2>2 DEF KeptAt
  <2>4. QED
    BY <2>3
<1>2. ASSUME NEW j \in G PROVE j + 1 \in G
  <2>1. PICK m, place : KeptAt(accepted, j, m, place)
    OBVIOUS
  <2>2. m \in Nat /\ Numbers(place, m, {i \in 1 .. j : i \in accepted})
    BY <2>1 DEF KeptAt, Numbers
  <2>3. CASE j + 1 \in accepted
    <3> DEFINE more == [k \in 1 .. m + 1 |-> IF k <= m THEN place[k] ELSE j + 1]
    <3>1. {i \in 1 .. j + 1 : i \in accepted} = {i \in 1 .. j : i \in accepted} \cup {j + 1}
      BY <2>3
    <3>2. Numbers(more, m + 1, {i \in 1 .. j + 1 : i \in accepted})
      <4> DEFINE S == {i \in 1 .. j : i \in accepted}
      <4>1. j + 1 \notin S
        OBVIOUS
      <4>2. Numbers(place, m, S)
        BY <2>2
      <4> HIDE DEF S
      <4>3. Numbers(more, m + 1, S \cup {j + 1})
        BY <4>1, <4>2, NumbersMore
      <4>4. QED
        BY <3>1, <4>3 DEF S
    <3>3. ASSUME NEW values, Len(values) \in Nat, j + 1 <= Len(values)
          PROVE Kept(values, accepted)[j + 1] = [k \in 1 .. m + 1 |-> values[more[k]]]
      <4> DEFINE old == Kept(values, accepted)[j]
      <4>1. old = [k \in 1 .. m |-> values[place[k]]]
        BY <2>1, <3>3 DEF KeptAt
      <4>2. Kept(values, accepted)[j + 1] = Append(old, values[j + 1])
        <5>1. j + 1 \in 1 .. Len(values) /\ (j + 1) - 1 = j
          BY <3>3
        <5>2. Kept(values, accepted)[j + 1] =
                IF j + 1 \in accepted
                THEN Append(Kept(values, accepted)[(j + 1) - 1], values[j + 1])
                ELSE Kept(values, accepted)[(j + 1) - 1]
          BY <3>3, <5>1, KeptSteps
        <5>3. QED
          BY <2>3, <5>1, <5>2
      <4> HIDE DEF old
      <4>3. old = [k \in 1 .. m |-> old[k]] /\ \A k \in 1 .. m : old[k] = values[place[k]]
        BY <4>1
      <4>4. Append(old, values[j + 1])
              = [k \in 1 .. m + 1 |-> IF k <= m THEN old[k] ELSE values[j + 1]]
        BY <2>2, <4>3, AppendedTo
      <4>5. \A k \in 1 .. m + 1 : (IF k <= m THEN old[k] ELSE values[j + 1]) = values[more[k]]
        BY <2>2, <4>3
      <4>6. QED
        BY <4>2, <4>4, <4>5
    <3>4. KeptAt(accepted, j + 1, m + 1, more)
      BY <3>2, <3>3 DEF KeptAt
    <3>5. QED
      BY <3>4
  <2>4. CASE j + 1 \notin accepted
    <3>1. {i \in 1 .. j + 1 : i \in accepted} = {i \in 1 .. j : i \in accepted}
      BY <2>4
    <3>2. ASSUME NEW values, Len(values) \in Nat, j + 1 <= Len(values)
          PROVE Kept(values, accepted)[j + 1] = [k \in 1 .. m |-> values[place[k]]]
      <4>1. Kept(values, accepted)[j] = [k \in 1 .. m |-> values[place[k]]]
        BY <2>1, <3>2 DEF KeptAt
      <4>2. Kept(values, accepted)[j + 1] = Kept(values, accepted)[j]
        BY <2>4, <3>2, KeptSteps
      <4>3. QED
        BY <4>1, <4>2
    <3>3. KeptAt(accepted, j + 1, m, place)
      BY <2>2, <3>1, <3>2 DEF KeptAt
    <3>4. QED
      BY <3>3
  <2>5. QED
    BY <2>3, <2>4
<1>3. G = Nat
  <2> HIDE DEF G
  <2>1. G \in SUBSET Nat
    BY DEF G
  <2>2. QED
    BY <1>1, <1>2, <2>1, NatSetInduction
<1>4. QED
  BY <1>3

\* A family with other names for its places, and a sequence of the values it
\* has there.
LEMMA ListsRenamed ==
  ASSUME NEW seq, NEW family, Lists(seq, family),
         NEW other, other = [k \in 1 .. Len(seq) |-> other[k]],
         NEW named, NEW name \in [DOMAIN family -> DOMAIN named],
         \A p, q \in DOMAIN family : name[p] = name[q] => p = q,
         \A r \in DOMAIN named : \E p \in DOMAIN family : name[p] = r,
         \A k \in 1 .. Len(seq), p \in DOMAIN family :
            seq[k] = family[p] => other[k] = named[name[p]]
  PROVE  Lists(other, named)
<1>1. PICK place : Numbers(place, Len(seq), DOMAIN family)
                     /\ seq = [k \in 1 .. Len(seq) |-> family[place[k]]]
  BY DEF Lists
<1> DEFINE m == Len(seq)
           new == [k \in 1 .. m |-> name[place[k]]]
<1>2. m \in Nat /\ place \in [1 .. m -> DOMAIN family]
  BY <1>1 DEF Numbers
<1>3. Len(other) = m
  <2>1. other \in Seq({other[k] : k \in 1 .. m})
    BY <1>2
  <2>2. DOMAIN other = 1 .. m
    OBVIOUS
  <2>3. QED
    BY <1>2, <2>1, <2>2
<1>4. \A k \in 1 .. m : seq[k] = family[place[k]]
  BY <1>1
<1> HIDE DEF m
<1>5. Numbers(new, m, DOMAIN named)
  <2>1. new \in [1 .. m -> DOMAIN named]
    BY <1>2
  <2>2. \A k, l \in 1 .. m : new[k] = new[l] => k = l
    BY <1>1, <1>2 DEF Numbers, m
  <2>3. ASSUME NEW r \in DOMAIN named PROVE \E k \in 1 .. m : new[k] = r
    <3>1. PICK p \in DOMAIN family : name[p] = r
      OBVIOUS
    <3>2. PICK k \in 1 .. m : place[k] = p
      BY <1>1 DEF Numbers, m
    <3>3. QED
      BY <3>1, <3>2
  <2> HIDE DEF new
  <2>4. QED
    BY <1>2, <2>1, <2>2, <2>3 DEF Numbers
<1>6. \A k \in 1 .. m : other[k] = named[new[k]]
  BY <1>2, <1>4 DEF m
<1>7. other = [k \in 1 .. m |-> named[new[k]]]
  BY <1>6 DEF m
<1> HIDE DEF new
<1>8. QED
  BY <1>3, <1>5, <1>7 DEF Lists

\* The family of two.
Both(one, two) ==
  [p \in (DOMAIN one) \cup DOMAIN two |-> IF p \in DOMAIN one THEN one[p] ELSE two[p]]

\* What two sequences list, one after the other.
LEMMA ListsJoined ==
  ASSUME NEW seq, NEW one, Lists(seq, one), NEW next, NEW two, Lists(next, two),
         (DOMAIN one) \cap (DOMAIN two) = {}
  PROVE  Lists(seq \o next, Both(one, two))
<1>1. PICK a : Numbers(a, Len(seq), DOMAIN one) /\ seq = [k \in 1 .. Len(seq) |-> one[a[k]]]
  BY DEF Lists
<1>2. PICK b : Numbers(b, Len(next), DOMAIN two) /\ next = [k \in 1 .. Len(next) |-> two[b[k]]]
  BY DEF Lists
<1> DEFINE m == Len(seq)
           l == Len(next)
           place == [k \in 1 .. m + l |-> IF k <= m THEN a[k] ELSE b[k - m]]
<1>3. /\ m \in Nat /\ a \in [1 .. m -> DOMAIN one]
      /\ l \in Nat /\ b \in [1 .. l -> DOMAIN two]
  BY <1>1, <1>2 DEF Numbers
<1>4. /\ seq \o next = [k \in 1 .. m + l |-> IF k <= m THEN seq[k] ELSE next[k - m]]
      /\ Len(seq \o next) = m + l
  <2> DEFINE S == {seq[k] : k \in 1 .. m} \cup {next[k] : k \in 1 .. l}
  <2>1. /\ seq = [k \in 1 .. m |-> seq[k]] /\ \A k \in 1 .. m : seq[k] \in S
        /\ next = [k \in 1 .. l |-> next[k]] /\ \A k \in 1 .. l : next[k] \in S
    <3>1. DOMAIN seq = 1 .. m /\ DOMAIN next = 1 .. l
      BY <1>1, <1>2
    <3>2. seq = [k \in 1 .. m |-> seq[k]] /\ next = [k \in 1 .. l |-> next[k]]
      BY <1>1, <1>2, <3>1
    <3> HIDE DEF m, l
    <3>3. QED
      BY <3>2
  <2> HIDE DEF S
  <2>2. seq \in Seq(S) /\ next \in Seq(S)
    <3> HIDE DEF m, l
    <3>1. m \in Nat /\ l \in Nat
      BY <1>3
    <3>2. QED
      BY <2>1, <3>1
  <2>3. /\ seq \o next \in Seq(S) /\ Len(seq \o next) = m + l
        /\ \A k \in 1 .. m + l : (seq \o next)[k] = IF k <= m THEN seq[k] ELSE next[k - m]
    BY <2>2, ConcatProperties
  <2> HIDE DEF m, l
  <2>4. seq \o next = [k \in 1 .. Len(seq \o next) |-> (seq \o next)[k]]
    BY <2>3, AsFunction
  <2>5. QED
    BY <2>3, <2>4
<1>5. /\ \A k \in 1 .. m : seq[k] = one[a[k]]
      /\ \A k \in 1 .. l : next[k] = two[b[k]]
  BY <1>1, <1>2
<1> HIDE DEF m, l
<1>6. \A k \in 1 .. m : k \in 1 .. m + l /\ place[k] = a[k]
  BY <1>3
<1>7. \A k \in 1 .. l : k + m \in 1 .. m + l /\ place[k + m] = b[k]
  BY <1>3
<1>8. \A k \in 1 .. m + l : k \in 1 .. m \/ \E i \in 1 .. l : k = i + m
  <2>1. ASSUME NEW k \in 1 .. m + l, k \notin 1 .. m PROVE k - m \in 1 .. l /\ k = (k - m) + m
    BY <1>3, <2>1
  <2>2. QED
    BY <2>1
<1>9. Numbers(place, m + l, (DOMAIN one) \cup DOMAIN two)
  <2>1. place \in [1 .. m + l -> (DOMAIN one) \cup DOMAIN two]
    <3>1. ASSUME NEW k \in 1 .. m + l PROVE place[k] \in (DOMAIN one) \cup DOMAIN two
      <4> HIDE DEF place
      <4>1. CASE k \in 1 .. m
        BY <1>3, <1>6, <4>1
      <4>2. CASE k \notin 1 .. m
        <5>1. PICK i \in 1 .. l : k = i + m
          BY <1>8, <4>2
        <5>2. place[k] = b[i]
          BY <1>7, <5>1
        <5>3. QED
          BY <1>3, <5>2
      <4>3. QED
        BY <4>1, <4>2
    <3>2. QED
      BY <3>1
  <2> HIDE DEF place
  <2>2. \A k, i \in 1 .. m + l : place[k] = place[i] => k = i
    <3>1. \A k, i \in 1 .. m : place[k] = place[i] => k = i
      BY <1>1, <1>6 DEF Numbers, m
    <3>2. \A k, i \in 1 .. l : place[k + m] = place[i + m] => k = i
      BY <1>2, <1>7 DEF Numbers, l
    <3>3. \A k \in 1 .. m, i \in 1 .. l : place[k] # place[i + m]
      BY <1>3, <1>6, <1>7
    <3>4. QED
      BY <1>8, <3>1, <3>2, <3>3
  <2>3. ASSUME NEW p \in (DOMAIN one) \cup DOMAIN two PROVE \E k \in 1 .. m + l : place[k] = p
    <3>1. CASE p \in DOMAIN one
      <4>1. PICK k \in 1 .. m : a[k] = p
        BY <1>1, <3>1 DEF Numbers, m
      <4>2. QED
        BY <1>6, <4>1
    <3>2. CASE p \in DOMAIN two
      <4>1. PICK k \in 1 .. l : b[k] = p
        BY <1>2, <3>2 DEF Numbers, l
      <4>2. QED
        BY <1>7, <4>1
    <3>3. QED
      BY <3>1, <3>2
  <2>4. QED
    BY <1>3, <2>1, <2>2, <2>3 DEF Numbers
<1>10. ASSUME NEW k \in 1 .. m + l
       PROVE (IF k <= m THEN seq[k] ELSE next[k - m]) = Both(one, two)[place[k]]
  <2>1. CASE k <= m
    <3>1. k \in 1 .. m
      BY <1>3, <2>1
    <3>2. place[k] = a[k] /\ a[k] \in DOMAIN one /\ seq[k] = one[a[k]]
      BY <1>3, <1>5, <1>6, <3>1
    <3>3. QED
      BY <2>1, <3>2 DEF Both
  <2>2. CASE ~ (k <= m)
    <3>1. k - m \in 1 .. l
      BY <1>3, <2>2
    <3>2. place[k] = b[k - m] /\ b[k - m] \in DOMAIN two /\ next[k - m] = two[b[k - m]]
      BY <1>3, <1>5, <2>2, <3>1
    <3> HIDE DEF place
    <3>3. b[k - m] \notin DOMAIN one
      BY <3>2
    <3>4. QED
      BY <2>2, <3>2, <3>3 DEF Both
  <2>3. QED
    BY <2>1, <2>2
<1> HIDE DEF place
<1>11. seq \o next = [k \in 1 .. Len(seq \o next) |-> Both(one, two)[place[k]]]
  BY <1>4, <1>10 DEF m, l
<1>12. DOMAIN Both(one, two) = (DOMAIN one) \cup DOMAIN two
  BY DEF Both
<1>13. QED
  BY <1>4, <1>9, <1>11, <1>12 DEF Lists, m, l

\* A family has as many members as the sequence is long, and a value as often.
LEMMA ListsCount ==
  ASSUME NEW seq, NEW family, Lists(seq, family)
  PROVE  /\ IsFiniteSet(DOMAIN family) /\ Cardinality(DOMAIN family) = Len(seq)
         /\ \A value : Times(seq, value) = Times(family, value)
<1>1. PICK place : Numbers(place, Len(seq), DOMAIN family)
                     /\ seq = [k \in 1 .. Len(seq) |-> family[place[k]]]
  BY DEF Lists
<1> DEFINE m == Len(seq)
<1>2. m \in Nat /\ place \in [1 .. m -> DOMAIN family]
  BY <1>1 DEF Numbers
<1>3. DOMAIN seq = 1 .. m /\ \A k \in 1 .. m : seq[k] = family[place[k]]
  BY <1>1
<1>4. IsFiniteSet(1 .. m) /\ Cardinality(1 .. m) = m
  BY <1>2, FS_Interval
<1> HIDE DEF m
<1>5. /\ \A k, l \in 1 .. m : place[k] = place[l] => k = l
      /\ \A p \in DOMAIN family : \E k \in 1 .. m : place[k] = p
  BY <1>1 DEF Numbers, m
<1>6. ASSUME NEW A \in SUBSET (1 .. m), NEW B \in SUBSET (DOMAIN family),
             \A k \in 1 .. m : k \in A <=> place[k] \in B
      PROVE IsFiniteSet(B) /\ Cardinality(A) = Cardinality(B)
  <2> DEFINE f == [k \in A |-> place[k]]
  <2>1. IsFiniteSet(A)
    BY <1>4, FS_Subset
  <2>2. f \in [A -> B]
    BY <1>2, <1>6
  <2>3. \A k, l \in A : f[k] = f[l] => k = l
    BY <1>5
  <2>4. \A p \in B : \E k \in A : f[k] = p
    BY <1>5, <1>6
  <2> HIDE DEF f
  <2>5. f \in Bijection(A, B)
    BY <2>2, <2>3, <2>4 DEF Bijection, Injection, Surjection, IsInjective
  <2>6. ExistsBijection(A, B)
    BY <2>5 DEF ExistsBijection
  <2>7. QED
    BY <2>1, <2>6, FS_Bijection
<1>7. IsFiniteSet(DOMAIN family) /\ Cardinality(DOMAIN family) = m
  BY <1>2, <1>4, <1>6
<1>8. ASSUME NEW value PROVE Times(seq, value) = Times(family, value)
  <2> DEFINE A == {k \in 1 .. m : seq[k] = value}
             B == {p \in DOMAIN family : family[p] = value}
  <2>1. \A k \in 1 .. m : k \in A <=> place[k] \in B
    BY <1>2, <1>3
  <2>2. A \in SUBSET (1 .. m) /\ B \in SUBSET (DOMAIN family)
    OBVIOUS
  <2> HIDE DEF A, B
  <2>3. Cardinality(A) = Cardinality(B)
    BY <1>6, <2>1, <2>2
  <2>4. QED
    BY <1>3, <2>3 DEF A, B, Times
<1>9. QED
  BY <1>7, <1>8 DEF m

\* Sequences one after the other, up to each of them.
LEMMA FlattenSteps ==
  ASSUME NEW seqs, Len(seqs) \in Nat \ {0}
  PROVE  \E f : /\ FlattenSeq(seqs) = f[Len(seqs)]
                /\ \A n \in 1 .. Len(seqs) :
                     f[n] = IF n = 1 THEN seqs[1] ELSE f[n - 1] \o seqs[n]
<1> DEFINE At(f, n) == IF n = 1 THEN seqs[n] ELSE f[n - 1] \o seqs[n]
           Def(f) == [n \in 1 .. Len(seqs) |-> At(f, n)]
           f0 == CHOOSE f : f = Def(f)
           Exists(m) == \E f : f = [n \in 1 .. m |-> At(f, n)]
           G == {m \in Nat : Exists(m)}
<1>1. 0 \in G
  <2>1. [n \in 1 .. 0 |-> <<>>] = [n \in 1 .. 0 |-> At([i \in 1 .. 0 |-> <<>>], n)]
    OBVIOUS
  <2>2. QED
    BY <2>1
<1>2. ASSUME NEW m \in G PROVE m + 1 \in G
  <2>1. m \in Nat
    OBVIOUS
  <2>2. PICK f : f = [n \in 1 .. m |-> At(f, n)]
    OBVIOUS
  <2> DEFINE g == [n \in 1 .. m + 1 |-> IF n <= m THEN f[n] ELSE At(f, n)]
  <2>3. ASSUME NEW n \in 1 .. m + 1 PROVE g[n] = At(g, n)
    <3>1. n # 1 => n - 1 \in 1 .. m /\ g[n - 1] = f[n - 1]
      BY <2>1
    <3>2. g[n] = At(f, n)
      <4>1. CASE n <= m
        <5>1. n \in 1 .. m /\ g[n] = f[n]
          BY <2>1, <4>1
        <5>2. QED
          BY <2>2, <5>1
      <4>2. CASE ~ (n <= m)
        BY <4>2
      <4>3. QED
        BY <4>1, <4>2
    <3> HIDE DEF g
    <3>3. QED
      BY <3>1, <3>2
  <2>4. g = [n \in 1 .. m + 1 |-> At(g, n)]
    BY <2>3
  <2>5. Exists(m + 1)
    BY <2>4
  <2> HIDE DEF Exists
  <2>6. QED
    BY <2>1, <2>5
<1>3. G = Nat
  <2> HIDE DEF G
  <2>1. G \in SUBSET Nat
    BY DEF G
  <2>2. QED
    BY <1>1, <1>2, <2>1, NatSetInduction
<1>4. \E f : f = Def(f)
  <2>1. Len(seqs) \in G
    BY <1>3
  <2>2. QED
    BY <2>1
<1>5. f0 = Def(f0)
  BY <1>4
<1>6. FlattenSeq(seqs) = f0[Len(seqs)]
  BY DEF FlattenSeq
<1> HIDE DEF f0
<1>7. \A n \in 1 .. Len(seqs) : f0[n] = At(f0, n)
  BY <1>5
<1>8. QED
  BY <1>6, <1>7

\* The members of the first n of a sequence of families.
Places(families, n) == UNION {{<<i, p>> : p \in DOMAIN families[i]} : i \in 1 .. n}

\* The first n of a sequence of families as one.
Together(families, n) == [place \in Places(families, n) |-> families[place[1]][place[2]]]

\* The members of one more family.
LEMMA PlacesMore ==
  ASSUME NEW families, NEW n \in Nat
  PROVE  LET more == [place \in {<<n + 1, p>> : p \in DOMAIN families[n + 1]}
                        |-> families[place[1]][place[2]]]
         IN  /\ Places(families, n + 1)
                  = Places(families, n) \cup {<<n + 1, p>> : p \in DOMAIN families[n + 1]}
             /\ Places(families, n) \cap DOMAIN more = {}
             /\ Both(Together(families, n), more) = Together(families, n + 1)
<1> DEFINE S == {<<n + 1, p>> : p \in DOMAIN families[n + 1]}
           more == [place \in S |-> families[place[1]][place[2]]]
<1>1. Places(families, n + 1) = Places(families, n) \cup S
  <2>1. 1 .. n + 1 = (1 .. n) \cup {n + 1}
    OBVIOUS
  <2>2. ASSUME NEW x \in Places(families, n + 1) PROVE x \in Places(families, n) \cup S
    <3>1. PICK i \in 1 .. n + 1 : x \in {<<i, p>> : p \in DOMAIN families[i]}
      BY DEF Places
    <3>2. CASE i = n + 1
      BY <3>1, <3>2
    <3>3. CASE i \in 1 .. n
      BY <3>1, <3>3 DEF Places
    <3>4. QED
      BY <2>1, <3>2, <3>3
  <2>3. ASSUME NEW x \in S PROVE x \in Places(families, n + 1)
    <3>1. n + 1 \in 1 .. n + 1
      OBVIOUS
    <3>2. QED
      BY <3>1 DEF Places
  <2>4. Places(families, n) \subseteq Places(families, n + 1)
    BY <2>1 DEF Places
  <2> HIDE DEF S
  <2>5. QED
    BY <2>2, <2>3, <2>4
<1>2. Places(families, n) \cap S = {}
  <2>1. ASSUME NEW place \in Places(families, n), place \in S PROVE FALSE
    <3>1. PICK i \in 1 .. n : \E p \in DOMAIN families[i] : place = <<i, p>>
      BY DEF Places
    <3>2. PICK q \in DOMAIN families[n + 1] : place = <<n + 1, q>>
      BY <2>1
    <3>3. i = n + 1
      BY <3>1, <3>2
    <3>4. QED
      BY <3>3
  <2>2. QED
    BY <2>1
<1> HIDE DEF S
<1>3. DOMAIN more = S
  OBVIOUS
<1>4. ASSUME NEW place \in Places(families, n) \cup S
      PROVE (IF place \in Places(families, n) THEN Together(families, n)[place] ELSE more[place])
              = families[place[1]][place[2]]
  BY DEF Together
<1> HIDE DEF more
<1>5. Both(Together(families, n), more) = Together(families, n + 1)
  <2>1. DOMAIN Together(families, n) = Places(families, n)
    BY DEF Together
  <2>2. Both(Together(families, n), more)
          = [place \in Places(families, n) \cup S |->
               IF place \in Places(families, n) THEN Together(families, n)[place] ELSE more[place]]
    BY <1>3, <2>1 DEF Both
  <2>3. Both(Together(families, n), more)
          = [place \in Places(families, n) \cup S |-> families[place[1]][place[2]]]
    BY <1>4, <2>2
  <2>4. QED
    BY <1>1, <2>3 DEF Together
<1>6. QED
  BY <1>1, <1>2, <1>3, <1>5 DEF S, more

\* What each of some sequences lists, all of them after each other.
LEMMA ListsFlattened ==
  ASSUME NEW seqs, Len(seqs) \in Nat, Len(seqs) = 0 => seqs = <<>>,
         NEW families, \A i \in 1 .. Len(seqs) : Lists(seqs[i], families[i])
  PROVE  Lists(FlattenSeq(seqs), Together(families, Len(seqs)))
<1>1. CASE Len(seqs) = 0
  <2>1. FlattenSeq(seqs) = <<>>
    BY <1>1 DEF FlattenSeq
  <2>2. Places(families, 0) = {}
    BY DEF Places
  <2>3. DOMAIN Together(families, 0) = {}
    BY <2>2 DEF Together
  <2>4. Numbers(<<>>, 0, {})
    BY DEF Numbers
  <2>5. <<>> = [k \in 1 .. 0 |-> Together(families, 0)[<<>>[k]]] /\ Len(<<>>) = 0
    OBVIOUS
  <2>6. Lists(<<>>, Together(families, 0))
    BY <2>3, <2>4, <2>5 DEF Lists
  <2>7. QED
    BY <1>1, <2>1, <2>6
<1>2. CASE Len(seqs) # 0
  <2> DEFINE m == Len(seqs)
  <2>1. PICK f : /\ FlattenSeq(seqs) = f[m]
                 /\ \A n \in 1 .. m : f[n] = IF n = 1 THEN seqs[1] ELSE f[n - 1] \o seqs[n]
    BY <1>2, FlattenSteps
  <2>2. m \in Nat \ {0} /\ \A i \in 1 .. m : Lists(seqs[i], families[i])
    BY <1>2
  <2> HIDE DEF m
  <2>3. ASSUME NEW n \in Nat, n + 1 \in 1 .. m
        PROVE Lists(seqs[n + 1], [place \in {<<n + 1, p>> : p \in DOMAIN families[n + 1]}
                                    |-> families[place[1]][place[2]]])
    <3> DEFINE item == seqs[n + 1]
               fam == families[n + 1]
               S == {<<n + 1, p>> : p \in DOMAIN fam}
               more == [place \in S |-> families[place[1]][place[2]]]
               name == [p \in DOMAIN fam |-> <<n + 1, p>>]
    <3>1. Lists(item, fam)
      BY <2>2, <2>3
    <3>2. item = [k \in 1 .. Len(item) |-> item[k]]
      BY <3>1 DEF Lists
    <3>3. name \in [DOMAIN fam -> DOMAIN more]
      OBVIOUS
    <3>4. \A p, q \in DOMAIN fam : name[p] = name[q] => p = q
      OBVIOUS
    <3>5. \A r \in DOMAIN more : \E p \in DOMAIN fam : name[p] = r
      OBVIOUS
    <3>6. \A p \in DOMAIN fam : more[name[p]] = fam[p]
      <4>1. ASSUME NEW p \in DOMAIN fam PROVE more[name[p]] = fam[p]
        <5>1. name[p] = <<n + 1, p>> /\ <<n + 1, p>> \in S
          OBVIOUS
        <5>2. more[<<n + 1, p>>] = families[<<n + 1, p>>[1]][<<n + 1, p>>[2]]
          BY <5>1
        <5>3. QED
          BY <5>1, <5>2
      <4>2. QED
        BY <4>1
    <3>7. \A k \in 1 .. Len(item), p \in DOMAIN fam :
            item[k] = fam[p] => item[k] = more[name[p]]
      BY <3>6
    <3> HIDE DEF item, fam, more, name
    <3>8. Lists(item, more)
      BY <3>1, <3>2, <3>3, <3>4, <3>5, <3>7, ListsRenamed
    <3>9. QED
      BY <3>8 DEF item, more, fam
  <2> DEFINE G == {n \in Nat : n + 1 \in 1 .. m => Lists(f[n + 1], Together(families, n + 1))}
  <2>4. 0 \in G
    <3> DEFINE more == [place \in {<<1, p>> : p \in DOMAIN families[1]}
                          |-> families[place[1]][place[2]]]
    <3>1. f[1] = seqs[1] /\ Lists(seqs[1], more)
      <4>1. 0 + 1 \in 1 .. m /\ 0 + 1 = 1
        BY <2>2
      <4>2. Lists(seqs[0 + 1], [place \in {<<0 + 1, p>> : p \in DOMAIN families[0 + 1]}
                                    |-> families[place[1]][place[2]]])
        BY ONLY <2>3, <4>1
      <4>3. QED
        BY <2>1, <4>1, <4>2
    <3>2. Places(families, 1) = {<<1, p>> : p \in DOMAIN families[1]}
      <4>1. 1 .. 1 = {1}
        OBVIOUS
      <4>2. QED
        BY ONLY <4>1, Zenon DEF Places
    <3>3. more = Together(families, 1)
      BY <3>2 DEF Together
    <3>4. QED
      BY <3>1, <3>3
  <2>5. ASSUME NEW n \in G PROVE n + 1 \in G
    <3> SUFFICES ASSUME (n + 1) + 1 \in 1 .. m
                 PROVE Lists(f[(n + 1) + 1], Together(families, (n + 1) + 1))
      OBVIOUS
    <3> DEFINE l == n + 1
               more == [place \in {<<l + 1, p>> : p \in DOMAIN families[l + 1]}
                          |-> families[place[1]][place[2]]]
    <3>1. l \in Nat /\ l \in 1 .. m /\ l + 1 \in 1 .. m /\ Lists(f[l], Together(families, l))
      BY <2>2
    <3> HIDE DEF l
    <3>2. f[l + 1] = f[l] \o seqs[l + 1]
      <4>1. l + 1 # 1 /\ (l + 1) - 1 = l
        BY <3>1
      <4>2. QED
        BY <2>1, <3>1, <4>1
    <3>3. Lists(seqs[l + 1], more)
      BY <2>3, <3>1
    <3>4. /\ DOMAIN Together(families, l) = Places(families, l)
          /\ Places(families, l) \cap DOMAIN more = {}
          /\ Both(Together(families, l), more) = Together(families, l + 1)
      <4>1. DOMAIN Together(families, l) = Places(families, l)
        BY DEF Together
      <4>2. QED
        BY <3>1, <4>1, PlacesMore
    <3> HIDE DEF more
    <3>5. Lists(f[l] \o seqs[l + 1], Both(Together(families, l), more))
      BY <3>1, <3>3, <3>4, ListsJoined
    <3>6. QED
      BY <3>2, <3>4, <3>5 DEF l
  <2>6. G = Nat
    <3> HIDE DEF G
    <3>1. G \in SUBSET Nat
      BY DEF G
    <3>2. QED
      BY <2>4, <2>5, <3>1, NatSetInduction
  <2>7. m - 1 \in G /\ (m - 1) + 1 = m
    <3> HIDE DEF G
    <3>1. QED
      BY <2>2, <2>6
  <2>8. Lists(f[m], Together(families, m))
    BY <2>2, <2>7
  <2>9. QED
    BY <2>1, <2>8 DEF m
<1>3. QED
  BY <1>1, <1>2

-----------------------------------------------------------------------------
(* The range of a prefix *)

\* A prefix ends inside the address space.
LEMMA PrefixInside ==
  ASSUME NEW prefix \in AllPrefixes
  PROVE  PrefixRange(prefix) \in Ranges /\ prefix.address <= PrefixEnd(prefix)
<1> DEFINE a == prefix.address
           h == Bits - prefix.length
           s == Power[h]
<1>1. /\ a \in Nat /\ a < Power[Bits] /\ h \in 0 .. Bits /\ Bits \in h .. Bits
      /\ Size(prefix.length) = s /\ Size(0) = Power[Bits] /\ a = a - (a % s)
  <2>1. Power[Bits] \in Nat
    BY BitsAssumption, PowerSteps
  <2>2. QED
    BY <2>1, BitsAssumption DEF AllPrefixes, Addresses, Masked, Size
<1>2. PrefixRange(prefix) = [start |-> a, end |-> a + s - 1] /\ PrefixEnd(prefix) = a + s - 1
  BY <1>1 DEF PrefixRange, PrefixEnd
<1>3. s \in Nat \ {0}
  BY <1>1, PowerSteps
<1>4. PICK k \in Nat \ {0} : Power[Bits] = k * s
  BY <1>1, PowerDivides
<1> HIDE DEF a, h, s
<1> DEFINE q == a \div s
<1>5. q \in Nat /\ a % s \in Nat /\ a = s * q + (a % s)
  BY <1>1, <1>3
<1> HIDE DEF q
<1>6. a = s * q /\ s * q \in Nat
  BY <1>1, <1>3, <1>5
<1>7. q < k
  <2>1. ASSUME k <= q PROVE FALSE
    <3>1. q - k \in Nat /\ s * (q - k) \in Nat /\ s * q = k * s + s * (q - k)
      BY <1>3, <1>4, <1>5, <2>1
    <3>2. k * s \in Nat
      BY <1>3
    <3>3. QED
      BY <1>1, <1>4, <1>6, <3>1, <3>2
  <2>2. QED
    BY <1>5, <2>1
<1>8. a + s <= Power[Bits] /\ Power[Bits] \in Nat
  <2>1. k - 1 - q \in Nat /\ s * (k - 1 - q) \in Nat /\ k * s = s * q + s + s * (k - 1 - q)
    BY <1>3, <1>4, <1>5, <1>7
  <2>2. QED
    BY <1>3, <1>4, <1>6, <2>1
<1>9. a \in Addresses /\ a + s - 1 \in Addresses /\ a <= a + s - 1
  BY <1>1, <1>3, <1>8 DEF Addresses
<1>10. QED
  BY <1>2, <1>9 DEF Ranges, a

\* The range of a prefix is cut into that prefix alone.
LEMMA OnePrefix ==
  ASSUME NEW prefix \in AllPrefixes
  PROVE  RangePrefixes(PrefixRange(prefix)) = <<prefix>>
<1> DEFINE range == PrefixRange(prefix)
           a == prefix.address
           h == Bits - prefix.length
           s == Power[h]
<1>1. /\ range \in Ranges /\ range.start = a /\ range.end = a + s - 1 /\ a <= range.end
  BY PrefixInside DEF PrefixRange, PrefixEnd, Size
<1>2. /\ a \in Nat /\ h \in 0 .. Bits /\ prefix = [address |-> a, length |-> Bits - h]
      /\ a = a - (a % s)
  BY BitsAssumption DEF AllPrefixes, Addresses, Masked, Size
<1>3. s \in Nat \ {0}
  BY <1>2, PowerSteps
<1> HIDE DEF range, a, h, s
<1>4. a % s = 0
  <2>1. a % s \in Int
    BY <1>2, <1>3
  <2>2. QED
    BY <1>2, <2>1
<1>5. range.end \in Nat
  BY <1>1, <1>2, <1>3
<1> DEFINE bits == BlockBits(a, range.end)
<1>6. /\ bits \in 0 .. Bits /\ a + Power[bits] - 1 <= range.end
      /\ \A larger \in bits + 1 .. Bits :
           ~ (a % Power[larger] = 0 /\ a + Power[larger] - 1 <= range.end)
  BY <1>1, <1>2, <1>5, BlockFits
<1> HIDE DEF bits
<1>7. bits = h
  <2>1. ~ (bits < h)
    <3>1. ASSUME bits < h PROVE FALSE
      <4>1. h \in bits + 1 .. Bits
        BY <1>2, <1>6, <3>1
      <4>2. a + Power[h] - 1 <= range.end
        BY <1>1, <1>2, <1>3 DEF s
      <4>3. QED
        BY <1>4, <1>6, <4>1, <4>2 DEF s
    <3>2. QED
      BY <3>1
  <2>2. ~ (h < bits)
    <3>1. ASSUME h < bits PROVE FALSE
      <4>1. Power[h] < Power[bits] /\ Power[bits] \in Nat
        BY <1>2, <1>6, <3>1, PowerGrows, PowerSteps
      <4>2. QED
        BY <1>1, <1>2, <1>3, <1>6, <4>1 DEF s
    <3>2. QED
      BY <3>1
  <2>3. QED
    BY <1>2, <1>6, <2>1, <2>2
<1>8. PICK pieces :
        /\ RangePrefixes(range) = pieces[range.start]
        /\ \A current \in range.start .. range.end + 1 :
             pieces[current] =
               IF current > range.end THEN <<>>
               ELSE <<[address |-> current, length |-> Bits - BlockBits(current, range.end)]>>
                      \o pieces[current + Power[BlockBits(current, range.end)]]
  BY <1>1, CutSteps
<1>9. pieces[a + s] = <<>>
  <2>1. a + s \in range.start .. range.end + 1 /\ a + s > range.end
    BY <1>1, <1>2, <1>3
  <2>2. QED
    BY <1>8, <2>1
<1>10. pieces[a] = <<prefix>> \o pieces[a + s]
  <2>1. a \in range.start .. range.end + 1 /\ ~ (a > range.end)
    BY <1>1, <1>2, <1>3
  <2>2. pieces[a] = <<[address |-> a, length |-> Bits - bits]>> \o pieces[a + Power[bits]]
    BY <1>8, <2>1 DEF bits
  <2>3. QED
    BY <1>2, <1>7, <2>2 DEF s
<1>11. QED
  BY <1>1, <1>8, <1>9, <1>10 DEF range

\* A written prefix is about the addresses of the prefix it masks to.
LEMMA CidrIsPrefix ==
  ASSUME NEW prefix \in WrittenPrefixes
  PROVE  /\ MaskedPrefix(prefix) \in AllPrefixes
         /\ CidrRange(prefix) = PrefixRange(MaskedPrefix(prefix))
         /\ CidrRange(prefix) \in Ranges
<1>1. MaskedPrefix(prefix) \in AllPrefixes
  BY MaskedIsPrefix
<1>2. CidrRange(prefix) = PrefixRange(MaskedPrefix(prefix))
  BY DEF CidrRange, PrefixRange, MaskedPrefix, PrefixEnd
<1>3. QED
  BY <1>1, <1>2, PrefixInside

-----------------------------------------------------------------------------
(* What a parse job writes *)

\* The rows that route objects with an origin may become.
RouteRows ==
  {[range |-> CidrRange(prefix), prefix |-> prefix, origin |-> origin] :
      prefix \in WrittenPrefixes, origin \in Nat}

\* The rows that aut-num objects may become.
AutnumRows == [asn : Nat, registry : ToSet(Registries)]

\* What an object becomes is a row of its file, and the feed it names is one.
LEMMA ObjectsBecomeRows ==
  ASSUME NEW feeds, NEW object \in Objects(feeds)
  PROVE  /\ WritesAllocation(object) => AllocationRow(object) \in Ranges
         /\ WritesRoute(object) => RouteRow(object) \in RouteRows
         /\ \A registry \in ToSet(Registries) :
              object.class = "aut-num" => AutnumRow(object, registry) \in AutnumRows
         /\ object.feed \in feeds \cup {NoFeed}
<1>1. CASE object.class = "inetnum"
  <2>1. object.start \in Addresses /\ object.end \in Addresses /\ object.feed \in feeds \cup {NoFeed}
    BY <1>1 DEF Objects
  <2>2. AllocationRow(object) = [start |-> object.start, end |-> object.end]
    BY <1>1 DEF AllocationRow
  <2>3. QED
    BY <1>1, <2>1, <2>2 DEF Ranges, WritesRoute
<1>2. CASE object.class = "route"
  <2>1. /\ object.prefix \in WrittenPrefixes /\ object.origin \in Nat \cup {NoOrigin}
        /\ object.feed \in feeds \cup {NoFeed}
    BY <1>2 DEF Objects
  <2>2. QED
    BY <1>2, <2>1 DEF RouteRow, RouteRows, WritesRoute, WritesAllocation
<1>3. CASE object.class = "aut-num"
  <2>1. object.asn \in Nat /\ object.feed \in feeds \cup {NoFeed}
    BY <1>3 DEF Objects
  <2>2. QED
    BY <1>3, <2>1 DEF AutnumRow, AutnumRows, WritesRoute, WritesAllocation
<1>4. CASE object.class = "delegated"
  <2>1. object.start \in Addresses /\ object.count \in Addresses /\ object.feed = NoFeed
    BY <1>4 DEF Objects
  <2>2. Size(0) \in Nat \ {0}
    BY SizeIsPositive, BitsAssumption
  <2>3. AllocationRow(object)
          = [start |-> object.start, end |-> (object.start + object.count - 1) % Size(0)]
    BY <1>4 DEF AllocationRow, DelegatedRange
  <2>4. (object.start + object.count - 1) % Size(0) \in Addresses
    <3>1. object.start \in Int /\ object.count \in Int
      BY <2>1, <2>2 DEF Addresses
    <3>2. QED
      BY <2>2, <3>1 DEF Addresses
  <2>5. QED
    BY <1>4, <2>1, <2>3, <2>4 DEF Ranges, WritesRoute
<1>5. QED
  BY <1>1, <1>2, <1>3, <1>4 DEF Objects

\* An object is one with its feed or without it.
LEMMA FeedsLost ==
  ASSUME NEW feeds, NEW objects \in SUBSET Objects(feeds)
  PROVE  FeedOrNot(objects) \in SUBSET Objects(feeds)
<1>1. ASSUME NEW object \in Objects(feeds)
      PROVE  [object EXCEPT !.feed = NoFeed] \in Objects(feeds)
  <2>1. CASE object.class = "inetnum"
    BY <2>1 DEF Objects
  <2>2. CASE object.class = "route"
    BY <2>2 DEF Objects
  <2>3. CASE object.class = "aut-num"
    BY <2>3 DEF Objects
  <2>4. CASE object.class = "delegated"
    BY <2>4 DEF Objects
  <2>5. QED
    BY <2>1, <2>2, <2>3, <2>4 DEF Objects
<1>2. QED
  BY <1>1 DEF FeedOrNot

\* What was read of an object before a cut is an object.
LEMMA PartsAreObjects ==
  ASSUME NEW feeds, NEW object \in Objects(feeds)
  PROVE  /\ object.class = "inetnum" => InetnumsCut(object) \in SUBSET Objects(feeds)
         /\ object.class = "route" => RoutesCut(object) \in SUBSET Objects(feeds)
         /\ object.class = "aut-num" => AutnumsCut(object) \in SUBSET Objects(feeds)
<1>1. ASSUME object.class = "inetnum" PROVE InetnumsCut(object) \in SUBSET Objects(feeds)
  <2>1. ASSUME NEW end \in 0 .. object.end
        PROVE  [object EXCEPT !.end = end, !.iana = FALSE, !.feed = NoFeed] \in Objects(feeds)
    <3>1. object.end \in Addresses
      BY <1>1 DEF Objects
    <3>2. Size(0) \in Nat \ {0}
      BY SizeIsPositive, BitsAssumption
    <3>3. end \in Addresses
      BY <3>1, <3>2 DEF Addresses
    <3>4. QED
      BY <1>1, <3>3 DEF Objects
  <2>2. \A iana \in {FALSE, object.iana} : [object EXCEPT !.iana = iana] \in Objects(feeds)
    BY <1>1 DEF Objects
  <2> DEFINE named == {[object EXCEPT !.iana = iana] : iana \in {FALSE, object.iana}}
  <2>3. named \in SUBSET Objects(feeds)
    BY <2>2
  <2>4. InetnumsCut(object) =
          {[object EXCEPT !.end = end, !.iana = FALSE, !.feed = NoFeed] : end \in 0 .. object.end}
          \cup FeedOrNot(named)
    BY DEF InetnumsCut
  <2> HIDE DEF named
  <2>5. QED
    BY <2>1, <2>3, <2>4, FeedsLost
<1>2. ASSUME object.class = "route" PROVE RoutesCut(object) \in SUBSET Objects(feeds)
  <2> DEFINE parts == {[object EXCEPT !.origin = origin] :
                          origin \in {NoOrigin, NoNumber, object.origin \div 10}}
             read == {object} \cup IF object.origin = NoOrigin THEN {} ELSE parts
  <2>1. ASSUME object.origin # NoOrigin PROVE parts \in SUBSET Objects(feeds)
    <3>1. object.origin \in Nat
      BY <1>2, <2>1 DEF Objects
    <3>2. \A origin \in {NoOrigin, NoNumber, object.origin \div 10} : origin \in Nat \cup {NoOrigin}
      BY <3>1 DEF NoNumber
    <3>3. \A origin \in Nat \cup {NoOrigin} : [object EXCEPT !.origin = origin] \in Objects(feeds)
      BY <1>2 DEF Objects
    <3>4. QED
      BY <3>2, <3>3
  <2>2. read \in SUBSET Objects(feeds)
    <3> HIDE DEF parts
    <3>1. QED
      BY <2>1
  <2>3. RoutesCut(object) = FeedOrNot(read)
    BY DEF RoutesCut
  <2> HIDE DEF read
  <2>4. QED
    BY <2>2, <2>3, FeedsLost
<1>3. ASSUME object.class = "aut-num" PROVE AutnumsCut(object) \in SUBSET Objects(feeds)
  <2>1. object.asn \div 10 \in Nat
    BY <1>3 DEF Objects
  <2>2. [object EXCEPT !.asn = @ \div 10, !.feed = NoFeed] \in Objects(feeds)
    BY <1>3, <2>1 DEF Objects
  <2>3. FeedOrNot({object}) \in SUBSET Objects(feeds)
    BY FeedsLost
  <2>4. QED
    BY <2>2, <2>3 DEF AutnumsCut
<1>4. QED
  BY <1>1, <1>2, <1>3

\* A registry one of whose files is read up to a cut still holds objects.
LEMMA CutsAreObjects ==
  ASSUME NEW feeds, NEW objects \in Seq(Objects(feeds)), NEW read \in CutReadings(objects)
  PROVE  read \in Seq(Objects(feeds))
<1>1. PICK kept \in DOMAIN objects : \E next \in kept + 1 .. Len(objects) + 1 :
        \E last \in ReadCut(objects[kept]) :
          read = SubSeq(objects, 1, kept - 1) \o last \o SubSeq(objects, next, Len(objects))
  <2> DEFINE Reading(kept, last, next) ==
               SubSeq(objects, 1, kept - 1) \o last \o SubSeq(objects, next, Len(objects))
  <2>1. CutReadings(objects) =
          UNION {UNION {{Reading(kept, last, next) : last \in ReadCut(objects[kept])} :
                           next \in kept + 1 .. Len(objects) + 1} : kept \in DOMAIN objects}
    BY DEF CutReadings
  <2> HIDE DEF Reading
  <2>2. PICK kept \in DOMAIN objects :
          read \in UNION {{Reading(kept, last, next) : last \in ReadCut(objects[kept])} :
                            next \in kept + 1 .. Len(objects) + 1}
    BY <2>1
  <2>3. PICK next \in kept + 1 .. Len(objects) + 1 :
          read \in {Reading(kept, last, next) : last \in ReadCut(objects[kept])}
    BY <2>2
  <2>4. PICK last \in ReadCut(objects[kept]) : read = Reading(kept, last, next)
    BY <2>3
  <2>5. QED
    BY <2>4 DEF Reading
<1>2. PICK next \in kept + 1 .. Len(objects) + 1 : \E last \in ReadCut(objects[kept]) :
        read = SubSeq(objects, 1, kept - 1) \o last \o SubSeq(objects, next, Len(objects))
  BY <1>1
<1>3. PICK last \in ReadCut(objects[kept]) :
        read = SubSeq(objects, 1, kept - 1) \o last \o SubSeq(objects, next, Len(objects))
  BY <1>2
<1> DEFINE object == objects[kept]
<1>4. object \in Objects(feeds) /\ kept \in 1 .. Len(objects) /\ Len(objects) \in Nat
  OBVIOUS
<1>5. /\ SubSeq(objects, 1, kept - 1) \in Seq(Objects(feeds))
      /\ SubSeq(objects, next, Len(objects)) \in Seq(Objects(feeds))
  <2>1. kept - 1 \in 0 .. Len(objects) /\ next \in 1 .. Len(objects) + 1
    BY <1>4
  <2>2. QED
    BY <1>4, <2>1
<1> HIDE DEF object
<1>6. ASSUME last # <<>> PROVE \E part \in Objects(feeds) : last = <<part>>
  <2>1. CASE object.class = "inetnum"
    <3>1. ReadCut(object) = {<<>>} \cup {<<part>> : part \in InetnumsCut(object)}
      BY <2>1 DEF ReadCut
    <3>2. QED
      BY <1>3, <1>4, <1>6, <2>1, <3>1, PartsAreObjects DEF object
  <2>2. CASE object.class = "route"
    <3>1. ReadCut(object) = {<<>>} \cup {<<part>> : part \in RoutesCut(object)}
      BY <2>2 DEF ReadCut
    <3>2. QED
      BY <1>3, <1>4, <1>6, <2>2, <3>1, PartsAreObjects DEF object
  <2>3. CASE object.class = "aut-num"
    <3>1. ReadCut(object) = {<<>>} \cup {<<part>> : part \in AutnumsCut(object)}
      BY <2>3 DEF ReadCut
    <3>2. QED
      BY <1>3, <1>4, <1>6, <2>3, <3>1, PartsAreObjects DEF object
  <2>4. CASE object.class = "delegated"
    <3>1. ReadCut(object) = {<<>>} \cup {<<part>> : part \in {}}
      BY <2>4 DEF ReadCut
    <3>2. QED
      BY <1>3, <1>6, <3>1 DEF object
  <2>5. object.class \in {"inetnum", "route", "aut-num", "delegated"}
    BY <1>4 DEF Objects
  <2>6. QED
    BY <2>1, <2>2, <2>3, <2>4, <2>5
<1>7. last \in Seq(Objects(feeds))
  <2>1. CASE last = <<>>
    BY <2>1
  <2>2. CASE last # <<>>
    <3>1. PICK part \in Objects(feeds) : last = <<part>>
      BY <1>6, <2>2
    <3>2. <<part>> \in Seq(Objects(feeds))
      OBVIOUS
    <3>3. QED
      BY <3>1, <3>2
  <2>3. QED
    BY <2>1, <2>2
<1>8. QED
  BY <1>3, <1>5, <1>7

\* The values at the accepted places of a sequence, one for each.
LEMMA ChosenPlaces ==
  ASSUME NEW values, Len(values) \in Nat, DOMAIN values = 1 .. Len(values),
         NEW accepted \in SUBSET DOMAIN values
  PROVE  \E m, place :
           /\ Numbers(place, m, accepted)
           /\ Kept(values, accepted)[Len(values)] = [k \in 1 .. m |-> values[place[k]]]
<1>1. PICK m, place : KeptAt(accepted, Len(values), m, place)
  BY KeptPlaces
<1>2. {i \in 1 .. Len(values) : i \in accepted} = accepted
  OBVIOUS
<1>3. Numbers(place, m, accepted)
  <2>1. Numbers(place, m, {i \in 1 .. Len(values) : i \in accepted})
    BY <1>1 DEF KeptAt
  <2>2. QED
    BY <1>2, <2>1
<1>4. Kept(values, accepted)[Len(values)] = [k \in 1 .. m |-> values[place[k]]]
  <2>1. Len(values) <= Len(values)
    OBVIOUS
  <2>2. QED
    BY <1>1, <2>1 DEF KeptAt
<1>5. QED
  BY <1>3, <1>4

\* A family of values at numbered places, in the order of the numbers.
LEMMA ListsNumbered ==
  ASSUME NEW family, NEW m, NEW place, Numbers(place, m, DOMAIN family),
         NEW seq, seq = [k \in 1 .. m |-> family[place[k]]]
  PROVE  Lists(seq, family)
<1>1. m \in Nat
  BY DEF Numbers
<1>2. seq \in Seq({seq[k] : k \in 1 .. m}) /\ Len(seq) = m
  BY <1>1
<1>3. QED
  BY <1>2 DEF Lists

\* A list of values in a set is a sequence over it.
LEMMA ListsType ==
  ASSUME NEW seq, NEW family, Lists(seq, family), NEW S, \A p \in DOMAIN family : family[p] \in S
  PROVE  seq \in Seq(S) /\ \A p \in DOMAIN family : \E k \in DOMAIN seq : seq[k] = family[p]
<1>1. PICK place : Numbers(place, Len(seq), DOMAIN family)
                   /\ seq = [k \in 1 .. Len(seq) |-> family[place[k]]]
  BY DEF Lists
<1>2. /\ Len(seq) \in Nat /\ place \in [1 .. Len(seq) -> DOMAIN family]
      /\ \A p \in DOMAIN family : \E k \in 1 .. Len(seq) : place[k] = p
  BY <1>1 DEF Numbers
<1> DEFINE m == Len(seq)
<1> HIDE DEF m
<1>3. m \in Nat /\ seq = [k \in 1 .. m |-> family[place[k]]] /\ \A k \in 1 .. m : family[place[k]] \in S
  BY <1>1, <1>2 DEF m
<1>4. seq \in Seq(S)
  BY <1>3
<1>5. DOMAIN seq = 1 .. m
  BY <1>3
<1>6. QED
  BY <1>2, <1>3, <1>4, <1>5 DEF m

\* What a parse job writes to allocations.csv: the row of each accepted object.
AllocationsOf(objects) ==
  [i \in {i \in DOMAIN objects : WritesAllocation(objects[i])} |-> AllocationRow(objects[i])]

\* What it writes to routes.csv.
RoutesOf(objects) ==
  [i \in {i \in DOMAIN objects : WritesRoute(objects[i])} |-> RouteRow(objects[i])]

\* What it writes to autnums.csv.
AutnumsOf(objects, registry) ==
  [i \in {i \in DOMAIN objects : objects[i].class = "aut-num"} |-> AutnumRow(objects[i], registry)]

\* The files of a parse job hold these rows, and its list the feeds named.
LEMMA ParseLists ==
  ASSUME NEW S, NEW objects \in Seq(S), NEW registry
  PROVE  LET rows == Parse(objects, registry) IN
         /\ Lists(rows.allocations, AllocationsOf(objects))
         /\ Lists(rows.routes, RoutesOf(objects))
         /\ Lists(rows.autnums, AutnumsOf(objects, registry))
         /\ rows.feeds = {objects[i].feed : i \in DOMAIN objects} \ {NoFeed}
<1>1. Len(objects) \in Nat /\ DOMAIN objects = 1 .. Len(objects)
  OBVIOUS
<1>2. Lists(Parse(objects, registry).allocations, AllocationsOf(objects))
  <2> DEFINE accepted == {i \in DOMAIN objects : WritesAllocation(objects[i])}
             chosen   == Kept(objects, accepted)[Len(objects)]
  <2>1. Parse(objects, registry).allocations = [i \in DOMAIN chosen |-> AllocationRow(chosen[i])]
    BY DEF Parse, Selected
  <2>2. PICK m, place : Numbers(place, m, accepted) /\ chosen = [k \in 1 .. m |-> objects[place[k]]]
    <3>1. accepted \in SUBSET DOMAIN objects
      OBVIOUS
    <3> HIDE DEF accepted
    <3>2. QED
      BY <1>1, <3>1, ChosenPlaces
  <2>3. DOMAIN AllocationsOf(objects) = accepted
        /\ \A i \in accepted : AllocationsOf(objects)[i] = AllocationRow(objects[i])
    BY DEF AllocationsOf
  <2>4. \A k \in 1 .. m : place[k] \in accepted
    BY <2>2 DEF Numbers
  <2> HIDE DEF accepted, chosen
  <2>5. Parse(objects, registry).allocations = [k \in 1 .. m |-> AllocationsOf(objects)[place[k]]]
    BY <2>1, <2>2, <2>3, <2>4
  <2>6. QED
    BY <2>2, <2>3, <2>5, ListsNumbered
<1>3. Lists(Parse(objects, registry).routes, RoutesOf(objects))
  <2> DEFINE accepted == {i \in DOMAIN objects : WritesRoute(objects[i])}
             chosen   == Kept(objects, accepted)[Len(objects)]
  <2>1. Parse(objects, registry).routes = [i \in DOMAIN chosen |-> RouteRow(chosen[i])]
    BY DEF Parse, Selected
  <2>2. PICK m, place : Numbers(place, m, accepted) /\ chosen = [k \in 1 .. m |-> objects[place[k]]]
    <3>1. accepted \in SUBSET DOMAIN objects
      OBVIOUS
    <3> HIDE DEF accepted
    <3>2. QED
      BY <1>1, <3>1, ChosenPlaces
  <2>3. DOMAIN RoutesOf(objects) = accepted
        /\ \A i \in accepted : RoutesOf(objects)[i] = RouteRow(objects[i])
    BY DEF RoutesOf
  <2>4. \A k \in 1 .. m : place[k] \in accepted
    BY <2>2 DEF Numbers
  <2> HIDE DEF accepted, chosen
  <2>5. Parse(objects, registry).routes = [k \in 1 .. m |-> RoutesOf(objects)[place[k]]]
    BY <2>1, <2>2, <2>3, <2>4
  <2>6. QED
    BY <2>2, <2>3, <2>5, ListsNumbered
<1>4. Lists(Parse(objects, registry).autnums, AutnumsOf(objects, registry))
  <2> DEFINE accepted == {i \in DOMAIN objects : objects[i].class = "aut-num"}
             chosen   == Kept(objects, accepted)[Len(objects)]
             family   == AutnumsOf(objects, registry)
  <2>1. Parse(objects, registry).autnums = [i \in DOMAIN chosen |-> AutnumRow(chosen[i], registry)]
    BY DEF Parse, Selected
  <2>2. PICK m, place : Numbers(place, m, accepted) /\ chosen = [k \in 1 .. m |-> objects[place[k]]]
    <3>1. accepted \in SUBSET DOMAIN objects
      OBVIOUS
    <3> HIDE DEF accepted
    <3>2. QED
      BY <1>1, <3>1, ChosenPlaces
  <2>3. DOMAIN family = accepted /\ \A i \in accepted : family[i] = AutnumRow(objects[i], registry)
    BY DEF AutnumsOf
  <2>4. \A k \in 1 .. m : place[k] \in accepted
    BY <2>2 DEF Numbers
  <2> HIDE DEF accepted, chosen, family
  <2>5. Parse(objects, registry).autnums = [k \in 1 .. m |-> family[place[k]]]
    BY <2>1, <2>2, <2>3, <2>4
  <2>6. Lists(Parse(objects, registry).autnums, family)
    BY <2>2, <2>3, <2>5, ListsNumbered
  <2>7. QED
    BY <2>6 DEF family
<1>5. Parse(objects, registry).feeds = {objects[i].feed : i \in DOMAIN objects} \ {NoFeed}
  <2>1. Parse(objects, registry).feeds = {object.feed : object \in ToSet(objects)} \ {NoFeed}
    BY DEF Parse
  <2>2. QED
    BY <2>1 DEF ToSet
<1>6. QED
  BY <1>2, <1>3, <1>4, <1>5

-----------------------------------------------------------------------------
(* The merged files *)

\* The values of the families of all registries, each at its registry's places.
Joining(families) ==
  [place \in UNION {{<<registry, p>> : p \in DOMAIN families[registry]} :
                       registry \in ToSet(Registries)}
     |-> families[place[1]][place[2]]]

\* The files of all registries one after the other hold what each of them holds.
LEMMA JoinedLists ==
  ASSUME NEW file, NEW families,
         \A registry \in ToSet(Registries) :
           Lists(artifacts[registry][file], families[registry])
  PROVE  Lists(Joined(file), Joining(families))
<1> DEFINE n == Len(Registries)
           seqs == [i \in DOMAIN Registries |-> artifacts[Registries[i]][file]]
           byPlace == [i \in DOMAIN Registries |-> families[Registries[i]]]
           one == Together(byPlace, n)
           joined == Joining(families)
           name == [place \in DOMAIN one |-> <<Registries[place[1]], place[2]>>]
<1>1. /\ n \in Nat /\ DOMAIN Registries = 1 .. n
      /\ \A i \in 1 .. n : Registries[i] \in ToSet(Registries)
      /\ \A i, j \in 1 .. n : Registries[i] = Registries[j] => i = j
      /\ \A registry \in ToSet(Registries) : \E i \in 1 .. n : Registries[i] = registry
  <2>1. Registries \in Seq(ToSet(Registries)) /\ IsInjective(Registries)
    BY SourcesAssumption
  <2>2. n \in Nat /\ DOMAIN Registries = 1 .. n
    BY <2>1
  <2>3. \A i, j \in 1 .. n : Registries[i] = Registries[j] => i = j
    BY <2>1, <2>2 DEF IsInjective
  <2>4. QED
    BY <2>2, <2>3 DEF ToSet
<1>2. Joined(file) = FlattenSeq(seqs)
  BY DEF Joined
<1>3. Len(seqs) = n /\ (n = 0 => seqs = <<>>)
  <2>1. seqs \in Seq({seqs[i] : i \in 1 .. n}) /\ Len(seqs) = n
    BY <1>1
  <2>2. QED
    BY <2>1
<1>4. \A i \in 1 .. n : Lists(seqs[i], byPlace[i])
  BY <1>1
<1>5. Lists(FlattenSeq(seqs), one)
  <2> HIDE DEF seqs, byPlace, n
  <2>1. Lists(FlattenSeq(seqs), Together(byPlace, Len(seqs)))
    BY <1>1, <1>3, <1>4, ListsFlattened
  <2>2. QED
    BY <1>3, <2>1
<1> HIDE DEF seqs
<1>6. /\ DOMAIN one = UNION {{<<i, p>> : p \in DOMAIN families[Registries[i]]} : i \in 1 .. n}
      /\ \A place \in DOMAIN one : one[place] = families[Registries[place[1]]][place[2]]
  BY <1>1 DEF Together, Places
<1>7. /\ DOMAIN joined = UNION {{<<registry, p>> : p \in DOMAIN families[registry]} :
                                   registry \in ToSet(Registries)}
      /\ \A place \in DOMAIN joined : joined[place] = families[place[1]][place[2]]
  BY DEF Joining
<1> HIDE DEF one, joined, byPlace, n
<1>8. name \in [DOMAIN one -> DOMAIN joined]
  <2>1. ASSUME NEW place \in DOMAIN one PROVE name[place] \in DOMAIN joined
    BY <1>1, <1>6, <1>7
  <2>2. QED
    BY <2>1
<1>9. \A p, q \in DOMAIN one : name[p] = name[q] => p = q
  BY <1>1, <1>6
<1>10. \A r \in DOMAIN joined : \E p \in DOMAIN one : name[p] = r
  <2> SUFFICES ASSUME NEW r \in DOMAIN joined PROVE \E p \in DOMAIN one : name[p] = r
    OBVIOUS
  <2>1. PICK registry \in ToSet(Registries) :
          \E p \in DOMAIN families[registry] : r = <<registry, p>>
    BY <1>7
  <2>2. PICK p \in DOMAIN families[registry] : r = <<registry, p>>
    BY <2>1
  <2>3. PICK i \in 1 .. n : Registries[i] = registry
    BY <1>1
  <2>4. <<i, p>> \in DOMAIN one
    BY <1>6, <2>3
  <2>5. name[<<i, p>>] = r
    BY <2>2, <2>3, <2>4
  <2>6. QED
    BY <2>4, <2>5
<1>11. \A p \in DOMAIN one : one[p] = joined[name[p]]
  <2> SUFFICES ASSUME NEW p \in DOMAIN one PROVE one[p] = joined[name[p]]
    OBVIOUS
  <2>1. name[p] = <<Registries[p[1]], p[2]>> /\ name[p] \in DOMAIN joined
    BY <1>8
  <2>2. QED
    BY <1>6, <1>7, <2>1
<1> DEFINE seq == FlattenSeq(seqs)
<1>12. Lists(seq, joined)
  <2> HIDE DEF name, seq
  <2>1. seq = [k \in 1 .. Len(seq) |-> seq[k]]
    BY <1>5 DEF Lists, seq
  <2>2. \A k \in 1 .. Len(seq), p \in DOMAIN one : seq[k] = one[p] => seq[k] = joined[name[p]]
    BY <1>11
  <2>3. Lists(seq, one)
    BY <1>5 DEF seq
  <2>4. QED
    BY ONLY <1>8, <1>9, <1>10, <2>1, <2>2, <2>3, ListsRenamed
<1>13. QED
  BY <1>2, <1>12 DEF joined

\* The jobs of all registries have read objects, these the ones published unless
\* the registry's files were cut.
ReadingsAre(readings) ==
  \A registry \in ToSet(Registries) :
    /\ readings[registry] \in Seq(Objects(DOMAIN world.lines))
    /\ artifacts[registry] = Parse(readings[registry], registry)
    /\ registry \notin cut => readings[registry] = world.objects[registry]

\* The merged files hold a row for each object that writes one.
LEMMA MergedLists ==
  ASSUME NEW readings, ReadingsAre(readings)
  PROVE  /\ Lists(Joined("allocations"),
                  Joining([r \in ToSet(Registries) |-> AllocationsOf(readings[r])]))
         /\ Lists(Joined("routes"), Joining([r \in ToSet(Registries) |-> RoutesOf(readings[r])]))
         /\ Lists(Joined("autnums"), Joining([r \in ToSet(Registries) |-> AutnumsOf(readings[r], r)]))
<1> DEFINE A == [r \in ToSet(Registries) |-> AllocationsOf(readings[r])]
           R == [r \in ToSet(Registries) |-> RoutesOf(readings[r])]
           N == [r \in ToSet(Registries) |-> AutnumsOf(readings[r], r)]
<1>1. \A r \in ToSet(Registries) : /\ Lists(artifacts[r]["allocations"], A[r])
                                   /\ Lists(artifacts[r]["routes"], R[r])
                                   /\ Lists(artifacts[r]["autnums"], N[r])
  <2> SUFFICES ASSUME NEW r \in ToSet(Registries)
               PROVE  /\ Lists(artifacts[r]["allocations"], A[r])
                      /\ Lists(artifacts[r]["routes"], R[r])
                      /\ Lists(artifacts[r]["autnums"], N[r])
    OBVIOUS
  <2>1. /\ readings[r] \in Seq(Objects(DOMAIN world.lines))
        /\ artifacts[r] = Parse(readings[r], r)
    BY DEF ReadingsAre
  <2>2. /\ Lists(artifacts[r].allocations, AllocationsOf(readings[r]))
        /\ Lists(artifacts[r].routes, RoutesOf(readings[r]))
        /\ Lists(artifacts[r].autnums, AutnumsOf(readings[r], r))
    BY <2>1, ParseLists
  <2>3. QED
    BY <2>2
<1> HIDE DEF A, R, N
<1>2. /\ Lists(Joined("allocations"), Joining(A))
      /\ Lists(Joined("routes"), Joining(R))
      /\ Lists(Joined("autnums"), Joining(N))
  BY <1>1, JoinedLists
<1>3. QED
  BY <1>2 DEF A, R, N

\* A file as the parse jobs write it.
IsParsed(csv) ==
  /\ csv.allocations \in Seq(Ranges) /\ csv.geofeeds \in Seq(Ranges)
  /\ csv.routes \in Seq(RouteRows) /\ csv.autnums \in Seq(AutnumRows)
  /\ csv.compact = TRUE

\* Both builders can read such files, and every route has the range of its prefix.
LEMMA ParsedIsInput ==
  ASSUME NEW csv, IsParsed(csv)
  PROVE  /\ IsInput(csv)
         /\ \A i \in DOMAIN csv.routes :
              /\ csv.routes[i].range = CidrRange(csv.routes[i].prefix)
              /\ csv.routes[i].prefix \in WrittenPrefixes
              /\ csv.routes[i].origin \in Nat /\ csv.routes[i].origin # NoOrigin
<1>1. \A i \in DOMAIN csv.routes :
        /\ csv.routes[i].range = CidrRange(csv.routes[i].prefix)
        /\ csv.routes[i].prefix \in WrittenPrefixes
        /\ csv.routes[i].origin \in Nat /\ csv.routes[i].origin # NoOrigin
  <2> SUFFICES ASSUME NEW i \in DOMAIN csv.routes
               PROVE  /\ csv.routes[i].range = CidrRange(csv.routes[i].prefix)
                      /\ csv.routes[i].prefix \in WrittenPrefixes
                      /\ csv.routes[i].origin \in Nat /\ csv.routes[i].origin # NoOrigin
    OBVIOUS
  <2>1. csv.routes[i] \in RouteRows
    BY DEF IsParsed
  <2>2. QED
    BY <2>1 DEF RouteRows, NoOrigin
<1>2. \A i \in DOMAIN csv.autnums : csv.autnums[i].asn \in Nat
  <2> SUFFICES ASSUME NEW i \in DOMAIN csv.autnums PROVE csv.autnums[i].asn \in Nat
    OBVIOUS
  <2>1. csv.autnums[i] \in AutnumRows
    BY DEF IsParsed
  <2>2. QED
    BY <2>1 DEF AutnumRows
<1>3. IsFile(csv.routes) /\ IsFile(csv.autnums)
  <2>1. ASSUME NEW S, NEW rows \in Seq(S) PROVE IsFile(rows)
    <3>1. Len(rows) \in Nat /\ DOMAIN rows = 1 .. Len(rows)
          /\ rows = [i \in 1 .. Len(rows) |-> rows[i]]
      OBVIOUS
    <3> DEFINE T == {rows[i] : i \in DOMAIN rows}
    <3>2. \A i \in 1 .. Len(rows) : rows[i] \in T
      BY <3>1
    <3> HIDE DEF T
    <3>3. rows \in Seq(T)
      BY <3>1, <3>2
    <3>4. QED
      BY <3>3 DEF IsFile, T
  <2>2. QED
    BY <2>1 DEF IsParsed
<1>4. QED
  BY <1>1, <1>2, <1>3 DEF IsParsed, IsInput

\* What is merged is parsed.
LEMMA MergedIsParsed ==
  ASSUME NEW readings, ReadingsAre(readings), locations \in Seq(Ranges)
  PROVE  IsParsed(Merged)
<1> DEFINE A == [r \in ToSet(Registries) |-> AllocationsOf(readings[r])]
           R == [r \in ToSet(Registries) |-> RoutesOf(readings[r])]
           N == [r \in ToSet(Registries) |-> AutnumsOf(readings[r], r)]
<1>1. /\ Lists(Joined("allocations"), Joining(A))
      /\ Lists(Joined("routes"), Joining(R))
      /\ Lists(Joined("autnums"), Joining(N))
  BY MergedLists
<1>2. ASSUME NEW families, NEW S,
             \A r \in ToSet(Registries) : \A p \in DOMAIN families[r] : families[r][p] \in S
      PROVE  \A place \in DOMAIN Joining(families) : Joining(families)[place] \in S
  BY <1>2 DEF Joining
<1>3. \A r \in ToSet(Registries) :
        /\ \A i \in DOMAIN A[r] : A[r][i] \in Ranges
        /\ \A i \in DOMAIN R[r] : R[r][i] \in RouteRows
        /\ \A i \in DOMAIN N[r] : N[r][i] \in AutnumRows
  <2> SUFFICES ASSUME NEW r \in ToSet(Registries)
               PROVE  /\ \A i \in DOMAIN A[r] : A[r][i] \in Ranges
                      /\ \A i \in DOMAIN R[r] : R[r][i] \in RouteRows
                      /\ \A i \in DOMAIN N[r] : N[r][i] \in AutnumRows
    OBVIOUS
  <2>1. readings[r] \in Seq(Objects(DOMAIN world.lines))
    BY DEF ReadingsAre
  <2>2. \A i \in DOMAIN readings[r] : readings[r][i] \in Objects(DOMAIN world.lines)
    BY <2>1
  <2>3. QED
    BY <2>2, ObjectsBecomeRows DEF AllocationsOf, RoutesOf, AutnumsOf
<1> HIDE DEF A, R, N
<1>4. /\ \A place \in DOMAIN Joining(A) : Joining(A)[place] \in Ranges
      /\ \A place \in DOMAIN Joining(R) : Joining(R)[place] \in RouteRows
      /\ \A place \in DOMAIN Joining(N) : Joining(N)[place] \in AutnumRows
  BY <1>2, <1>3
<1>5. /\ Joined("allocations") \in Seq(Ranges)
      /\ Joined("routes") \in Seq(RouteRows)
      /\ Joined("autnums") \in Seq(AutnumRows)
  BY <1>1, <1>4, ListsType
<1>6. QED
  BY <1>5 DEF Merged, IsParsed

-----------------------------------------------------------------------------
(* The SQLite edition *)

\* No row of a parsed file is refused.
LEMMA AllImported ==
  ASSUME IsParsed(input), NEW table \in ToSet(Tables)
  PROVE  /\ ImportedRows(table) = input[table]
         /\ Len(input[table]) \in Nat /\ DOMAIN input[table] = 1 .. Len(input[table])
<1> DEFINE rows == input[table]
           accepted == {i \in DOMAIN rows : ValidRow(table, rows[i])}
<1>1. table \in {"allocations", "routes", "autnums", "geofeeds"}
  BY DEF ToSet, Tables
<1>2. rows \in Seq(Ranges) \/ rows \in Seq(RouteRows) \/ rows \in Seq(AutnumRows)
  BY <1>1 DEF IsParsed
<1>3. /\ Len(rows) \in Nat /\ DOMAIN rows = 1 .. Len(rows)
      /\ rows = [i \in 1 .. Len(rows) |-> rows[i]]
  BY <1>2
<1>4. \A i \in DOMAIN rows : ValidRow(table, rows[i])
  BY ParsedIsInput DEF ValidRow
<1>5. ImportedRows(table) = Kept(rows, accepted)[Len(rows)]
  BY DEF ImportedRows, Selected
<1>6. FirstOnes(accepted, Len(rows), Len(rows))
  BY <1>3, <1>4 DEF FirstOnes
<1> HIDE DEF rows, accepted
<1>7. Kept(rows, accepted)[Len(rows)] = [i \in 1 .. Len(rows) |-> rows[i]]
  BY <1>3, <1>6, KeptFront
<1>8. QED
  BY <1>3, <1>5, <1>7 DEF rows

\* The steps of the job, and how far it has come.
JobIs(name, n) ==
  /\ job = <<name, n>>
  /\ \/ name = "import" /\ n \in 1 .. 4
     \/ name = "index" /\ n \in 1 .. 3
     \/ name = "summaries" /\ n \in 1 .. 2
     \/ name \in {"validate", "ready", "failed"}

\* Whether the k-th table has been imported when the job is at this step.
Imported(name, n, k) ==
  name \in {"index", "summaries", "validate", "ready"} \/ (name = "import" /\ k < n)

\* The tables that are imported hold the rows of their files.
TablesInv ==
  \E name, n :
    /\ JobIs(name, n)
    /\ DOMAIN tables = ToSet(Tables)
    /\ \A k \in 1 .. 4 : Imported(name, n, k) => tables[Tables[k]] = input[Tables[k]]

\* The tables, and those with an index, in the order of the code.
LEMMA TableNames ==
  /\ ToSet(Tables) = {"allocations", "routes", "autnums", "geofeeds"}
  /\ Tables[1] = "allocations" /\ Tables[2] = "routes" /\ Tables[3] = "autnums"
  /\ Tables[4] = "geofeeds" /\ Len(Tables) = 4
  /\ ToSet(Indexed) = {"allocations", "routes", "geofeeds"}
  /\ Indexed[1] = "allocations" /\ Indexed[2] = "routes" /\ Indexed[3] = "geofeeds"
  /\ Len(Indexed) = 3
BY DEF Tables, Indexed, ToSet

\* The tables that are summarized.
LEMMA SummarizedNames ==
  /\ Summarized[1] = "allocations" /\ Summarized[2] = "routes" /\ Len(Summarized) = 2
  /\ \A k \in 1 .. 2 : Summarized[k] = Tables[k] /\ Summarized[k] \in ToSet(Tables)
BY TableNames DEF Summarized

\* A table that is imported holds all rows of its file, and no later step touches it.
LEMMA TablesStep ==
  ASSUME IsParsed(input), UNCHANGED input, TablesInv, [SqliteStep]_sqliteVars
  PROVE  TablesInv'
<1>1. PICK name, n : /\ JobIs(name, n) /\ DOMAIN tables = ToSet(Tables)
                     /\ \A k \in 1 .. 4 : Imported(name, n, k) => tables[Tables[k]] = input[Tables[k]]
  BY DEF TablesInv
<1>2. job = <<name, n>> /\ job[1] = name /\ job[2] = n
  BY <1>1 DEF JobIs
<1>3. ASSUME ImportTable PROVE TablesInv'
  <2> DEFINE table == Tables[n]
  <2>1. name = "import" /\ n \in 1 .. 4
    BY <1>1, <1>2, <1>3 DEF ImportTable, JobIs
  <2>2. table \in ToSet(Tables)
    BY <2>1, TableNames
  <2>3. tables' = [tables EXCEPT ![table] = input[table]]
    BY <1>2, <1>3, <2>2, AllImported DEF ImportTable
  <2>4. \/ job' = Failed
        \/ n < 4 /\ job' = <<"import", n + 1>>
        \/ n = 4 /\ job' = <<"index", 1>>
    <3>1. \/ job' = Failed
          \/ job' = IF n < Len(Tables) THEN <<"import", n + 1>> ELSE <<"index", 1>>
      BY <1>2, <1>3 DEF ImportTable
    <3>2. QED
      BY <2>1, <3>1, TableNames
  <2>5. DOMAIN tables' = ToSet(Tables)
    BY <1>1, <2>3
  <2>6. \A k \in 1 .. 4 : k < n + 1 => tables'[Tables[k]] = input'[Tables[k]]
    <3> SUFFICES ASSUME NEW k \in 1 .. 4, k < n + 1 PROVE tables'[Tables[k]] = input[Tables[k]]
      OBVIOUS
    <3>1. CASE k = n
      BY <1>1, <2>2, <2>3, <3>1
    <3>2. CASE k < n
      <4>1. tables[Tables[k]] = input[Tables[k]]
        BY <1>1, <2>1, <3>2 DEF Imported
      <4>2. Tables[k] # table /\ Tables[k] \in ToSet(Tables)
        BY <2>1, <3>2, TableNames
      <4>3. QED
        BY <1>1, <2>3, <4>1, <4>2
    <3>3. QED
      BY <2>1, <3>1, <3>2
  <2>7. CASE job' = Failed
    <3>1. JobIs("failed", 0)'
      BY <2>7 DEF JobIs, Failed
    <3>2. QED
      BY <2>5, <3>1 DEF TablesInv, Imported
  <2>8. CASE n < 4 /\ job' = <<"import", n + 1>>
    <3>1. JobIs("import", n + 1)'
      BY <2>1, <2>8 DEF JobIs
    <3>2. QED
      BY <2>5, <2>6, <3>1 DEF TablesInv, Imported
  <2>9. CASE n = 4 /\ job' = <<"index", 1>>
    <3>1. JobIs("index", 1)'
      BY <2>9 DEF JobIs
    <3>2. QED
      BY <2>5, <2>6, <2>9, <3>1 DEF TablesInv, Imported
  <2>10. QED
    BY <2>4, <2>7, <2>8, <2>9
<1>4. ASSUME MaterializeBatch \/ SummarizeRow \/ ValidateDatabase \/ AbandonSqlite
             \/ UNCHANGED sqliteVars
      PROVE  TablesInv'
  <2>1. tables' = tables
    BY <1>4 DEF MaterializeBatch, SummarizeRow, ValidateDatabase, AbandonSqlite, sqliteVars
  <2>2. \/ job' = Failed
        \/ name = "index" /\ n \in 1 .. 3 /\ job' = job
        \/ name = "index" /\ n < 3 /\ n \in 1 .. 3 /\ job' = <<"index", n + 1>>
        \/ name = "index" /\ job' = <<"summaries", 1>>
        \/ name = "summaries" /\ job' = <<"summaries", 2>>
        \/ name = "summaries" /\ job' = <<"validate", 0>>
        \/ name = "validate" /\ job' = Ready
        \/ job' = job
    <3>1. CASE MaterializeBatch
      <4>1. name = "index" /\ n \in 1 .. 3
        BY <1>1, <1>2, <3>1 DEF MaterializeBatch, JobIs
      <4>2. \/ job' = IF n < 3 THEN <<"index", n + 1>> ELSE <<"summaries", 1>>
            \/ job' = Failed
            \/ job' = job
        BY <1>2, <3>1, TableNames DEF MaterializeBatch
      <4>3. QED
        BY <4>1, <4>2
    <3>2. CASE SummarizeRow
      <4>1. name = "summaries" /\ n \in 1 .. 2
        BY <1>1, <1>2, <3>2 DEF SummarizeRow, JobIs
      <4>2. \/ job' = IF n < 2 THEN <<"summaries", n + 1>> ELSE <<"validate", 0>>
            \/ job' = Failed
            \/ job' = job
        BY <1>2, <3>2, SummarizedNames DEF SummarizeRow
      <4>3. QED
        BY <4>1, <4>2
    <3>3. CASE ValidateDatabase \/ AbandonSqlite \/ UNCHANGED sqliteVars
      BY <1>2, <3>3 DEF ValidateDatabase, AbandonSqlite, sqliteVars
    <3>4. QED
      BY <1>4, <3>1, <3>2, <3>3
  <2>3. CASE job' = Failed
    <3>1. JobIs("failed", 0)'
      BY <2>3 DEF JobIs, Failed
    <3>2. QED
      BY <1>1, <2>1, <3>1 DEF TablesInv, Imported
  <2>4. CASE job' = job
    <3>1. JobIs(name, n)'
      BY <1>1, <2>4 DEF JobIs
    <3>2. QED
      BY <1>1, <2>1, <3>1 DEF TablesInv
  <2>5. ASSUME NEW next, NEW m, job' = <<next, m>>,
               name \in {"index", "summaries", "validate"},
               \/ next = "index" /\ m \in 1 .. 3
               \/ next = "summaries" /\ m \in 1 .. 2
               \/ next \in {"validate", "ready"}
        PROVE  TablesInv'
    <3>1. JobIs(next, m)'
      BY <2>5 DEF JobIs
    <3>2. \A k \in 1 .. 4 : tables'[Tables[k]] = input'[Tables[k]]
      BY <1>1, <2>1, <2>5 DEF Imported
    <3>3. QED
      BY <1>1, <2>1, <3>1, <3>2 DEF TablesInv
  <2>6. CASE name = "index" /\ n < 3 /\ n \in 1 .. 3 /\ job' = <<"index", n + 1>>
    <3>1. n + 1 \in 1 .. 3
      BY <2>6
    <3>2. QED
      BY <2>5, <2>6, <3>1
  <2>7. QED
    BY <2>2, <2>3, <2>4, <2>5, <2>6 DEF Ready
<1>5. QED
  BY <1>3, <1>4 DEF SqliteStep

\* The records whose prefixes are in the prefix index.
IndexedIDs(k) ==
  {id \in DOMAIN tables[Indexed[k]] :
      \/ job[1] \in {"summaries", "validate", "ready"}
      \/ job[1] = "index" /\ k < job[2]
      \/ job[1] = "index" /\ k = job[2] /\ id <= lastRowID}

\* The entries of records of a table.
EntriesFor(table, ids) ==
  UNION {IndexEntries(ToSet(RangePrefixes(RowRange(table, tables[table][id]))), id) : id \in ids}

\* The prefix index holds the records that were reached, all of which are
\* ranges.
PrefixRowsInv ==
  /\ lastRowID \in Nat
  /\ job[1] = "import" => lastRowID = 0
  /\ DOMAIN prefixRows = ToSet(Indexed)
  /\ job[1] # "failed" =>
       \A k \in 1 .. 3 :
         /\ prefixRows[Indexed[k]] = EntriesFor(Indexed[k], IndexedIDs(k))
         /\ \A id \in IndexedIDs(k) :
              LET range == RowRange(Indexed[k], tables[Indexed[k]][id])
              IN  ~ (range.start > range.end)

\* The last of a batch, and what has been reached with it.
LEMMA BatchAdvances ==
  ASSUME NEW m \in Nat, lastRowID \in Nat, NEW batch,
         batch = {id \in 1 .. m : lastRowID < id /\ id <= lastRowID + BatchSize}
  PROVE  /\ batch = {} => {id \in 1 .. m : id <= lastRowID} = 1 .. m
         /\ batch # {} =>
              /\ LastOfBatch(batch) \in Nat
              /\ {id \in 1 .. m : id <= LastOfBatch(batch)}
                   = {id \in 1 .. m : id <= lastRowID} \cup batch
<1>1. BatchSize \in Nat \ {0}
  BY BatchAssumption
<1>2. ASSUME batch = {} PROVE {id \in 1 .. m : id <= lastRowID} = 1 .. m
  <2>1. ~ (lastRowID < m)
    <3>1. ASSUME lastRowID < m PROVE FALSE
      <4>1. lastRowID + 1 \in 1 .. m /\ lastRowID < lastRowID + 1
            /\ lastRowID + 1 <= lastRowID + BatchSize
        BY <1>1, <3>1
      <4>2. QED
        BY <1>2, <4>1
    <3>2. QED
      BY <3>1
  <2>2. QED
    BY <2>1
<1>3. ASSUME batch # {}
      PROVE  /\ LastOfBatch(batch) \in Nat
             /\ {id \in 1 .. m : id <= LastOfBatch(batch)}
                  = {id \in 1 .. m : id <= lastRowID} \cup batch
  <2>1. \E last \in batch : \A id \in batch : id <= last
    <3> DEFINE upper == IF lastRowID + BatchSize <= m THEN lastRowID + BatchSize ELSE m
    <3>1. PICK id \in batch : id \in 1 .. m /\ lastRowID < id /\ id <= lastRowID + BatchSize
      BY <1>3
    <3>2. upper \in 1 .. m /\ lastRowID < upper /\ upper <= lastRowID + BatchSize
      BY <1>1, <3>1
    <3>3. upper \in batch /\ \A other \in batch : other <= upper
      BY <1>1, <3>2
    <3>4. QED
      BY <3>3
  <2>2. LastOfBatch(batch) \in batch /\ \A id \in batch : id <= LastOfBatch(batch)
    BY <2>1 DEF LastOfBatch
  <2> DEFINE last == LastOfBatch(batch)
  <2> HIDE DEF last
  <2>3. last \in batch /\ (\A id \in batch : id <= last)
    BY <2>2 DEF last
  <2>4. last \in 1 .. m /\ lastRowID < last /\ last <= lastRowID + BatchSize
    BY <2>3
  <2>5. ASSUME NEW id \in 1 .. m PROVE id <= last <=> id <= lastRowID \/ id \in batch
    BY <1>1, <2>3, <2>4
  <2>6. QED
    BY <2>4, <2>5 DEF last
<1>4. QED
  BY <1>2, <1>3

\* A batch adds the entries of the rows after the last one, and of no other.
LEMMA PrefixRowsStep ==
  ASSUME IsParsed(input), UNCHANGED input, TablesInv, PrefixRowsInv, [SqliteStep]_sqliteVars
  PROVE  PrefixRowsInv'
<1>1. PICK name, n : /\ JobIs(name, n) /\ DOMAIN tables = ToSet(Tables)
                     /\ \A k \in 1 .. 4 : Imported(name, n, k) => tables[Tables[k]] = input[Tables[k]]
  BY DEF TablesInv
<1>2. job = <<name, n>> /\ job[1] = name /\ job[2] = n
  BY <1>1 DEF JobIs
<1>3. CASE job' = Failed
  <2>1. lastRowID' \in Nat /\ DOMAIN prefixRows' = ToSet(Indexed)
    <3>1. CASE ImportTable \/ ValidateDatabase \/ AbandonSqlite \/ UNCHANGED sqliteVars
      BY <3>1 DEF PrefixRowsInv, ImportTable, ValidateDatabase, AbandonSqlite, sqliteVars
    <3>2. CASE MaterializeBatch
      <4>1. \/ UNCHANGED <<lastRowID, prefixRows>>
            \/ job' # Failed
        BY <1>1, <1>2, <3>2 DEF MaterializeBatch, Failed, JobIs
      <4>2. QED
        BY <1>3, <4>1 DEF PrefixRowsInv
    <3>3. CASE SummarizeRow
      <4>1. UNCHANGED prefixRows /\ (UNCHANGED lastRowID \/ job' # Failed)
        BY <1>1, <1>2, <3>3 DEF SummarizeRow, Failed, JobIs
      <4>2. QED
        BY <1>3, <4>1 DEF PrefixRowsInv
    <3>4. QED
      BY <3>1, <3>2, <3>3 DEF SqliteStep
  <2>2. QED
    BY <1>3, <2>1 DEF PrefixRowsInv, Failed
<1>4. CASE ImportTable /\ job' # Failed
  <2>1. /\ name = "import" /\ UNCHANGED <<prefixRows, lastRowID>> /\ lastRowID = 0
        /\ \/ job' = <<"import", n + 1>> \/ job' = <<"index", 1>>
    BY <1>2, <1>4 DEF ImportTable, PrefixRowsInv
  <2>2. \A k \in 1 .. 3 : IndexedIDs(k) = {}
    BY <1>2, <2>1 DEF IndexedIDs
  <2>3. \A k \in 1 .. 3 : prefixRows[Indexed[k]] = {}
    BY <1>2, <2>1, <2>2 DEF PrefixRowsInv, EntriesFor
  <2>4. \A k \in 1 .. 3 : IndexedIDs(k)' = {}
    <3>1. CASE job' = <<"import", n + 1>>
      BY <3>1 DEF IndexedIDs
    <3>2. CASE job' = <<"index", 1>>
      <4>1. TablesInv'
        BY TablesStep
      <4>2. job'[1] = "index"
        BY <3>2
      <4>3. tables'[Indexed[1]] = input'[Indexed[1]]
        BY <4>1, <4>2, TableNames DEF TablesInv, JobIs, Imported
      <4>4. DOMAIN tables'[Indexed[1]] = 1 .. Len(input[Indexed[1]]) /\ Len(input[Indexed[1]]) \in Nat
        BY <4>3, TableNames, AllImported
      <4>5. QED
        BY <2>1, <3>2, <4>4 DEF IndexedIDs
    <3>3. QED
      BY <2>1, <3>1, <3>2
  <2>5. \A k \in 1 .. 3 : EntriesFor(Indexed[k], IndexedIDs(k))' = {}
    BY <2>4 DEF EntriesFor
  <2>6. QED
    BY <2>1, <2>3, <2>4, <2>5 DEF PrefixRowsInv
<1>5. CASE MaterializeBatch /\ job' # Failed
  <2> DEFINE table == Indexed[n]
             rows  == tables[table]
             batch == Batch(rows)
             Bounds(id) == RowRange(table, rows[id])
             m == Len(input[table])
  <2>1. /\ name = "index" /\ n \in 1 .. 3 /\ UNCHANGED tables /\ lastRowID \in Nat
        /\ table \in ToSet(Indexed)
    BY <1>1, <1>2, <1>5, TableNames DEF MaterializeBatch, JobIs, PrefixRowsInv
  <2>2. rows = input[table]
    BY <1>1, <2>1, TableNames DEF Imported
  <2>3. m \in Nat /\ DOMAIN rows = 1 .. m
    BY <2>1, <2>2, TableNames, AllImported
  <2>4. batch = {id \in 1 .. m : lastRowID < id /\ id <= lastRowID + BatchSize}
    BY <2>3 DEF Batch
  <2>5. \A k \in 1 .. 3 : DOMAIN tables[Indexed[k]] = 1 .. Len(input[Indexed[k]])
    <3>1. \A k \in 1 .. 4 : tables[Tables[k]] = input[Tables[k]]
      BY <1>1, <2>1 DEF Imported
    <3>2. QED
      BY <3>1, TableNames, AllImported
  <2>6. CASE batch = {}
    <3>1. lastRowID' = 0 /\ prefixRows' = prefixRows
          /\ job' = IF n < 3 THEN <<"index", n + 1>> ELSE <<"summaries", 1>>
      BY <1>2, <1>5, <2>6, TableNames DEF MaterializeBatch
    <3>2. {id \in 1 .. m : id <= lastRowID} = 1 .. m
      <4> HIDE DEF batch, m
      <4>1. QED
        BY <2>1, <2>3, <2>4, <2>6, BatchAdvances
    <3>3. \A k \in 1 .. 3 : IndexedIDs(k)' = IndexedIDs(k)
      <4> SUFFICES ASSUME NEW k \in 1 .. 3 PROVE IndexedIDs(k)' = IndexedIDs(k)
        OBVIOUS
      <4>1. IndexedIDs(k) = IF k < n THEN DOMAIN tables[Indexed[k]]
                            ELSE IF k = n THEN {id \in 1 .. m : id <= lastRowID} ELSE {}
        BY <1>2, <2>1, <2>3 DEF IndexedIDs
      <4>2. IndexedIDs(k)' = IF k <= n THEN DOMAIN tables[Indexed[k]] ELSE {}
        <5>1. CASE n < 3
          <6>1. job'[1] = "index" /\ job'[2] = n + 1
            BY <3>1, <5>1
          <6>2. IndexedIDs(k)' = {id \in DOMAIN tables[Indexed[k]] :
                                    k < n + 1 \/ (k = n + 1 /\ id <= 0)}
            BY <2>1, <3>1, <6>1 DEF IndexedIDs
          <6>3. \A id \in DOMAIN tables[Indexed[k]] : ~ (id <= 0)
            BY <2>5
          <6>4. (k < n + 1 <=> k <= n) /\ k \in Int /\ n \in Int
            BY <2>1
          <6>5. QED
            BY <6>2, <6>3, <6>4
        <5>2. CASE ~ (n < 3)
          <6>1. job'[1] = "summaries" /\ n = 3
            BY <2>1, <3>1, <5>2
          <6>2. QED
            BY <2>1, <6>1 DEF IndexedIDs
        <5>3. QED
          BY <5>1, <5>2
      <4>3. CASE k = n
        <5>1. DOMAIN tables[Indexed[k]] = 1 .. m
          BY <2>3, <4>3
        <5>2. k <= n /\ ~ (k < n)
          BY <2>1, <4>3
        <5> HIDE DEF m
        <5>3. IndexedIDs(k) = 1 .. m
          BY <3>2, <4>1, <4>3, <5>2
        <5>4. IndexedIDs(k)' = 1 .. m
          BY <4>2, <5>1, <5>2
        <5>5. QED
          BY <5>3, <5>4
      <4>4. CASE k # n
        <5>1. k < n <=> k <= n
          BY <2>1, <4>4
        <5>2. QED
          BY <4>1, <4>2, <4>4, <5>1
      <4>5. QED
        BY <4>3, <4>4
    <3>4. QED
      BY <1>2, <2>1, <3>1, <3>3 DEF PrefixRowsInv, EntriesFor
  <2>7. CASE batch # {}
    <3>1. /\ \A id \in batch : ~ (Bounds(id).start > Bounds(id).end)
          /\ prefixRows' = [prefixRows EXCEPT ![table] = @ \cup
                 UNION {IndexEntries(ToSet(RangePrefixes(Bounds(id))), id) : id \in batch}]
          /\ lastRowID' = LastOfBatch(batch)
          /\ job' = job
      BY <1>2, <1>5, <2>7 DEF MaterializeBatch
    <3>2. UNION {IndexEntries(ToSet(RangePrefixes(Bounds(id))), id) : id \in batch}
            = EntriesFor(table, batch)
      BY DEF EntriesFor
    <3>3. /\ LastOfBatch(batch) \in Nat
          /\ {id \in 1 .. m : id <= LastOfBatch(batch)} = {id \in 1 .. m : id <= lastRowID} \cup batch
      <4> HIDE DEF batch, m
      <4>1. QED
        BY <2>1, <2>3, <2>4, <2>7, BatchAdvances
    <3>4. IndexedIDs(n)' = IndexedIDs(n) \cup batch
      BY <1>2, <2>1, <2>3, <3>1, <3>3 DEF IndexedIDs
    <3>5. \A k \in 1 .. 3 : k # n => IndexedIDs(k)' = IndexedIDs(k)
      BY <1>2, <2>1, <3>1 DEF IndexedIDs
    <3> HIDE DEF batch
    <3>6. \A ids : EntriesFor(table, ids \cup batch)
                    = EntriesFor(table, ids) \cup EntriesFor(table, batch)
      BY DEF EntriesFor
    <3>7. \A k \in 1 .. 3 : EntriesFor(Indexed[k], IndexedIDs(k))'
                              = EntriesFor(Indexed[k], IndexedIDs(k)')
      BY <2>1 DEF EntriesFor
    <3>8. ASSUME NEW k \in 1 .. 3
          PROVE  /\ prefixRows'[Indexed[k]] = EntriesFor(Indexed[k], IndexedIDs(k)')
                 /\ \A id \in IndexedIDs(k)' :
                      LET range == RowRange(Indexed[k], tables[Indexed[k]][id])
                      IN  ~ (range.start > range.end)
      <4>1. /\ prefixRows[Indexed[k]] = EntriesFor(Indexed[k], IndexedIDs(k))
            /\ \A id \in IndexedIDs(k) :
                 LET range == RowRange(Indexed[k], tables[Indexed[k]][id])
                 IN  ~ (range.start > range.end)
        BY <1>2, <2>1 DEF PrefixRowsInv
      <4>2. CASE k = n
        BY <2>1, <3>1, <3>2, <3>4, <3>6, <4>1, <4>2 DEF PrefixRowsInv
      <4>3. CASE k # n
        <5>1. Indexed[k] # table
          BY <2>1, <4>3, TableNames
        <5>2. QED
          BY <3>1, <3>5, <4>1, <4>3, <5>1 DEF PrefixRowsInv
      <4>4. QED
        BY <4>2, <4>3
    <3>9. QED
      BY <1>2, <2>1, <3>1, <3>3, <3>7, <3>8 DEF PrefixRowsInv
  <2>8. QED
    BY <2>6, <2>7
<1>6. CASE (SummarizeRow \/ ValidateDatabase) /\ job' # Failed
  <2>1. /\ UNCHANGED <<tables, prefixRows>> /\ lastRowID' \in Nat
        /\ name \in {"summaries", "validate"}
        /\ job'[1] \in {"summaries", "validate", "ready"}
    <3>1. CASE SummarizeRow
      <4>1. /\ UNCHANGED <<tables, prefixRows>> /\ name = "summaries"
            /\ lastRowID' \in {0, lastRowID, lastRowID + 1}
            /\ job'[1] \in {"summaries", "validate"}
        BY <1>2, <1>6, <3>1 DEF SummarizeRow
      <4>2. QED
        BY <4>1 DEF PrefixRowsInv
    <3>2. CASE ValidateDatabase
      BY <1>2, <1>6, <3>2 DEF ValidateDatabase, Ready, PrefixRowsInv
    <3>3. QED
      BY <1>6, <3>1, <3>2
  <2>2. \A k \in 1 .. 3 : IndexedIDs(k)' = IndexedIDs(k)
    BY <1>2, <2>1 DEF IndexedIDs
  <2>3. QED
    BY <1>2, <2>1, <2>2 DEF PrefixRowsInv, EntriesFor
<1>7. CASE UNCHANGED sqliteVars
  BY <1>7 DEF PrefixRowsInv, EntriesFor, IndexedIDs, sqliteVars
<1>8. QED
  BY <1>3, <1>4, <1>5, <1>6, <1>7 DEF SqliteStep, AbandonSqlite

\* The rows that were summarized.
SummarizedIDs(k) ==
  {id \in DOMAIN tables[Summarized[k]] :
      \/ job[1] \in {"validate", "ready"}
      \/ job[1] = "summaries" /\ k < job[2]
      \/ job[1] = "summaries" /\ k = job[2] /\ id <= lastRowID}

\* Those of them that meet a bucket.
SummedIDs(k, bucket) ==
  {id \in SummarizedIDs(k) :
      Meets(RowRange(Summarized[k], tables[Summarized[k]][id]), bucket)}

\* The map has the buckets that some row so far meets, with the number of those
\* rows.
SummariesInv ==
  /\ job[1] = "summaries" => lastRowID <= Len(tables[Summarized[job[2]]])
  /\ job[1] # "failed" =>
       /\ DOMAIN summaryRows = {bucket \in Buckets(SummaryLevels) :
                                  SummedIDs(1, bucket) # {} \/ SummedIDs(2, bucket) # {}}
       /\ \A bucket \in DOMAIN summaryRows :
            summaryRows[bucket] = [allocations |-> Cardinality(SummedIDs(1, bucket)),
                                   routes      |-> Cardinality(SummedIDs(2, bucket))]

\* A row is counted in the buckets it meets.
LEMMA BucketsMet ==
  ASSUME NEW range \in Ranges
  PROVE  BucketsOf(range) = {bucket \in Buckets(SummaryLevels) : Meets(range, bucket)}
<1>1. ASSUME NEW bucket \in Buckets(SummaryLevels)
      PROVE  Meets(range, bucket) <=> /\ Masked(range.start, bucket.length) <= bucket.address
                                      /\ bucket.address <= Masked(range.end, bucket.length)
  <2>1. /\ range.start \in Nat /\ range.end \in Nat /\ bucket \in AllPrefixes
        /\ bucket.address \in Nat
    BY DEF Ranges, Addresses, Buckets, AllPrefixes
  <2>2. range.end >= bucket.address <=> bucket.address <= range.end
    BY <2>1
  <2>3. QED
    BY <2>1, <2>2, MaskedOrder DEF Meets
<1>2. QED
  BY <1>1 DEF BucketsOf

\* The ranges of the rows that are summarized, once the tables are imported.
LEMMA SummarizedRanges ==
  ASSUME IsParsed(input), NEW k \in 1 .. 2, tables[Summarized[k]] = input[Summarized[k]]
  PROVE  /\ Len(tables[Summarized[k]]) \in Nat
         /\ DOMAIN tables[Summarized[k]] = 1 .. Len(tables[Summarized[k]])
         /\ \A id \in DOMAIN tables[Summarized[k]] :
              RowRange(Summarized[k], tables[Summarized[k]][id]) \in Ranges
<1>1. CASE k = 1
  <2>1. input.allocations \in Seq(Ranges) /\ tables[Summarized[k]] = input.allocations
    BY <1>1, SummarizedNames DEF IsParsed
  <2>2. \A id \in DOMAIN input.allocations :
          RowRange("allocations", input.allocations[id]) = input.allocations[id]
    BY DEF RowRange
  <2>3. QED
    BY <1>1, <2>1, <2>2, SummarizedNames
<1>2. CASE k = 2
  <2>1. /\ tables[Summarized[k]] = input.routes
        /\ Len(input.routes) \in Nat /\ DOMAIN input.routes = 1 .. Len(input.routes)
    BY <1>2, SummarizedNames DEF IsParsed
  <2>2. ASSUME NEW id \in DOMAIN input.routes
        PROVE  RowRange("routes", input.routes[id]) \in Ranges
    <3>1. /\ input.routes[id].prefix \in WrittenPrefixes
          /\ input.routes[id].range = CidrRange(input.routes[id].prefix)
      BY ParsedIsInput
    <3>2. input.routes[id].range \in Ranges
      BY <3>1, CidrIsPrefix
    <3>3. QED
      BY <3>2 DEF RowRange
  <2>3. QED
    BY <1>2, <2>1, <2>2, SummarizedNames
<1>3. QED
  BY <1>1, <1>2

\* Where the rows summarized so far stay the same, their counts do.
LEMMA SummedStay ==
  ASSUME SummariesInv, job[1] # "failed", UNCHANGED summaryRows,
         \A k \in 1 .. 2 : SummarizedIDs(k)' = SummarizedIDs(k),
         \A k \in 1 .. 2 : SummarizedIDs(k) # {} => UNCHANGED tables
  PROVE  /\ DOMAIN summaryRows' = {bucket \in Buckets(SummaryLevels) :
                                     SummedIDs(1, bucket)' # {} \/ SummedIDs(2, bucket)' # {}}
         /\ \A bucket \in DOMAIN summaryRows' :
              summaryRows'[bucket] = [allocations |-> Cardinality(SummedIDs(1, bucket)'),
                                      routes      |-> Cardinality(SummedIDs(2, bucket)')]
<1>1. ASSUME NEW k \in 1 .. 2, NEW bucket PROVE SummedIDs(k, bucket)' = SummedIDs(k, bucket)
  <2>1. CASE SummarizedIDs(k) = {}
    BY <2>1 DEF SummedIDs
  <2>2. CASE SummarizedIDs(k) # {}
    BY <2>2 DEF SummedIDs
  <2>3. QED
    BY <2>1, <2>2
<1>2. \A bucket : SummedIDs(1, bucket)' = SummedIDs(1, bucket)
                  /\ SummedIDs(2, bucket)' = SummedIDs(2, bucket)
  BY <1>1
<1>3. QED
  BY <1>2 DEF SummariesInv

\* One more row of a table, in the buckets it meets.
LEMMA RowSummarized ==
  ASSUME SummariesInv, job[1] = "summaries", UNCHANGED tables,
         NEW n \in 1 .. 2, NEW other \in 1 .. 2, other # n,
         NEW id, id \notin SummarizedIDs(n), IsFiniteSet(SummarizedIDs(n)),
         IsFiniteSet(SummarizedIDs(other)),
         SummarizedIDs(n)' = SummarizedIDs(n) \cup {id},
         SummarizedIDs(other)' = SummarizedIDs(other),
         RowRange(Summarized[n], tables[Summarized[n]][id]) \in Ranges,
         summaryRows' = CountedIn(BucketsOf(RowRange(Summarized[n], tables[Summarized[n]][id])),
                                  Summarized[n])
  PROVE  /\ DOMAIN summaryRows' = {bucket \in Buckets(SummaryLevels) :
                                     SummedIDs(1, bucket)' # {} \/ SummedIDs(2, bucket)' # {}}
         /\ \A bucket \in DOMAIN summaryRows' :
              summaryRows'[bucket] = [allocations |-> Cardinality(SummedIDs(1, bucket)'),
                                      routes      |-> Cardinality(SummedIDs(2, bucket)')]
<1> DEFINE range == RowRange(Summarized[n], tables[Summarized[n]][id])
           met == BucketsOf(range)
           Item(bucket) == IF bucket \in DOMAIN summaryRows THEN summaryRows[bucket] ELSE NoRecords
           Count(k, bucket) == Cardinality(SummedIDs(k, bucket))
<1>1. met = {bucket \in Buckets(SummaryLevels) : Meets(range, bucket)}
  BY BucketsMet
<1>2. /\ DOMAIN summaryRows = {bucket \in Buckets(SummaryLevels) :
                                 SummedIDs(1, bucket) # {} \/ SummedIDs(2, bucket) # {}}
      /\ \A bucket \in DOMAIN summaryRows :
           summaryRows[bucket] = [allocations |-> Count(1, bucket), routes |-> Count(2, bucket)]
  BY DEF SummariesInv
<1>3. \A bucket \in Buckets(SummaryLevels) :
        Item(bucket) = [allocations |-> Count(1, bucket), routes |-> Count(2, bucket)]
  <2> SUFFICES ASSUME NEW bucket \in Buckets(SummaryLevels), bucket \notin DOMAIN summaryRows
               PROVE  Count(1, bucket) = 0 /\ Count(2, bucket) = 0
    BY <1>2 DEF NoRecords
  <2>1. SummedIDs(1, bucket) = {} /\ SummedIDs(2, bucket) = {}
    BY <1>2
  <2>2. QED
    BY <2>1, FS_EmptySet
<1>4. summaryRows' = [bucket \in (DOMAIN summaryRows) \cup met |->
                        IF bucket \in met THEN [Item(bucket) EXCEPT ![Summarized[n]] = @ + 1]
                        ELSE Item(bucket)]
  BY DEF CountedIn
<1>5. ASSUME NEW bucket
      PROVE  /\ SummedIDs(n, bucket)' = IF Meets(range, bucket) THEN SummedIDs(n, bucket) \cup {id}
                                        ELSE SummedIDs(n, bucket)
             /\ SummedIDs(other, bucket)' = SummedIDs(other, bucket)
  <2> DEFINE At(i) == Meets(RowRange(Summarized[n], tables[Summarized[n]][i]), bucket)
  <2>1. SummedIDs(n, bucket)' = {i \in SummarizedIDs(n) \cup {id} : At(i)}
    BY DEF SummedIDs
  <2>2. SummedIDs(n, bucket) = {i \in SummarizedIDs(n) : At(i)}
    BY DEF SummedIDs
  <2>3. At(id) <=> Meets(range, bucket)
    OBVIOUS
  <2> HIDE DEF At, range
  <2>4. SummedIDs(n, bucket)' = IF Meets(range, bucket) THEN SummedIDs(n, bucket) \cup {id}
                                ELSE SummedIDs(n, bucket)
    BY <2>1, <2>2, <2>3
  <2>5. SummedIDs(other, bucket)' = SummedIDs(other, bucket)
    BY DEF SummedIDs
  <2>6. QED
    BY <2>4, <2>5
<1>6. ASSUME NEW bucket
      PROVE  /\ Count(n, bucket) \in Nat
             /\ Cardinality(SummedIDs(n, bucket)') =
                  IF Meets(range, bucket) THEN Count(n, bucket) + 1 ELSE Count(n, bucket)
             /\ Cardinality(SummedIDs(other, bucket)') = Count(other, bucket)
  <2>1. SummedIDs(n, bucket) \in SUBSET SummarizedIDs(n)
    BY DEF SummedIDs
  <2>2. IsFiniteSet(SummedIDs(n, bucket)) /\ id \notin SummedIDs(n, bucket)
    BY <2>1, FS_Subset
  <2>3. QED
    BY <1>5, <2>2, FS_AddElement, FS_CardinalityType
<1> HIDE DEF range, met, Item, Count
<1>7. DOMAIN summaryRows' = (DOMAIN summaryRows) \cup met
  BY <1>4
<1>8. \A bucket : (SummedIDs(1, bucket)' # {} \/ SummedIDs(2, bucket)' # {})
                    <=> (SummedIDs(1, bucket) # {} \/ SummedIDs(2, bucket) # {} \/ Meets(range, bucket))
  <2>1. \A bucket : (SummedIDs(n, bucket)' # {} \/ SummedIDs(other, bucket)' # {})
                      <=> (SummedIDs(n, bucket) # {} \/ SummedIDs(other, bucket) # {}
                             \/ Meets(range, bucket))
    BY <1>5
  <2>2. (n = 1 /\ other = 2) \/ (n = 2 /\ other = 1)
    OBVIOUS
  <2>3. QED
    BY <2>1, <2>2
<1>9. DOMAIN summaryRows' = {bucket \in Buckets(SummaryLevels) :
                               SummedIDs(1, bucket)' # {} \/ SummedIDs(2, bucket)' # {}}
  BY <1>1, <1>2, <1>7, <1>8
<1>10. ASSUME NEW bucket \in DOMAIN summaryRows'
       PROVE  summaryRows'[bucket] = [allocations |-> Cardinality(SummedIDs(1, bucket)'),
                                      routes      |-> Cardinality(SummedIDs(2, bucket)')]
  <2>1. bucket \in Buckets(SummaryLevels) /\ bucket \in (DOMAIN summaryRows) \cup met
    BY <1>7, <1>9
  <2>2. Item(bucket) = [allocations |-> Count(1, bucket), routes |-> Count(2, bucket)]
    BY <1>3, <2>1
  <2>3. summaryRows'[bucket] = IF Meets(range, bucket)
                               THEN [Item(bucket) EXCEPT ![Summarized[n]] = @ + 1]
                               ELSE Item(bucket)
    BY <1>1, <1>4, <2>1
  <2>4. CASE n = 1 /\ other = 2
    <3>1. Summarized[n] = "allocations"
      BY <2>4, SummarizedNames
    <3>2. [Item(bucket) EXCEPT !["allocations"] = @ + 1]
            = [allocations |-> Count(1, bucket) + 1, routes |-> Count(2, bucket)]
      BY <2>2
    <3>3. QED
      BY <1>6, <2>2, <2>3, <2>4, <3>1, <3>2
  <2>5. CASE n = 2 /\ other = 1
    <3>1. Summarized[n] = "routes"
      BY <2>5, SummarizedNames
    <3>2. [Item(bucket) EXCEPT !["routes"] = @ + 1]
            = [allocations |-> Count(1, bucket), routes |-> Count(2, bucket) + 1]
      BY <2>2
    <3>3. QED
      BY <1>6, <2>2, <2>3, <2>5, <3>1, <3>2
  <2>6. QED
    BY <2>4, <2>5
<1>11. QED
  BY <1>9, <1>10

\* A row is added to the counts of the buckets it meets, each row once, and
\* nothing else touches them.
LEMMA SummariesStep ==
  ASSUME IsParsed(input), UNCHANGED input, TablesInv, PrefixRowsInv, SummariesInv,
         [SqliteStep]_sqliteVars
  PROVE  SummariesInv'
<1>1. PICK name, n : /\ JobIs(name, n)
                     /\ \A k \in 1 .. 4 : Imported(name, n, k) => tables[Tables[k]] = input[Tables[k]]
  BY DEF TablesInv
<1>2. job = <<name, n>> /\ job[1] = name /\ job[2] = n /\ lastRowID \in Nat
  BY <1>1 DEF JobIs, PrefixRowsInv
<1>3. CASE job' = Failed
  BY <1>3 DEF SummariesInv, Failed
<1>4. CASE ImportTable /\ job' # Failed
  <2>1. /\ job[1] = "import" /\ job'[1] \in {"import", "index"} /\ UNCHANGED summaryRows
    BY <1>4 DEF ImportTable
  <2>2. \A k \in 1 .. 2 : SummarizedIDs(k) = {} /\ SummarizedIDs(k)' = {}
    BY <2>1 DEF SummarizedIDs
  <2>3. QED
    BY <2>1, <2>2, SummedStay DEF SummariesInv
<1>5. CASE MaterializeBatch /\ job' # Failed
  <2>1. /\ name = "index" /\ UNCHANGED <<summaryRows, tables>>
        /\ job'[1] = "index" \/ (job' = <<"summaries", 1>> /\ lastRowID' = 0)
    <3>1. name = "index" /\ n \in 1 .. 3 /\ UNCHANGED <<summaryRows, tables>>
      BY <1>1, <1>2, <1>5 DEF MaterializeBatch, JobIs
    <3>2. \/ job' = job
          \/ /\ job' = IF n < 3 THEN <<"index", n + 1>> ELSE <<"summaries", 1>>
             /\ lastRowID' = 0
      BY <1>2, <1>5, TableNames DEF MaterializeBatch
    <3>3. QED
      BY <1>2, <3>1, <3>2
  <2>2. \A k \in 1 .. 2 : tables[Summarized[k]] = input[Summarized[k]]
    BY <1>1, <2>1, SummarizedNames DEF Imported
  <2>3. \A k \in 1 .. 2 : /\ Len(tables[Summarized[k]]) \in Nat
                          /\ DOMAIN tables[Summarized[k]] = 1 .. Len(tables[Summarized[k]])
    BY <2>2, SummarizedRanges
  <2>4. \A k \in 1 .. 2 : SummarizedIDs(k) = {}
    BY <1>2, <2>1 DEF SummarizedIDs
  <2>5. \A k \in 1 .. 2 : SummarizedIDs(k)' = {}
    <3>1. CASE job'[1] = "index"
      BY <3>1 DEF SummarizedIDs
    <3>2. CASE job' = <<"summaries", 1>> /\ lastRowID' = 0
      <4>1. \A k \in 1 .. 2 : SummarizedIDs(k)' = {id \in DOMAIN tables[Summarized[k]] :
                                                     k < 1 \/ (k = 1 /\ id <= 0)}
        BY <2>1, <3>2 DEF SummarizedIDs
      <4>2. \A k \in 1 .. 2 : \A id \in DOMAIN tables[Summarized[k]] : ~ (id <= 0)
        BY <2>3
      <4>3. QED
        BY <4>1, <4>2
    <3>3. QED
      BY <2>1, <3>1, <3>2
  <2>6. job'[1] = "summaries" => lastRowID' <= Len(tables'[Summarized[job'[2]]])
    BY <2>1, <2>3
  <2>7. QED
    BY <1>2, <2>1, <2>4, <2>5, <2>6, SummedStay DEF SummariesInv
<1>6. CASE SummarizeRow /\ job' # Failed
  <2> DEFINE table == Summarized[n]
             rows  == tables[table]
             m     == Len(rows)
             id    == lastRowID + 1
             range == RowRange(table, rows[id])
  <2>1. name = "summaries" /\ n \in 1 .. 2 /\ UNCHANGED tables
    BY <1>1, <1>2, <1>6 DEF SummarizeRow, JobIs
  <2>2. \A k \in 1 .. 2 : tables[Summarized[k]] = input[Summarized[k]]
    BY <1>1, <2>1, SummarizedNames DEF Imported
  <2>3. \A k \in 1 .. 2 : /\ Len(tables[Summarized[k]]) \in Nat
                          /\ DOMAIN tables[Summarized[k]] = 1 .. Len(tables[Summarized[k]])
    BY <2>2, SummarizedRanges
  <2>4. m \in Nat /\ DOMAIN rows = 1 .. m /\ lastRowID <= m
    BY <1>2, <2>1, <2>3 DEF SummariesInv
  <2>5. CASE lastRowID = m
    <3>1. /\ UNCHANGED summaryRows /\ lastRowID' = 0
          /\ job' = IF n < 2 THEN <<"summaries", n + 1>> ELSE <<"validate", 0>>
      BY <1>2, <1>6, <2>5, SummarizedNames DEF SummarizeRow
    <3>2. CASE n = 1
      <4>1. job'[1] = "summaries" /\ job'[2] = 2 /\ job[1] = "summaries" /\ job[2] = 1
        BY <1>2, <2>1, <3>1, <3>2
      <4>2. SummarizedIDs(1) = {i \in DOMAIN tables[Summarized[1]] : i <= m}
            /\ SummarizedIDs(1)' = DOMAIN tables[Summarized[1]]
        BY <2>1, <2>5, <3>1, <4>1 DEF SummarizedIDs
      <4>3. SummarizedIDs(2) = {}
        BY <4>1 DEF SummarizedIDs
      <4>4. SummarizedIDs(2)' = {i \in DOMAIN tables[Summarized[2]] : i <= 0}
        BY <2>1, <3>1, <4>1 DEF SummarizedIDs
      <4>5. SummarizedIDs(1)' = SummarizedIDs(1) /\ SummarizedIDs(2)' = SummarizedIDs(2)
        <5>1. DOMAIN tables[Summarized[1]] = 1 .. m
          BY <2>4, <3>2
        <5>2. \A i \in DOMAIN tables[Summarized[2]] : ~ (i <= 0)
          BY <2>3
        <5> HIDE DEF m
        <5>3. QED
          BY <4>2, <4>3, <4>4, <5>1, <5>2
      <4>6. \A k \in 1 .. 2 : SummarizedIDs(k)' = SummarizedIDs(k)
        BY <4>5
      <4>7. lastRowID' <= Len(tables'[Summarized[job'[2]]])
        BY <2>1, <2>3, <3>1, <4>1
      <4>8. QED
        BY <2>1, <3>1, <4>1, <4>6, <4>7, SummedStay DEF SummariesInv
    <3>3. CASE n = 2
      <4>1. job'[1] = "validate" /\ job[1] = "summaries" /\ job[2] = 2
        BY <1>2, <2>1, <3>1, <3>3
      <4>2. SummarizedIDs(2) = {i \in DOMAIN tables[Summarized[2]] : i <= m}
            /\ SummarizedIDs(2)' = DOMAIN tables[Summarized[2]]
        BY <2>1, <2>5, <4>1 DEF SummarizedIDs
      <4>3. SummarizedIDs(1) = DOMAIN tables[Summarized[1]]
            /\ SummarizedIDs(1)' = DOMAIN tables[Summarized[1]]
        BY <2>1, <4>1 DEF SummarizedIDs
      <4>4. SummarizedIDs(2)' = SummarizedIDs(2)
        <5>1. DOMAIN tables[Summarized[2]] = 1 .. m /\ m \in Nat
          BY <2>4, <3>3
        <5> HIDE DEF m
        <5>2. \A i \in 1 .. m : i <= m
          BY <5>1
        <5>3. QED
          BY <4>2, <5>1, <5>2
      <4>5. \A k \in 1 .. 2 : SummarizedIDs(k)' = SummarizedIDs(k)
        BY <4>3, <4>4
      <4>6. QED
        BY <2>1, <3>1, <4>1, <4>5, SummedStay DEF SummariesInv
    <3>4. QED
      BY <2>1, <3>2, <3>3
  <2>6. CASE lastRowID # m
    <3>1. /\ summaryRows' = CountedIn(BucketsOf(range), table)
          /\ lastRowID' = id /\ UNCHANGED job
      BY <1>2, <1>6, <2>6 DEF SummarizeRow
    <3>2. id \in DOMAIN rows /\ id \in Nat /\ id <= m
      BY <1>2, <2>4, <2>6
    <3>3. PICK other \in 1 .. 2 : other # n
      BY <2>1
    <3>4. SummarizedIDs(n) = {i \in DOMAIN rows : i <= lastRowID}
          /\ SummarizedIDs(n)' = {i \in DOMAIN rows : i <= id}
      BY <1>2, <2>1, <3>1 DEF SummarizedIDs
    <3>5. id \notin SummarizedIDs(n) /\ SummarizedIDs(n)' = SummarizedIDs(n) \cup {id}
      <4>1. \A i \in 1 .. m : i <= id <=> i <= lastRowID \/ i = id
        BY <1>2, <2>4
      <4>2. ~ (id <= lastRowID)
        BY <1>2
      <4> HIDE DEF id, m
      <4>3. QED
        BY <2>4, <3>2, <3>4, <4>1, <4>2
    <3>6. SummarizedIDs(other)' = SummarizedIDs(other)
      BY <1>2, <2>1, <3>1, <3>3 DEF SummarizedIDs
    <3>7. IsFiniteSet(SummarizedIDs(n)) /\ IsFiniteSet(SummarizedIDs(other))
      <4>1. \A k \in 1 .. 2 : SummarizedIDs(k) \in SUBSET (1 .. Len(tables[Summarized[k]]))
        BY <2>3 DEF SummarizedIDs
      <4>2. \A k \in 1 .. 2 : IsFiniteSet(1 .. Len(tables[Summarized[k]]))
        <5>1. \A last \in Nat : IsFiniteSet(1 .. last)
          BY FS_Interval
        <5>2. QED
          BY <2>3, <5>1
      <4>3. \A k \in 1 .. 2 : IsFiniteSet(SummarizedIDs(k))
        BY <4>1, <4>2, FS_Subset
      <4>4. QED
        BY <2>1, <4>3
    <3>8. range \in Ranges
      BY <2>1, <2>2, <3>2, SummarizedRanges
    <3> HIDE DEF id
    <3>9. /\ DOMAIN summaryRows' = {bucket \in Buckets(SummaryLevels) :
                                     SummedIDs(1, bucket)' # {} \/ SummedIDs(2, bucket)' # {}}
          /\ \A bucket \in DOMAIN summaryRows' :
               summaryRows'[bucket] = [allocations |-> Cardinality(SummedIDs(1, bucket)'),
                                       routes      |-> Cardinality(SummedIDs(2, bucket)')]
      <4>1. RowRange(Summarized[n], tables[Summarized[n]][id]) \in Ranges
        BY <3>8
      <4>2. summaryRows' = CountedIn(BucketsOf(RowRange(Summarized[n], tables[Summarized[n]][id])),
                                     Summarized[n])
        BY <3>1
      <4>3. job[1] = "summaries"
        BY <1>2, <2>1
      <4> HIDE DEF range, rows, table
      <4>4. QED
        BY <2>1, <3>3, <3>5, <3>6, <3>7, <4>1, <4>2, <4>3, RowSummarized
    <3>10. lastRowID' <= Len(tables'[Summarized[job'[2]]])
      BY <1>2, <2>1, <3>1, <3>2
    <3>11. QED
      BY <3>9, <3>10 DEF SummariesInv
  <2>7. QED
    BY <2>5, <2>6
<1>7. CASE ValidateDatabase /\ job' # Failed
  <2>1. /\ UNCHANGED <<tables, summaryRows>> /\ job[1] = "validate" /\ job'[1] = "ready"
    BY <1>7 DEF ValidateDatabase, Ready
  <2>2. \A k \in 1 .. 2 : SummarizedIDs(k)' = SummarizedIDs(k)
    BY <2>1 DEF SummarizedIDs
  <2>3. QED
    BY <2>1, <2>2, SummedStay DEF SummariesInv
<1>8. CASE UNCHANGED sqliteVars
  BY <1>8 DEF SummariesInv, SummedIDs, SummarizedIDs, sqliteVars
<1>9. QED
  BY <1>3, <1>4, <1>5, <1>6, <1>7, <1>8 DEF SqliteStep, AbandonSqlite

\* What holds while the SQLite database is built.
SqliteInv == TablesInv /\ PrefixRowsInv /\ SummariesInv

\* The job starts on empty tables.
LEMMA SqliteStarts == SqliteInit => SqliteInv
<1> SUFFICES ASSUME SqliteInit PROVE SqliteInv
  OBVIOUS
<1>1. JobIs("import", 1) /\ job[1] = "import" /\ job[2] = 1
  BY DEF SqliteInit, JobIs
<1>2. TablesInv
  BY <1>1 DEF TablesInv, Imported, SqliteInit, NoTables
<1>3. \A k \in 1 .. 3 : IndexedIDs(k) = {}
  BY <1>1 DEF IndexedIDs
<1>4. PrefixRowsInv
  BY <1>3, TableNames DEF PrefixRowsInv, EntriesFor, SqliteInit
<1>5. SummariesInv
  <2>1. \A k \in 1 .. 2 : SummarizedIDs(k) = {}
    BY <1>1 DEF SummarizedIDs
  <2>2. \A k \in 1 .. 2 : \A bucket : SummedIDs(k, bucket) = {}
    BY <2>1 DEF SummedIDs
  <2>3. DOMAIN summaryRows = {}
    BY DEF SqliteInit
  <2>4. QED
    BY <1>1, <2>2, <2>3 DEF SummariesInv
<1>6. QED
  BY <1>2, <1>4, <1>5 DEF SqliteInv

-----------------------------------------------------------------------------
(* The release *)

\* What the parse jobs that are done have written.
ArtifactsInv ==
  /\ world \in Sources
  /\ DOMAIN artifacts \in SUBSET ToSet(Registries)
  /\ \A registry \in DOMAIN artifacts :
       \E read \in Seq(Objects(DOMAIN world.lines)) :
         /\ artifacts[registry] = Parse(read, registry)
         /\ registry \notin cut => read = world.objects[registry]
  /\ stage \in {"fetch", "build", "published"} => DOMAIN artifacts = ToSet(Registries)

\* What registries and feeds publish is sequences of objects and of lines.
LEMMA WorldType ==
  ASSUME world \in Sources
  PROVE  /\ IsFiniteSet(DOMAIN world.lines)
         /\ \A feed \in DOMAIN world.lines :
              /\ world.lines[feed] \in Seq(WrittenPrefixes)
              /\ Len(world.lines[feed]) \in Nat
              /\ DOMAIN world.lines[feed] = 1 .. Len(world.lines[feed])
              /\ \A i \in 1 .. Len(world.lines[feed]) : world.lines[feed][i] \in WrittenPrefixes
         /\ \A registry \in ToSet(Registries) :
              /\ world.objects[registry] \in Seq(Objects(DOMAIN world.lines))
              /\ DOMAIN world.objects[registry] = 1 .. Len(world.objects[registry])
<1>1. /\ IsFiniteSet(DOMAIN world.lines)
      /\ \A feed \in DOMAIN world.lines : world.lines[feed] \in Seq(WrittenPrefixes)
      /\ \A registry \in ToSet(Registries) :
           world.objects[registry] \in Seq(Objects(DOMAIN world.lines))
  BY SourcesAssumption
<1>2. ASSUME NEW S, NEW seq \in Seq(S)
      PROVE  /\ Len(seq) \in Nat /\ DOMAIN seq = 1 .. Len(seq)
             /\ \A i \in 1 .. Len(seq) : seq[i] \in S
  OBVIOUS
<1>3. QED
  BY <1>1, <1>2

\* A parse job reads its registry's objects, whole or up to a cut, and its files stay.
LEMMA ArtifactsStep ==
  ASSUME ArtifactsInv, [PipelineNext]_pipelineVars PROVE ArtifactsInv'
<1>1. CASE UNCHANGED sourceVars
  <2>1. stage' \in {"fetch", "build", "published"} =>
          stage \in {"fetch", "build", "published"} \/ DOMAIN artifacts = ToSet(Registries)
    <3>1. CASE ListFeeds
      BY <3>1 DEF ListFeeds
    <3>2. CASE Merge \/ PublishRelease
      BY <3>2 DEF Merge, PublishRelease
    <3>3. CASE LeaveDraft
      BY <3>3 DEF LeaveDraft
    <3>4. CASE UNCHANGED stage
      BY <3>4
    <3>5. QED
      BY <3>1, <3>2, <3>3, <3>4 DEF PipelineNext, ParseRegistry, StartFetch, FetchLine, EndFetch,
         BboltJob, SqliteJob, pipelineVars
  <2>2. QED
    BY <1>1, <2>1 DEF ArtifactsInv, sourceVars
<1>2. ASSUME NEW registry \in ToSet(Registries), ParseRegistry(registry) PROVE ArtifactsInv'
  <2>1. PICK isCut \in BOOLEAN :
          /\ cut' = IF isCut THEN cut \cup {registry} ELSE cut
          /\ \E read \in IF isCut THEN CutReadings(world.objects[registry])
                         ELSE {world.objects[registry]} :
                artifacts' = [known \in (DOMAIN artifacts) \cup {registry} |->
                                 IF known = registry THEN Parse(read, registry)
                                 ELSE artifacts[known]]
    BY <1>2 DEF ParseRegistry
  <2>2. PICK read \in IF isCut THEN CutReadings(world.objects[registry])
                      ELSE {world.objects[registry]} :
                artifacts' = [known \in (DOMAIN artifacts) \cup {registry} |->
                                 IF known = registry THEN Parse(read, registry)
                                 ELSE artifacts[known]]
    BY <2>1
  <2>3. UNCHANGED <<world, stage>> /\ stage = "parse" /\ world \in Sources
    BY <1>2 DEF ParseRegistry, ArtifactsInv
  <2>4. read \in Seq(Objects(DOMAIN world.lines))
    BY <2>2, <2>3, WorldType, CutsAreObjects
  <2>5. registry \notin cut' => read = world.objects[registry]
    BY <2>1, <2>2
  <2>6. ASSUME NEW known \in DOMAIN artifacts, known # registry
        PROVE  \E objects \in Seq(Objects(DOMAIN world.lines)) :
                 /\ artifacts'[known] = Parse(objects, known)
                 /\ known \notin cut' => objects = world.objects[known]
    BY <2>1, <2>2, <2>6 DEF ArtifactsInv
  <2>7. artifacts'[registry] = Parse(read, registry)
    BY <2>2
  <2>8. DOMAIN artifacts' = (DOMAIN artifacts) \cup {registry}
    BY <2>2
  <2>9. QED
    BY <2>3, <2>4, <2>5, <2>6, <2>7, <2>8 DEF ArtifactsInv
<1>3. QED
  BY <1>1, <1>2 DEF PipelineNext, ListFeeds, StartFetch, FetchLine, EndFetch, Merge, BboltJob,
     SqliteJob, PublishRelease, LeaveDraft, pipelineVars, sourceVars

\* All readings together.
LEMMA AllRead ==
  ASSUME ArtifactsInv, DOMAIN artifacts = ToSet(Registries)
  PROVE  \E readings : ReadingsAre(readings)
<1> DEFINE Reads(registry, read) ==
             /\ read \in Seq(Objects(DOMAIN world.lines))
             /\ artifacts[registry] = Parse(read, registry)
             /\ registry \notin cut => read = world.objects[registry]
           readings == [registry \in ToSet(Registries) |-> CHOOSE read : Reads(registry, read)]
<1>1. ASSUME NEW registry \in ToSet(Registries) PROVE Reads(registry, readings[registry])
  <2>1. \E read : Reads(registry, read)
    BY DEF ArtifactsInv
  <2>2. Reads(registry, CHOOSE read : Reads(registry, read))
    BY <2>1
  <2>3. QED
    BY <2>2
<1> HIDE DEF readings
<1>2. ReadingsAre(readings)
  BY <1>1 DEF ReadingsAre
<1>3. QED
  BY <1>2, SMTT(30), ZenonT(30)

-----------------------------------------------------------------------------
(* The geofeeds *)

\* The rows of the lines read so far.
Written(progress) ==
  [place \in UNION {{<<feed, i>> : i \in 1 .. progress[feed]} : feed \in DOMAIN world.lines}
     |-> CidrRange(world.lines[place[1]][place[2]])]

\* How far each feed was read: each line is one row, a feed that is listed has
\* not been opened, and each is opened once.
ReadTo(progress) ==
  /\ progress \in [DOMAIN world.lines -> Nat]
  /\ \A feed \in DOMAIN world.lines : progress[feed] <= Len(world.lines[feed])
  /\ Lists(locations, Written(progress))
  /\ DOMAIN fetching \in SUBSET DOMAIN world.lines
  /\ \A feed \in DOMAIN fetching : fetching[feed] = progress[feed]
  /\ listed \in Seq(DOMAIN world.lines)
  /\ \A i \in DOMAIN listed : progress[listed[i]] = 0 /\ listed[i] \notin DOMAIN fetching
  /\ \A i, j \in DOMAIN listed : listed[i] = listed[j] => i = j
  /\ whole \in SUBSET DOMAIN world.lines
  /\ \A feed \in whole : progress[feed] = Len(world.lines[feed])

\* The fetch has come to some lines, and has not begun while files are parsed.
FetchInv ==
  /\ \E progress : ReadTo(progress)
  /\ stage = "parse" => listed = <<>> /\ DOMAIN fetching = {} /\ locations = <<>> /\ whole = {}

\* Nothing has been read.
LEMMA NothingWritten ==
  ASSUME NEW progress, progress = [feed \in DOMAIN world.lines |-> 0]
  PROVE  Lists(<<>>, Written(progress))
<1> DEFINE none   == <<>>
           family == Written(progress)
           m      == 0
           place  == <<>>
<1>1. Numbers(place, m, DOMAIN family)
  BY DEF Written, Numbers
<1>2. none = [k \in 1 .. m |-> family[place[k]]]
  OBVIOUS
<1> HIDE DEF none, family, m, place
<1>3. Lists(none, family)
  BY <1>1, <1>2, ListsNumbered
<1>4. QED
  BY <1>3 DEF none, family

\* One line more.
LEMMA LineWritten ==
  ASSUME NEW progress \in [DOMAIN world.lines -> Nat], Lists(locations, Written(progress)),
         NEW feed \in DOMAIN world.lines,
         NEW row, row = CidrRange(world.lines[feed][progress[feed] + 1])
  PROVE  Lists(Append(locations, row), Written([progress EXCEPT ![feed] = @ + 1]))
<1> DEFINE one  == Written(progress)
           x    == <<feed, progress[feed] + 1>>
           two  == [place \in {x} |-> CidrRange(world.lines[place[1]][place[2]])]
           more == [progress EXCEPT ![feed] = @ + 1]
<1>1. /\ DOMAIN one = UNION {{<<f, i>> : i \in 1 .. progress[f]} : f \in DOMAIN world.lines}
      /\ \A place \in DOMAIN one : one[place] = CidrRange(world.lines[place[1]][place[2]])
  BY DEF Written
<1>2. /\ DOMAIN Written(more) = UNION {{<<f, i>> : i \in 1 .. more[f]} : f \in DOMAIN world.lines}
      /\ Written(more) = [place \in DOMAIN Written(more) |->
                            CidrRange(world.lines[place[1]][place[2]])]
  BY DEF Written
<1>3. x \notin DOMAIN one
  <2>1. ~ (progress[feed] + 1 \in 1 .. progress[feed])
    OBVIOUS
  <2>2. QED
    BY <1>1, <2>1
<1>4. DOMAIN Written(more) = DOMAIN one \cup {x}
  <2>1. 1 .. more[feed] = 1 .. progress[feed] \cup {progress[feed] + 1}
    OBVIOUS
  <2>2. \A f \in DOMAIN world.lines : f # feed => more[f] = progress[f]
    OBVIOUS
  <2>3. ASSUME NEW f \in DOMAIN world.lines, NEW i
        PROVE  i \in 1 .. more[f] <=> i \in 1 .. progress[f] \/ <<f, i>> = x
    <3>1. CASE f = feed
      BY <2>1, <3>1
    <3>2. CASE f # feed
      BY <2>2, <3>2
    <3>3. QED
      BY <3>1, <3>2
  <2> HIDE DEF more
  <2>4. \A p : p \in DOMAIN Written(more) <=>
                 \E f \in DOMAIN world.lines : \E i \in 1 .. more[f] : p = <<f, i>>
    BY <1>2
  <2>5. \A p : p \in DOMAIN one <=>
                 \E f \in DOMAIN world.lines : \E i \in 1 .. progress[f] : p = <<f, i>>
    BY <1>1
  <2> HIDE DEF one
  <2>6. ASSUME NEW p PROVE p \in DOMAIN Written(more) <=> p \in DOMAIN one \/ p = x
    <3>1. ASSUME p \in DOMAIN Written(more) PROVE p \in DOMAIN one \/ p = x
      <4>1. PICK f \in DOMAIN world.lines : \E i \in 1 .. more[f] : p = <<f, i>>
        BY <2>4, <3>1
      <4>2. PICK i \in 1 .. more[f] : p = <<f, i>>
        BY <4>1
      <4>3. i \in 1 .. progress[f] \/ <<f, i>> = x
        BY <2>3, <4>2
      <4>4. QED
        BY <2>5, <4>2, <4>3
    <3>2. ASSUME p \in DOMAIN one PROVE p \in DOMAIN Written(more)
      BY <2>3, <2>4, <2>5, <3>2
    <3>3. ASSUME p = x PROVE p \in DOMAIN Written(more)
      BY <2>3, <2>4, <3>3
    <3>4. QED
      BY <3>1, <3>2, <3>3
  <2>7. QED
    BY <2>6
<1>5. Both(one, two) = Written(more)
  <2> HIDE DEF one, x, more
  <2>1. DOMAIN two = {x}
    OBVIOUS
  <2>2. \A p \in DOMAIN one \cup {x} :
          (IF p \in DOMAIN one THEN one[p] ELSE two[p])
             = CidrRange(world.lines[p[1]][p[2]])
    BY <1>1
  <2>3. Both(one, two) = [p \in DOMAIN one \cup {x} |->
                            IF p \in DOMAIN one THEN one[p] ELSE two[p]]
    BY <2>1 DEF Both
  <2> HIDE DEF two
  <2>4. Both(one, two) = [p \in DOMAIN one \cup {x} |-> CidrRange(world.lines[p[1]][p[2]])]
    BY <2>2, <2>3
  <2>5. Written(more) = [p \in DOMAIN one \cup {x} |-> CidrRange(world.lines[p[1]][p[2]])]
    BY <1>2, <1>4
  <2>6. QED
    BY <2>4, <2>5
<1>6. Lists(<<row>>, two)
  <2> DEFINE place == [k \in 1 .. 1 |-> x]
  <2>1. Numbers(place, 1, DOMAIN two)
    <3>1. DOMAIN two = {x} /\ \A k \in 1 .. 1 : place[k] = x
      OBVIOUS
    <3>2. QED
      BY <3>1 DEF Numbers
  <2> DEFINE rows == <<row>>
  <2>2. rows = [k \in 1 .. 1 |-> two[place[k]]]
    OBVIOUS
  <2> HIDE DEF place, two, rows
  <2>3. Lists(rows, two)
    BY <2>1, <2>2, ListsNumbered
  <2>4. QED
    BY <2>3 DEF rows
<1>7. (DOMAIN one) \cap (DOMAIN two) = {}
  BY <1>3
<1> HIDE DEF one, two
<1>8. Lists(locations \o <<row>>, Both(one, two))
  BY <1>6, <1>7, ListsJoined DEF one
<1>9. Append(locations, row) = locations \o <<row>>
  <2>1. PICK place : Numbers(place, Len(locations), DOMAIN one)
                     /\ locations = [k \in 1 .. Len(locations) |-> one[place[k]]]
    BY DEF Lists, one
  <2> DEFINE m == Len(locations)
  <2> HIDE DEF m
  <2>2. m \in Nat /\ locations = [k \in 1 .. m |-> one[place[k]]]
    BY <2>1 DEF Numbers, m
  <2>3. locations \in Seq({one[place[k]] : k \in 1 .. m})
    BY <2>2
  <2>4. QED
    BY <2>3
<1>10. QED
  BY <1>5, <1>8, <1>9

\* The list names feeds of this world, each once.
LEMMA FeedsListed ==
  ASSUME ArtifactsInv
  PROVE  /\ FeedList \in Seq(DOMAIN world.lines)
         /\ \A i, j \in DOMAIN FeedList : FeedList[i] = FeedList[j] => i = j
<1> DEFINE feeds == UNION {artifacts[registry].feeds : registry \in DOMAIN artifacts}
<1>1. feeds \in SUBSET DOMAIN world.lines
  <2> SUFFICES ASSUME NEW registry \in DOMAIN artifacts, NEW feed \in artifacts[registry].feeds
               PROVE  feed \in DOMAIN world.lines
    OBVIOUS
  <2>1. PICK read \in Seq(Objects(DOMAIN world.lines)) : artifacts[registry] = Parse(read, registry)
    BY DEF ArtifactsInv
  <2>2. artifacts[registry].feeds = {read[i].feed : i \in DOMAIN read} \ {NoFeed}
    BY <2>1, ParseLists
  <2>3. PICK i \in DOMAIN read : feed = read[i].feed /\ feed # NoFeed
    BY <2>2
  <2>4. read[i] \in Objects(DOMAIN world.lines)
    BY <2>1
  <2>5. QED
    BY <2>3, <2>4, ObjectsBecomeRows
<1>2. FeedList = SetToSeq(feeds)
  BY DEF FeedList
<1> HIDE DEF feeds
<1>3. IsFiniteSet(feeds)
  BY <1>1, WorldType, FS_Subset DEF ArtifactsInv
<1> DEFINE n == Cardinality(feeds)
<1>4. n \in Nat /\ \E f \in [1 .. n -> feeds] : IsInjective(f)
  <2>1. n \in Nat /\ ExistsBijection(1 .. n, feeds)
    BY <1>3, FS_CardinalityType
  <2>2. PICK f : f \in Bijection(1 .. n, feeds)
    BY <2>1 DEF ExistsBijection
  <2> HIDE DEF n
  <2>3. f \in [1 .. n -> feeds] /\ \A a, b \in 1 .. n : f[a] = f[b] => a = b
    BY <2>2 DEF Bijection, Injection, IsInjective
  <2>4. IsInjective(f)
    BY <2>3 DEF IsInjective
  <2>5. QED
    BY <2>1, <2>3, <2>4
<1>5. FeedList \in [1 .. n -> feeds] /\ IsInjective(FeedList)
  BY <1>2, <1>4 DEF SetToSeq
<1> HIDE DEF n
<1>6. FeedList \in Seq(feeds)
  BY <1>4, <1>5
<1>7. FeedList \in Seq(DOMAIN world.lines)
  BY <1>1, <1>6
<1>8. QED
  BY <1>5, <1>7 DEF IsInjective

\* No step of the fetch repeats a line, or skips one within a feed.
LEMMA FetchStep ==
  ASSUME ArtifactsInv, FetchInv, [PipelineNext]_pipelineVars PROVE FetchInv'
<1>1. CASE UNCHANGED <<world, fetchVars>> /\ (stage' = "parse" => stage = "parse")
  BY <1>1 DEF FetchInv, ReadTo, Written, fetchVars
<1>2. CASE ListFeeds
  <2> DEFINE progress == [feed \in DOMAIN world.lines |-> 0]
  <2>1. /\ listed' = FeedList /\ stage' = "fetch"
        /\ UNCHANGED <<world, fetching, locations, whole>>
        /\ DOMAIN fetching = {} /\ locations = <<>> /\ whole = {}
    BY <1>2 DEF ListFeeds, FetchInv, sourceVars
  <2>2. Lists(<<>>, Written(progress))
    BY NothingWritten
  <2>3. /\ FeedList \in Seq(DOMAIN world.lines)
        /\ \A i, j \in DOMAIN FeedList : FeedList[i] = FeedList[j] => i = j
        /\ \A i \in DOMAIN FeedList : FeedList[i] \in DOMAIN world.lines
    BY FeedsListed
  <2>4. \A feed \in DOMAIN world.lines : Len(world.lines[feed]) \in Nat
    BY WorldType DEF ArtifactsInv
  <2>5. Written(progress)' = Written(progress)
    BY <2>1 DEF Written
  <2>6. progress' = progress
    BY <2>1
  <2>7. progress \in [DOMAIN world.lines -> Nat] /\ \A feed \in DOMAIN world.lines : progress[feed] = 0
    OBVIOUS
  <2> HIDE DEF progress
  <2>8. ReadTo(progress)'
    BY <2>1, <2>2, <2>3, <2>4, <2>5, <2>6, <2>7 DEF ReadTo
  <2>9. QED
    BY <2>1, <2>8 DEF FetchInv
<1>3. CASE StartFetch
  <2>1. PICK progress : ReadTo(progress)
    BY DEF FetchInv
  <2> DEFINE feed == Head(listed)
  <2>2. /\ stage = "fetch" /\ stage' = "fetch" /\ listed # <<>> /\ listed' = Tail(listed)
        /\ fetching' = [f \in (DOMAIN fetching) \cup {feed} |-> IF f = feed THEN 0 ELSE fetching[f]]
        /\ UNCHANGED <<world, locations, whole>>
    BY <1>3 DEF StartFetch, sourceVars
  <2>3. /\ listed \in Seq(DOMAIN world.lines)
        /\ \A i \in DOMAIN listed : progress[listed[i]] = 0 /\ listed[i] \notin DOMAIN fetching
        /\ \A i, j \in DOMAIN listed : listed[i] = listed[j] => i = j
    BY <2>1 DEF ReadTo
  <2>4. feed = listed[1] /\ 1 \in DOMAIN listed /\ feed \in DOMAIN world.lines
    BY <2>2, <2>3
  <2>5. /\ listed' \in Seq(DOMAIN world.lines)
        /\ \A i \in DOMAIN listed' : /\ i \in Int /\ i + 1 \in DOMAIN listed /\ i + 1 # 1
                                     /\ listed'[i] = listed[i + 1]
    BY <2>2, <2>3
  <2> HIDE DEF feed
  <2>6. \A i, j \in DOMAIN listed' : listed'[i] = listed'[j] => i = j
    BY <2>3, <2>5
  <2>7. DOMAIN fetching' = DOMAIN fetching \cup {feed}
        /\ \A f \in DOMAIN fetching' : fetching'[f] = IF f = feed THEN 0 ELSE fetching[f]
    BY <2>2
  <2>8. \A i \in DOMAIN listed' : progress[listed'[i]] = 0 /\ listed'[i] \notin DOMAIN fetching'
    BY <2>3, <2>4, <2>5, <2>7
  <2>9. DOMAIN fetching' \in SUBSET DOMAIN world.lines
        /\ \A f \in DOMAIN fetching' : fetching'[f] = progress[f]
    BY <2>1, <2>3, <2>4, <2>7 DEF ReadTo
  <2>10. Written(progress)' = Written(progress)
    BY <2>2 DEF Written
  <2>11. ReadTo(progress)'
    BY <2>1, <2>2, <2>5, <2>6, <2>8, <2>9, <2>10 DEF ReadTo
  <2>12. QED
    BY <2>2, <2>11 DEF FetchInv
<1>4. ASSUME NEW feed \in DOMAIN fetching, FetchLine(feed) PROVE FetchInv'
  <2>1. PICK progress : ReadTo(progress)
    BY DEF FetchInv
  <2> DEFINE row  == CidrRange(world.lines[feed][progress[feed] + 1])
             more == [progress EXCEPT ![feed] = @ + 1]
  <2>2. feed \in DOMAIN world.lines /\ fetching[feed] = progress[feed] /\ progress[feed] \in Nat
        /\ progress \in [DOMAIN world.lines -> Nat]
    BY <2>1 DEF ReadTo
  <2>3. /\ stage' = "fetch" /\ progress[feed] < Len(world.lines[feed])
        /\ fetching' = [fetching EXCEPT ![feed] = @ + 1]
        /\ locations' = Append(locations, row)
        /\ UNCHANGED <<world, listed, whole>>
    BY <1>4, <2>2 DEF FetchLine, sourceVars
  <2>4. Lists(locations', Written(more))
    BY <2>1, <2>2, <2>3, LineWritten DEF ReadTo
  <2>5. Written(more)' = Written(more)
    BY <2>3 DEF Written
  <2>6. more \in [DOMAIN world.lines -> Nat] /\ more[feed] = progress[feed] + 1
        /\ \A f \in DOMAIN world.lines : f # feed => more[f] = progress[f]
    BY <2>2
  <2>7. Len(world.lines[feed]) \in Nat
    BY <2>2, WorldType DEF ArtifactsInv
  <2> HIDE DEF more, row
  <2>8. \A f \in DOMAIN world.lines : more[f] <= Len(world.lines[f])
    BY <2>1, <2>2, <2>3, <2>6, <2>7 DEF ReadTo
  <2>9. DOMAIN fetching' = DOMAIN fetching /\ \A f \in DOMAIN fetching : fetching'[f] = more[f]
    BY <2>1, <2>2, <2>3, <2>6 DEF ReadTo
  <2>10. \A i \in DOMAIN listed : more[listed[i]] = 0 /\ listed[i] \notin DOMAIN fetching
    <3>1. \A i \in DOMAIN listed : listed[i] \in DOMAIN world.lines
      BY <2>1 DEF ReadTo
    <3>2. QED
      BY <2>1, <2>6, <3>1 DEF ReadTo
  <2>11. \A f \in whole : more[f] = Len(world.lines[f])
    BY <2>1, <2>2, <2>3, <2>6, <2>7 DEF ReadTo
  <2>12. ReadTo(more)'
    BY <2>1, <2>3, <2>4, <2>5, <2>6, <2>8, <2>9, <2>10, <2>11 DEF ReadTo
  <2>13. QED
    BY <2>3, <2>12 DEF FetchInv
<1>5. ASSUME NEW feed \in DOMAIN fetching, EndFetch(feed) PROVE FetchInv'
  <2>1. PICK progress : ReadTo(progress)
    BY DEF FetchInv
  <2>2. feed \in DOMAIN world.lines /\ fetching[feed] = progress[feed]
    BY <2>1 DEF ReadTo
  <2>3. /\ stage' = "fetch"
        /\ fetching' = [f \in DOMAIN fetching \ {feed} |-> fetching[f]]
        /\ whole' = IF progress[feed] = Len(world.lines[feed]) THEN whole \cup {feed} ELSE whole
        /\ UNCHANGED <<world, listed, locations>>
    BY <1>5, <2>2 DEF EndFetch, sourceVars, Restrict
  <2>4. Written(progress)' = Written(progress)
    BY <2>3 DEF Written
  <2>5. DOMAIN fetching' = DOMAIN fetching \ {feed}
        /\ \A f \in DOMAIN fetching' : fetching'[f] = fetching[f]
    BY <2>3
  <2>6. whole' \in SUBSET DOMAIN world.lines /\ \A f \in whole' : progress[f] = Len(world.lines[f])
    BY <2>1, <2>2, <2>3 DEF ReadTo
  <2>7. ReadTo(progress)'
    BY <2>1, <2>3, <2>4, <2>5, <2>6 DEF ReadTo
  <2>8. QED
    BY <2>3, <2>7 DEF FetchInv
<1>6. CASE \/ \E registry \in ToSet(Registries) : ParseRegistry(registry)
           \/ Merge \/ BboltJob \/ SqliteJob \/ PublishRelease \/ LeaveDraft
           \/ UNCHANGED pipelineVars
  BY <1>1, <1>6 DEF ParseRegistry, Merge, BboltJob, SqliteJob, PublishRelease, LeaveDraft,
     pipelineVars, sourceVars
<1>7. QED
  BY <1>2, <1>3, <1>4, <1>5, <1>6 DEF PipelineNext

\* The rows of the geofeeds are ranges.
LEMMA LocationsType ==
  ASSUME ArtifactsInv, FetchInv PROVE locations \in Seq(Ranges)
<1>1. PICK progress : ReadTo(progress)
  BY DEF FetchInv
<1> DEFINE family == Written(progress)
<1>2. \A place \in DOMAIN family : family[place] \in Ranges
  <2> SUFFICES ASSUME NEW place \in DOMAIN family PROVE family[place] \in Ranges
    OBVIOUS
  <2>1. PICK feed \in DOMAIN world.lines : \E i \in 1 .. progress[feed] : place = <<feed, i>>
    BY DEF Written
  <2>2. PICK i \in 1 .. progress[feed] : place = <<feed, i>>
    BY <2>1
  <2>3. /\ Len(world.lines[feed]) \in Nat /\ progress[feed] \in Nat
        /\ progress[feed] <= Len(world.lines[feed])
    BY <1>1, WorldType DEF ArtifactsInv, ReadTo
  <2>4. world.lines[feed][i] \in WrittenPrefixes
    BY <2>3, WorldType DEF ArtifactsInv
  <2>5. family[place] = CidrRange(world.lines[feed][i])
    BY <2>2 DEF Written
  <2>6. QED
    BY <2>4, <2>5, CidrIsPrefix
<1>3. Lists(locations, family)
  BY <1>1 DEF ReadTo
<1> HIDE DEF family
<1>4. QED
  BY <1>2, <1>3, ListsType

-----------------------------------------------------------------------------
(* The two builds *)

\* Before the files are merged nothing is built.
WaitingInv ==
  stage \in {"parse", "fetch"} =>
    /\ phase = "waiting" /\ at = 1
    /\ db = EmptyDB /\ trie = <<>> /\ output = NoFile
    /\ SqliteInit

\* Both builds are given the merged files; a release has two finished ones.
ReleaseInv ==
  stage \in {"build", "published"} =>
    /\ input = Merged
    /\ BuildInv /\ CountsInv
    /\ phase = "published" => output # NoFile
    /\ SqliteInv
    /\ stage = "published" => phase = "published" /\ job = Ready

\* The inductive invariant: the files of the parse jobs, the lines fetched so far,
\* builds that wait for their input, and builds that have it.
PipelineInv == ArtifactsInv /\ FetchInv /\ WaitingInv /\ ReleaseInv

\* A run of the workflow starts without files and without databases.
LEMMA PipelineBegins == PipelineInit => PipelineInv
<1> SUFFICES ASSUME PipelineInit PROVE PipelineInv
  OBVIOUS
<1>1. ArtifactsInv
  BY DEF PipelineInit, ArtifactsInv
<1>2. FetchInv
  <2> DEFINE progress == [feed \in DOMAIN world.lines |-> 0]
  <2>1. /\ listed = <<>> /\ DOMAIN fetching = {} /\ locations = <<>> /\ whole = {}
    BY DEF PipelineInit
  <2>2. Lists(<<>>, Written(progress))
    BY NothingWritten
  <2>3. \A feed \in DOMAIN world.lines : Len(world.lines[feed]) \in Nat
    BY <1>1, WorldType DEF ArtifactsInv
  <2>4. progress \in [DOMAIN world.lines -> Nat] /\ \A feed \in DOMAIN world.lines : progress[feed] = 0
    OBVIOUS
  <2> HIDE DEF progress
  <2>5. ReadTo(progress)
    BY <2>1, <2>2, <2>3, <2>4 DEF ReadTo
  <2>6. QED
    BY <2>1, <2>5 DEF FetchInv
<1>3. WaitingInv /\ ReleaseInv
  BY DEF PipelineInit, WaitingInv, ReleaseInv
<1>4. QED
  BY <1>1, <1>2, <1>3 DEF PipelineInv

\* No build begins before the merge.
LEMMA WaitingStep ==
  ASSUME WaitingInv, [PipelineNext]_pipelineVars PROVE WaitingInv'
<1>1. CASE /\ UNCHANGED <<vars, sqliteVars>>
           /\ stage' \in {"parse", "fetch"} => stage \in {"parse", "fetch"}
  BY <1>1 DEF WaitingInv, vars, memory, files, sqliteVars, SqliteInit
<1>2. CASE ListFeeds \/ StartFetch \/ PublishRelease \/ LeaveDraft
  BY <1>1, <1>2 DEF ListFeeds, StartFetch, PublishRelease, LeaveDraft
<1>3. CASE \E registry \in ToSet(Registries) : ParseRegistry(registry)
  BY <1>1, <1>3 DEF ParseRegistry
<1>4. CASE \E feed \in DOMAIN fetching : FetchLine(feed) \/ EndFetch(feed)
  BY <1>1, <1>4 DEF FetchLine, EndFetch
<1>5. CASE Merge \/ BboltJob \/ SqliteJob
  <2>1. stage' \notin {"parse", "fetch"}
    BY <1>5 DEF Merge, BboltJob, SqliteJob
  <2>2. QED
    BY <2>1 DEF WaitingInv
<1>6. CASE UNCHANGED pipelineVars
  BY <1>1, <1>6 DEF pipelineVars
<1>7. QED
  BY <1>2, <1>3, <1>4, <1>5, <1>6 DEF PipelineNext

\* A build step leaves the files alone, and publishes only what it has written.
LEMMA PublishedOutput ==
  ASSUME BuildInv, phase = "published" => output # NoFile, [Build \/ Cancel]_vars
  PROVE  /\ [Next]_vars /\ UNCHANGED input
         /\ phase' = "published" => output' # NoFile
<1>1. [Next]_vars
  BY DEF Next
<1>2. UNCHANGED input
  BY <1>1, StepCases, AllocationAdded, RouteAdded, GeofeedAdded, AutnumRead, TablesKept, NothingKept
     DEF vars, BuildInv
<1>3. CASE Publish
  <2>1. output' = Holding(db, TRUE)
    <3>1. phase = "rename" /\ output' = IF input.compact THEN compacted ELSE raw
      BY <1>3 DEF Publish
    <3>2. QED
      BY <3>1 DEF BuildInv, FilesInv
  <2>2. QED
    BY <1>1, <1>2, <2>1 DEF Holding, NoFile
<1>4. CASE AddAllocation \/ AddRoute \/ AddGeofeed \/ AddAutnum
  <2>1. phase' # "published"
    BY <1>4 DEF AddAllocation, AddRoute, AddGeofeed, AddAutnum, Row
  <2>2. QED
    BY <1>1, <1>2, <2>1
<1>5. CASE \/ EndOfFile \/ WriteASNRoutes \/ InsertRouteGroup \/ StoreRouteLPM
           \/ InsertObject("allocationLPM", "allocations")
           \/ StoreSelectionLPM("allocationLPM", "allocations", "geofeedLPM")
           \/ InsertObject("geofeedLPM", "geofeeds")
           \/ StoreSelectionLPM("geofeedLPM", "geofeeds", "summaries")
  <2>1. phase' # "published"
    BY <1>5 DEF EndOfFile, WriteASNRoutes, InsertRouteGroup, StoreRouteLPM, InsertObject,
       StoreSelectionLPM
  <2>2. QED
    BY <1>1, <1>2, <2>1
<1>6. CASE Start \/ WriteSummaries \/ Sync \/ Compact \/ SyncCompact \/ Cancel
  <2>1. phase' # "published"
    BY <1>6 DEF Start, WriteSummaries, Sync, Compact, SyncCompact, Cancel
  <2>2. QED
    BY <1>1, <1>2, <2>1
<1>7. CASE UNCHANGED vars
  BY <1>1, <1>2, <1>7 DEF vars, files
<1>8. QED
  BY <1>3, <1>4, <1>5, <1>6, <1>7 DEF Build

\* The merged files as an input of the builds.
LEMMA MergedType ==
  ASSUME ArtifactsInv, FetchInv, stage \in {"fetch", "build", "published"}
  PROVE  IsParsed(Merged)
<1>1. DOMAIN artifacts = ToSet(Registries)
  BY DEF ArtifactsInv
<1>2. PICK readings : ReadingsAre(readings)
  BY <1>1, AllRead
<1>3. QED
  BY <1>2, LocationsType, MergedIsParsed

\* The merge gives both builds the same rows, and no later step changes these.
LEMMA ReleaseStep ==
  ASSUME PipelineInv, [PipelineNext]_pipelineVars PROVE ReleaseInv'
<1>1. ArtifactsInv /\ FetchInv /\ WaitingInv /\ ReleaseInv
  BY DEF PipelineInv
<1>2. CASE Merge
  <2>1. CASE stage' = "failed"
    BY <2>1 DEF ReleaseInv
  <2>2. CASE stage' # "failed"
    <3>1. /\ stage = "fetch" /\ stage' = "build" /\ phase' = "start" /\ input' = Merged
          /\ UNCHANGED <<sourceVars, fetchVars, at, memory, files, sqliteVars>>
      BY <1>2, <2>2 DEF Merge
    <3>2. IsInput(input')
      BY <1>1, <3>1, MergedType, ParsedIsInput
    <3>3. Begun'
      BY <1>1, <3>1, <3>2 DEF Begun, WaitingInv, memory, files
    <3>4. Begun' => BuildInv' /\ CountsInv'
      BY BuildBegins, NothingCounted, PTL
    <3>5. SqliteInit'
      BY <1>1, <3>1 DEF WaitingInv, SqliteInit, sqliteVars
    <3>6. SqliteInit' => SqliteInv'
      BY SqliteStarts, PTL
    <3>7. Merged' = Merged
      BY <3>1 DEF Merged, Joined, sourceVars, fetchVars
    <3>8. QED
      BY <3>1, <3>3, <3>4, <3>5, <3>6, <3>7 DEF ReleaseInv
  <2>3. QED
    BY <2>1, <2>2
<1>3. ASSUME stage \in {"build", "published"}, UNCHANGED <<sourceVars, fetchVars>>,
             [Build \/ Cancel]_vars, [SqliteStep]_sqliteVars,
             stage' = "published" => phase' = "published" /\ job' = Ready
      PROVE  ReleaseInv'
  <2>1. /\ input = Merged /\ BuildInv /\ CountsInv /\ SqliteInv
        /\ phase = "published" => output # NoFile
    BY <1>1, <1>3 DEF ReleaseInv
  <2>2. /\ [Next]_vars /\ UNCHANGED input /\ (phase' = "published" => output' # NoFile)
    BY <1>3, <2>1, PublishedOutput
  <2>3. BuildInv' /\ CountsInv'
    BY <2>1, <2>2, BuildInvStep, CountsStep
  <2>4. IsParsed(input)
    BY <1>1, <1>3, <2>1, MergedType
  <2>5. SqliteInv'
    BY <1>3, <2>1, <2>2, <2>4, TablesStep, PrefixRowsStep, SummariesStep DEF SqliteInv
  <2>6. Merged' = Merged
    BY <1>3 DEF Merged, Joined, sourceVars, fetchVars
  <2>7. QED
    BY <1>3, <2>1, <2>2, <2>3, <2>5, <2>6 DEF ReleaseInv
<1>4. CASE BboltJob
  <2>1. /\ stage = "build" /\ stage' = "build" /\ UNCHANGED <<sourceVars, fetchVars, sqliteVars>>
        /\ Build \/ Cancel
    BY <1>4 DEF BboltJob
  <2>2. QED
    BY <1>3, <2>1
<1>5. CASE SqliteJob
  <2>1. /\ stage = "build" /\ stage' = "build" /\ UNCHANGED <<sourceVars, fetchVars, vars>>
        /\ SqliteStep
    BY <1>5 DEF SqliteJob
  <2>2. QED
    BY <1>3, <2>1
<1>6. CASE PublishRelease
  <2>1. /\ stage = "build" /\ UNCHANGED <<sourceVars, fetchVars, vars, sqliteVars>>
        /\ phase = "published" /\ job = Ready
    BY <1>6 DEF PublishRelease
  <2>2. phase' = "published" /\ job' = Ready
    BY <2>1 DEF vars, sqliteVars
  <2>3. QED
    BY <1>3, <2>1, <2>2
<1>7. CASE UNCHANGED pipelineVars
  <2>1. UNCHANGED <<vars, sqliteVars, stage, sourceVars, fetchVars>>
    BY <1>7 DEF pipelineVars
  <2>2. stage' = "published" => phase' = "published" /\ job' = Ready
    BY <1>1, <2>1 DEF ReleaseInv, vars, sqliteVars
  <2>3. CASE stage \in {"build", "published"}
    BY <1>3, <2>1, <2>2, <2>3
  <2>4. CASE stage \notin {"build", "published"}
    BY <2>1, <2>4 DEF ReleaseInv
  <2>5. QED
    BY <2>3, <2>4
<1>8. CASE stage' \notin {"build", "published"}
  BY <1>8 DEF ReleaseInv
<1>9. CASE ListFeeds \/ StartFetch \/ LeaveDraft
  BY <1>8, <1>9 DEF ListFeeds, StartFetch, LeaveDraft
<1>10. CASE \E registry \in ToSet(Registries) : ParseRegistry(registry)
  BY <1>8, <1>10 DEF ParseRegistry
<1>11. CASE \E feed \in DOMAIN fetching : FetchLine(feed) \/ EndFetch(feed)
  BY <1>8, <1>11 DEF FetchLine, EndFetch
<1>12. QED
  BY <1>2, <1>4, <1>5, <1>6, <1>7, <1>9, <1>10, <1>11 DEF PipelineNext

\* In every state of a run of import-database.yml: the files of a finished parse
\* job hold the rows of the objects it read, geolocations.csv one row for each
\* line read so far, no feed is opened twice, no build starts before the merge,
\* and afterwards both builds hold what their steps make of the same rows.
THEOREM PipelineInvariance == PipelineSpec => []PipelineInv
<1>1. PipelineInv /\ [PipelineNext]_pipelineVars => PipelineInv'
  BY ArtifactsStep, FetchStep, WaitingStep, ReleaseStep DEF PipelineInv
<1>2. QED
  BY PipelineBegins, <1>1, PTL DEF PipelineSpec

\* A file none of whose ranges ends before it starts is kept whole.
LEMMA OrderedKept ==
  ASSUME NEW rows \in Seq(Ranges), \A i \in DOMAIN rows : rows[i].start <= rows[i].end
  PROVE  KeptRanges(rows)[Len(rows)] = rows
<1> DEFINE accepted == {i \in DOMAIN rows : rows[i].start <= rows[i].end}
<1>1. /\ Len(rows) \in Nat /\ DOMAIN rows = 1 .. Len(rows)
      /\ rows = [i \in 1 .. Len(rows) |-> rows[i]]
  OBVIOUS
<1>2. FirstOnes(accepted, Len(rows), Len(rows))
  BY <1>1 DEF FirstOnes
<1>3. KeptRanges(rows) = Kept(rows, accepted)
  BY DEF KeptRanges
<1> HIDE DEF accepted
<1>4. Kept(rows, accepted)[Len(rows)] = [i \in 1 .. Len(rows) |-> rows[i]]
  BY <1>1, <1>2, KeptFront
<1>5. QED
  BY <1>1, <1>3, <1>4

\* Every parsed route is kept.
LEMMA RoutesKept ==
  ASSUME IsParsed(input)
  PROVE  LET rows == input.routes IN
         KeptRoutes(rows)[Len(rows)]
           = [i \in 1 .. Len(rows) |->
                [prefix |-> MaskedPrefix(rows[i].prefix), origin |-> rows[i].origin]]
<1> DEFINE rows == input.routes
           stored == [i \in DOMAIN rows |->
                        [prefix |-> MaskedPrefix(rows[i].prefix), origin |-> rows[i].origin]]
           accepted == {i \in DOMAIN rows : rows[i].origin # NoOrigin}
<1>1. /\ Len(rows) \in Nat /\ DOMAIN rows = 1 .. Len(rows)
      /\ \A i \in DOMAIN rows : rows[i].origin # NoOrigin
  <2>1. rows \in Seq(RouteRows)
    BY DEF IsParsed
  <2>2. \A i \in DOMAIN rows : rows[i].origin # NoOrigin
    BY ParsedIsInput
  <2> HIDE DEF rows
  <2>3. QED
    BY <2>1, <2>2
<1>2. KeptRoutes(rows) = Kept(stored, accepted)
  BY DEF KeptRoutes, RouteObjects
<1> DEFINE n == Len(rows)
<1>3. Len(stored) = n /\ n \in Nat /\ stored = [i \in 1 .. n |-> stored[i]]
  <2>1. stored \in Seq({stored[i] : i \in 1 .. n}) /\ Len(stored) = n
    BY <1>1
  <2>2. QED
    BY <1>1, <2>1
<1>4. FirstOnes(accepted, n, n)
  BY <1>1 DEF FirstOnes
<1>5. stored = [i \in 1 .. n |-> [prefix |-> MaskedPrefix(rows[i].prefix), origin |-> rows[i].origin]]
  BY <1>1
<1> HIDE DEF accepted, stored, n
<1>6. Kept(stored, accepted)[n] = [i \in 1 .. n |-> stored[i]]
  BY <1>3, <1>4, KeptFront
<1>7. QED
  BY <1>2, <1>3, <1>5, <1>6 DEF n

\* Both editions of a published release hold all rows of the merged files.
LEMMA ReleaseHolds ==
  ASSUME PipelineInv, stage = "published"
  PROVE  LET data == output.content IN
         /\ IsParsed(input) /\ input = Merged
         /\ IsDatasetOf(data, input) /\ SummariesAre(data)
         /\ \A table \in ToSet(Tables) : tables[table] = input[table]
         /\ \A table \in ToSet(Indexed) :
              prefixRows[table] = EntriesFor(table, DOMAIN tables[table])
         /\ job[1] = "ready" /\ SummariesInv
         /\ \A table \in {"allocations", "geofeeds"} :
              \A i \in DOMAIN input[table] : input[table][i].start <= input[table][i].end
         /\ data.allocations = input.allocations /\ data.geofeeds = input.geofeeds
         /\ data.routes = [i \in 1 .. Len(input.routes) |->
                             [prefix |-> MaskedPrefix(input.routes[i].prefix),
                              origin |-> input.routes[i].origin]]
<1> DEFINE data == output.content
<1>1. /\ input = Merged /\ BuildInv /\ CountsInv /\ SqliteInv
      /\ output # NoFile /\ job = Ready /\ job[1] = "ready"
      /\ ArtifactsInv /\ FetchInv
  BY DEF PipelineInv, ReleaseInv, Ready
<1>2. IsParsed(input)
  BY <1>1, MergedType
<1>3. output = Holding(data, TRUE) /\ IsDatasetOf(data, input)
  BY <1>1 DEF BuildInv, OutputInv
<1>4. SummariesAre(data)
  <2>1. output.is = "data"
    <3> HIDE DEF data
    <3>1. QED
      BY <1>3 DEF Holding
  <2>2. QED
    BY <1>1, <2>1 DEF CountsInv
<1>5. ASSUME NEW table \in ToSet(Tables) PROVE tables[table] = input[table]
  <2>1. PICK name, n : /\ JobIs(name, n)
                       /\ \A k \in 1 .. 4 : Imported(name, n, k) => tables[Tables[k]] = input[Tables[k]]
    BY <1>1 DEF SqliteInv, TablesInv
  <2>2. name = "ready"
    BY <1>1, <2>1 DEF JobIs
  <2>3. \A k \in 1 .. 4 : tables[Tables[k]] = input[Tables[k]]
    BY <2>1, <2>2 DEF Imported
  <2>4. QED
    BY <2>3, TableNames
<1>6. ASSUME NEW table \in ToSet(Indexed)
      PROVE  /\ prefixRows[table] = EntriesFor(table, DOMAIN tables[table])
             /\ \A id \in DOMAIN tables[table] :
                  LET range == RowRange(table, tables[table][id]) IN ~ (range.start > range.end)
  <2>1. PICK k \in 1 .. 3 : Indexed[k] = table
    BY TableNames
  <2>2. IndexedIDs(k) = DOMAIN tables[table]
    BY <1>1, <2>1 DEF IndexedIDs
  <2>3. job[1] # "failed"
    BY <1>1
  <2>4. QED
    BY <1>1, <2>1, <2>2, <2>3 DEF SqliteInv, PrefixRowsInv
<1>7. ASSUME NEW table \in {"allocations", "geofeeds"}, NEW i \in DOMAIN input[table]
      PROVE  input[table][i].start <= input[table][i].end
  <2>1. /\ table \in ToSet(Indexed) /\ tables[table] = input[table]
        /\ RowRange(table, input[table][i]) = input[table][i]
    BY <1>5, TableNames DEF RowRange
  <2>2. ~ (input[table][i].start > input[table][i].end)
    BY <1>6, <2>1
  <2>3. input[table][i] \in Ranges
    BY <1>2 DEF IsParsed
  <2>4. input[table][i].start \in Int /\ input[table][i].end \in Int
    BY <2>3, SizeIsPositive, BitsAssumption DEF Ranges, Addresses
  <2>5. QED
    BY <2>2, <2>4
<1>8. data.allocations = input.allocations /\ data.geofeeds = input.geofeeds
  <2>1. /\ input.allocations \in Seq(Ranges) /\ input.geofeeds \in Seq(Ranges)
        /\ \A i \in DOMAIN input.allocations : input.allocations[i].start <= input.allocations[i].end
        /\ \A i \in DOMAIN input.geofeeds : input.geofeeds[i].start <= input.geofeeds[i].end
    BY <1>2, <1>7 DEF IsParsed
  <2>2. /\ KeptRanges(input.allocations)[Len(input.allocations)] = input.allocations
        /\ KeptRanges(input.geofeeds)[Len(input.geofeeds)] = input.geofeeds
    BY <2>1, OrderedKept
  <2>3. QED
    BY <1>3, <2>2 DEF IsDatasetOf
<1>9. data.routes = [i \in 1 .. Len(input.routes) |->
                       [prefix |-> MaskedPrefix(input.routes[i].prefix),
                        origin |-> input.routes[i].origin]]
  <2>1. data.routes = KeptRoutes(input.routes)[Len(input.routes)]
    BY <1>3 DEF IsDatasetOf
  <2>2. QED
    BY <1>2, <2>1, RoutesKept
<1> HIDE DEF data
<1>10. QED
  BY <1>1, <1>2, <1>3, <1>4, <1>5, <1>6, <1>7, <1>8, <1>9 DEF SqliteInv, data

\* The routes of both editions.
LEMMA SameRoutes ==
  ASSUME IsParsed(input), NEW routes,
         routes = [i \in 1 .. Len(input.routes) |->
                     [prefix |-> MaskedPrefix(input.routes[i].prefix),
                      origin |-> input.routes[i].origin]]
  PROVE  /\ Len(routes) = Len(input.routes) /\ Len(routes) \in Nat
         /\ DOMAIN routes = 1 .. Len(routes) /\ DOMAIN input.routes = 1 .. Len(routes)
         /\ routes \in Seq(StoredRoute)
         /\ \A id \in DOMAIN routes :
              /\ routes[id].prefix \in AllPrefixes
              /\ PrefixRange(routes[id].prefix) = input.routes[id].range
              /\ PrefixRange(routes[id].prefix) \in Ranges
              /\ routes[id].origin = input.routes[id].origin
<1> DEFINE rows == input.routes
           n == Len(rows)
<1>1. n \in Nat /\ DOMAIN rows = 1 .. n
  BY DEF IsParsed
<1>2. ASSUME NEW id \in 1 .. n
      PROVE  /\ routes[id] \in StoredRoute
             /\ routes[id].prefix \in AllPrefixes
             /\ PrefixRange(routes[id].prefix) = rows[id].range
             /\ PrefixRange(routes[id].prefix) \in Ranges
             /\ routes[id].origin = rows[id].origin
  <2>1. /\ routes[id].prefix = MaskedPrefix(rows[id].prefix) /\ routes[id].origin = rows[id].origin
        /\ routes[id] = [prefix |-> MaskedPrefix(rows[id].prefix), origin |-> rows[id].origin]
    BY <1>2
  <2>2. /\ rows[id].prefix \in WrittenPrefixes /\ rows[id].range = CidrRange(rows[id].prefix)
        /\ rows[id].origin \in Nat
    BY <1>1, ParsedIsInput
  <2>3. /\ MaskedPrefix(rows[id].prefix) \in AllPrefixes
        /\ CidrRange(rows[id].prefix) = PrefixRange(MaskedPrefix(rows[id].prefix))
        /\ CidrRange(rows[id].prefix) \in Ranges
    BY <2>2, CidrIsPrefix
  <2>4. MaskedPrefix(rows[id].prefix) \in [address : Nat, length : 0 .. Bits]
    BY <2>3 DEF AllPrefixes, Addresses
  <2>5. QED
    BY <2>1, <2>2, <2>3, <2>4 DEF StoredRoute
<1> HIDE DEF n
<1>3. routes = [i \in 1 .. n |-> routes[i]] /\ DOMAIN routes = 1 .. n
  BY DEF n
<1>4. routes \in Seq(StoredRoute) /\ Len(routes) = n
  <2>1. \A id \in 1 .. n : routes[id] \in StoredRoute
    BY <1>2 DEF n
  <2>2. routes \in [1 .. n -> StoredRoute]
    BY <1>3, <2>1
  <2>3. QED
    BY <1>1, <2>2
<1>5. QED
  BY <1>1, <1>2, <1>3, <1>4 DEF n

\* The prefix index is the same for the rows of a table and for the records.
LEMMA SameEntries ==
  ASSUME PipelineInv, stage = "published"
  PROVE  LET data == output.content IN
         /\ data.allocationIndex = prefixRows.allocations
         /\ data.routeIndex = prefixRows.routes
         /\ data.geofeedIndex = prefixRows.geofeeds
<1> DEFINE data == output.content
<1>1. /\ IsParsed(input) /\ IsDatasetOf(data, input)
      /\ \A table \in ToSet(Tables) : tables[table] = input[table]
      /\ \A table \in ToSet(Indexed) : prefixRows[table] = EntriesFor(table, DOMAIN tables[table])
      /\ data.allocations = input.allocations /\ data.geofeeds = input.geofeeds
      /\ data.routes = [i \in 1 .. Len(input.routes) |->
                          [prefix |-> MaskedPrefix(input.routes[i].prefix),
                           origin |-> input.routes[i].origin]]
  BY ReleaseHolds
<1> HIDE DEF data
<1>2. /\ tables.allocations = input.allocations /\ tables.geofeeds = input.geofeeds
      /\ tables.routes = input.routes
      /\ prefixRows.allocations = EntriesFor("allocations", DOMAIN input.allocations)
      /\ prefixRows.geofeeds = EntriesFor("geofeeds", DOMAIN input.geofeeds)
      /\ prefixRows.routes = EntriesFor("routes", DOMAIN input.routes)
  BY <1>1, TableNames
<1>3. data.allocationIndex = prefixRows.allocations
  <2>1. EntriesFor("allocations", DOMAIN input.allocations) = RangeEntries(input.allocations)
    BY <1>2 DEF EntriesFor, RangeEntries, RowRange
  <2>2. QED
    BY <1>1, <1>2, <2>1 DEF IsDatasetOf
<1>4. data.geofeedIndex = prefixRows.geofeeds
  <2>1. EntriesFor("geofeeds", DOMAIN input.geofeeds) = RangeEntries(input.geofeeds)
    BY <1>2 DEF EntriesFor, RangeEntries, RowRange
  <2>2. QED
    BY <1>1, <1>2, <2>1 DEF IsDatasetOf
<1>5. data.routeIndex = prefixRows.routes
  <2> DEFINE routes == data.routes
  <2>1. /\ DOMAIN routes = 1 .. Len(routes) /\ DOMAIN input.routes = 1 .. Len(routes)
        /\ \A id \in DOMAIN routes :
             /\ routes[id].prefix \in AllPrefixes
             /\ PrefixRange(routes[id].prefix) = input.routes[id].range
    <3> HIDE DEF routes
    <3>1. routes = [i \in 1 .. Len(input.routes) |->
                          [prefix |-> MaskedPrefix(input.routes[i].prefix),
                           origin |-> input.routes[i].origin]]
      BY <1>1 DEF routes
    <3>2. QED
      BY <1>1, <3>1, SameRoutes
  <2> HIDE DEF routes
  <2>2. \A id \in DOMAIN routes :
          IndexEntries(ToSet(RangePrefixes(RowRange("routes", tables["routes"][id]))), id)
            = IndexEntries({routes[id].prefix}, id)
    <3> SUFFICES ASSUME NEW id \in DOMAIN routes
                 PROVE  ToSet(RangePrefixes(RowRange("routes", tables["routes"][id])))
                          = {routes[id].prefix}
      OBVIOUS
    <3>1. RowRange("routes", tables["routes"][id]) = PrefixRange(routes[id].prefix)
      BY <1>2, <2>1 DEF RowRange
    <3>2. RangePrefixes(PrefixRange(routes[id].prefix)) = <<routes[id].prefix>>
      BY <2>1, OnePrefix
    <3>3. QED
      BY <3>1, <3>2 DEF ToSet
  <2>3. EntriesFor("routes", DOMAIN input.routes) = RouteEntries(routes)
    BY <2>1, <2>2 DEF EntriesFor, RouteEntries
  <2>4. QED
    BY <1>1, <1>2, <2>3 DEF IsDatasetOf, routes
<1>6. QED
  BY <1>3, <1>4, <1>5 DEF data

\* The counts of a counted bucket are the same from the stored records and from
\* the imported rows.
LEMMA SameCounts ==
  ASSUME PipelineInv, stage = "published", NEW bucket \in Buckets(SummaryLevels)
  PROVE  IF bucket \in DOMAIN summaryRows
         THEN output.content.summaries[bucket] = summaryRows[bucket]
         ELSE output.content.summaries[bucket] = [allocations |-> 0, routes |-> 0]
<1> DEFINE data == output.content
           routes == data.routes
           A == SummedIDs(1, bucket)
           R == SummedIDs(2, bucket)
<1>1. /\ IsParsed(input) /\ SummariesAre(data)
      /\ \A table \in ToSet(Tables) : tables[table] = input[table]
      /\ job[1] = "ready" /\ SummariesInv
      /\ data.allocations = input.allocations
      /\ data.routes = [i \in 1 .. Len(input.routes) |->
                          [prefix |-> MaskedPrefix(input.routes[i].prefix),
                           origin |-> input.routes[i].origin]]
  BY ReleaseHolds
<1>2. bucket \in Buckets(0 .. DeepestLevel) /\ bucket.length \in SummaryLevels
      /\ bucket \in AllPrefixes
  <2>1. bucket \in AllPrefixes /\ bucket.length \in SummaryLevels
    BY DEF Buckets
  <2>2. DeepestLevel \in Nat /\ bucket.length \in Nat /\ bucket.length <= DeepestLevel
    <3>1. \A length \in SummaryLevels : length \in Nat
      BY LevelsWork, BitsAssumption
    <3>2. DeepestLevel \in SummaryLevels /\ \A length \in SummaryLevels : length <= DeepestLevel
      BY LevelsWork
    <3>3. QED
      BY <2>1, <3>1, <3>2
  <2>3. bucket.length \in 0 .. DeepestLevel
    BY <2>2
  <2>4. QED
    BY <2>1, <2>3 DEF Buckets
<1>3. BucketsWithin(bucket) = {bucket}
  BY <1>2, BucketsAre
<1>4. data.summaries[bucket] =
        [allocations |-> Cardinality(MeetingPairs({bucket}, data.allocations)),
         routes |-> Cardinality(MeetingPairs({bucket}, RouteSpans(data.routes)))]
  BY <1>1, <1>2, <1>3 DEF SummariesAre
<1> HIDE DEF data, routes
<1>5. /\ DOMAIN routes = 1 .. Len(routes) /\ DOMAIN input.routes = 1 .. Len(routes)
      /\ Len(routes) \in Nat
      /\ \A id \in DOMAIN routes : /\ PrefixRange(routes[id].prefix) = input.routes[id].range
                                   /\ PrefixRange(routes[id].prefix) \in Ranges
  <2>1. routes = [i \in 1 .. Len(input.routes) |->
                        [prefix |-> MaskedPrefix(input.routes[i].prefix),
                         origin |-> input.routes[i].origin]]
    BY <1>1 DEF routes
  <2>2. QED
    BY <1>1, <2>1, SameRoutes
<1>6. /\ data.allocations \in Seq(Ranges) /\ Len(data.allocations) \in Nat
      /\ DOMAIN data.allocations = 1 .. Len(data.allocations)
      /\ \A id \in DOMAIN data.allocations : data.allocations[id] \in Ranges
  <2>1. data.allocations \in Seq(Ranges)
    BY <1>1 DEF IsParsed
  <2> HIDE DEF data
  <2>2. QED
    BY <2>1
<1> DEFINE spans == RouteSpans(routes)
<1>7. DOMAIN spans = DOMAIN routes /\ \A id \in DOMAIN spans : spans[id] = input.routes[id].range
  BY <1>5 DEF RouteSpans
<1>8. Len(spans) \in Nat /\ DOMAIN spans = 1 .. Len(spans)
  <2> DEFINE n == Len(routes)
  <2>1. n \in Nat /\ spans = [id \in 1 .. n |-> PrefixRange(routes[id].prefix)]
    BY <1>5 DEF RouteSpans
  <2> HIDE DEF n
  <2>2. spans \in Seq({PrefixRange(routes[id].prefix) : id \in 1 .. n}) /\ Len(spans) = n
    BY <2>1
  <2>3. QED
    BY <2>1, <2>2
<1> HIDE DEF spans
<1>9. /\ Cardinality(MeetingPairs({bucket}, data.allocations))
           = Cardinality(MeetingIDs(data.allocations, bucket))
      /\ Cardinality(MeetingPairs({bucket}, spans)) = Cardinality(MeetingIDs(spans, bucket))
  BY <1>6, <1>8, BucketAlone
<1>10. bucket.address \in Int /\ PrefixEnd(bucket) \in Int
       /\ \A range \in Ranges : range.start \in Int /\ range.end \in Int
  <2>1. Size(bucket.length) \in Nat /\ Size(0) \in Nat
    BY <1>2, SizeIsPositive, BitsAssumption DEF AllPrefixes
  <2>2. bucket.address \in Int
    BY <1>2, <2>1 DEF AllPrefixes, Addresses
  <2>3. QED
    BY <2>1, <2>2 DEF PrefixEnd, Ranges, Addresses
<1>11. MeetingIDs(data.allocations, bucket) = A
  <2>1. tables["allocations"] = data.allocations
    BY <1>1, TableNames
  <2>2. \A id \in DOMAIN data.allocations :
          RowRange("allocations", tables["allocations"][id]) = data.allocations[id]
    BY <2>1 DEF RowRange
  <2>3. QED
    BY <1>1, <1>6, <2>1, <2>2, SummarizedNames DEF MeetingIDs, SummedIDs, SummarizedIDs
<1>12. MeetingIDs(spans, bucket) = R
  <2>1. tables["routes"] = input.routes
    BY <1>1, TableNames
  <2>2. \A id \in DOMAIN spans : RowRange("routes", tables["routes"][id]) = spans[id]
    BY <1>5, <1>7, <2>1 DEF RowRange
  <2>3. \A id \in DOMAIN spans : spans[id] \in Ranges
    BY <1>5, <1>7
  <2>4. DOMAIN tables["routes"] = DOMAIN spans
    BY <1>5, <1>7, <2>1
  <2>5. QED
    BY <1>1, <2>2, <2>4, SummarizedNames DEF MeetingIDs, SummedIDs, SummarizedIDs
<1>13. data.summaries[bucket] = [allocations |-> Cardinality(A), routes |-> Cardinality(R)]
  BY <1>4, <1>9, <1>11, <1>12 DEF spans, routes
<1>14. /\ DOMAIN summaryRows = {b \in Buckets(SummaryLevels) :
                                  SummedIDs(1, b) # {} \/ SummedIDs(2, b) # {}}
       /\ \A b \in DOMAIN summaryRows :
            summaryRows[b] = [allocations |-> Cardinality(SummedIDs(1, b)),
                              routes      |-> Cardinality(SummedIDs(2, b))]
  BY <1>1 DEF SummariesInv
<1>15. CASE bucket \in DOMAIN summaryRows
  <2>1. summaryRows[bucket] = [allocations |-> Cardinality(A), routes |-> Cardinality(R)]
    BY <1>14, <1>15
  <2>2. QED
    BY <1>13, <1>15, <2>1 DEF data
<1>16. CASE bucket \notin DOMAIN summaryRows
  <2>1. A = {} /\ R = {}
    BY <1>14, <1>16
  <2>2. Cardinality(A) = 0 /\ Cardinality(R) = 0
    BY <2>1, FS_EmptySet
  <2>3. QED
    BY <1>13, <1>16, <2>2 DEF data
<1>17. QED
  BY <1>15, <1>16

\* Each of the objects is the first row of its ASN.
AreFirst(objects, rows) ==
  /\ {row.asn : row \in ToSet(rows)} \ {NoNumber} = DOMAIN objects
  /\ \A asn \in DOMAIN objects :
       \E i \in DOMAIN rows :
          /\ rows[i] = objects[asn] /\ rows[i].asn = asn
          /\ \A j \in 1 .. i - 1 : rows[j].asn # asn

\* An ASN is in both editions what its first row says.
LEMMA SameAutnums ==
  ASSUME NEW objects, NEW rows, Len(rows) \in Nat, DOMAIN rows = 1 .. Len(rows),
         FirstRows(objects, rows)
  PROVE  AreFirst(objects, rows)
<1>1. {row.asn : row \in ToSet(rows)} \ {NoNumber} = DOMAIN objects
  BY DEF ToSet, FirstRows
<1>2. ASSUME NEW asn \in DOMAIN objects
      PROVE  \E i \in DOMAIN rows :
                /\ rows[i] = objects[asn] /\ rows[i].asn = asn
                /\ \A j \in 1 .. i - 1 : rows[j].asn # asn
  <2> DEFINE Of == {i \in 1 .. Len(rows) : rows[i].asn = asn}
  <2>1. asn # NoNumber /\ Of # {} /\ Of \in SUBSET Nat
    BY DEF FirstRows
  <2>2. PICK i \in Of : \A j \in Of : i <= j
    <3> HIDE DEF Of
    <3>1. QED
      BY <2>1, LeastElement
  <2>3. i \in DOMAIN rows /\ rows[i].asn = asn /\ \A j \in 1 .. i - 1 : rows[j].asn # asn
    BY <2>2
  <2>4. rows[i] = objects[asn]
    BY <2>1, <2>3 DEF FirstRows
  <2>5. QED
    BY <2>3, <2>4
<1>3. QED
  BY <1>1, <1>2 DEF AreFirst

\* The bbolt and the SQLite database of a published release are one dataset:
\* internal/boltstore and the SQLite import share no code, one skips a range
\* that ends before it starts and the other fails on it, and yet records, IDs,
\* prefix index, counts and ASNs are the same.
THEOREM ReleasesAgree == PipelineSpec => []FormatsAgree
<1>1. ASSUME PipelineInv PROVE FormatsAgree
  <2> DEFINE data == output.content
  <2> SUFFICES ASSUME stage = "published" PROVE FormatsAgree
    BY DEF FormatsAgree
  <2>1. /\ IsParsed(input) /\ IsDatasetOf(data, input)
        /\ \A table \in ToSet(Tables) : tables[table] = input[table]
        /\ data.allocations = input.allocations /\ data.geofeeds = input.geofeeds
        /\ data.routes = [i \in 1 .. Len(input.routes) |->
                            [prefix |-> MaskedPrefix(input.routes[i].prefix),
                             origin |-> input.routes[i].origin]]
    BY <1>1, ReleaseHolds
  <2>2. /\ data.allocationIndex = prefixRows.allocations
        /\ data.routeIndex = prefixRows.routes
        /\ data.geofeedIndex = prefixRows.geofeeds
    BY <1>1, SameEntries
  <2>3. \A bucket \in Buckets(SummaryLevels) :
          IF bucket \in DOMAIN summaryRows
          THEN data.summaries[bucket] = summaryRows[bucket]
          ELSE data.summaries[bucket] = [allocations |-> 0, routes |-> 0]
    BY <1>1, SameCounts
  <2> HIDE DEF data
  <2>4. /\ tables.allocations = input.allocations /\ tables.geofeeds = input.geofeeds
        /\ tables.routes = input.routes /\ tables.autnums = input.autnums
    BY <2>1, TableNames
  <2>5. /\ Len(data.routes) = Len(tables.routes)
        /\ \A id \in DOMAIN data.routes :
             /\ PrefixRange(data.routes[id].prefix) = tables.routes[id].range
             /\ data.routes[id].origin = tables.routes[id].origin
    <3> DEFINE routes == data.routes
    <3> HIDE DEF routes
    <3>1. routes = [i \in 1 .. Len(input.routes) |->
                      [prefix |-> MaskedPrefix(input.routes[i].prefix),
                       origin |-> input.routes[i].origin]]
      BY <2>1 DEF routes
    <3>2. /\ Len(routes) = Len(input.routes)
          /\ \A id \in DOMAIN routes :
               /\ PrefixRange(routes[id].prefix) = input.routes[id].range
               /\ routes[id].origin = input.routes[id].origin
      BY <2>1, <3>1, SameRoutes
    <3>3. QED
      BY <2>4, <3>2 DEF routes
  <2>6. /\ {row.asn : row \in ToSet(tables.autnums)} \ {NoNumber} = DOMAIN data.autnums
        /\ \A asn \in DOMAIN data.autnums :
             \E i \in DOMAIN tables.autnums :
                /\ tables.autnums[i] = data.autnums[asn] /\ tables.autnums[i].asn = asn
                /\ \A j \in 1 .. i - 1 : tables.autnums[j].asn # asn
    <3> DEFINE rows == tables.autnums
               objects == data.autnums
    <3>1. rows \in Seq(AutnumRows) /\ FirstRows(objects, rows)
      BY <2>1, <2>4 DEF IsParsed, IsDatasetOf
    <3> HIDE DEF rows, objects
    <3>2. Len(rows) \in Nat /\ DOMAIN rows = 1 .. Len(rows)
      BY <3>1
    <3>3. AreFirst(objects, rows)
      BY <3>1, <3>2, SameAutnums
    <3>4. QED
      BY <3>3 DEF AreFirst, rows, objects
  <2>7. QED
    BY <2>1, <2>2, <2>3, <2>4, <2>5, <2>6 DEF FormatsAgree, data
<1>2. QED
  BY <1>1, PipelineInvariance, PTL

-----------------------------------------------------------------------------
(* What the sources state *)

\* A sum of two addresses that wraps ends before the first of them.
LEMMA Wrapped ==
  ASSUME NEW n \in Nat \ {0}, NEW s \in 0 .. n - 1, NEW c \in 1 .. n - 1,
         s <= (s + c - 1) % n
  PROVE  s + c - 1 <= n - 1 /\ (s + c - 1) % n = s + c - 1
<1> DEFINE x == s + c - 1
<1>1. x \in Nat /\ x < 2 * n
  OBVIOUS
<1>2. CASE x < n
  <2>1. x % n = x
    BY <1>1, <1>2
  <2>2. QED
    BY <1>1, <1>2, <2>1
<1>3. CASE ~ (x < n)
  <2>1. x \div n \in Nat /\ x = n * (x \div n) + (x % n) /\ x % n \in 0 .. n - 1
    BY <1>1
  <2> DEFINE q == x \div n
             r == x % n
  <2>2. q \in Nat /\ x = n * q + r /\ r \in 0 .. n - 1 /\ s <= r
    BY <2>1
  <2> HIDE DEF q, r
  <2>3. q # 0
    BY <1>1, <1>3, <2>2
  <2>4. n <= n * q
    BY <2>2, <2>3
  <2>5. n * q \in Nat
    BY <2>2
  <2>6. s + n <= s + c - 1
    BY <2>2, <2>4, <2>5
  <2>7. QED
    BY <2>6
<1>4. QED
  BY <1>2, <1>3

\* A row that does not end before it starts is about the stated addresses.
LEMMA RowsAreStated ==
  ASSUME NEW feeds, NEW object \in Objects(feeds), WritesAllocation(object),
         AllocationRow(object).start <= AllocationRow(object).end, NEW range \in Ranges
  PROVE  StatesRange(object, range) <=> AllocationRow(object) = range
<1>1. range = [start |-> range.start, end |-> range.end]
  BY DEF Ranges
<1>2. CASE object.class = "inetnum"
  <2>1. AllocationRow(object) = [start |-> object.start, end |-> object.end]
    BY <1>2 DEF AllocationRow
  <2>2. QED
    BY <1>1, <1>2, <2>1 DEF StatesRange, WritesAllocation
<1>3. CASE object.class = "delegated"
  <2> DEFINE s == object.start
             c == object.count
             n == Size(0)
             e == (s + c - 1) % n
  <2>1. /\ object.start \in Addresses /\ object.count \in Addresses
        /\ object.count # 0 /\ object.status # "reserved"
    BY <1>3 DEF Objects, WritesAllocation
  <2>2. n \in Nat \ {0}
    BY SizeIsPositive, BitsAssumption
  <2>3. AllocationRow(object) = [start |-> s, end |-> e]
    BY <1>3 DEF AllocationRow, DelegatedRange
  <2>4. s \in 0 .. n - 1 /\ c \in 1 .. n - 1
    BY <2>1, <2>2 DEF Addresses
  <2>5. s <= e
    BY <2>3
  <2>6. range.start \in 0 .. n - 1 /\ range.end \in 0 .. n - 1
    BY DEF Ranges, Addresses
  <2>7. StatesRange(object, range) <=> s = range.start /\ c = Width(range) + 1
    <3>1. object.count > 0
      BY <2>4
    <3>2. QED
      BY <1>3, <2>1, <3>1 DEF StatesRange
  <2>8. e = s + c - 1
    <3> HIDE DEF s, c, n
    <3>1. QED
      BY <2>2, <2>4, <2>5, Wrapped
  <2>9. (c = Width(range) + 1 /\ s = range.start) <=> (s = range.start /\ e = range.end)
    <3> HIDE DEF s, c, n, e
    <3>1. QED
      BY <2>2, <2>4, <2>6, <2>8 DEF Width
  <2> HIDE DEF s, c, n, e
  <2>10. QED
    BY <1>1, <2>3, <2>7, <2>9
<1>4. QED
  BY <1>2, <1>3 DEF WritesAllocation

\* An object that states addresses writes a row.
LEMMA StatedIsWritten ==
  ASSUME NEW feeds, NEW object \in Objects(feeds), NEW range, StatesRange(object, range)
  PROVE  WritesAllocation(object)
<1>1. CASE object.class = "inetnum"
  BY <1>1 DEF StatesRange, WritesAllocation
<1>2. CASE object.class = "delegated"
  <2>1. object.status \in {"allocated", "assigned", "reserved"} /\ object.count \in Addresses
    BY <1>2 DEF Objects
  <2>2. object.status # "reserved" /\ object.count > 0
    BY <1>2 DEF StatesRange
  <2>3. object.count # 0
    BY <2>2
  <2>4. QED
    BY <1>2, <2>1, <2>2, <2>3 DEF WritesAllocation
<1>3. QED
  BY <1>1, <1>2 DEF StatesRange

\* The rows of whole files, by the places of the objects that write them.
LEMMA StatedPlaces ==
  ASSUME NEW readings, ReadingsAre(readings), cut = {}, world \in Sources
  PROVE  LET A == Joining([r \in ToSet(Registries) |-> AllocationsOf(readings[r])])
             R == Joining([r \in ToSet(Registries) |-> RoutesOf(readings[r])])
         IN  /\ DOMAIN A = {place \in Stated : WritesAllocation(ObjectAt(place))}
             /\ \A place \in DOMAIN A : A[place] = AllocationRow(ObjectAt(place))
             /\ DOMAIN R = {place \in Stated : WritesRoute(ObjectAt(place))}
             /\ \A place \in DOMAIN R : R[place] = RouteRow(ObjectAt(place))
             /\ \A place \in Stated : ObjectAt(place) \in Objects(DOMAIN world.lines)
<1> DEFINE a == [r \in ToSet(Registries) |-> AllocationsOf(readings[r])]
           b == [r \in ToSet(Registries) |-> RoutesOf(readings[r])]
           A == Joining(a)
           R == Joining(b)
           objects == world.objects
<1>1. \A r \in ToSet(Registries) : /\ readings[r] = objects[r]
                                   /\ objects[r] \in Seq(Objects(DOMAIN world.lines))
  BY DEF ReadingsAre
<1>2. \A r \in ToSet(Registries) :
        /\ DOMAIN a[r] = {i \in DOMAIN objects[r] : WritesAllocation(objects[r][i])}
        /\ \A i \in DOMAIN a[r] : a[r][i] = AllocationRow(objects[r][i])
  BY <1>1 DEF AllocationsOf
<1>3. \A r \in ToSet(Registries) :
        /\ DOMAIN b[r] = {i \in DOMAIN objects[r] : WritesRoute(objects[r][i])}
        /\ \A i \in DOMAIN b[r] : b[r][i] = RouteRow(objects[r][i])
  BY <1>1 DEF RoutesOf
<1>4. \A place : ObjectAt(place) = objects[place[1]][place[2]]
  BY DEF ObjectAt
<1>5. Stated = UNION {{<<r, i>> : i \in DOMAIN objects[r]} : r \in ToSet(Registries)}
  BY DEF Stated
<1>6. \A place \in Stated : ObjectAt(place) \in Objects(DOMAIN world.lines)
  <2> HIDE DEF objects
  <2> SUFFICES ASSUME NEW place \in Stated
               PROVE  ObjectAt(place) \in Objects(DOMAIN world.lines)
    OBVIOUS
  <2>1. PICK r \in ToSet(Registries) : \E i \in DOMAIN objects[r] : place = <<r, i>>
    BY <1>5
  <2>2. PICK i \in DOMAIN objects[r] : place = <<r, i>>
    BY <2>1
  <2>3. ObjectAt(place) = objects[r][i]
    BY <1>4, <2>2
  <2>4. QED
    BY <1>1, <2>2, <2>3
<1>7. /\ DOMAIN A = UNION {{<<r, p>> : p \in DOMAIN a[r]} : r \in ToSet(Registries)}
      /\ \A place \in DOMAIN A : A[place] = a[place[1]][place[2]]
  BY DEF Joining
<1>8. /\ DOMAIN R = UNION {{<<r, p>> : p \in DOMAIN b[r]} : r \in ToSet(Registries)}
      /\ \A place \in DOMAIN R : R[place] = b[place[1]][place[2]]
  BY DEF Joining
<1> HIDE DEF a, b, A, R, objects
<1>9. DOMAIN A = {place \in Stated : WritesAllocation(ObjectAt(place))}
  BY <1>2, <1>4, <1>5, <1>7
<1>10. DOMAIN R = {place \in Stated : WritesRoute(ObjectAt(place))}
  BY <1>3, <1>4, <1>5, <1>8
<1>11. \A place \in DOMAIN A : A[place] = AllocationRow(ObjectAt(place))
  BY <1>2, <1>4, <1>7
<1>12. \A place \in DOMAIN R : R[place] = RouteRow(ObjectAt(place))
  BY <1>3, <1>4, <1>8
<1>13. QED
  BY <1>6, <1>9, <1>10, <1>11, <1>12 DEF A, R, a, b

\* In a release without cut sources, one allocation for each object that states
\* addresses, over these.
LEMMA ServedAllocations ==
  ASSUME PipelineInv, stage = "published", cut = {}
  PROVE  LET rows == output.content.allocations
             Accepted == {place \in Stated :
                            \E range \in Ranges : StatesRange(ObjectAt(place), range)}
         IN  /\ Cardinality(Accepted) = Len(rows)
             /\ \A range \in Ranges :
                  Times(rows, range)
                    = Cardinality({place \in Stated : StatesRange(ObjectAt(place), range)})
<1> DEFINE rows == output.content.allocations
           Accepted == {place \in Stated :
                          \E range \in Ranges : StatesRange(ObjectAt(place), range)}
<1>1. /\ rows = Joined("allocations") /\ rows \in Seq(Ranges)
      /\ \A i \in DOMAIN rows : rows[i].start <= rows[i].end
  <2>1. /\ input = Merged /\ IsParsed(input) /\ rows = input.allocations
        /\ \A table \in {"allocations", "geofeeds"} :
             \A i \in DOMAIN input[table] : input[table][i].start <= input[table][i].end
    BY ReleaseHolds
  <2>2. input.allocations = Joined("allocations")
    BY <2>1 DEF Merged
  <2>3. input.allocations \in Seq(Ranges)
    BY <2>1 DEF IsParsed
  <2>4. input["allocations"] = input.allocations
    OBVIOUS
  <2> HIDE DEF rows
  <2>5. QED
    BY <2>1, <2>2, <2>3, <2>4
<1>2. ArtifactsInv /\ DOMAIN artifacts = ToSet(Registries) /\ world \in Sources
  BY DEF PipelineInv, ArtifactsInv
<1>3. PICK readings : ReadingsAre(readings)
  BY <1>2, AllRead
<1> DEFINE A == Joining([r \in ToSet(Registries) |-> AllocationsOf(readings[r])])
           W == {place \in Stated : WritesAllocation(ObjectAt(place))}
<1>4. Lists(Joined("allocations"), A)
  BY <1>3, MergedLists
<1>5. /\ DOMAIN A = W
      /\ \A place \in DOMAIN A : A[place] = AllocationRow(ObjectAt(place))
      /\ \A place \in Stated : ObjectAt(place) \in Objects(DOMAIN world.lines)
  BY <1>2, <1>3, StatedPlaces
<1> HIDE DEF A, rows
<1>6. \A place \in W :
        /\ A[place] \in Ranges /\ A[place].start <= A[place].end
        /\ \A range \in Ranges : StatesRange(ObjectAt(place), range) <=> A[place] = range
  <2> SUFFICES ASSUME NEW place \in W
               PROVE  /\ A[place] \in Ranges /\ A[place].start <= A[place].end
                      /\ \A range \in Ranges :
                           StatesRange(ObjectAt(place), range) <=> A[place] = range
    OBVIOUS
  <2> DEFINE object == ObjectAt(place)
  <2>1. /\ object \in Objects(DOMAIN world.lines) /\ WritesAllocation(object)
        /\ A[place] = AllocationRow(object) /\ place \in DOMAIN A
    BY <1>5
  <2> HIDE DEF object
  <2>2. A[place] \in Ranges
    BY <2>1, ObjectsBecomeRows
  <2>3. \A p \in DOMAIN A : A[p] \in Ranges
    <3> SUFFICES ASSUME NEW p \in DOMAIN A PROVE A[p] \in Ranges
      OBVIOUS
    <3>1. ObjectAt(p) \in Objects(DOMAIN world.lines) /\ WritesAllocation(ObjectAt(p))
      BY <1>5
    <3>2. QED
      BY <1>5, <3>1, ObjectsBecomeRows
  <2>4. PICK k \in DOMAIN rows : rows[k] = A[place]
    <3>1. Lists(rows, A)
      BY <1>1, <1>4
    <3>2. \A p \in DOMAIN A : \E k \in DOMAIN rows : rows[k] = A[p]
      BY ONLY <2>3, <3>1, ListsType
    <3>3. QED
      BY <2>1, <3>2
  <2>5. A[place].start <= A[place].end
    BY <1>1, <2>4
  <2>6. \A range \in Ranges : StatesRange(object, range) <=> A[place] = range
    BY <2>1, <2>5, RowsAreStated
  <2>7. QED
    BY <2>2, <2>5, <2>6 DEF object
<1>7. \A place \in Stated, range \in Ranges : StatesRange(ObjectAt(place), range) => place \in W
  BY <1>5, StatedIsWritten
<1> HIDE DEF W
<1>8. Lists(rows, A) /\ W \in SUBSET Stated
  BY <1>1, <1>4 DEF W
<1>9. Accepted = W
  BY <1>6, <1>7, <1>8
<1>10. Cardinality(Accepted) = Len(rows)
  BY <1>5, <1>8, <1>9, ListsCount
<1>11. ASSUME NEW range \in Ranges
       PROVE  Times(rows, range)
                = Cardinality({place \in Stated : StatesRange(ObjectAt(place), range)})
  <2>1. {place \in Stated : StatesRange(ObjectAt(place), range)}
          = {p \in DOMAIN A : A[p] = range}
    BY <1>5, <1>6, <1>7, <1>8
  <2>2. Times(rows, range) = Times(A, range)
    BY <1>8, ListsCount
  <2>3. QED
    BY <2>1, <2>2 DEF Times
<1>12. QED
  BY <1>10, <1>11 DEF rows

\* A route object states exactly the route that is stored of it.
LEMMA RoutesAreStated ==
  ASSUME NEW feeds, NEW object \in Objects(feeds), WritesRoute(object),
         NEW prefix \in AllPrefixes, NEW origin
  PROVE  LET route == [prefix |-> prefix, origin |-> origin] IN
         StatesRoute(object, route)
           <=> [prefix |-> MaskedPrefix(RouteRow(object).prefix),
                origin |-> RouteRow(object).origin] = route
<1>1. /\ object.class = "route" /\ RouteRow(object).prefix = object.prefix
      /\ RouteRow(object).origin = object.origin
  BY DEF WritesRoute, RouteRow
<1>2. prefix = [address |-> prefix.address, length |-> prefix.length]
  BY DEF AllPrefixes
<1>3. MaskedPrefix(object.prefix)
        = [address |-> object.prefix.address - (object.prefix.address % Size(object.prefix.length)),
           length |-> object.prefix.length]
  BY DEF MaskedPrefix, Masked
<1>4. QED
  BY <1>1, <1>2, <1>3 DEF StatesRoute

\* One route for each route object with an origin, and over its masked prefix.
LEMMA ServedRoutes ==
  ASSUME PipelineInv, stage = "published", cut = {}
  PROVE  LET routes == output.content.routes
             Announced == {place \in Stated : /\ ObjectAt(place).class = "route"
                                              /\ ObjectAt(place).origin # NoOrigin}
         IN  /\ Cardinality(Announced) = Len(routes)
             /\ \A route \in ToSet(routes) :
                  Times(routes, route)
                    = Cardinality({place \in Stated : StatesRoute(ObjectAt(place), route)})
<1> DEFINE routes == output.content.routes
           Announced == {place \in Stated : /\ ObjectAt(place).class = "route"
                                            /\ ObjectAt(place).origin # NoOrigin}
           rows == Joined("routes")
<1>1. /\ IsParsed(input) /\ input.routes = rows
      /\ routes = [i \in 1 .. Len(rows) |-> [prefix |-> MaskedPrefix(rows[i].prefix),
                                             origin |-> rows[i].origin]]
  <2>1. /\ input = Merged /\ IsParsed(input)
        /\ routes = [i \in 1 .. Len(input.routes) |->
                       [prefix |-> MaskedPrefix(input.routes[i].prefix),
                        origin |-> input.routes[i].origin]]
    BY ReleaseHolds
  <2>2. input.routes = rows
    BY <2>1 DEF Merged
  <2> HIDE DEF rows, routes
  <2>3. QED
    BY <2>1, <2>2
<1> HIDE DEF routes, rows
<1>2. /\ Len(routes) = Len(rows) /\ Len(routes) \in Nat
      /\ DOMAIN routes = 1 .. Len(routes)
      /\ \A k \in DOMAIN routes : routes[k].prefix \in AllPrefixes /\ routes[k].origin = rows[k].origin
  BY <1>1, SameRoutes
<1>3. ArtifactsInv /\ DOMAIN artifacts = ToSet(Registries) /\ world \in Sources
  BY DEF PipelineInv, ArtifactsInv
<1>4. PICK readings : ReadingsAre(readings)
  BY <1>3, AllRead
<1> DEFINE R == Joining([r \in ToSet(Registries) |-> RoutesOf(readings[r])])
           W == {place \in Stated : WritesRoute(ObjectAt(place))}
<1>5. Lists(rows, R)
  BY <1>4, MergedLists DEF rows
<1>6. /\ DOMAIN R = W
      /\ \A place \in DOMAIN R : R[place] = RouteRow(ObjectAt(place))
      /\ \A place \in Stated : ObjectAt(place) \in Objects(DOMAIN world.lines)
  BY <1>3, <1>4, StatedPlaces
<1> HIDE DEF R
<1> DEFINE S == [p \in DOMAIN R |-> [prefix |-> MaskedPrefix(R[p].prefix), origin |-> R[p].origin]]
           same == [p \in DOMAIN R |-> p]
<1>7. Lists(routes, S)
  <2>1. /\ same \in [DOMAIN R -> DOMAIN S]
        /\ \A p, q \in DOMAIN R : same[p] = same[q] => p = q
        /\ \A r \in DOMAIN S : \E p \in DOMAIN R : same[p] = r
    OBVIOUS
  <2>2. \A k \in 1 .. Len(rows), p \in DOMAIN R : rows[k] = R[p] => routes[k] = S[same[p]]
    BY <1>1
  <2>3. routes = [k \in 1 .. Len(rows) |-> routes[k]]
    BY <1>1
  <2> HIDE DEF S, same
  <2>4. QED
    BY ONLY <1>5, <2>1, <2>2, <2>3, ListsRenamed
<1>8. DOMAIN S = W /\ Announced = W /\ W \in SUBSET Stated
  BY <1>6 DEF WritesRoute
<1>9. \A p \in W : /\ S[p] = [prefix |-> MaskedPrefix(RouteRow(ObjectAt(p)).prefix),
                              origin |-> RouteRow(ObjectAt(p)).origin]
                   /\ ObjectAt(p) \in Objects(DOMAIN world.lines) /\ WritesRoute(ObjectAt(p))
  BY <1>6
<1> HIDE DEF S, Announced, W
<1>10. Cardinality(Announced) = Len(routes)
  BY <1>7, <1>8, ListsCount
<1>11. ASSUME NEW route \in ToSet(routes)
       PROVE  Times(routes, route)
                = Cardinality({place \in Stated : StatesRoute(ObjectAt(place), route)})
  <2>1. PICK k \in DOMAIN routes : routes[k] = route
    BY DEF ToSet
  <2>2. /\ route.prefix \in AllPrefixes /\ route.origin # NoOrigin
        /\ route = [prefix |-> route.prefix, origin |-> route.origin]
    <3>1. rows[k].origin # NoOrigin
      <4>1. k \in DOMAIN input.routes
        BY <1>1, <1>2 DEF IsParsed
      <4>2. QED
        BY <1>1, <4>1, ParsedIsInput
    <3>2. route = [prefix |-> MaskedPrefix(rows[k].prefix), origin |-> rows[k].origin]
      BY <1>1, <1>2, <2>1
    <3>3. QED
      BY <1>2, <2>1, <3>1, <3>2
  <2>3. ASSUME NEW place \in W PROVE StatesRoute(ObjectAt(place), route) <=> S[place] = route
    <3> DEFINE object == ObjectAt(place)
               prefix == route.prefix
               origin == route.origin
    <3>1. /\ S[place] = [prefix |-> MaskedPrefix(RouteRow(object).prefix),
                         origin |-> RouteRow(object).origin]
          /\ object \in Objects(DOMAIN world.lines) /\ WritesRoute(object)
      BY <1>9
    <3>2. prefix \in AllPrefixes /\ route = [prefix |-> prefix, origin |-> origin]
      BY <2>2
    <3> HIDE DEF object, prefix, origin
    <3>3. StatesRoute(object, [prefix |-> prefix, origin |-> origin])
            <=> [prefix |-> MaskedPrefix(RouteRow(object).prefix),
                 origin |-> RouteRow(object).origin] = [prefix |-> prefix, origin |-> origin]
      BY <3>1, <3>2, RoutesAreStated
    <3>4. QED
      BY <3>1, <3>2, <3>3 DEF object
  <2>4. ASSUME NEW place \in Stated, StatesRoute(ObjectAt(place), route) PROVE place \in W
    BY <2>2, <2>4 DEF StatesRoute, WritesRoute, W
  <2>5. {place \in Stated : StatesRoute(ObjectAt(place), route)} = {p \in DOMAIN S : S[p] = route}
    BY <1>8, <2>3, <2>4
  <2>6. Times(routes, route) = Times(S, route)
    BY <1>7, ListsCount
  <2>7. QED
    BY <2>5, <2>6 DEF Times
<1>12. QED
  BY <1>10, <1>11 DEF routes, Announced

\* The lines of the feeds are finitely many.
LEMMA FinitelyManyLines ==
  ASSUME world \in Sources
  PROVE  IsFiniteSet(UNION {{<<feed, i>> : i \in 1 .. Len(world.lines[feed])} :
                               feed \in DOMAIN world.lines})
<1> DEFINE feeds == DOMAIN world.lines
           n(feed) == Len(world.lines[feed])
           lines == [feed \in feeds |-> {<<feed, i>> : i \in 1 .. n(feed)}]
           all == {lines[feed] : feed \in feeds}
<1>1. IsFiniteSet(feeds) /\ \A feed \in feeds : n(feed) \in Nat
  BY WorldType
<1> HIDE DEF n, feeds
<1>2. ASSUME NEW feed \in feeds PROVE IsFiniteSet(lines[feed])
  <2> DEFINE f == [i \in 1 .. n(feed) |-> <<feed, i>>]
             T == {<<feed, i>> : i \in 1 .. n(feed)}
  <2>1. f \in Surjection(1 .. n(feed), T)
    BY DEF Surjection
  <2>2. IsFiniteSet(1 .. n(feed))
    BY <1>1, FS_Interval
  <2> HIDE DEF f, T
  <2>3. IsFiniteSet(T)
    BY <2>1, <2>2, FS_Surjection
  <2>4. QED
    BY <2>3 DEF T
<1>3. IsFiniteSet(all)
  <2>1. lines \in Surjection(feeds, all)
    BY DEF Surjection
  <2> HIDE DEF lines, all
  <2>2. QED
    BY <1>1, <2>1, FS_Surjection
<1>4. \A T \in all : IsFiniteSet(T)
  BY <1>2
<1>5. UNION all = UNION {{<<feed, i>> : i \in 1 .. n(feed)} : feed \in feeds}
  OBVIOUS
<1> HIDE DEF all
<1>6. IsFiniteSet(UNION all)
  BY <1>3, <1>4, FS_UNION
<1>7. QED
  BY <1>5, <1>6 DEF n, feeds

\* Each line of a whole feed is one row of geolocations.csv, no line is two.
LEMMA ServedGeofeeds ==
  ASSUME PipelineInv, NEW range
  PROVE  /\ Cardinality(StatingLines(whole, range)) <= Times(locations, range)
         /\ Times(locations, range) <= Cardinality(StatingLines(DOMAIN world.lines, range))
<1>1. world \in Sources /\ \E progress : ReadTo(progress)
  BY DEF PipelineInv, ArtifactsInv, FetchInv
<1>2. PICK progress : ReadTo(progress)
  BY <1>1
<1> DEFINE W == Written(progress)
           lines == world.lines
           of(feed) == {i \in DOMAIN lines[feed] : CidrRange(lines[feed][i]) = range}
           read == {p \in DOMAIN W : W[p] = range}
           all == UNION {{<<feed, i>> : i \in 1 .. Len(lines[feed])} : feed \in DOMAIN lines}
<1>3. /\ progress \in [DOMAIN lines -> Nat]
      /\ \A feed \in DOMAIN lines : progress[feed] <= Len(lines[feed])
      /\ whole \in SUBSET DOMAIN lines
      /\ \A feed \in whole : progress[feed] = Len(lines[feed])
      /\ Lists(locations, W)
  BY <1>2 DEF ReadTo
<1>4. \A feed \in DOMAIN lines : DOMAIN lines[feed] = 1 .. Len(lines[feed]) /\ Len(lines[feed]) \in Nat
  BY <1>1, WorldType
<1>5. /\ DOMAIN W = UNION {{<<feed, i>> : i \in 1 .. progress[feed]} : feed \in DOMAIN lines}
      /\ \A p \in DOMAIN W : W[p] = CidrRange(lines[p[1]][p[2]])
  BY DEF Written
<1>6. \A feeds : StatingLines(feeds, range) = UNION {{<<feed, i>> : i \in of(feed)} : feed \in feeds}
  BY DEF StatingLines
<1>7. IsFiniteSet(all)
  BY <1>1, FinitelyManyLines
<1> HIDE DEF W, lines
<1>8. StatingLines(whole, range) \in SUBSET read
  <2> SUFFICES ASSUME NEW feed \in whole, NEW i \in of(feed) PROVE <<feed, i>> \in read
    BY <1>6
  <2>1. feed \in DOMAIN lines /\ i \in 1 .. progress[feed]
    BY <1>3, <1>4
  <2>2. <<feed, i>> \in DOMAIN W
    BY <1>5, <2>1
  <2>3. QED
    BY <1>5, <2>2
<1>9. read \in SUBSET StatingLines(DOMAIN lines, range)
  <2> SUFFICES ASSUME NEW feed \in DOMAIN lines, NEW i \in 1 .. progress[feed], <<feed, i>> \in read
               PROVE  <<feed, i>> \in StatingLines(DOMAIN lines, range)
    BY <1>5
  <2>1. i \in 1 .. Len(lines[feed])
    BY <1>3, <1>4
  <2>2. i \in of(feed)
    BY <1>4, <1>5, <2>1
  <2>3. QED
    BY <1>6, <2>2
<1>10. StatingLines(DOMAIN lines, range) \in SUBSET all
  BY <1>4, <1>6
<1> DEFINE stating == StatingLines(DOMAIN lines, range)
           ended == StatingLines(whole, range)
<1> HIDE DEF all, read, of, stating, ended
<1>11. IsFiniteSet(stating)
  BY <1>7, <1>10, FS_Subset DEF stating
<1>12. IsFiniteSet(read) /\ Cardinality(read) <= Cardinality(stating)
  BY <1>9, <1>11, FS_Subset DEF stating
<1>13. Cardinality(ended) <= Cardinality(read)
  BY <1>8, <1>12, FS_Subset DEF ended
<1>14. Times(locations, range) = Cardinality(read)
  <2>1. Times(locations, range) = Times(W, range)
    BY <1>3, ListsCount
  <2>2. QED
    BY <2>1 DEF Times, read
<1>15. QED
  BY <1>12, <1>13, <1>14 DEF stating, ended, lines

\* A release built from whole files serves one record for each object that
\* cmd/parse-rir accepts, over exactly the addresses the object states, and no
\* other; and cmd/fetch-geofeeds turned each line of a feed that it read to the
\* end into one geofeed, and no line of any feed into two.
THEOREM SourcesAreServed == PipelineSpec => []PublishedIsStated
<1>1. ASSUME PipelineInv PROVE PublishedIsStated
  <2> SUFFICES ASSUME stage = "published", cut = {} PROVE PublishedIsStated
    BY DEF PublishedIsStated
  <2> DEFINE data == output.content
             Accepted == {place \in Stated :
                            \E range \in Ranges : StatesRange(ObjectAt(place), range)}
             Announced == {place \in Stated : /\ ObjectAt(place).class = "route"
                                              /\ ObjectAt(place).origin # NoOrigin}
  <2>1. /\ Cardinality(Accepted) = Len(data.allocations)
        /\ \A range \in Ranges :
             Times(data.allocations, range)
               = Cardinality({place \in Stated : StatesRange(ObjectAt(place), range)})
    BY <1>1, ServedAllocations
  <2>2. /\ Cardinality(Announced) = Len(data.routes)
        /\ \A route \in ToSet(data.routes) :
             Times(data.routes, route)
               = Cardinality({place \in Stated : StatesRoute(ObjectAt(place), route)})
    BY <1>1, ServedRoutes
  <2>3. data.geofeeds = locations
    <3>1. data.geofeeds = input.geofeeds /\ input = Merged
      BY <1>1, ReleaseHolds
    <3>2. QED
      BY <3>1 DEF Merged
  <2>4. \A range \in Ranges :
          /\ Cardinality(StatingLines(whole, range)) <= Times(data.geofeeds, range)
          /\ Times(data.geofeeds, range) <= Cardinality(StatingLines(DOMAIN world.lines, range))
    BY <1>1, <2>3, ServedGeofeeds
  <2> HIDE DEF data
  <2>5. QED
    BY <2>1, <2>2, <2>4 DEF PublishedIsStated, data
<1>2. QED
  BY <1>1, PipelineInvariance, PTL
=============================================================================
