---------------------------- MODULE LookupsProofs ----------------------------
(* What a build publishes and what lookups find in it, for any files and any *)
(* numbers of addresses, rows and crashes.                                   *)
EXTENDS Lookups, PrefixTrieProofs

-----------------------------------------------------------------------------
(* The recursive definitions, one step at a time *)

\* A row more is kept, or it is not.
LEMMA KeptSteps ==
  ASSUME NEW values, NEW accepted, Len(values) \in Nat
  PROVE  /\ Kept(values, accepted)[0] = <<>>
         /\ \A n \in 1 .. Len(values) :
              Kept(values, accepted)[n] =
                IF n \in accepted THEN Append(Kept(values, accepted)[n - 1], values[n])
                ELSE Kept(values, accepted)[n - 1]
<1> DEFINE At(f, n) == IF n = 0 THEN <<>>
                       ELSE IF n \in accepted THEN Append(f[n - 1], values[n]) ELSE f[n - 1]
           Def(f) == [n \in 0 .. Len(values) |-> At(f, n)]
           f0 == CHOOSE f : f = Def(f)
           Exists(m) == \E f : f = [n \in 0 .. m |-> At(f, n)]
           G == {m \in Nat : Exists(m)}
<1>1. 0 \in G
  <2>1. [n \in 0 .. 0 |-> <<>>] = [n \in 0 .. 0 |-> At([i \in 0 .. 0 |-> <<>>], n)]
    OBVIOUS
  <2>2. QED
    BY <2>1
<1>2. ASSUME NEW m \in G PROVE m + 1 \in G
  <2>1. m \in Nat
    OBVIOUS
  <2>2. PICK f : f = [n \in 0 .. m |-> At(f, n)]
    OBVIOUS
  <2> DEFINE g == [n \in 0 .. m + 1 |-> IF n <= m THEN f[n] ELSE At(f, n)]
  <2>3. ASSUME NEW n \in 0 .. m + 1 PROVE g[n] = At(g, n)
    <3>1. n # 0 => n - 1 \in 0 .. m /\ g[n - 1] = f[n - 1]
      BY <2>1
    <3>2. g[n] = At(f, n)
      <4>1. CASE n <= m
        <5>1. n \in 0 .. m /\ g[n] = f[n]
          BY <2>1, <4>1
        <5>2. QED
          BY <2>2, <5>1
      <4>2. CASE ~ (n <= m)
        BY <4>2
      <4>3. QED
        BY <4>1, <4>2
    <3> HIDE DEF g
    <3>3. QED
      BY <3>1, <3>2
  <2>4. g = [n \in 0 .. m + 1 |-> At(g, n)]
    BY <2>3
  <2>5. Exists(m + 1)
    BY <2>4
  <2> HIDE DEF Exists
  <2>6. QED
    BY <2>1, <2>5
<1>3. G = Nat
  <2> HIDE DEF G
  <2>1. G \in SUBSET Nat
    BY DEF G
  <2>2. QED
    BY <1>1, <1>2, <2>1, NatSetInduction
<1>4. \E f : f = Def(f)
  <2>1. Len(values) \in G
    BY <1>3, SMTT(30), ZenonT(30)
  <2>2. QED
    BY <2>1
<1>5. f0 = Def(f0)
  BY <1>4
<1>6. Kept(values, accepted) = f0
  BY DEF Kept
<1> HIDE DEF f0
<1>7. \A n \in 0 .. Len(values) : f0[n] = At(f0, n)
  BY <1>5
<1>8. QED
  BY <1>6, <1>7

\* A group more is inserted.
LEMMA RouteTrieSteps ==
  ASSUME NEW groups, Len(groups) \in Nat
  PROVE  /\ RouteTrie(groups)[0] = EmptyTrie(NoRoutes)
         /\ \A n \in 1 .. Len(groups) :
              RouteTrie(groups)[n] =
                InsertRoutes(RouteTrie(groups)[n - 1], groups[n].prefix, groups[n].ids)
<1> DEFINE At(f, n) == IF n = 0 THEN EmptyTrie(NoRoutes)
                       ELSE InsertRoutes(f[n - 1], groups[n].prefix, groups[n].ids)
           Def(f) == [n \in 0 .. Len(groups) |-> At(f, n)]
           f0 == CHOOSE f : f = Def(f)
           Exists(m) == \E f : f = [n \in 0 .. m |-> At(f, n)]
           G == {m \in Nat : Exists(m)}
<1>1. 0 \in G
  <2>1. [n \in 0 .. 0 |-> EmptyTrie(NoRoutes)]
          = [n \in 0 .. 0 |-> At([i \in 0 .. 0 |-> EmptyTrie(NoRoutes)], n)]
    OBVIOUS
  <2>2. QED
    BY <2>1
<1>2. ASSUME NEW m \in G PROVE m + 1 \in G
  <2>1. m \in Nat
    OBVIOUS
  <2>2. PICK f : f = [n \in 0 .. m |-> At(f, n)]
    OBVIOUS
  <2> DEFINE g == [n \in 0 .. m + 1 |-> IF n <= m THEN f[n] ELSE At(f, n)]
  <2>3. ASSUME NEW n \in 0 .. m + 1 PROVE g[n] = At(g, n)
    <3>1. n # 0 => n - 1 \in 0 .. m /\ g[n - 1] = f[n - 1]
      BY <2>1
    <3>2. g[n] = At(f, n)
      <4>1. CASE n <= m
        <5>1. n \in 0 .. m /\ g[n] = f[n]
          BY <2>1, <4>1
        <5>2. QED
          BY <2>2, <5>1
      <4>2. CASE ~ (n <= m)
        BY <4>2
      <4>3. QED
        BY <4>1, <4>2
    <3> HIDE DEF g
    <3>3. QED
      BY <3>1, <3>2
  <2>4. g = [n \in 0 .. m + 1 |-> At(g, n)]
    BY <2>3
  <2>5. Exists(m + 1)
    BY <2>4
  <2> HIDE DEF Exists
  <2>6. QED
    BY <2>1, <2>5
<1>3. G = Nat
  <2> HIDE DEF G
  <2>1. G \in SUBSET Nat
    BY DEF G
  <2>2. QED
    BY <1>1, <1>2, <2>1, NatSetInduction
<1>4. \E f : f = Def(f)
  <2>1. Len(groups) \in G
    BY <1>3
  <2>2. QED
    BY <2>1
<1>5. f0 = Def(f0)
  BY <1>4
<1>6. RouteTrie(groups) = f0
  BY DEF RouteTrie
<1> HIDE DEF f0
<1>7. \A n \in 0 .. Len(groups) : f0[n] = At(f0, n)
  BY <1>5
<1>8. QED
  BY <1>6, <1>7

\* A record more is inserted.
LEMMA SelectionTrieSteps ==
  ASSUME NEW ranges, Len(ranges) \in Nat
  PROVE  /\ SelectionTrie(ranges)[0] = EmptyTrie(NoCandidate)
         /\ \A n \in 1 .. Len(ranges) :
              SelectionTrie(ranges)[n] = InsertRange(SelectionTrie(ranges)[n - 1], ranges[n], n)
<1> DEFINE At(f, n) == IF n = 0 THEN EmptyTrie(NoCandidate)
                       ELSE InsertRange(f[n - 1], ranges[n], n)
           Def(f) == [n \in 0 .. Len(ranges) |-> At(f, n)]
           f0 == CHOOSE f : f = Def(f)
           Exists(m) == \E f : f = [n \in 0 .. m |-> At(f, n)]
           G == {m \in Nat : Exists(m)}
<1>1. 0 \in G
  <2>1. [n \in 0 .. 0 |-> EmptyTrie(NoCandidate)]
          = [n \in 0 .. 0 |-> At([i \in 0 .. 0 |-> EmptyTrie(NoCandidate)], n)]
    OBVIOUS
  <2>2. QED
    BY <2>1
<1>2. ASSUME NEW m \in G PROVE m + 1 \in G
  <2>1. m \in Nat
    OBVIOUS
  <2>2. PICK f : f = [n \in 0 .. m |-> At(f, n)]
    OBVIOUS
  <2> DEFINE g == [n \in 0 .. m + 1 |-> IF n <= m THEN f[n] ELSE At(f, n)]
  <2>3. ASSUME NEW n \in 0 .. m + 1 PROVE g[n] = At(g, n)
    <3>1. n # 0 => n - 1 \in 0 .. m /\ g[n - 1] = f[n - 1]
      BY <2>1
    <3>2. g[n] = At(f, n)
      <4>1. CASE n <= m
        <5>1. n \in 0 .. m /\ g[n] = f[n]
          BY <2>1, <4>1
        <5>2. QED
          BY <2>2, <5>1
      <4>2. CASE ~ (n <= m)
        BY <4>2
      <4>3. QED
        BY <4>1, <4>2
    <3> HIDE DEF g
    <3>3. QED
      BY <3>1, <3>2
  <2>4. g = [n \in 0 .. m + 1 |-> At(g, n)]
    BY <2>3
  <2>5. Exists(m + 1)
    BY <2>4
  <2> HIDE DEF Exists
  <2>6. QED
    BY <2>1, <2>5
<1>3. G = Nat
  <2> HIDE DEF G
  <2>1. G \in SUBSET Nat
    BY DEF G
  <2>2. QED
    BY <1>1, <1>2, <2>1, NatSetInduction
<1>4. \E f : f = Def(f)
  <2>1. Len(ranges) \in G
    BY <1>3
  <2>2. QED
    BY <2>1
<1>5. f0 = Def(f0)
  BY <1>4
<1>6. SelectionTrie(ranges) = f0
  BY DEF SelectionTrie
<1> HIDE DEF f0
<1>7. \A n \in 0 .. Len(ranges) : f0[n] = At(f0, n)
  BY <1>5
<1>8. QED
  BY <1>6, <1>7

\* The selection tries.
SelectionTries == {nodes \in Seq(NodesOf(SelectionValues)) :
                     Patricia(nodes, SelectionValues, NoCandidate)}

\* A record's candidate is inserted at one prefix of its range after the other.
LEMMA RangeInserted ==
  ASSUME NEW nodes \in SelectionTries,
         NEW range \in Ranges, range.start <= range.end, NEW id \in Nat \ {0}
  PROVE  LET pieces == RangePrefixes(range)
             candidate == [id |-> id, width |-> Width(range)]
         IN  \E after \in [0 .. Len(pieces) -> SelectionTries] :
               /\ after[0] = nodes
               /\ \A i \in 1 .. Len(pieces) :
                    after[i] = InsertCandidate(after[i - 1], pieces[i], candidate)
               /\ after[Len(pieces)] = InsertRange(nodes, range, id)
<1> DEFINE pieces == RangePrefixes(range)
           candidate == [id |-> id, width |-> Width(range)]
           m == Len(pieces)
           step == [i \in 1 .. m |-> [built \in SelectionTries |->
                      InsertCandidate(built, pieces[i], candidate)]]
           At(f, s) == IF s = {} THEN nodes
                       ELSE InsertCandidate(f[s \ {Greatest(s)}], pieces[Greatest(s)], candidate)
           D == DOMAIN pieces
           Def(f) == [s \in SUBSET D |-> At(f, s)]
           f0 == CHOOSE f : f = Def(f)
<1>1. InsertRange(nodes, range, id) = f0[D]
  BY DEF InsertRange, FoldLeft, MapThenFoldSet, Max, Greatest
<1>2. pieces \in Seq(AllPrefixes)
  BY RangesAreCutExactly
<1>3. candidate \in SelectionValues /\ candidate.id # 0
  <2>1. Size(0) \in Nat \ {0}
    BY SizeIsPositive, BitsAssumption
  <2>2. Width(range) \in Nat
    BY <2>1 DEF Width, Ranges, Addresses
  <2>3. QED
    BY <2>2 DEF SelectionValues
<1> HIDE DEF pieces, candidate
<1>4. m \in Nat /\ D = 1 .. m /\ \A i \in 1 .. m : pieces[i] \in AllPrefixes
  BY <1>2
<1> HIDE DEF m, D
<1>5. ASSUME NEW i \in 1 .. m, NEW built \in SelectionTries
      PROVE  InsertCandidate(built, pieces[i], candidate) \in SelectionTries
  <2>1. Patricia(InsertCandidate(built, pieces[i], candidate), SelectionValues, NoCandidate)
    BY <1>3, <1>4, CandidateKeepsPatricia DEF SelectionTries
  <2>2. QED
    BY <2>1 DEF SelectionTries, Patricia
<1>6. step \in [1 .. m -> [SelectionTries -> SelectionTries]]
  BY <1>5
<1>7. /\ \A i \in 1 .. m, built \in SelectionTries :
           step[i][built] = InsertCandidate(built, pieces[i], candidate)
  OBVIOUS
<1> HIDE DEF step
<1>8. PICK f \in [SUBSET (1 .. m) -> SelectionTries] : FoldOf(m, nodes, step, f)
  BY <1>4, <1>6, FoldingWorks
<1>9. ASSUME NEW s \in SUBSET D, s # {}
      PROVE  /\ Greatest(s) \in 1 .. m /\ s \ {Greatest(s)} \in SUBSET (1 .. m)
             /\ f[s \ {Greatest(s)}] \in SelectionTries
  BY <1>4, <1>9, GreatestIndex
<1>10. ASSUME NEW s \in SUBSET D PROVE f[s] = At(f, s)
  <2>1. f[s] = IF s = {} THEN nodes ELSE step[Greatest(s)][f[s \ {Greatest(s)}]]
    BY <1>4, <1>8 DEF FoldOf
  <2>2. QED
    BY <1>7, <1>9, <2>1
<1>11. f = Def(f)
  BY <1>4, <1>10
<1>12. f0 = Def(f0)
  BY <1>11
<1> HIDE DEF f0
<1>13. f0[1 .. m] = f[1 .. m]
  <2>1. ASSUME NEW s \in SUBSET (1 .. m),
               s = {} \/ f0[s \ {Greatest(s)}] = f[s \ {Greatest(s)}]
        PROVE  f0[s] = f[s]
    <3>1. f0[s] = At(f0, s)
      BY <1>4, <1>12
    <3>2. f[s] = At(f, s)
      BY <1>4, <1>10
    <3>3. QED
      BY <2>1, <3>1, <3>2
  <2>2. QED
    BY <1>4, <2>1, FoldsAgree
<1> DEFINE after == [i \in 0 .. m |-> f[1 .. i]]
<1>14. after \in [0 .. m -> SelectionTries]
  BY <1>4, <1>8
<1>15. after[0] = nodes /\ after[m] = InsertRange(nodes, range, id)
  BY <1>1, <1>4, <1>8, <1>13, FoldInOrder
<1>16. ASSUME NEW i \in 1 .. m
       PROVE  after[i] = InsertCandidate(after[i - 1], pieces[i], candidate)
  <2>1. i - 1 \in 0 .. m /\ i \in 0 .. m
    BY <1>4
  <2>2. f[1 .. i] = step[i][f[1 .. i - 1]]
    BY <1>4, <1>8, FoldInOrder
  <2>3. after[i] = f[1 .. i] /\ after[i - 1] = f[1 .. i - 1]
    BY <2>1
  <2> HIDE DEF after
  <2>4. after[i - 1] \in SelectionTries
    BY <1>14, <2>1
  <2>5. QED
    BY <1>7, <2>2, <2>3, <2>4
<1> HIDE DEF after
<1>17. QED
  BY <1>14, <1>15, <1>16 DEF m, pieces, candidate

\* A record more: its candidate at every prefix of its range.
LEMMA RangeKeepsPatricia ==
  ASSUME NEW nodes, Patricia(nodes, SelectionValues, NoCandidate),
         NEW range \in Ranges, range.start <= range.end, NEW id \in Nat \ {0}
  PROVE  Patricia(InsertRange(nodes, range, id), SelectionValues, NoCandidate)
<1> DEFINE m == Len(RangePrefixes(range))
<1>1. nodes \in SelectionTries
  BY DEF SelectionTries, Patricia
<1>2. m \in Nat
  BY RangesAreCutExactly
<1>3. PICK after \in [0 .. m -> SelectionTries] :
         /\ after[0] = nodes
         /\ \A i \in 1 .. m : after[i] = InsertCandidate(after[i - 1], RangePrefixes(range)[i],
                                                  [id |-> id, width |-> Width(range)])
         /\ after[m] = InsertRange(nodes, range, id)
  BY <1>1, RangeInserted
<1> HIDE DEF m
<1>4. InsertRange(nodes, range, id) \in SelectionTries
  BY <1>2, <1>3
<1>5. QED
  BY <1>4 DEF SelectionTries

\* Whatever is kept of a file is of the kind of the rows that are accepted.
LEMMA KeptKind ==
  ASSUME NEW values, Len(values) \in Nat, NEW accepted, NEW S,
         \A i \in 1 .. Len(values) : i \in accepted => values[i] \in S,
         NEW n \in 0 .. Len(values)
  PROVE  Kept(values, accepted)[n] \in Seq(S)
<1> DEFINE K == Kept(values, accepted)
           Holds(m) == m <= Len(values) => K[m] \in Seq(S)
           G == {m \in Nat : Holds(m)}
<1>1. /\ K[0] = <<>>
      /\ \A m \in 1 .. Len(values) :
           K[m] = IF m \in accepted THEN Append(K[m - 1], values[m]) ELSE K[m - 1]
  BY KeptSteps
<1> HIDE DEF K
<1>2. 0 \in G
  <2>1. <<>> \in Seq(S)
    OBVIOUS
  <2>2. K[0] \in Seq(S)
    BY <1>1, <2>1
  <2>3. QED
    BY <2>2
<1>3. ASSUME NEW m \in G PROVE m + 1 \in G
  <2>1. m \in Nat /\ Holds(m)
    OBVIOUS
  <2>2. ASSUME m + 1 <= Len(values) PROVE K[m + 1] \in Seq(S)
    <3>1. m + 1 \in 1 .. Len(values) /\ (m + 1) - 1 = m /\ K[m] \in Seq(S)
      BY <2>1, <2>2
    <3>2. CASE m + 1 \in accepted
      <4>1. values[m + 1] \in S
        BY <3>1, <3>2
      <4>2. Append(K[m], values[m + 1]) \in Seq(S)
        BY <3>1, <4>1
      <4>3. QED
        BY <1>1, <3>1, <3>2, <4>2
    <3>3. CASE m + 1 \notin accepted
      BY <1>1, <3>1, <3>3
    <3>4. QED
      BY <3>2, <3>3
  <2>3. Holds(m + 1)
    BY <2>2
  <2> HIDE DEF Holds
  <2>4. QED
    BY <2>1, <2>3
<1>4. G = Nat
  <2> HIDE DEF G
  <2>1. G \in SUBSET Nat
    BY DEF G
  <2>2. QED
    BY <1>2, <1>3, <2>1, NatSetInduction
<1>5. n \in G
  BY <1>4
<1>6. QED
  BY <1>5 DEF K

-----------------------------------------------------------------------------
(* The groups of the route prefix index *)

\* Entries of an index: the prefix, with what it is the key of.
IndexEntry == [address : Nat, length : 0 .. Bits, id : Nat]

\* The order of the index has a first entry in every set of one.
LEMMA FirstEntry ==
  ASSUME NEW rest \in SUBSET IndexEntry, rest # {}
  PROVE  \E x \in rest : \A y \in rest \ {x} : IndexBefore(x, y)
<1> DEFINE A == {x.address : x \in rest}
<1>1. A \in SUBSET Nat /\ A # {}
  BY DEF IndexEntry
<1>2. PICK a \in A : \A b \in A : a <= b
  <2> HIDE DEF A
  <2>1. QED
    BY <1>1, LeastElement
<1> DEFINE L == {x.length : x \in {y \in rest : y.address = a}}
<1>3. L \in SUBSET Nat /\ L # {}
  BY DEF IndexEntry
<1>4. PICK l \in L : \A k \in L : l <= k
  <2> HIDE DEF L
  <2>1. QED
    BY <1>3, LeastElement
<1> DEFINE I == {x.id : x \in {y \in rest : y.address = a /\ y.length = l}}
<1>5. I \in SUBSET Nat /\ I # {}
  BY DEF IndexEntry
<1>6. PICK i \in I : \A j \in I : i <= j
  <2> HIDE DEF I
  <2>1. QED
    BY <1>5, LeastElement
<1>7. PICK x \in rest : x.address = a /\ x.length = l /\ x.id = i
  OBVIOUS
<1>8. ASSUME NEW y \in rest \ {x} PROVE IndexBefore(x, y)
  <2>1. /\ y \in IndexEntry /\ x \in IndexEntry /\ y # x
        /\ y.address \in Nat /\ y.length \in Nat /\ y.id \in Nat
        /\ x.address \in Nat /\ x.length \in Nat /\ x.id \in Nat
    BY DEF IndexEntry
  <2>2. y.address # x.address \/ y.length # x.length \/ y.id # x.id
    BY <2>1 DEF IndexEntry
  <2>3. a <= y.address
    BY <1>2
  <2>4. y.address = a => l <= y.length
    BY <1>4
  <2>5. y.address = a /\ y.length = l => i <= y.id
    BY <1>6
  <2>6. QED
    BY <1>7, <2>1, <2>2, <2>3, <2>4, <2>5 DEF IndexBefore
<1>9. QED
  BY <1>8

\* A set of entries is sorted by the order of the index.
LEMMA AscendingEntries ==
  ASSUME NEW P \in SUBSET IndexEntry, IsFiniteSet(P)
  PROVE  SequenceOf(P, {pair \in P \X P : IndexBefore(pair[1], pair[2])},
                    Ascending(P, IndexBefore))
<1> DEFINE First(rest) == CHOOSE x \in rest : \A y \in rest \ {x} : IndexBefore(x, y)
           least == [rest \in SUBSET P |-> First(rest)]
           order == {pair \in P \X P : IndexBefore(pair[1], pair[2])}
           Def(f) == [rest \in SUBSET P |->
                        IF rest = {} THEN <<>> ELSE <<First(rest)>> \o f[rest \ {First(rest)}]]
           f0 == CHOOSE f : f = Def(f)
<1>1. ASSUME NEW rest \in SUBSET P, rest # {}
      PROVE  /\ First(rest) \in rest
             /\ \A y \in rest \ {First(rest)} : IndexBefore(First(rest), y)
  BY <1>1, FirstEntry
<1>2. Ascending(P, IndexBefore) = f0[P]
  BY DEF Ascending
<1> HIDE DEF First
<1>3. \A f : f = Def(f) <=> Sorts(P, least, f)
  <2>1. ASSUME NEW f PROVE Def(f) = [rest \in SUBSET P |->
            IF rest = {} THEN <<>> ELSE <<least[rest]>> \o f[rest \ {least[rest]}]]
    OBVIOUS
  <2> HIDE DEF Def, least
  <2>2. QED
    BY <2>1 DEF Sorts
<1>4. \A rest \in SUBSET P : rest # {} =>
            /\ least[rest] \in rest
            /\ \A y \in rest \ {least[rest]} : <<least[rest], y>> \in order
  BY <1>1
<1> HIDE DEF Def, least, order
<1>5. /\ \E from : Sorts(P, least, from)
      /\ \A from : Sorts(P, least, from) => SequenceOf(P, order, from[P])
  BY <1>4, SortingWorks
<1>6. f0 = Def(f0)
  BY <1>3, <1>5
<1>7. SequenceOf(P, order, f0[P])
  BY <1>3, <1>5, <1>6
<1>8. QED
  BY <1>2, <1>7 DEF order

\* A prefix and the IDs of the routes registered there.
RouteGroup == [prefix : IndexEntry, ids : RouteValues \ {NoRoutes}]

\* The groups of an index of routes.
LEMMA GroupsAreSequence ==
  ASSUME NEW index \in SUBSET IndexEntry, IsFiniteSet(index),
         \A entry \in index : entry.id # 0
  PROVE  RouteGroups(index) \in Seq(RouteGroup)
<1> DEFINE Bare(entry) == [address |-> entry.address, length |-> entry.length, id |-> 0]
           bare == [entry \in index |-> Bare(entry)]
           P == {Bare(entry) : entry \in index}
           sorted == Ascending(P, IndexBefore)
           Before(x, y) == x < y
           Of(prefix) == {entry \in index : entry.address = prefix.address
                                               /\ entry.length = prefix.length}
           IDs(prefix) == {entry.id : entry \in Of(prefix)}
<1>1. P \in SUBSET IndexEntry
  BY DEF IndexEntry
<1>2. IsFiniteSet(P)
  <2>1. bare \in Surjection(index, P)
    BY DEF Surjection
  <2>2. QED
    BY <2>1, FS_Surjection
<1>3. sorted \in Seq(P)
  <2> HIDE DEF P
  <2>1. QED
    BY <1>1, <1>2, AscendingEntries DEF SequenceOf
<1>4. RouteGroups(index)
        = [i \in DOMAIN sorted |->
             [prefix |-> sorted[i], ids |-> Ascending(IDs(sorted[i]), LAMBDA x, y : x < y)]]
  BY DEF RouteGroups
<1>5. ASSUME NEW prefix \in P
      PROVE  Ascending(IDs(prefix), LAMBDA x, y : x < y) \in RouteValues \ {NoRoutes}
  <2> DEFINE ids == IDs(prefix)
             id == [entry \in Of(prefix) |-> entry.id]
  <2>1. ids \in SUBSET (Nat \ {0}) /\ ids # {}
    BY DEF IndexEntry
  <2>2. IsFiniteSet(ids)
    <3>1. IsFiniteSet(Of(prefix))
      BY FS_Subset
    <3>2. id \in Surjection(Of(prefix), ids)
      BY DEF Surjection
    <3> HIDE DEF Of, id, ids
    <3>3. QED
      BY <3>1, <3>2, FS_Surjection
  <2> DEFINE seq == Ascending(ids, LAMBDA x, y : x < y)
  <2>3. seq \in Seq(ids) /\ {seq[i] : i \in DOMAIN seq} = ids
    <3> HIDE DEF ids
    <3>1. QED
      BY <2>1, <2>2, AscendingNumbers DEF SequenceOf
  <2> HIDE DEF ids, seq
  <2>4. seq \in Seq(Nat \ {0})
    <3>1. /\ Len(seq) \in Nat /\ seq = [i \in 1 .. Len(seq) |-> seq[i]]
          /\ \A i \in 1 .. Len(seq) : seq[i] \in ids
      BY <2>3
    <3>2. \A i \in 1 .. Len(seq) : seq[i] \in Nat \ {0}
      BY <2>1, <3>1
    <3>3. QED
      BY <3>1, <3>2
  <2>5. seq # <<>>
    <3>1. ASSUME seq = <<>> PROVE ids = {}
      <4>1. DOMAIN seq = {}
        BY <3>1
      <4>2. QED
        BY <2>3, <4>1
    <3>2. QED
      BY <2>1, <3>1
  <2>6. QED
    BY <2>4, <2>5 DEF RouteValues, NoRoutes, seq, ids
<1> DEFINE groups == [i \in DOMAIN sorted |->
                       [prefix |-> sorted[i],
                        ids    |-> Ascending(IDs(sorted[i]), LAMBDA x, y : x < y)]]
<1> HIDE DEF P, sorted, IDs
<1>6. Len(sorted) \in Nat /\ DOMAIN sorted = 1 .. Len(sorted)
  BY <1>3
<1>7. ASSUME NEW i \in 1 .. Len(sorted) PROVE groups[i] \in RouteGroup
  <2> DEFINE ids == Ascending(IDs(sorted[i]), LAMBDA x, y : x < y)
  <2>1. sorted[i] \in P
    BY <1>3
  <2>2. ids \in RouteValues \ {NoRoutes} /\ sorted[i] \in IndexEntry
    BY <1>1, <1>5, <2>1
  <2>3. groups[i] = [prefix |-> sorted[i], ids |-> ids]
    BY <1>6
  <2> HIDE DEF ids, groups
  <2>4. QED
    BY <2>2, <2>3 DEF RouteGroup
<1>8. groups = [i \in 1 .. Len(sorted) |-> groups[i]]
  BY <1>6
<1>9. groups \in Seq(RouteGroup)
  <2> HIDE DEF groups
  <2>1. QED
    BY <1>6, <1>7, <1>8
<1>10. QED
  BY <1>4, <1>9

-----------------------------------------------------------------------------
(* What a row more adds to the indexes *)

\* The objects of routes: masked prefixes and origins.
StoredRoute == [prefix : [address : Nat, length : 0 .. Bits], origin : Nat]

\* An index starts without entries.
LEMMA RangeEntriesEmpty == RangeEntries(<<>>) = {} /\ RangeKeys(<<>>) = {}
BY DEF RangeEntries, RangeKeys

\* An index of routes starts without entries.
LEMMA RouteEntriesEmpty == RouteEntries(<<>>) = {} /\ RouteKeys(<<>>) = {}
BY DEF RouteEntries, RouteKeys

\* A range more.
LEMMA RangeAppended ==
  ASSUME NEW ranges \in Seq(Ranges), NEW range \in Ranges
  PROVE  /\ RangeEntries(Append(ranges, range))
              = RangeEntries(ranges)
                  \cup IndexEntries(ToSet(RangePrefixes(range)), Len(ranges) + 1)
         /\ RangeKeys(Append(ranges, range))
              = RangeKeys(ranges) \cup {RangeKey(range, Len(ranges) + 1)}
<1> DEFINE more == Append(ranges, range)
<1>1. /\ Len(ranges) \in Nat /\ DOMAIN ranges = 1 .. Len(ranges)
      /\ DOMAIN more = (DOMAIN ranges) \cup {Len(ranges) + 1}
      /\ \A id \in DOMAIN ranges : more[id] = ranges[id]
      /\ more[Len(ranges) + 1] = range
  OBVIOUS
<1> HIDE DEF more
<1>2. RangeEntries(more)
        = RangeEntries(ranges) \cup IndexEntries(ToSet(RangePrefixes(range)), Len(ranges) + 1)
  BY <1>1 DEF RangeEntries
<1>3. RangeKeys(more) = RangeKeys(ranges) \cup {RangeKey(range, Len(ranges) + 1)}
  BY <1>1 DEF RangeKeys
<1>4. QED
  BY <1>2, <1>3 DEF more

\* A route more.
LEMMA RouteAppended ==
  ASSUME NEW routes \in Seq(StoredRoute), NEW route \in StoredRoute
  PROVE  /\ RouteEntries(Append(routes, route))
              = RouteEntries(routes) \cup IndexEntries({route.prefix}, Len(routes) + 1)
         /\ RouteKeys(Append(routes, route))
              = RouteKeys(routes) \cup {RangeKey(PrefixRange(route.prefix), Len(routes) + 1)}
<1> DEFINE more == Append(routes, route)
<1>1. /\ Len(routes) \in Nat /\ DOMAIN routes = 1 .. Len(routes)
      /\ DOMAIN more = (DOMAIN routes) \cup {Len(routes) + 1}
      /\ \A id \in DOMAIN routes : more[id] = routes[id]
      /\ more[Len(routes) + 1] = route
  OBVIOUS
<1> HIDE DEF more
<1>2. RouteEntries(more)
        = RouteEntries(routes) \cup IndexEntries({route.prefix}, Len(routes) + 1)
  BY <1>1 DEF RouteEntries
<1>3. RouteKeys(more)
        = RouteKeys(routes) \cup {RangeKey(PrefixRange(route.prefix), Len(routes) + 1)}
  BY <1>1 DEF RouteKeys
<1>4. QED
  BY <1>2, <1>3 DEF more

\* The route prefix index is a finite index.
LEMMA RouteIndexType ==
  ASSUME NEW routes \in Seq(StoredRoute)
  PROVE  /\ RouteEntries(routes) \in SUBSET IndexEntry /\ IsFiniteSet(RouteEntries(routes))
         /\ \A entry \in RouteEntries(routes) : entry.id # 0
<1> DEFINE Entry(id) == [address |-> routes[id].prefix.address,
                         length |-> routes[id].prefix.length, id |-> id]
           entries == [id \in DOMAIN routes |-> Entry(id)]
<1>1. Len(routes) \in Nat /\ DOMAIN routes = 1 .. Len(routes)
  OBVIOUS
<1>2. ASSUME NEW id \in DOMAIN routes
      PROVE  IndexEntries({routes[id].prefix}, id) = {Entry(id)} /\ Entry(id) \in IndexEntry
  <2>1. routes[id] \in StoredRoute /\ id \in Nat
    BY <1>1
  <2>2. QED
    BY <2>1 DEF IndexEntries, IndexEntry, StoredRoute
<1>3. RouteEntries(routes) = {Entry(id) : id \in DOMAIN routes}
  <2> HIDE DEF Entry
  <2>1. \A x : x \in RouteEntries(routes) <=> \E id \in DOMAIN routes : x = Entry(id)
    BY <1>2 DEF RouteEntries
  <2>2. QED
    BY <2>1
<1>4. entries \in Surjection(DOMAIN routes, RouteEntries(routes))
  BY <1>3 DEF Surjection
<1>5. IsFiniteSet(DOMAIN routes)
  BY <1>1, FS_Interval
<1>6. \A entry \in RouteEntries(routes) : entry.id # 0
  BY <1>1, <1>3
<1>7. QED
  BY <1>2, <1>3, <1>4, <1>5, <1>6, FS_Surjection

\* The ID of a new route is greater than those listed.
LEMMA RouteListed ==
  ASSUME NEW routes \in Seq(StoredRoute), NEW lists, ASNLists(lists, routes),
         NEW route \in StoredRoute
  PROVE  ASNLists(IF route.origin = NoNumber THEN lists
               ELSE Listed(lists, route.origin, Len(routes) + 1), Append(routes, route))
<1> DEFINE asn == route.origin
           id == Len(routes) + 1
           more == Append(routes, route)
           With(r, a) == {i \in DOMAIN r : r[i].origin = a}
           longer == IF asn = NoNumber THEN lists ELSE Listed(lists, asn, id)
<1>1. /\ Len(routes) \in Nat /\ DOMAIN routes = 1 .. Len(routes) /\ id \in Nat
      /\ DOMAIN more = (DOMAIN routes) \cup {id}
      /\ \A i \in DOMAIN routes : more[i] = routes[i] /\ i < id
      /\ more[id] = route
  OBVIOUS
<1>2. /\ \A a \in DOMAIN lists : lists[a] \in Seq(Nat)
      /\ DOMAIN lists = {routes[i].origin : i \in DOMAIN routes} \ {NoNumber}
      /\ \A a \in DOMAIN lists :
           ToSet(lists[a]) = With(routes, a)
  BY DEF ASNLists
<1>asc. \A a \in DOMAIN lists : \A i, j \in DOMAIN lists[a] :
          i < j => lists[a][i] < lists[a][j]
  BY DEF ASNLists
<1> HIDE DEF With
<1>3. /\ asn = NoNumber => longer = lists
      /\ asn # NoNumber =>
           /\ DOMAIN longer = (DOMAIN lists) \cup {asn}
           /\ \A a \in DOMAIN lists : a # asn => longer[a] = lists[a]
           /\ longer[asn] = IF asn \in DOMAIN lists THEN Append(lists[asn], id) ELSE <<id>>
  BY DEF Listed
<1> HIDE DEF more, longer
<1>4. DOMAIN longer = {more[i].origin : i \in DOMAIN more} \ {NoNumber}
  <2>1. {more[i].origin : i \in DOMAIN more} = {routes[i].origin : i \in DOMAIN routes} \cup {asn}
    BY <1>1
  <2>2. QED
    BY <1>2, <1>3, <2>1
<1>5. ASSUME NEW a \in DOMAIN longer
      PROVE  /\ longer[a] \in Seq(Nat)
             /\ ToSet(longer[a]) = With(more, a)
             /\ \A i, j \in DOMAIN longer[a] : i < j => longer[a][i] < longer[a][j]
  <2>1. CASE a # asn
    <3>1. a \in DOMAIN lists /\ longer[a] = lists[a]
      BY <1>3, <2>1
    <3>2. With(more, a) = With(routes, a)
      BY <1>1, <2>1 DEF With
    <3>3. ToSet(longer[a]) = With(more, a)
      BY <1>2, <3>1, <3>2
    <3>4. \A i, j \in DOMAIN longer[a] : i < j => longer[a][i] < longer[a][j]
      BY <1>asc, <3>1
    <3>5. QED
      BY <1>2, <3>1, <3>3, <3>4
  <2>2. CASE a = asn /\ asn \notin DOMAIN lists
    <3>1. asn # NoNumber
      BY <1>3, <2>2
    <3>2. longer[a] = <<id>>
      BY <1>3, <2>2, <3>1
    <3>3. \A i \in DOMAIN routes : routes[i].origin # a
      BY <1>2, <2>2, <3>1
    <3>4. With(more, a) = {id}
      BY <1>1, <2>2, <3>3 DEF With
    <3>5. QED
      BY <1>1, <3>2, <3>4 DEF ToSet
  <2>3. CASE a = asn /\ asn \in DOMAIN lists
    <3>1. asn # NoNumber
      BY <1>2, <2>3
    <3> DEFINE old == lists[a]
    <3>2. /\ old \in Seq(Nat)
          /\ ToSet(old) = With(routes, a)
      BY <1>2, <2>3
    <3>asc. \A i, j \in DOMAIN old : i < j => old[i] < old[j]
      BY <1>asc, <2>3
    <3>3. longer[a] = Append(old, id)
      BY <1>3, <2>3, <3>1
    <3> HIDE DEF old
    <3>4. /\ Len(old) \in Nat /\ DOMAIN old = 1 .. Len(old)
          /\ longer[a] \in Seq(Nat)
          /\ DOMAIN longer[a] = (DOMAIN old) \cup {Len(old) + 1}
          /\ \A i \in DOMAIN old : longer[a][i] = old[i]
          /\ longer[a][Len(old) + 1] = id
      BY <1>1, <3>2, <3>3
    <3>5. \A i \in DOMAIN old : old[i] \in DOMAIN routes
      BY <3>2 DEF ToSet, With
    <3>6. \A i, j \in DOMAIN longer[a] : i < j => longer[a][i] < longer[a][j]
      BY <1>1, <3>asc, <3>4, <3>5
    <3>7. With(more, a)
            = With(routes, a) \cup {id}
      BY <1>1, <2>3 DEF With
    <3>8. ToSet(longer[a]) = ToSet(old) \cup {id}
      BY <3>4 DEF ToSet
    <3>9. QED
      BY <3>2, <3>4, <3>6, <3>7, <3>8
  <2>4. QED
    BY <2>1, <2>2, <2>3
<1>6. QED
  BY <1>4, <1>5 DEF ASNLists, longer, more, With

\* Of the first n rows, those of an ASN for the first time.
FirstRowsUpto(objects, rows, n) ==
  /\ DOMAIN objects = {rows[i].asn : i \in 1 .. n} \ {NoNumber}
  /\ \A i \in 1 .. n :
       rows[i].asn # NoNumber /\ (\A j \in 1 .. i - 1 : rows[j].asn # rows[i].asn)
         => objects[rows[i].asn] = rows[i]

\* A number that was seen before keeps its first row.
LEMMA AutnumAdded ==
  ASSUME NEW rows, NEW n \in Nat, NEW objects, FirstRowsUpto(objects, rows, n)
  PROVE  FirstRowsUpto(IF rows[n + 1].asn = NoNumber THEN objects
                       ELSE WithAutnum(objects, rows[n + 1]), rows, n + 1)
<1> DEFINE row == rows[n + 1]
           more == IF row.asn = NoNumber THEN objects ELSE WithAutnum(objects, row)
<1>1. /\ DOMAIN objects = {rows[i].asn : i \in 1 .. n} \ {NoNumber}
      /\ \A i \in 1 .. n :
           rows[i].asn # NoNumber /\ (\A j \in 1 .. i - 1 : rows[j].asn # rows[i].asn)
             => objects[rows[i].asn] = rows[i]
  BY DEF FirstRowsUpto
<1>2. /\ row.asn = NoNumber => more = objects
      /\ row.asn # NoNumber =>
           /\ DOMAIN more = (DOMAIN objects) \cup {row.asn}
           /\ \A asn \in DOMAIN objects : more[asn] = objects[asn]
           /\ row.asn \notin DOMAIN objects => more[row.asn] = row
  BY DEF WithAutnum
<1> HIDE DEF more
<1>3. {rows[i].asn : i \in 1 .. n + 1} = {rows[i].asn : i \in 1 .. n} \cup {row.asn}
  OBVIOUS
<1>4. DOMAIN more = {rows[i].asn : i \in 1 .. n + 1} \ {NoNumber}
  BY <1>1, <1>2, <1>3
<1>5. ASSUME NEW i \in 1 .. n + 1, rows[i].asn # NoNumber,
             \A j \in 1 .. i - 1 : rows[j].asn # rows[i].asn
      PROVE  more[rows[i].asn] = rows[i]
  <2>1. CASE i \in 1 .. n
    <3>1. rows[i].asn \in DOMAIN objects /\ objects[rows[i].asn] = rows[i]
      BY <1>1, <1>5, <2>1
    <3>2. QED
      BY <1>2, <3>1
  <2>2. CASE i = n + 1
    <3>1. row.asn \notin DOMAIN objects
      BY <1>1, <1>5, <2>2
    <3>2. QED
      BY <1>2, <1>5, <2>2, <3>1
  <2>3. QED
    BY <2>1, <2>2
<1>6. QED
  BY <1>4, <1>5 DEF FirstRowsUpto, more

-----------------------------------------------------------------------------
(* The inductive invariant *)

\* The phases after each one.
PastSummaries     == {"sync", "compact", "syncCompact", "rename"}
PastGeofeedLPM    == {"summaries"} \cup PastSummaries
PastAllocationLPM == {"geofeedLPM"} \cup PastGeofeedLPM
PastRouteLPM      == {"allocationLPM"} \cup PastAllocationLPM
PastASNRoutes     == {"routeLPM"} \cup PastRouteLPM
PastAutnums       == {"asnRoutes"} \cup PastASNRoutes
PastGeofeeds      == {"autnums"} \cup PastAutnums
PastRoutes        == {"geofeeds"} \cup PastGeofeeds
PastAllocations   == {"routes"} \cup PastRoutes

Building == {"allocations"} \cup PastAllocations

\* How many rows of a file have been read.
Read(kind, past) == IF phase \in past THEN Len(input[kind])
                    ELSE IF phase = kind THEN at - 1 ELSE 0

\* The buckets hold what has been read.
RowsInv ==
  phase \in Building =>
    /\ db.allocations = KeptRanges(input.allocations)[Read("allocations", PastAllocations)]
    /\ db.routes      = KeptRoutes(input.routes)[Read("routes", PastRoutes)]
    /\ db.geofeeds    = KeptRanges(input.geofeeds)[Read("geofeeds", PastGeofeeds)]
    /\ FirstRowsUpto(db.autnums, input.autnums, Read("autnums", PastAutnums))

\* No place is past the end of what is read or inserted.
PlaceInv ==
  /\ at \in Nat \ {0}
  /\ \A kind \in {"allocations", "routes", "geofeeds", "autnums"} :
       phase = kind => at <= Len(input[kind]) + 1
  /\ phase = "routeLPM" => at <= Len(RouteGroups(db.routeIndex)) + 1
  /\ phase = "allocationLPM" => at <= Len(db.allocations) + 1
  /\ phase = "geofeedLPM" => at <= Len(db.geofeeds) + 1

\* The indexes are those of the objects, at any time.
IndexInv ==
  phase \in Building =>
    /\ db.allocationIndex = RangeEntries(db.allocations)
    /\ db.geofeedIndex    = RangeEntries(db.geofeeds)
    /\ db.routeIndex      = RouteEntries(db.routes)
    /\ db.allocationRange = RangeKeys(db.allocations)
    /\ db.routeRange      = RouteKeys(db.routes)

\* The builder's map lists the routes of every ASN until it is written.
ListsInv ==
  /\ phase \in Building \ PastASNRoutes => ASNLists(asnRoutes, db.routes)
  /\ phase \in PastASNRoutes => ASNLists(db.asnRoutes, db.routes)

\* The trie being filled, and those that have been stored.
TriesInv ==
  LET groups == RouteGroups(db.routeIndex) IN
  /\ phase = "routeLPM" => trie = RouteTrie(groups)[at - 1]
  /\ phase = "allocationLPM" => trie = SelectionTrie(db.allocations)[at - 1]
  /\ phase = "geofeedLPM" => trie = SelectionTrie(db.geofeeds)[at - 1]
  /\ phase \in PastRouteLPM => db.routeLPM = RouteTrie(groups)[Len(groups)]
  /\ phase \in PastAllocationLPM
       => db.allocationLPM = SelectionTrie(db.allocations)[Len(db.allocations)]
  /\ phase \in PastGeofeedLPM
       => db.geofeedLPM = SelectionTrie(db.geofeeds)[Len(db.geofeeds)]
  /\ phase \in PastSummaries => DOMAIN db.summaries = Buckets(0 .. DeepestLevel)

\* The file that will be renamed has been synced with the whole database in it.
FilesInv ==
  /\ phase \in {"compact", "syncCompact"} => input.compact /\ raw = Holding(db, TRUE)
  /\ phase = "syncCompact" => compacted = Holding(db, FALSE)
  /\ phase = "rename" => (IF input.compact THEN compacted ELSE raw) = Holding(db, TRUE)

\* What a crash leaves alone.
OutputInv ==
  \/ output = NoFile
  \/ /\ output = Holding(output.content, TRUE)
     /\ IsDatasetOf(output.content, input)

\* Objects have their types.
ObjectsInv ==
  /\ IsInput(input)
  /\ DOMAIN db = DOMAIN EmptyDB
  /\ db.allocations \in Seq(Ranges)
  /\ db.routes \in Seq(StoredRoute)
  /\ db.geofeeds \in Seq(Ranges)

\* No stored range ends before it starts.
OrderedInv ==
  \A table \in {"allocations", "geofeeds"} :
    \A id \in DOMAIN db[table] : db[table][id].start <= db[table][id].end

\* The trie under construction is a Patricia trie of what its phase enters.
ShapeInv ==
  /\ phase \in {"routeLPM", "failed"} => Patricia(trie, RouteValues, NoRoutes)
  /\ phase \in {"allocationLPM", "geofeedLPM"} => Patricia(trie, SelectionValues, NoCandidate)
  /\ phase \notin {"routeLPM", "failed", "allocationLPM", "geofeedLPM"} => trie = <<>>

BuildInv == /\ ObjectsInv
            /\ PlaceInv
            /\ RowsInv
            /\ IndexInv
            /\ ListsInv
            /\ TriesInv
            /\ FilesInv
            /\ OutputInv
            /\ OrderedInv
            /\ ShapeInv

-----------------------------------------------------------------------------
(* What the actions do to the database, field by field *)

\* A database that begins.
LEMMA EmptyFields ==
  /\ DOMAIN EmptyDB = {"allocations", "routes", "geofeeds", "autnums", "allocationIndex",
                       "routeIndex", "geofeedIndex", "allocationRange", "routeRange",
                       "asnRoutes", "routeLPM", "allocationLPM", "geofeedLPM", "summaries"}
  /\ EmptyDB.allocations = <<>> /\ EmptyDB.routes = <<>> /\ EmptyDB.geofeeds = <<>>
  /\ EmptyDB.autnums = <<>>
  /\ EmptyDB.allocationIndex = {} /\ EmptyDB.routeIndex = {} /\ EmptyDB.geofeedIndex = {}
  /\ EmptyDB.allocationRange = {} /\ EmptyDB.routeRange = {}
BY DEF EmptyDB

\* What input files are.
LEMMA InputFiles ==
  ASSUME IsInput(input)
  PROVE  /\ input.allocations \in Seq(Ranges) /\ input.geofeeds \in Seq(Ranges)
         /\ Len(input.allocations) \in Nat /\ Len(input.geofeeds) \in Nat
         /\ Len(input.routes) \in Nat /\ Len(input.autnums) \in Nat
         /\ DOMAIN input.routes = 1 .. Len(input.routes)
         /\ DOMAIN input.autnums = 1 .. Len(input.autnums)
         /\ \A i \in DOMAIN input.routes :
              /\ input.routes[i].prefix.address \in Nat
              /\ input.routes[i].prefix.length \in 0 .. Bits
              /\ input.routes[i].origin \in Nat \cup {NoOrigin}
         /\ \A i \in DOMAIN input.autnums : input.autnums[i].asn \in Nat
<1>1. /\ input.routes \in Seq({input.routes[i] : i \in DOMAIN input.routes})
      /\ input.autnums \in Seq({input.autnums[i] : i \in DOMAIN input.autnums})
      /\ \A i \in DOMAIN input.routes :
            /\ input.routes[i].prefix \in WrittenPrefixes
            /\ input.routes[i].origin \in Nat \cup {NoOrigin}
  BY DEF IsInput, IsFile
<1>2. /\ Len(input.routes) \in Nat /\ DOMAIN input.routes = 1 .. Len(input.routes)
      /\ Len(input.autnums) \in Nat /\ DOMAIN input.autnums = 1 .. Len(input.autnums)
  BY <1>1
<1>3. \A a \in Addresses : a \in Nat
  BY DEF Addresses
<1>4. ASSUME NEW i \in DOMAIN input.routes
      PROVE  /\ input.routes[i].prefix.address \in Nat
             /\ input.routes[i].prefix.length \in 0 .. Bits
  BY <1>1, <1>3 DEF WrittenPrefixes
<1>5. QED
  BY <1>1, <1>2, <1>4 DEF IsInput

\* A masked prefix with an origin is a route.
LEMMA MaskedRoute ==
  ASSUME IsInput(input), NEW i \in DOMAIN input.routes, input.routes[i].origin # NoOrigin
  PROVE  [prefix |-> MaskedPrefix(input.routes[i].prefix), origin |-> input.routes[i].origin]
            \in StoredRoute
<1>1. /\ input.routes[i].prefix.address \in Nat
      /\ input.routes[i].prefix.length \in 0 .. Bits
      /\ input.routes[i].origin \in Nat
  BY InputFiles
<1>2. Masked(input.routes[i].prefix.address, input.routes[i].prefix.length) \in Nat
  BY <1>1, MaskedIsNat
<1>3. input.routes[i].prefix.length \in Nat
  BY <1>1
<1>4. QED
  BY <1>1, <1>2, <1>3 DEF MaskedPrefix, StoredRoute

\* The fields that hold what files say.
Same(fields) == \A field \in fields : db'[field] = db[field]

FileBuckets == {"allocations", "routes", "geofeeds", "autnums", "allocationIndex", "routeIndex",
                "geofeedIndex", "allocationRange", "routeRange"}
Derived == {"asnRoutes", "routeLPM", "allocationLPM", "geofeedLPM", "summaries"}

\* What AddAllocation does: a row that is no range is left out, another one is added
\* to the table, the index and the keys.
LEMMA AllocationAdded ==
  ASSUME ObjectsInv, PlaceInv, AddAllocation
  PROVE  LET range == input.allocations[at] IN
         /\ phase = "allocations" /\ phase' = "allocations"
         /\ at \in 1 .. Len(input.allocations) /\ at' = at + 1
         /\ range \in Ranges
         /\ UNCHANGED <<input, asnRoutes, trie, files>>
         /\ range.start > range.end => db' = db
         /\ ~ (range.start > range.end) =>
              /\ DOMAIN db' = DOMAIN db
              /\ db'.allocations = Append(db.allocations, range)
              /\ db'.allocationRange
                    = db.allocationRange \cup {RangeKey(range, Len(db.allocations) + 1)}
              /\ db'.allocationIndex
                    = db.allocationIndex \cup IndexEntries(ToSet(RangePrefixes(range)),
                                                           Len(db.allocations) + 1)
              /\ Same(FileBuckets \ {"allocations", "allocationRange", "allocationIndex"})
<1>1. /\ phase = "allocations" /\ phase' = phase /\ at <= Len(input.allocations)
      /\ at' = at + 1 /\ UNCHANGED <<input, trie, files, asnRoutes>>
  BY DEF AddAllocation, Row
<1>2. at \in 1 .. Len(input.allocations) /\ input.allocations[at] \in Ranges
  BY <1>1, InputFiles DEF ObjectsInv, PlaceInv
<1>3. DOMAIN db = DOMAIN EmptyDB
  BY DEF ObjectsInv
<1>4. QED
  BY <1>1, <1>2, <1>3, EmptyFields DEF AddAllocation, Same, FileBuckets

\* What AddRoute does: its masked prefix goes to the table, the index, the keys and the list
\* of its origin.
LEMMA RouteAdded ==
  ASSUME ObjectsInv, PlaceInv, AddRoute
  PROVE  LET asn   == input.routes[at].origin
             route == [prefix |-> MaskedPrefix(input.routes[at].prefix), origin |-> asn]
             id    == Len(db.routes) + 1
         IN
         /\ phase = "routes" /\ phase' = "routes"
         /\ at \in 1 .. Len(input.routes) /\ at' = at + 1
         /\ UNCHANGED <<input, trie, files>>
         /\ asn = NoOrigin => db' = db /\ asnRoutes' = asnRoutes
         /\ asn # NoOrigin =>
              /\ route \in StoredRoute
              /\ DOMAIN db' = DOMAIN db
              /\ db'.routes = Append(db.routes, route)
              /\ db'.routeRange = db.routeRange \cup {RangeKey(PrefixRange(route.prefix), id)}
              /\ db'.routeIndex = db.routeIndex \cup IndexEntries({route.prefix}, id)
              /\ asnRoutes' = IF asn = NoNumber THEN asnRoutes ELSE Listed(asnRoutes, asn, id)
              /\ Same(FileBuckets \ {"routes", "routeRange", "routeIndex"})
<1>1. /\ phase = "routes" /\ phase' = phase /\ at <= Len(input.routes)
      /\ at' = at + 1 /\ UNCHANGED <<input, trie, files>>
  BY DEF AddRoute, Row
<1>2. at \in 1 .. Len(input.routes) /\ at \in DOMAIN input.routes
  BY <1>1, InputFiles DEF ObjectsInv, PlaceInv
<1>3. input.routes[at].origin # NoOrigin =>
         [prefix |-> MaskedPrefix(input.routes[at].prefix), origin |-> input.routes[at].origin]
            \in StoredRoute
  BY <1>2, MaskedRoute DEF ObjectsInv
<1>4. DOMAIN db = DOMAIN EmptyDB
  BY DEF ObjectsInv
<1>5. QED
  BY <1>1, <1>2, <1>3, <1>4, EmptyFields DEF AddRoute, Same, FileBuckets

\* What AddGeofeed does: as AddAllocation, without keys.
LEMMA GeofeedAdded ==
  ASSUME ObjectsInv, PlaceInv, AddGeofeed
  PROVE  LET range == input.geofeeds[at] IN
         /\ phase = "geofeeds" /\ phase' = "geofeeds"
         /\ at \in 1 .. Len(input.geofeeds) /\ at' = at + 1
         /\ range \in Ranges
         /\ UNCHANGED <<input, asnRoutes, trie, files>>
         /\ range.start > range.end => db' = db
         /\ ~ (range.start > range.end) =>
              /\ DOMAIN db' = DOMAIN db
              /\ db'.geofeeds = Append(db.geofeeds, range)
              /\ db'.geofeedIndex
                    = db.geofeedIndex \cup IndexEntries(ToSet(RangePrefixes(range)),
                                                        Len(db.geofeeds) + 1)
              /\ Same(FileBuckets \ {"geofeeds", "geofeedIndex"})
<1>1. /\ phase = "geofeeds" /\ phase' = phase /\ at <= Len(input.geofeeds)
      /\ at' = at + 1 /\ UNCHANGED <<input, trie, files, asnRoutes>>
  BY DEF AddGeofeed, Row
<1>2. at \in 1 .. Len(input.geofeeds) /\ input.geofeeds[at] \in Ranges
  BY <1>1, InputFiles DEF ObjectsInv, PlaceInv
<1>3. DOMAIN db = DOMAIN EmptyDB
  BY DEF ObjectsInv
<1>4. QED
  BY <1>1, <1>2, <1>3, EmptyFields DEF AddGeofeed, Same, FileBuckets

\* What AddAutnum does: the row is the object of its number, if that has none yet.
LEMMA AutnumRead ==
  ASSUME ObjectsInv, PlaceInv, AddAutnum
  PROVE  LET row == input.autnums[at] IN
         /\ phase = "autnums" /\ phase' = "autnums"
         /\ at \in 1 .. Len(input.autnums) /\ at' = at + 1
         /\ UNCHANGED <<input, asnRoutes, trie, files>>
         /\ DOMAIN db' = DOMAIN db
         /\ db'.autnums = IF row.asn = NoNumber THEN db.autnums ELSE WithAutnum(db.autnums, row)
         /\ Same(FileBuckets \ {"autnums"})
<1>1. /\ phase = "autnums" /\ phase' = phase /\ at <= Len(input.autnums)
      /\ at' = at + 1 /\ UNCHANGED <<input, trie, files, asnRoutes>>
  BY DEF AddAutnum, Row
<1>2. at \in 1 .. Len(input.autnums)
  BY <1>1, InputFiles DEF ObjectsInv, PlaceInv
<1>3. DOMAIN db = DOMAIN EmptyDB
  BY DEF ObjectsInv
<1>4. QED
  BY <1>1, <1>2, <1>3, EmptyFields DEF AddAutnum, Same, FileBuckets

\* Every other step of a build keeps what has been read.
Deriving ==
  \/ EndOfFile \/ WriteASNRoutes \/ InsertRouteGroup \/ StoreRouteLPM
  \/ InsertObject("allocationLPM", "allocations")
  \/ StoreSelectionLPM("allocationLPM", "allocations", "geofeedLPM")
  \/ InsertObject("geofeedLPM", "geofeeds")
  \/ StoreSelectionLPM("geofeedLPM", "geofeeds", "summaries")
  \/ WriteSummaries \/ Sync \/ Compact \/ SyncCompact \/ Publish

\* No later step changes a table or an index.
LEMMA TablesKept ==
  ASSUME ObjectsInv, Deriving
  PROVE  UNCHANGED input /\ DOMAIN db' = DOMAIN db /\ Same(FileBuckets)
<1>1. DOMAIN db = DOMAIN EmptyDB
  BY DEF ObjectsInv
<1>2. CASE EndOfFile \/ InsertRouteGroup \/ Sync \/ Compact \/ SyncCompact \/ Publish
           \/ InsertObject("allocationLPM", "allocations")
           \/ InsertObject("geofeedLPM", "geofeeds")
  BY <1>2 DEF EndOfFile, InsertRouteGroup, Sync, Compact, SyncCompact, Publish, InsertObject,
              memory, Same
<1>3. CASE WriteASNRoutes \/ StoreRouteLPM \/ WriteSummaries
  BY <1>1, <1>3, EmptyFields DEF WriteASNRoutes, StoreRouteLPM, WriteSummaries, Same, FileBuckets
<1>4. CASE \/ StoreSelectionLPM("allocationLPM", "allocations", "geofeedLPM")
           \/ StoreSelectionLPM("geofeedLPM", "geofeeds", "summaries")
  BY <1>1, <1>4, EmptyFields DEF StoreSelectionLPM, Same, FileBuckets
<1>5. QED
  BY <1>2, <1>3, <1>4 DEF Deriving

\* A build that begins, and one that has ended, has nothing.
LEMMA NothingKept ==
  ASSUME Start \/ Cancel \/ Crash
  PROVE  UNCHANGED input /\ db' = EmptyDB /\ asnRoutes' = <<>> /\ at' = 1
BY DEF Start, Cancel, Crash, NothingBuilt

\* The steps of the specification by these cases.
LEMMA StepCases ==
  ASSUME [Next]_vars
  PROVE  \/ AddAllocation \/ AddRoute \/ AddGeofeed \/ AddAutnum
         \/ Deriving \/ Start \/ Cancel \/ Crash \/ UNCHANGED vars
BY DEF Next, Build, Deriving

-----------------------------------------------------------------------------
(* The steps keep the invariant *)

\* The steps keep the types of the tables.
LEMMA ObjectsStep ==
  ASSUME ObjectsInv, PlaceInv, [Next]_vars PROVE ObjectsInv'
<1>1. /\ IsInput(input) /\ DOMAIN db = DOMAIN EmptyDB
      /\ db.allocations \in Seq(Ranges) /\ db.routes \in Seq(StoredRoute)
      /\ db.geofeeds \in Seq(Ranges)
  BY DEF ObjectsInv
<1>2. CASE AddAllocation
  <2>1. input.allocations[at] \in Ranges /\ UNCHANGED input
    BY <1>2, AllocationAdded
  <2>2. \/ db' = db
        \/ /\ DOMAIN db' = DOMAIN db
           /\ db'.allocations = Append(db.allocations, input.allocations[at])
           /\ db'.routes = db.routes /\ db'.geofeeds = db.geofeeds
    BY <1>2, AllocationAdded DEF Same, FileBuckets
  <2>3. Append(db.allocations, input.allocations[at]) \in Seq(Ranges)
    BY <1>1, <2>1
  <2>4. QED
    BY <1>1, <2>1, <2>2, <2>3 DEF ObjectsInv
<1>3. CASE AddRoute
  <2> DEFINE route == [prefix |-> MaskedPrefix(input.routes[at].prefix),
                       origin |-> input.routes[at].origin]
  <2>1. UNCHANGED input
    BY <1>3, RouteAdded
  <2>2. \/ db' = db
        \/ /\ DOMAIN db' = DOMAIN db
           /\ route \in StoredRoute /\ db'.routes = Append(db.routes, route)
           /\ db'.allocations = db.allocations /\ db'.geofeeds = db.geofeeds
    BY <1>3, RouteAdded DEF Same, FileBuckets
  <2> HIDE DEF route
  <2>3. route \in StoredRoute => Append(db.routes, route) \in Seq(StoredRoute)
    BY <1>1
  <2>4. QED
    BY <1>1, <2>1, <2>2, <2>3 DEF ObjectsInv
<1>4. CASE AddGeofeed
  <2>1. input.geofeeds[at] \in Ranges /\ UNCHANGED input
    BY <1>4, GeofeedAdded
  <2>2. \/ db' = db
        \/ /\ DOMAIN db' = DOMAIN db
           /\ db'.geofeeds = Append(db.geofeeds, input.geofeeds[at])
           /\ db'.routes = db.routes /\ db'.allocations = db.allocations
    BY <1>4, GeofeedAdded DEF Same, FileBuckets
  <2>3. Append(db.geofeeds, input.geofeeds[at]) \in Seq(Ranges)
    BY <1>1, <2>1
  <2>4. QED
    BY <1>1, <2>1, <2>2, <2>3 DEF ObjectsInv
<1>5. CASE AddAutnum
  BY <1>1, <1>5, AutnumRead DEF ObjectsInv, Same, FileBuckets
<1>6. CASE Deriving
  BY <1>1, <1>6, TablesKept DEF ObjectsInv, Same, FileBuckets
<1>7. CASE Start \/ Cancel \/ Crash
  <2>1. <<>> \in Seq(Ranges) /\ <<>> \in Seq(StoredRoute)
    OBVIOUS
  <2>2. QED
    BY <1>1, <1>7, <2>1, NothingKept, EmptyFields DEF ObjectsInv
<1>8. CASE UNCHANGED vars
  BY <1>1, <1>8 DEF ObjectsInv, vars, memory
<1>9. QED
  BY <1>2, <1>3, <1>4, <1>5, <1>6, <1>7, <1>8, StepCases

\* The steps stay within the rows and groups they read.
LEMMA PlaceStep ==
  ASSUME ObjectsInv, PlaceInv, IndexInv, [Next]_vars PROVE PlaceInv'
<1>1. /\ at \in Nat \ {0} /\ IsInput(input)
      /\ \A kind \in {"allocations", "routes", "geofeeds", "autnums"} :
           phase = kind => at <= Len(input[kind]) + 1
      /\ phase = "routeLPM" => at <= Len(RouteGroups(db.routeIndex)) + 1
      /\ phase = "allocationLPM" => at <= Len(db.allocations) + 1
      /\ phase = "geofeedLPM" => at <= Len(db.geofeeds) + 1
  BY DEF PlaceInv, ObjectsInv
<1>2. /\ Len(input.allocations) \in Nat /\ Len(input.routes) \in Nat
      /\ Len(input.geofeeds) \in Nat /\ Len(input.autnums) \in Nat
      /\ Len(db.allocations) \in Nat /\ Len(db.geofeeds) \in Nat
  BY InputFiles DEF ObjectsInv
<1>3. \A kind \in {"allocations", "routes", "geofeeds", "autnums"} : Len(input[kind]) \in Nat
  BY <1>2
<1>4. phase \in Building => Len(RouteGroups(db.routeIndex)) \in Nat
  BY RouteIndexType, GroupsAreSequence DEF ObjectsInv, IndexInv
<1>5. CASE AddAllocation \/ AddRoute \/ AddGeofeed \/ AddAutnum
  BY <1>1, <1>5, AllocationAdded, RouteAdded, GeofeedAdded, AutnumRead DEF PlaceInv
<1>6. CASE Deriving
  <2>1. UNCHANGED <<input, db.allocations, db.geofeeds, db.routeIndex>>
    BY <1>6, TablesKept DEF Same, FileBuckets
  <2>2. CASE EndOfFile \/ WriteASNRoutes \/ StoreRouteLPM
             \/ StoreSelectionLPM("allocationLPM", "allocations", "geofeedLPM")
             \/ StoreSelectionLPM("geofeedLPM", "geofeeds", "summaries")
    <3>1. /\ at' = 1
          /\ phase' \in {"routes", "geofeeds", "autnums", "asnRoutes", "routeLPM",
                         "allocationLPM", "geofeedLPM", "summaries"}
          /\ phase' = "routeLPM" => phase = "asnRoutes"
      BY <2>2 DEF EndOfFile, WriteASNRoutes, StoreRouteLPM, StoreSelectionLPM
    <3>2. phase' = "routeLPM" => Len(RouteGroups(db.routeIndex)) \in Nat
      BY <1>4, <3>1 DEF Building, PastAllocations, PastRoutes, PastGeofeeds, PastAutnums
    <3>3. QED
      BY <1>2, <1>3, <2>1, <3>1, <3>2 DEF PlaceInv
  <2>3. CASE \/ InsertRouteGroup
             \/ InsertObject("allocationLPM", "allocations")
             \/ InsertObject("geofeedLPM", "geofeeds")
    <3>1. CASE InsertRouteGroup
      <4>1. /\ phase = "routeLPM" /\ at <= Len(RouteGroups(db.routeIndex))
            /\ \/ phase' = "failed" /\ at' = at
               \/ phase' = phase /\ at' = at + 1
        BY <3>1 DEF InsertRouteGroup
      <4>2. Len(RouteGroups(db.routeIndex)) \in Nat
        BY <1>4, <4>1
           DEF Building, PastAllocations, PastRoutes, PastGeofeeds, PastAutnums, PastASNRoutes
      <4>3. QED
        BY <1>1, <2>1, <4>1, <4>2 DEF PlaceInv
    <3>2. CASE InsertObject("allocationLPM", "allocations")
      BY <1>1, <1>2, <2>1, <3>2 DEF PlaceInv, InsertObject
    <3>3. CASE InsertObject("geofeedLPM", "geofeeds")
      BY <1>1, <1>2, <2>1, <3>3 DEF PlaceInv, InsertObject
    <3>4. QED
      BY <2>3, <3>1, <3>2, <3>3
  <2>4. CASE WriteSummaries \/ Sync \/ Compact \/ SyncCompact \/ Publish
    BY <1>1, <2>4 DEF PlaceInv, WriteSummaries, Sync, Compact, SyncCompact, Publish
  <2>5. QED
    BY <1>6, <2>2, <2>3, <2>4 DEF Deriving
<1>7. CASE Start \/ Cancel \/ Crash
  <2>1. /\ UNCHANGED input /\ at' = 1
        /\ phase' \in {"allocations", "cancelled", "start", "published"}
    BY <1>7 DEF Start, Cancel, Crash, NothingBuilt
  <2>2. QED
    BY <1>3, <2>1 DEF PlaceInv
<1>8. CASE UNCHANGED vars
  BY <1>1, <1>8 DEF PlaceInv, vars, memory
<1>9. QED
  BY <1>5, <1>6, <1>7, <1>8, StepCases

\* How much has been read after a row, and after the phases between.
LEMMA RowsRead ==
  ASSUME PlaceInv, NEW kind \in {"allocations", "routes", "geofeeds", "autnums"},
         UNCHANGED <<input, phase>>, phase = kind, at' = at + 1
  PROVE  /\ kind = "allocations" =>
              Read("allocations", PastAllocations) = at - 1
              /\ Read("allocations", PastAllocations)' = at
         /\ kind = "routes" =>
              Read("routes", PastRoutes) = at - 1 /\ Read("routes", PastRoutes)' = at
         /\ kind = "geofeeds" =>
              Read("geofeeds", PastGeofeeds) = at - 1 /\ Read("geofeeds", PastGeofeeds)' = at
         /\ kind = "autnums" =>
              Read("autnums", PastAutnums) = at - 1 /\ Read("autnums", PastAutnums)' = at
         /\ kind # "allocations" => UNCHANGED Read("allocations", PastAllocations)
         /\ kind # "routes" => UNCHANGED Read("routes", PastRoutes)
         /\ kind # "geofeeds" => UNCHANGED Read("geofeeds", PastGeofeeds)
         /\ kind # "autnums" => UNCHANGED Read("autnums", PastAutnums)
BY DEF Read, PlaceInv, PastAllocations, PastRoutes, PastGeofeeds, PastAutnums, PastASNRoutes,
       PastRouteLPM, PastAllocationLPM, PastGeofeedLPM, PastSummaries

\* A step that reads no row changes nothing about which rows were read.
LEMMA PhasesRead ==
  ASSUME ObjectsInv, PlaceInv, Deriving, phase' \in Building
  PROVE  /\ phase \in Building
         /\ UNCHANGED Read("allocations", PastAllocations)
         /\ UNCHANGED Read("routes", PastRoutes)
         /\ UNCHANGED Read("geofeeds", PastGeofeeds)
         /\ UNCHANGED Read("autnums", PastAutnums)
<1>1. /\ at \in Nat \ {0}
      /\ phase = "allocations" => at <= Len(input.allocations) + 1
      /\ phase = "routes" => at <= Len(input.routes) + 1
      /\ phase = "geofeeds" => at <= Len(input.geofeeds) + 1
      /\ phase = "autnums" => at <= Len(input.autnums) + 1
      /\ Len(input.allocations) \in Nat /\ Len(input.routes) \in Nat
      /\ Len(input.geofeeds) \in Nat /\ Len(input.autnums) \in Nat
  BY InputFiles DEF ObjectsInv, PlaceInv
<1>2. UNCHANGED input
  BY TablesKept
<1>3. CASE EndOfFile
  BY <1>1, <1>2, <1>3 DEF EndOfFile, Read, Building, PastAllocations, PastRoutes, PastGeofeeds,
       PastAutnums, PastASNRoutes, PastRouteLPM, PastAllocationLPM, PastGeofeedLPM, PastSummaries
<1>4. CASE ~ EndOfFile
  <2>1. phase \in PastAutnums /\ phase' \in PastAutnums
    BY <1>4 DEF Deriving, WriteASNRoutes, InsertRouteGroup, StoreRouteLPM, InsertObject,
       StoreSelectionLPM, WriteSummaries, Sync, Compact, SyncCompact, Publish, Building,
       PastAllocations, PastRoutes, PastGeofeeds, PastAutnums, PastASNRoutes, PastRouteLPM,
       PastAllocationLPM, PastGeofeedLPM, PastSummaries
  <2>2. QED
    BY <1>2, <2>1 DEF Read, Building, PastAllocations, PastRoutes, PastGeofeeds
<1>5. QED
  BY <1>3, <1>4

\* A row of ranges more.
LEMMA RangeKept ==
  ASSUME NEW rows \in Seq(Ranges), NEW n \in 1 .. Len(rows)
  PROVE  KeptRanges(rows)[n] = IF rows[n].start > rows[n].end THEN KeptRanges(rows)[n - 1]
                               ELSE Append(KeptRanges(rows)[n - 1], rows[n])
<1> DEFINE accepted == {i \in DOMAIN rows : rows[i].start <= rows[i].end}
<1>1. /\ Len(rows) \in Nat /\ DOMAIN rows = 1 .. Len(rows) /\ rows[n] \in Ranges
  OBVIOUS
<1>2. rows[n].start \in Int /\ rows[n].end \in Int
  <2>1. rows[n].start \in Addresses /\ rows[n].end \in Addresses
    BY <1>1 DEF Ranges
  <2>2. QED
    BY <2>1 DEF Addresses
<1>3. n \in accepted <=> ~ (rows[n].start > rows[n].end)
  BY <1>1, <1>2
<1> HIDE DEF accepted
<1>4. Kept(rows, accepted)[n] =
        IF n \in accepted THEN Append(Kept(rows, accepted)[n - 1], rows[n])
        ELSE Kept(rows, accepted)[n - 1]
  BY <1>1, KeptSteps
<1>5. QED
  BY <1>3, <1>4 DEF KeptRanges, accepted

\* A row of routes more.
LEMMA RouteKept ==
  ASSUME NEW rows, Len(rows) \in Nat, DOMAIN rows = 1 .. Len(rows), NEW n \in 1 .. Len(rows)
  PROVE  KeptRoutes(rows)[n] =
           IF rows[n].origin = NoOrigin THEN KeptRoutes(rows)[n - 1]
           ELSE Append(KeptRoutes(rows)[n - 1],
                       [prefix |-> MaskedPrefix(rows[n].prefix), origin |-> rows[n].origin])
<1> DEFINE accepted == {i \in DOMAIN rows : rows[i].origin # NoOrigin}
           objects == RouteObjects(rows)
<1>1. /\ DOMAIN objects = 1 .. Len(rows) /\ Len(objects) = Len(rows)
      /\ objects[n] = [prefix |-> MaskedPrefix(rows[n].prefix), origin |-> rows[n].origin]
  BY DEF RouteObjects
<1>2. n \in accepted <=> rows[n].origin # NoOrigin
  OBVIOUS
<1> HIDE DEF accepted, objects
<1>3. Kept(objects, accepted)[n] =
        IF n \in accepted THEN Append(Kept(objects, accepted)[n - 1], objects[n])
        ELSE Kept(objects, accepted)[n - 1]
  BY <1>1, KeptSteps
<1>4. QED
  BY <1>1, <1>2, <1>3 DEF KeptRoutes, accepted, objects

\* Before the first row.
LEMMA NothingRead ==
  ASSUME IsInput(input)
  PROVE  /\ KeptRanges(input.allocations)[0] = <<>>
         /\ KeptRoutes(input.routes)[0] = <<>>
         /\ KeptRanges(input.geofeeds)[0] = <<>>
         /\ FirstRowsUpto(<<>>, input.autnums, 0)
<1>1. /\ Len(input.allocations) \in Nat /\ Len(input.routes) \in Nat
      /\ Len(input.geofeeds) \in Nat /\ Len(RouteObjects(input.routes)) \in Nat
  BY InputFiles DEF RouteObjects
<1>2. QED
  BY <1>1, KeptSteps DEF KeptRanges, KeptRoutes, FirstRowsUpto

\* The tables hold the rows read so far.
LEMMA RowsStep ==
  ASSUME ObjectsInv, PlaceInv, RowsInv, [Next]_vars PROVE RowsInv'
<1> SUFFICES ASSUME phase' \in Building
             PROVE  /\ db'.allocations
                         = KeptRanges(input'.allocations)[Read("allocations", PastAllocations)']
                    /\ db'.routes = KeptRoutes(input'.routes)[Read("routes", PastRoutes)']
                    /\ db'.geofeeds
                         = KeptRanges(input'.geofeeds)[Read("geofeeds", PastGeofeeds)']
                    /\ FirstRowsUpto(db'.autnums, input'.autnums, Read("autnums", PastAutnums)')
  BY DEF RowsInv, FirstRowsUpto
<1> DEFINE allocations == Read("allocations", PastAllocations)
           routes == Read("routes", PastRoutes)
           geofeeds == Read("geofeeds", PastGeofeeds)
           autnums == Read("autnums", PastAutnums)
<1>1. phase \in Building =>
        /\ db.allocations = KeptRanges(input.allocations)[allocations]
        /\ db.routes      = KeptRoutes(input.routes)[routes]
        /\ db.geofeeds    = KeptRanges(input.geofeeds)[geofeeds]
        /\ FirstRowsUpto(db.autnums, input.autnums, autnums)
  BY DEF RowsInv
<1>2. IsInput(input)
  BY DEF ObjectsInv
<1>3. ASSUME phase = phase' PROVE phase \in Building
  BY <1>3
<1>4. CASE AddAllocation
  <2>1. /\ phase = "allocations" /\ UNCHANGED <<phase, input>> /\ at' = at + 1
        /\ at \in 1 .. Len(input.allocations)
    BY <1>4, AllocationAdded
  <2>2. /\ allocations = at - 1 /\ allocations' = at
        /\ UNCHANGED routes /\ UNCHANGED geofeeds /\ UNCHANGED autnums
    BY <2>1, RowsRead
  <2> HIDE DEF allocations, routes, geofeeds, autnums
  <2>3. /\ db'.routes = db.routes /\ db'.geofeeds = db.geofeeds /\ db'.autnums = db.autnums
        /\ db'.allocations = IF input.allocations[at].start > input.allocations[at].end
                             THEN db.allocations
                             ELSE Append(db.allocations, input.allocations[at])
    BY <1>4, AllocationAdded DEF Same, FileBuckets
  <2>4. db'.allocations = KeptRanges(input.allocations)[at]
    BY <1>1, <1>2, <1>3, <2>1, <2>2, <2>3, RangeKept, InputFiles
  <2>5. QED
    BY <1>1, <1>3, <2>1, <2>2, <2>3, <2>4 DEF allocations, routes, geofeeds, autnums
<1>5. CASE AddRoute
  <2>1. /\ phase = "routes" /\ UNCHANGED <<phase, input>> /\ at' = at + 1
        /\ at \in 1 .. Len(input.routes)
    BY <1>5, RouteAdded
  <2>2. /\ routes = at - 1 /\ routes' = at
        /\ UNCHANGED allocations /\ UNCHANGED geofeeds /\ UNCHANGED autnums
    BY <2>1, RowsRead
  <2> HIDE DEF allocations, routes, geofeeds, autnums
  <2>3. /\ db'.allocations = db.allocations /\ db'.geofeeds = db.geofeeds
        /\ db'.autnums = db.autnums
        /\ db'.routes = IF input.routes[at].origin = NoOrigin THEN db.routes
                        ELSE Append(db.routes,
                                    [prefix |-> MaskedPrefix(input.routes[at].prefix),
                                     origin |-> input.routes[at].origin])
    BY <1>5, RouteAdded DEF Same, FileBuckets
  <2>4. db'.routes = KeptRoutes(input.routes)[at]
    BY <1>1, <1>2, <1>3, <2>1, <2>2, <2>3, RouteKept, InputFiles
  <2>5. QED
    BY <1>1, <1>3, <2>1, <2>2, <2>3, <2>4 DEF allocations, routes, geofeeds, autnums
<1>6. CASE AddGeofeed
  <2>1. /\ phase = "geofeeds" /\ UNCHANGED <<phase, input>> /\ at' = at + 1
        /\ at \in 1 .. Len(input.geofeeds)
    BY <1>6, GeofeedAdded
  <2>2. /\ geofeeds = at - 1 /\ geofeeds' = at
        /\ UNCHANGED allocations /\ UNCHANGED routes /\ UNCHANGED autnums
    BY <2>1, RowsRead
  <2> HIDE DEF allocations, routes, geofeeds, autnums
  <2>3. /\ db'.allocations = db.allocations /\ db'.routes = db.routes
        /\ db'.autnums = db.autnums
        /\ db'.geofeeds = IF input.geofeeds[at].start > input.geofeeds[at].end
                          THEN db.geofeeds
                          ELSE Append(db.geofeeds, input.geofeeds[at])
    BY <1>6, GeofeedAdded DEF Same, FileBuckets
  <2>4. db'.geofeeds = KeptRanges(input.geofeeds)[at]
    BY <1>1, <1>2, <1>3, <2>1, <2>2, <2>3, RangeKept, InputFiles
  <2>5. QED
    BY <1>1, <1>3, <2>1, <2>2, <2>3, <2>4 DEF allocations, routes, geofeeds, autnums
<1>7. CASE AddAutnum
  <2>1. /\ phase = "autnums" /\ UNCHANGED <<phase, input>> /\ at' = at + 1
        /\ at \in 1 .. Len(input.autnums)
    BY <1>7, AutnumRead
  <2>2. /\ autnums = at - 1 /\ autnums' = at
        /\ UNCHANGED allocations /\ UNCHANGED routes /\ UNCHANGED geofeeds
    BY <2>1, RowsRead
  <2> HIDE DEF allocations, routes, geofeeds, autnums
  <2>3. /\ db'.allocations = db.allocations /\ db'.routes = db.routes
        /\ db'.geofeeds = db.geofeeds
        /\ db'.autnums = IF input.autnums[at].asn = NoNumber THEN db.autnums
                         ELSE WithAutnum(db.autnums, input.autnums[at])
    BY <1>7, AutnumRead DEF Same, FileBuckets
  <2>4. at - 1 \in Nat /\ (at - 1) + 1 = at /\ FirstRowsUpto(db.autnums, input.autnums, at - 1)
    BY <1>1, <1>3, <2>1, <2>2
  <2>5. FirstRowsUpto(db'.autnums, input.autnums, at)
    BY <2>3, <2>4, AutnumAdded
  <2>6. QED
    BY <1>1, <1>3, <2>1, <2>2, <2>3, <2>5 DEF allocations, routes, geofeeds, autnums
<1>8. CASE Deriving
  <2>1. /\ phase \in Building
        /\ allocations' = allocations /\ routes' = routes /\ geofeeds' = geofeeds
        /\ autnums' = autnums
    BY <1>8, PhasesRead
  <2>2. /\ UNCHANGED input /\ db'.allocations = db.allocations /\ db'.routes = db.routes
        /\ db'.geofeeds = db.geofeeds /\ db'.autnums = db.autnums
    BY <1>8, TablesKept DEF Same, FileBuckets
  <2> HIDE DEF allocations, routes, geofeeds, autnums
  <2>3. QED
    BY <1>1, <2>1, <2>2 DEF allocations, routes, geofeeds, autnums
<1>9. CASE Start \/ Cancel \/ Crash
  <2>1. UNCHANGED input /\ db' = EmptyDB /\ at' = 1
    BY <1>9, NothingKept
  <2>2. phase' = "allocations"
    BY <1>9 DEF Start, Cancel, Crash, Building, PastAllocations, PastRoutes, PastGeofeeds,
       PastAutnums, PastASNRoutes, PastRouteLPM, PastAllocationLPM, PastGeofeedLPM,
       PastSummaries
  <2>3. allocations' = 0 /\ routes' = 0 /\ geofeeds' = 0 /\ autnums' = 0
    BY <2>1, <2>2
       DEF Read, PastAllocations, PastRoutes, PastGeofeeds,
       PastAutnums, PastASNRoutes, PastRouteLPM, PastAllocationLPM, PastGeofeedLPM,
       PastSummaries
  <2> HIDE DEF allocations, routes, geofeeds, autnums
  <2>4. QED
    BY <1>2, <2>1, <2>3, NothingRead, EmptyFields DEF allocations, routes, geofeeds, autnums
<1>10. CASE UNCHANGED vars
  <2>1. UNCHANGED <<phase, at, input, db>>
    BY <1>10 DEF vars, memory
  <2>2. allocations' = allocations /\ routes' = routes /\ geofeeds' = geofeeds
        /\ autnums' = autnums
    BY <2>1 DEF Read
  <2> HIDE DEF allocations, routes, geofeeds, autnums
  <2>3. QED
    BY <1>1, <1>3, <2>1, <2>2 DEF allocations, routes, geofeeds, autnums
<1>11. QED
  BY <1>4, <1>5, <1>6, <1>7, <1>8, <1>9, <1>10, StepCases

\* The indexes hold the prefixes of the rows in the tables.
LEMMA IndexStep ==
  ASSUME ObjectsInv, PlaceInv, IndexInv, [Next]_vars PROVE IndexInv'
<1> SUFFICES ASSUME phase' \in Building
             PROVE  /\ db'.allocationIndex = RangeEntries(db'.allocations)
                    /\ db'.geofeedIndex = RangeEntries(db'.geofeeds)
                    /\ db'.routeIndex = RouteEntries(db'.routes)
                    /\ db'.allocationRange = RangeKeys(db'.allocations)
                    /\ db'.routeRange = RouteKeys(db'.routes)
  BY DEF IndexInv
<1>1. phase \in Building =>
        /\ db.allocationIndex = RangeEntries(db.allocations)
        /\ db.geofeedIndex    = RangeEntries(db.geofeeds)
        /\ db.routeIndex      = RouteEntries(db.routes)
        /\ db.allocationRange = RangeKeys(db.allocations)
        /\ db.routeRange      = RouteKeys(db.routes)
  BY DEF IndexInv
<1>2. /\ db.allocations \in Seq(Ranges) /\ db.routes \in Seq(StoredRoute)
      /\ db.geofeeds \in Seq(Ranges)
  BY DEF ObjectsInv
<1>3. CASE AddAllocation
  <2> DEFINE range == input.allocations[at]
  <2>1. phase \in Building /\ range \in Ranges
    BY <1>3, AllocationAdded DEF Building
  <2>2. /\ db'.geofeedIndex = db.geofeedIndex /\ db'.geofeeds = db.geofeeds
        /\ db'.routeIndex = db.routeIndex /\ db'.routes = db.routes
        /\ db'.routeRange = db.routeRange
    BY <1>3, AllocationAdded DEF Same, FileBuckets
  <2>3. \/ db' = db
        \/ /\ db'.allocations = Append(db.allocations, range)
           /\ db'.allocationRange
                = db.allocationRange \cup {RangeKey(range, Len(db.allocations) + 1)}
           /\ db'.allocationIndex
                = db.allocationIndex \cup IndexEntries(ToSet(RangePrefixes(range)),
                                                       Len(db.allocations) + 1)
    BY <1>3, AllocationAdded
  <2> HIDE DEF range
  <2>4. QED
    BY <1>1, <1>2, <2>1, <2>2, <2>3, RangeAppended
<1>4. CASE AddRoute
  <2> DEFINE route == [prefix |-> MaskedPrefix(input.routes[at].prefix),
                       origin |-> input.routes[at].origin]
  <2>1. phase \in Building
    BY <1>4, RouteAdded DEF Building, PastAllocations
  <2>2. /\ db'.geofeedIndex = db.geofeedIndex /\ db'.geofeeds = db.geofeeds
        /\ db'.allocationIndex = db.allocationIndex /\ db'.allocations = db.allocations
        /\ db'.allocationRange = db.allocationRange
    BY <1>4, RouteAdded DEF Same, FileBuckets
  <2>3. \/ db' = db
        \/ /\ route \in StoredRoute
           /\ db'.routes = Append(db.routes, route)
           /\ db'.routeRange
                = db.routeRange \cup {RangeKey(PrefixRange(route.prefix), Len(db.routes) + 1)}
           /\ db'.routeIndex
                = db.routeIndex \cup IndexEntries({route.prefix}, Len(db.routes) + 1)
    BY <1>4, RouteAdded
  <2> HIDE DEF route
  <2>4. QED
    BY <1>1, <1>2, <2>1, <2>2, <2>3, RouteAppended
<1>5. CASE AddGeofeed
  <2> DEFINE range == input.geofeeds[at]
  <2>1. phase \in Building /\ range \in Ranges
    BY <1>5, GeofeedAdded DEF Building, PastAllocations, PastRoutes
  <2>2. /\ db'.allocationIndex = db.allocationIndex /\ db'.allocations = db.allocations
        /\ db'.allocationRange = db.allocationRange
        /\ db'.routeIndex = db.routeIndex /\ db'.routes = db.routes
        /\ db'.routeRange = db.routeRange
    BY <1>5, GeofeedAdded DEF Same, FileBuckets
  <2>3. \/ db' = db
        \/ /\ db'.geofeeds = Append(db.geofeeds, range)
           /\ db'.geofeedIndex
                = db.geofeedIndex \cup IndexEntries(ToSet(RangePrefixes(range)),
                                                    Len(db.geofeeds) + 1)
    BY <1>5, GeofeedAdded
  <2> HIDE DEF range
  <2>4. QED
    BY <1>1, <1>2, <2>1, <2>2, <2>3, RangeAppended
<1>6. CASE AddAutnum
  <2>1. phase \in Building
    BY <1>6, AutnumRead DEF Building, PastAllocations, PastRoutes, PastGeofeeds
  <2>2. QED
    BY <1>1, <1>6, <2>1, AutnumRead DEF Same, FileBuckets
<1>7. CASE Deriving
  <2>1. phase \in Building
    BY <1>7, PhasesRead
  <2>2. QED
    BY <1>1, <1>7, <2>1, TablesKept DEF Same, FileBuckets
<1>8. CASE Start \/ Cancel \/ Crash
  BY <1>8, NothingKept, EmptyFields, RangeEntriesEmpty, RouteEntriesEmpty
<1>9. CASE UNCHANGED vars
  BY <1>1, <1>9 DEF vars, memory
<1>10. QED
  BY <1>3, <1>4, <1>5, <1>6, <1>7, <1>8, <1>9, StepCases

\* The lists name the routes of each origin.
LEMMA ListsStep ==
  ASSUME ObjectsInv, PlaceInv, ListsInv, [Next]_vars PROVE ListsInv'
<1> SUFFICES /\ phase' \in Building \ PastASNRoutes => ASNLists(asnRoutes', db'.routes)
             /\ phase' \in PastASNRoutes => ASNLists(db'.asnRoutes, db'.routes)
  BY DEF ListsInv, ASNLists
<1>1. /\ phase \in Building \ PastASNRoutes => ASNLists(asnRoutes, db.routes)
      /\ phase \in PastASNRoutes => ASNLists(db.asnRoutes, db.routes)
  BY DEF ListsInv
<1>2. DOMAIN db = DOMAIN EmptyDB /\ db.routes \in Seq(StoredRoute)
  BY DEF ObjectsInv
<1>3. CASE AddAllocation \/ AddGeofeed \/ AddAutnum
  <2>1. /\ phase' = phase /\ phase \in {"allocations", "geofeeds", "autnums"}
        /\ asnRoutes' = asnRoutes
        /\ db'.routes = db.routes
    BY <1>3, AllocationAdded, GeofeedAdded, AutnumRead DEF Same, FileBuckets
  <2>2. {"allocations", "geofeeds", "autnums"} \subseteq Building \ PastASNRoutes
    BY DEF Building, PastAllocations, PastRoutes, PastGeofeeds, PastAutnums, PastASNRoutes,
           PastRouteLPM, PastAllocationLPM, PastGeofeedLPM, PastSummaries
  <2>3. QED
    BY <1>1, <2>1, <2>2
<1>4. CASE AddRoute
  <2> DEFINE asn == input.routes[at].origin
             route == [prefix |-> MaskedPrefix(input.routes[at].prefix), origin |-> asn]
  <2>1. phase' = phase /\ phase = "routes"
    BY <1>4, RouteAdded
  <2>2. "routes" \in Building \ PastASNRoutes
    BY DEF Building, PastAllocations, PastRoutes, PastGeofeeds, PastAutnums, PastASNRoutes,
           PastRouteLPM, PastAllocationLPM, PastGeofeedLPM, PastSummaries
  <2>3. \/ db' = db /\ asnRoutes' = asnRoutes
        \/ /\ route \in StoredRoute
           /\ db'.routes = Append(db.routes, route)
           /\ asnRoutes' = IF route.origin = NoNumber THEN asnRoutes
                           ELSE Listed(asnRoutes, route.origin, Len(db.routes) + 1)
    BY <1>4, RouteAdded
  <2> HIDE DEF route, asn
  <2>4. ASNLists(asnRoutes, db.routes)
    BY <1>1, <2>1, <2>2
  <2>5. route \in StoredRoute =>
          ASNLists(IF route.origin = NoNumber THEN asnRoutes
                ELSE Listed(asnRoutes, route.origin, Len(db.routes) + 1),
                Append(db.routes, route))
    BY <1>2, <2>4, RouteListed
  <2>6. ASNLists(asnRoutes', db'.routes)
    BY <2>3, <2>4, <2>5
  <2>7. QED
    BY <2>1, <2>2, <2>6
<1>5. CASE Deriving
  <2>1. db'.routes = db.routes
    BY <1>5, TablesKept DEF Same, FileBuckets
  <2>2. CASE EndOfFile
    <3>1. UNCHANGED <<asnRoutes, db>>
      BY <2>2 DEF EndOfFile, memory
    <3>2. phase \in Building \ PastASNRoutes /\ phase' \in Building \ PastASNRoutes
      BY <2>2 DEF EndOfFile, Building, PastAllocations, PastRoutes, PastGeofeeds, PastAutnums,
           PastASNRoutes, PastRouteLPM, PastAllocationLPM, PastGeofeedLPM, PastSummaries
    <3>3. QED
      BY <1>1, <3>1, <3>2
  <2>3. CASE WriteASNRoutes
    <3>1. /\ phase = "asnRoutes" /\ phase' = "routeLPM" /\ db'.asnRoutes = asnRoutes
      BY <1>2, <2>3, EmptyFields DEF WriteASNRoutes
    <3>2. phase \in Building \ PastASNRoutes /\ phase' \in PastASNRoutes
      BY <3>1 DEF Building, PastAllocations, PastRoutes, PastGeofeeds, PastAutnums,
           PastASNRoutes, PastRouteLPM, PastAllocationLPM, PastGeofeedLPM, PastSummaries
    <3>3. QED
      BY <1>1, <2>1, <3>1, <3>2
  <2>4. CASE ~ EndOfFile /\ ~ WriteASNRoutes
    <3>1. db'.asnRoutes = db.asnRoutes
      BY <1>2, <1>5, <2>4, EmptyFields DEF Deriving, InsertRouteGroup, StoreRouteLPM,
           InsertObject, StoreSelectionLPM, WriteSummaries, Sync, Compact, SyncCompact, Publish,
           memory
    <3>2. phase \in PastASNRoutes /\ phase' \notin Building \ PastASNRoutes
      BY <1>5, <2>4 DEF Deriving, InsertRouteGroup, StoreRouteLPM,
           InsertObject, StoreSelectionLPM, WriteSummaries, Sync, Compact, SyncCompact, Publish,
           Building, PastAllocations, PastRoutes, PastGeofeeds, PastAutnums,
           PastASNRoutes, PastRouteLPM, PastAllocationLPM, PastGeofeedLPM, PastSummaries
    <3>3. QED
      BY <1>1, <2>1, <3>1, <3>2
  <2>5. QED
    BY <2>2, <2>3, <2>4
<1>6. CASE Start \/ Cancel \/ Crash
  <2>1. db' = EmptyDB /\ asnRoutes' = <<>>
    BY <1>6, NothingKept
  <2>2. phase' \notin PastASNRoutes
    BY <1>6 DEF Start, Cancel, Crash,
           PastASNRoutes, PastRouteLPM, PastAllocationLPM, PastGeofeedLPM, PastSummaries
  <2>3. ASNLists(<<>>, <<>>)
    BY DEF ASNLists
  <2>4. QED
    BY <2>1, <2>2, <2>3, EmptyFields
<1>7. CASE UNCHANGED vars
  <2>1. UNCHANGED <<phase, asnRoutes, db>>
    BY <1>7 DEF vars, memory
  <2>2. QED
    BY <1>1, <2>1
<1>8. QED
  BY <1>3, <1>4, <1>5, <1>6, <1>7, StepCases

\* A group more, and a record more.
LEMMA TriesGrow ==
  /\ \A groups : Len(groups) \in Nat =>
       /\ RouteTrie(groups)[0] = EmptyTrie(NoRoutes)
       /\ \A n \in 1 .. Len(groups) :
            RouteTrie(groups)[n]
              = InsertRoutes(RouteTrie(groups)[n - 1], groups[n].prefix, groups[n].ids)
  /\ \A ranges : Len(ranges) \in Nat =>
       /\ SelectionTrie(ranges)[0] = EmptyTrie(NoCandidate)
       /\ \A n \in 1 .. Len(ranges) :
            SelectionTrie(ranges)[n] = InsertRange(SelectionTrie(ranges)[n - 1], ranges[n], n)
BY RouteTrieSteps, SelectionTrieSteps

\* The tries hold the groups and the records inserted so far.
LEMMA TriesStep ==
  ASSUME ObjectsInv, PlaceInv, IndexInv, TriesInv, [Next]_vars PROVE TriesInv'
<1> DEFINE groups == RouteGroups(db.routeIndex)
<1> USE DEF PastRouteLPM, PastAllocationLPM, PastGeofeedLPM, PastSummaries
<1>1. /\ phase = "routeLPM" => trie = RouteTrie(groups)[at - 1]
      /\ phase = "allocationLPM" => trie = SelectionTrie(db.allocations)[at - 1]
      /\ phase = "geofeedLPM" => trie = SelectionTrie(db.geofeeds)[at - 1]
      /\ phase \in PastRouteLPM => db.routeLPM = RouteTrie(groups)[Len(groups)]
      /\ phase \in PastAllocationLPM
           => db.allocationLPM = SelectionTrie(db.allocations)[Len(db.allocations)]
      /\ phase \in PastGeofeedLPM
           => db.geofeedLPM = SelectionTrie(db.geofeeds)[Len(db.geofeeds)]
      /\ phase \in PastSummaries => DOMAIN db.summaries = Buckets(0 .. DeepestLevel)
  BY DEF TriesInv
<1> SUFFICES
      /\ phase' = "routeLPM" => trie' = RouteTrie(groups')[at' - 1]
      /\ phase' = "allocationLPM" => trie' = SelectionTrie(db'.allocations)[at' - 1]
      /\ phase' = "geofeedLPM" => trie' = SelectionTrie(db'.geofeeds)[at' - 1]
      /\ phase' \in PastRouteLPM => db'.routeLPM = RouteTrie(groups')[Len(groups')]
      /\ phase' \in PastAllocationLPM
           => db'.allocationLPM = SelectionTrie(db'.allocations)[Len(db'.allocations)]
      /\ phase' \in PastGeofeedLPM
           => db'.geofeedLPM = SelectionTrie(db'.geofeeds)[Len(db'.geofeeds)]
      /\ phase' \in PastSummaries => DOMAIN db'.summaries = Buckets(0 .. DeepestLevel)
  BY DEF TriesInv
<1>2. /\ at \in Nat \ {0}
      /\ phase = "routeLPM" => at <= Len(groups) + 1
      /\ phase = "allocationLPM" => at <= Len(db.allocations) + 1
      /\ phase = "geofeedLPM" => at <= Len(db.geofeeds) + 1
      /\ Len(db.allocations) \in Nat /\ Len(db.geofeeds) \in Nat
      /\ DOMAIN db = DOMAIN EmptyDB
  BY DEF PlaceInv, ObjectsInv
<1>3. phase \in {"asnRoutes", "routeLPM"} => Len(groups) \in Nat
  BY RouteIndexType, GroupsAreSequence
     DEF ObjectsInv, IndexInv, Building, PastAllocations, PastRoutes, PastGeofeeds,
         PastAutnums, PastASNRoutes
<1>4. CASE AddAllocation \/ AddRoute \/ AddGeofeed \/ AddAutnum \/ Start \/ Cancel \/ Crash
  <2>1. phase' \in {"allocations", "routes", "geofeeds", "autnums", "cancelled", "start",
                    "published"}
    BY <1>4, AllocationAdded, RouteAdded, GeofeedAdded, AutnumRead DEF Start, Cancel, Crash
  <2>2. QED
    BY <2>1
<1>5. CASE UNCHANGED vars
  BY <1>1, <1>5 DEF vars, memory
<1>6. CASE Deriving
  <2>1. /\ groups' = groups
        /\ db'.allocations = db.allocations /\ db'.geofeeds = db.geofeeds
    BY <1>6, TablesKept DEF Same, FileBuckets
  <2> HIDE DEF groups
  <2>2. CASE EndOfFile
    BY <2>2 DEF EndOfFile
  <2>3. CASE WriteASNRoutes
    <3>1. /\ phase = "asnRoutes" /\ phase' = "routeLPM" /\ at' = 1
          /\ trie' = EmptyTrie(NoRoutes)
      BY <2>3 DEF WriteASNRoutes
    <3>2. RouteTrie(groups)[0] = EmptyTrie(NoRoutes)
      BY <1>3, <3>1, TriesGrow
    <3>3. QED
      BY <2>1, <3>1, <3>2
  <2>4. CASE InsertRouteGroup
    <3>1. /\ phase = "routeLPM" /\ at <= Len(groups)
          /\ \/ phase' = "failed"
             \/ /\ phase' = phase /\ at' = at + 1
                /\ trie' = InsertRoutes(trie, groups[at].prefix, groups[at].ids)
      BY <2>4 DEF InsertRouteGroup, groups
    <3>2. at \in 1 .. Len(groups)
      BY <1>2, <1>3, <3>1
    <3>3. RouteTrie(groups)[at]
            = InsertRoutes(RouteTrie(groups)[at - 1], groups[at].prefix, groups[at].ids)
      BY <1>3, <3>1, <3>2, TriesGrow
    <3>4. QED
      BY <1>1, <1>2, <2>1, <3>1, <3>3
  <2>5. CASE StoreRouteLPM
    <3>1. /\ phase = "routeLPM" /\ at > Len(groups) /\ phase' = "allocationLPM" /\ at' = 1
          /\ db'.routeLPM = trie /\ trie' = EmptyTrie(NoCandidate)
      BY <1>2, <2>5, EmptyFields DEF StoreRouteLPM, groups
    <3>2. at - 1 = Len(groups)
      BY <1>2, <1>3, <3>1
    <3>3. SelectionTrie(db.allocations)[0] = EmptyTrie(NoCandidate)
      BY <1>2, TriesGrow
    <3>4. QED
      BY <1>1, <2>1, <3>1, <3>2, <3>3
  <2>6. CASE InsertObject("allocationLPM", "allocations")
    <3>1. /\ phase = "allocationLPM" /\ at <= Len(db.allocations)
          /\ phase' = phase /\ at' = at + 1 /\ db' = db
          /\ trie' = InsertRange(trie, db.allocations[at], at)
      BY <2>6 DEF InsertObject
    <3>2. SelectionTrie(db.allocations)[at]
            = InsertRange(SelectionTrie(db.allocations)[at - 1], db.allocations[at], at)
      BY <1>2, <3>1, TriesGrow
    <3>3. QED
      BY <1>1, <1>2, <2>1, <3>1, <3>2
  <2>7. CASE InsertObject("geofeedLPM", "geofeeds")
    <3>1. /\ phase = "geofeedLPM" /\ at <= Len(db.geofeeds)
          /\ phase' = phase /\ at' = at + 1 /\ db' = db
          /\ trie' = InsertRange(trie, db.geofeeds[at], at)
      BY <2>7 DEF InsertObject
    <3>2. SelectionTrie(db.geofeeds)[at]
            = InsertRange(SelectionTrie(db.geofeeds)[at - 1], db.geofeeds[at], at)
      BY <1>2, <3>1, TriesGrow
    <3>3. QED
      BY <1>1, <1>2, <2>1, <3>1, <3>2
  <2>8. CASE StoreSelectionLPM("allocationLPM", "allocations", "geofeedLPM")
    <3>1. /\ phase = "allocationLPM" /\ at > Len(db.allocations)
          /\ phase' = "geofeedLPM" /\ at' = 1
          /\ db'.allocationLPM = trie /\ trie' = EmptyTrie(NoCandidate)
          /\ db'.routeLPM = db.routeLPM
      BY <1>2, <2>8, EmptyFields DEF StoreSelectionLPM
    <3>2. at - 1 = Len(db.allocations)
      BY <1>2, <3>1
    <3>3. SelectionTrie(db.geofeeds)[0] = EmptyTrie(NoCandidate)
      BY <1>2, TriesGrow
    <3>4. QED
      BY <1>1, <2>1, <3>1, <3>2, <3>3
  <2>9. CASE StoreSelectionLPM("geofeedLPM", "geofeeds", "summaries")
    <3>1. /\ phase = "geofeedLPM" /\ at > Len(db.geofeeds)
          /\ phase' = "summaries"
          /\ db'.geofeedLPM = trie
          /\ db'.routeLPM = db.routeLPM /\ db'.allocationLPM = db.allocationLPM
      BY <1>2, <2>9, EmptyFields DEF StoreSelectionLPM
    <3>2. at - 1 = Len(db.geofeeds)
      BY <1>2, <3>1
    <3>3. QED
      BY <1>1, <2>1, <3>1, <3>2
  <2>10. CASE WriteSummaries
    <3>1. /\ phase = "summaries" /\ phase' = "sync"
          /\ db'.summaries = [prefix \in Buckets(0 .. DeepestLevel) |-> SummaryForPrefix(prefix)]
          /\ db'.routeLPM = db.routeLPM /\ db'.allocationLPM = db.allocationLPM
          /\ db'.geofeedLPM = db.geofeedLPM
      BY <1>2, <2>10, EmptyFields DEF WriteSummaries
    <3>2. DOMAIN db'.summaries = Buckets(0 .. DeepestLevel)
      BY <3>1
    <3>3. QED
      BY <1>1, <2>1, <3>1, <3>2
  <2>11. CASE Sync \/ Compact \/ SyncCompact \/ Publish
    BY <1>1, <2>1, <2>11 DEF Sync, Compact, SyncCompact, Publish, memory
  <2>12. QED
    BY <1>6, <2>2, <2>3, <2>4, <2>5, <2>6, <2>7, <2>8, <2>9, <2>10, <2>11 DEF Deriving
<1>7. QED
  BY <1>4, <1>5, <1>6, StepCases

\* The file that Publish renames holds what was built, on disk.
LEMMA FilesStep ==
  ASSUME ObjectsInv, PlaceInv, FilesInv, [Next]_vars PROVE FilesInv'
<1>1. /\ phase \in {"compact", "syncCompact"} => input.compact /\ raw = Holding(db, TRUE)
      /\ phase = "syncCompact" => compacted = Holding(db, FALSE)
      /\ phase = "rename" => (IF input.compact THEN compacted ELSE raw) = Holding(db, TRUE)
  BY DEF FilesInv
<1> SUFFICES
      /\ phase' \in {"compact", "syncCompact"} => input'.compact /\ raw' = Holding(db', TRUE)
      /\ phase' = "syncCompact" => compacted' = Holding(db', FALSE)
      /\ phase' = "rename" => (IF input'.compact THEN compacted' ELSE raw') = Holding(db', TRUE)
  BY DEF FilesInv, Holding
<1>2. CASE AddAllocation \/ AddRoute \/ AddGeofeed \/ AddAutnum \/ Start \/ Cancel \/ Crash
  <2>1. phase' \in {"allocations", "routes", "geofeeds", "autnums", "cancelled", "start",
                    "published"}
    BY <1>2, AllocationAdded, RouteAdded, GeofeedAdded, AutnumRead DEF Start, Cancel, Crash
  <2>2. QED
    BY <2>1
<1>3. CASE UNCHANGED vars
  BY <1>1, <1>3 DEF vars, memory, files
<1>4. CASE Sync
  BY <1>4 DEF Sync, memory
<1>5. CASE Compact
  <2>1. /\ phase = "compact" /\ phase' = "syncCompact" /\ UNCHANGED <<input, db, raw>>
        /\ compacted' = Holding(raw.content, FALSE)
    BY <1>5 DEF Compact, memory
  <2>2. raw.content = db
    BY <1>1, <2>1 DEF Holding
  <2>3. QED
    BY <1>1, <2>1, <2>2
<1>6. CASE SyncCompact
  <2>1. /\ phase = "syncCompact" /\ phase' = "rename" /\ UNCHANGED <<input, db, raw>>
        /\ compacted' = [compacted EXCEPT !.synced = TRUE]
    BY <1>6 DEF SyncCompact, memory
  <2>2. compacted = [is |-> "data", content |-> db, synced |-> FALSE] /\ input.compact
    BY <1>1, <2>1 DEF Holding
  <2>3. compacted' = [is |-> "data", content |-> db, synced |-> TRUE]
    BY <2>1, <2>2
  <2>4. compacted' = Holding(db, TRUE)
    BY <2>3 DEF Holding
  <2>5. QED
    BY <2>1, <2>2, <2>4
<1>7. CASE Deriving /\ ~ Sync /\ ~ Compact /\ ~ SyncCompact
  BY <1>7 DEF Deriving, EndOfFile, WriteASNRoutes, InsertRouteGroup, StoreRouteLPM, InsertObject,
       StoreSelectionLPM, WriteSummaries, Publish
<1>8. QED
  BY <1>2, <1>3, <1>4, <1>5, <1>6, <1>7, StepCases

\* A database that is ready to be renamed is the dataset of its files.
LEMMA ReadyIsDataset ==
  ASSUME ObjectsInv, RowsInv, IndexInv, ListsInv, TriesInv, phase = "rename"
  PROVE  IsDatasetOf(db, input)
<1>1. /\ phase \in Building /\ phase \in PastAllocations /\ phase \in PastRoutes
      /\ phase \in PastGeofeeds /\ phase \in PastAutnums /\ phase \in PastASNRoutes
      /\ phase \in PastRouteLPM /\ phase \in PastAllocationLPM /\ phase \in PastGeofeedLPM
      /\ phase \in PastSummaries
  BY DEF Building, PastAllocations, PastRoutes, PastGeofeeds, PastAutnums, PastASNRoutes,
         PastRouteLPM, PastAllocationLPM, PastGeofeedLPM, PastSummaries
<1>2. /\ db.allocations = KeptRanges(input.allocations)[Len(input.allocations)]
      /\ db.routes      = KeptRoutes(input.routes)[Len(input.routes)]
      /\ db.geofeeds    = KeptRanges(input.geofeeds)[Len(input.geofeeds)]
      /\ FirstRowsUpto(db.autnums, input.autnums, Len(input.autnums))
  BY <1>1 DEF RowsInv, Read
<1>3. FirstRows(db.autnums, input.autnums)
  <2>1. DOMAIN input.autnums = 1 .. Len(input.autnums)
    BY InputFiles DEF ObjectsInv
  <2>2. QED
    BY <1>2, <2>1 DEF FirstRowsUpto, FirstRows
<1>4. QED
  BY <1>1, <1>2, <1>3 DEF IsDatasetOf, IndexInv, ListsInv, TriesInv

\* The published file is replaced by another whole one, or stays.
LEMMA OutputStep ==
  ASSUME BuildInv, [Next]_vars PROVE OutputInv'
<1>1. \/ output = NoFile
      \/ output = Holding(output.content, TRUE) /\ IsDatasetOf(output.content, input)
  BY DEF BuildInv, OutputInv
<1>2. UNCHANGED input
  BY StepCases, AllocationAdded, RouteAdded, GeofeedAdded, AutnumRead, TablesKept, NothingKept
     DEF vars, BuildInv
<1>3. CASE Publish
  <2>1. phase = "rename" /\ output' = IF input.compact THEN compacted ELSE raw
    BY <1>3 DEF Publish
  <2>2. output' = Holding(db, TRUE)
    BY <2>1 DEF BuildInv, FilesInv
  <2>3. IsDatasetOf(db, input)
    BY <2>1, ReadyIsDataset DEF BuildInv
  <2>4. output'.content = db
    BY <2>2 DEF Holding
  <2>5. QED
    BY <1>2, <2>2, <2>3, <2>4 DEF OutputInv
<1>4. CASE Crash
  <2>1. output' = AfterCrash(output)
    BY <1>4 DEF Crash
  <2>2. output' = output
    BY <1>1, <2>1 DEF AfterCrash, Holding, NoFile
  <2>3. QED
    BY <1>1, <1>2, <2>2 DEF OutputInv
<1>5. CASE ~ Publish /\ ~ Crash
  <2>1. output' = output
    BY <1>5, StepCases, AllocationAdded, RouteAdded, GeofeedAdded, AutnumRead
       DEF BuildInv, Deriving, EndOfFile, WriteASNRoutes, InsertRouteGroup, StoreRouteLPM,
           InsertObject, StoreSelectionLPM, WriteSummaries, Sync, Compact, SyncCompact,
           Start, Cancel, files, vars
  <2>2. QED
    BY <1>1, <1>2, <2>1 DEF OutputInv
<1>6. QED
  BY <1>3, <1>4, <1>5

\* A range more that ends after it starts.
LEMMA OrderedAppended ==
  ASSUME NEW ranges \in Seq(Ranges), NEW range \in Ranges, ~ (range.start > range.end),
         \A id \in DOMAIN ranges : ranges[id].start <= ranges[id].end,
         NEW id \in DOMAIN Append(ranges, range)
  PROVE  Append(ranges, range)[id].start <= Append(ranges, range)[id].end
<1> DEFINE more == Append(ranges, range)
<1>1. /\ DOMAIN more = (DOMAIN ranges) \cup {Len(ranges) + 1}
      /\ \A i \in DOMAIN ranges : more[i] = ranges[i]
      /\ more[Len(ranges) + 1] = range
  OBVIOUS
<1> HIDE DEF more
<1>2. range.start <= range.end
  <2>1. range.start \in Int /\ range.end \in Int
    BY DEF Ranges, Addresses
  <2>2. QED
    BY <2>1
<1>3. QED
  BY <1>1, <1>2 DEF more

\* No step stores a range that ends before it starts.
LEMMA OrderedStep ==
  ASSUME ObjectsInv, PlaceInv, OrderedInv, [Next]_vars PROVE OrderedInv'
<1>1. /\ db.allocations \in Seq(Ranges) /\ db.geofeeds \in Seq(Ranges)
      /\ \A id \in DOMAIN db.allocations : db.allocations[id].start <= db.allocations[id].end
      /\ \A id \in DOMAIN db.geofeeds : db.geofeeds[id].start <= db.geofeeds[id].end
  BY DEF ObjectsInv, OrderedInv
<1> SUFFICES
      /\ \A id \in DOMAIN db'.allocations : db'.allocations[id].start <= db'.allocations[id].end
      /\ \A id \in DOMAIN db'.geofeeds : db'.geofeeds[id].start <= db'.geofeeds[id].end
  BY DEF OrderedInv
<1>2. CASE AddAllocation
  <2>1. /\ input.allocations[at] \in Ranges /\ db'.geofeeds = db.geofeeds
        /\ \/ db'.allocations = db.allocations
           \/ /\ ~ (input.allocations[at].start > input.allocations[at].end)
              /\ db'.allocations = Append(db.allocations, input.allocations[at])
    BY <1>2, AllocationAdded DEF Same, FileBuckets
  <2>2. QED
    BY <1>1, <2>1, OrderedAppended
<1>3. CASE AddGeofeed
  <2>1. /\ input.geofeeds[at] \in Ranges /\ db'.allocations = db.allocations
        /\ \/ db'.geofeeds = db.geofeeds
           \/ /\ ~ (input.geofeeds[at].start > input.geofeeds[at].end)
              /\ db'.geofeeds = Append(db.geofeeds, input.geofeeds[at])
    BY <1>3, GeofeedAdded DEF Same, FileBuckets
  <2>2. QED
    BY <1>1, <2>1, OrderedAppended
<1>4. CASE AddRoute \/ AddAutnum \/ Deriving \/ UNCHANGED vars
  <2>1. db'.allocations = db.allocations /\ db'.geofeeds = db.geofeeds
    BY <1>4, RouteAdded, AutnumRead, TablesKept DEF Same, FileBuckets, vars, memory
  <2>2. QED
    BY <1>1, <2>1
<1>5. CASE Start \/ Cancel \/ Crash
  <2>1. db'.allocations = <<>> /\ db'.geofeeds = <<>>
    BY <1>5, NothingKept, EmptyFields
  <2>2. QED
    BY <2>1
<1>6. QED
  BY <1>2, <1>3, <1>4, <1>5, StepCases

\* No step leaves the trie anything but a Patricia trie.
LEMMA ShapeStep ==
  ASSUME ObjectsInv, PlaceInv, IndexInv, OrderedInv, ShapeInv, [Next]_vars PROVE ShapeInv'
<1> DEFINE groups == RouteGroups(db.routeIndex)
           Routes(t) == Patricia(t, RouteValues, NoRoutes)
           Selections(t) == Patricia(t, SelectionValues, NoCandidate)
<1>1. /\ phase \in {"routeLPM", "failed"} => Routes(trie)
      /\ phase \in {"allocationLPM", "geofeedLPM"} => Selections(trie)
      /\ phase \notin {"routeLPM", "failed", "allocationLPM", "geofeedLPM"} => trie = <<>>
  BY DEF ShapeInv
<1> HIDE DEF Routes, Selections
<1> SUFFICES
      /\ phase' \in {"routeLPM", "failed"} => Routes(trie')
      /\ phase' \in {"allocationLPM", "geofeedLPM"} => Selections(trie')
      /\ phase' \notin {"routeLPM", "failed", "allocationLPM", "geofeedLPM"} => trie' = <<>>
  BY DEF ShapeInv, Routes, Selections
<1>2. at \in Nat \ {0}
  BY DEF PlaceInv
<1>3. Routes(EmptyTrie(NoRoutes)) /\ Selections(EmptyTrie(NoCandidate))
  <2>1. NoRoutes \in RouteValues /\ NoCandidate \in SelectionValues
    BY DEF NoRoutes, RouteValues, NoCandidate, SelectionValues
  <2>2. QED
    BY <2>1, EmptyIsPatricia DEF Routes, Selections
<1>4. CASE AddAllocation \/ AddRoute \/ AddGeofeed \/ AddAutnum
  <2>1. /\ phase \in {"allocations", "routes", "geofeeds", "autnums"} /\ phase' = phase
        /\ trie' = trie
    BY <1>4, AllocationAdded, RouteAdded, GeofeedAdded, AutnumRead
  <2>2. QED
    BY <1>1, <2>1
<1>5. CASE Start \/ Cancel \/ Crash
  <2>1. phase' \in {"allocations", "cancelled", "start", "published"} /\ trie' = <<>>
    BY <1>5 DEF Start, Cancel, Crash, NothingBuilt
  <2>2. QED
    BY <2>1
<1>6. CASE UNCHANGED vars
  BY <1>1, <1>6 DEF vars, memory
<1>7. CASE EndOfFile
  BY <1>1, <1>7 DEF EndOfFile, memory
<1>8. CASE WriteASNRoutes
  BY <1>3, <1>8 DEF WriteASNRoutes
<1>9. CASE InsertRouteGroup
  <2> DEFINE group == groups[at]
  <2>1. /\ phase = "routeLPM" /\ at <= Len(groups)
        /\ \/ phase' = "failed" /\ trie' = trie
           \/ phase' = "routeLPM" /\ trie' = InsertRoutes(trie, group.prefix, group.ids)
    BY <1>9 DEF InsertRouteGroup
  <2>2. db.routeIndex = RouteEntries(db.routes)
    BY <2>1 DEF IndexInv, Building, PastAllocations, PastRoutes, PastGeofeeds, PastAutnums,
                PastASNRoutes
  <2>3. groups \in Seq(RouteGroup)
    BY <2>2, RouteIndexType, GroupsAreSequence DEF ObjectsInv
  <2> HIDE DEF groups
  <2>4. group \in RouteGroup
    BY <1>2, <2>1, <2>3
  <2> HIDE DEF group
  <2>5. /\ group.ids \in RouteValues /\ group.ids # NoRoutes /\ APrefix(group.prefix)
        /\ NoRoutes \in RouteValues
    BY <2>4 DEF RouteGroup, IndexEntry, APrefix, NoRoutes, RouteValues
  <2>6. Routes(InsertRoutes(trie, group.prefix, group.ids))
    BY <1>1, <2>1, <2>5, InsertKeepsPatricia DEF Routes, InsertRoutes
  <2>7. QED
    BY <1>1, <2>1, <2>6
<1>10. CASE StoreRouteLPM
  BY <1>3, <1>10 DEF StoreRouteLPM
<1>11. CASE InsertObject("allocationLPM", "allocations")
  <2>1. /\ phase = "allocationLPM" /\ phase' = phase /\ at <= Len(db.allocations)
        /\ trie' = InsertRange(trie, db.allocations[at], at)
    BY <1>11 DEF InsertObject
  <2>2. /\ at \in DOMAIN db.allocations /\ db.allocations[at] \in Ranges
    BY <1>2, <2>1 DEF ObjectsInv
  <2>3. db.allocations[at].start <= db.allocations[at].end
    BY <2>2 DEF OrderedInv
  <2>4. Selections(trie')
    BY <1>1, <1>2, <2>1, <2>2, <2>3, RangeKeepsPatricia DEF Selections
  <2>5. QED
    BY <2>1, <2>4
<1>12. CASE InsertObject("geofeedLPM", "geofeeds")
  <2>1. /\ phase = "geofeedLPM" /\ phase' = phase /\ at <= Len(db.geofeeds)
        /\ trie' = InsertRange(trie, db.geofeeds[at], at)
    BY <1>12 DEF InsertObject
  <2>2. /\ at \in DOMAIN db.geofeeds /\ db.geofeeds[at] \in Ranges
    BY <1>2, <2>1 DEF ObjectsInv
  <2>3. db.geofeeds[at].start <= db.geofeeds[at].end
    BY <2>2 DEF OrderedInv
  <2>4. Selections(trie')
    BY <1>1, <1>2, <2>1, <2>2, <2>3, RangeKeepsPatricia DEF Selections
  <2>5. QED
    BY <2>1, <2>4
<1>13. CASE \/ StoreSelectionLPM("allocationLPM", "allocations", "geofeedLPM")
            \/ StoreSelectionLPM("geofeedLPM", "geofeeds", "summaries")
  BY <1>3, <1>13 DEF StoreSelectionLPM
<1>14. CASE WriteSummaries \/ Sync \/ Compact \/ SyncCompact \/ Publish
  BY <1>1, <1>14 DEF WriteSummaries, Sync, Compact, SyncCompact, Publish, memory
<1>15. QED
  BY <1>4, <1>5, <1>6, <1>7, <1>8, <1>9, <1>10, <1>11, <1>12, <1>13, <1>14, StepCases
     DEF Deriving

-----------------------------------------------------------------------------
(* Theorems *)

\* A build before its first step.
Begun ==
  /\ IsInput(input) /\ phase = "start" /\ at = 1
  /\ db = EmptyDB /\ trie = <<>> /\ output = NoFile

\* Nothing is stored then, nor derived.
LEMMA BuildBegins == Begun => BuildInv
<1> SUFFICES ASSUME Begun PROVE BuildInv
  OBVIOUS
<1>1. /\ IsInput(input) /\ phase = "start" /\ at = 1 /\ db = EmptyDB /\ output = NoFile
  BY DEF Begun
<1>2. <<>> \in Seq(Ranges) /\ <<>> \in Seq(StoredRoute)
  OBVIOUS
<1>3. ObjectsInv
  BY <1>1, <1>2, EmptyFields DEF ObjectsInv
<1>4. PlaceInv
  BY <1>1 DEF PlaceInv
<1>5. phase \notin Building
  BY <1>1 DEF Building, PastAllocations, PastRoutes, PastGeofeeds, PastAutnums, PastASNRoutes,
         PastRouteLPM, PastAllocationLPM, PastGeofeedLPM, PastSummaries
<1>6. RowsInv /\ IndexInv
  BY <1>5 DEF RowsInv, IndexInv
<1>7. ListsInv /\ TriesInv
  BY <1>1, <1>5 DEF ListsInv, TriesInv, Building, PastAllocations, PastRoutes, PastGeofeeds,
         PastAutnums, PastASNRoutes, PastRouteLPM, PastAllocationLPM, PastGeofeedLPM,
         PastSummaries
<1>8. FilesInv /\ OutputInv
  BY <1>1 DEF FilesInv, OutputInv
<1>9. OrderedInv
  BY <1>1, EmptyFields DEF OrderedInv
<1>10. ShapeInv
  BY <1>1 DEF Begun, ShapeInv
<1>11. QED
  BY <1>3, <1>4, <1>6, <1>7, <1>8, <1>9, <1>10 DEF BuildInv

\* So every build begins.
LEMMA BuildInit == Init => Begun
BY BuildAssumption DEF Init, Begun

\* No step of a build breaks what holds of it.
LEMMA BuildInvStep == BuildInv /\ [Next]_vars => BuildInv'
BY ObjectsStep, PlaceStep, RowsStep, IndexStep, ListsStep, TriesStep, FilesStep, OutputStep,
   OrderedStep, ShapeStep DEF BuildInv

\* At any moment of a build, of a build that was started again and after it,
\* what was stored is what has been read and every derived value is derived
\* from what was stored.
THEOREM BuildInvariance == Spec => []BuildInv
BY BuildInit, BuildBegins, BuildInvStep, PTL DEF Spec

\* Build and its rename: wherever the host goes down or the build is
\* cancelled, the output path holds nothing, or every accepted row of the CSV
\* files, the indexes of these rows and nothing else, the lists and tries derived
\* from all of them, and summaries of every level.
THEOREM OutputsAreWhole == Spec => []OutputIsWhole
<1>1. BuildInv => OutputIsWhole
  BY DEF BuildInv, OutputInv, OutputIsWhole, NoFile, Holding
<1>2. QED
  BY <1>1, BuildInvariance, PTL

\* Every trie a build makes is a Patricia trie at any moment, whatever is
\* inserted and in whatever order: insert, its splits and its relinking never
\* lose a node, link one twice, put one in the wrong slot or leave a node that
\* neither holds anything nor branches.
THEOREM TriesStayPatricia == Spec => []TrieWellFormed
<1>1. ASSUME BuildInv PROVE TrieWellFormed
  <2> DEFINE Nothing == IF phase = "routeLPM" THEN NoRoutes ELSE NoCandidate
             WellFormed(ref) ==
               LET node == trie[ref]
                   Holds == node.value # Nothing
                   Parents == {link \in (DOMAIN trie) \X {1, 2} :
                                 trie[link[1]].child[link[2]] = ref}
               IN  /\ ref = 1 => node.length = 0 /\ Parents = {}
                   /\ ref # 1 =>
                        /\ Cardinality(Parents) = 1
                        /\ \A link \in Parents :
                              LET above == trie[link[1]] IN
                              /\ above.length < node.length
                              /\ Covers(above, node.address)
                              /\ Branch(node, above.length) = link[2]
                        /\ ~ Holds => 0 \notin {node.child[1], node.child[2]}
  <2>1. TrieWellFormed <=> \A ref \in DOMAIN trie : WellFormed(ref)
    BY DEF TrieWellFormed
  <2>2. ASSUME NEW values, NEW nothing, Patricia(trie, values, nothing),
               nothing = Nothing \/ Nothing \notin values, NEW ref \in DOMAIN trie
        PROVE  WellFormed(ref)
    <3> DEFINE Parents == {link \in (DOMAIN trie) \X {1, 2} :
                             trie[link[1]].child[link[2]] = ref}
    <3>1. /\ trie[ref].value \in values
          /\ ref = 1 => trie[ref].length = 0 /\ Parents = {}
          /\ ref # 1 =>
               /\ Cardinality(Parents) = 1
               /\ \A link \in Parents :
                     /\ trie[link[1]].length < trie[ref].length
                     /\ Covers(trie[link[1]], trie[ref].address)
                     /\ Branch(trie[ref], trie[link[1]].length) = link[2]
               /\ trie[ref].value = nothing
                    => trie[ref].child[1] # 0 /\ trie[ref].child[2] # 0
      BY <2>2, PatriciaIsWellFormed
    <3> HIDE DEF Nothing, Parents
    <3>2. trie[ref].value = Nothing => trie[ref].value = nothing
      BY <2>2, <3>1
    <3>3. QED
      BY <3>1, <3>2 DEF Parents
  <2>3. CASE phase = "routeLPM"
    BY <1>1, <2>1, <2>2, <2>3 DEF BuildInv, ShapeInv
  <2>4. CASE phase = "failed"
    <3>1. NoCandidate \notin RouteValues
      <4>1. ASSUME NoCandidate \in RouteValues PROVE FALSE
        <5>1. "id" \in DOMAIN NoCandidate /\ NoCandidate["id"] = 0
          BY DEF NoCandidate
        <5>2. \A i \in DOMAIN NoCandidate : NoCandidate[i] \in Nat \ {0}
          BY <4>1 DEF RouteValues
        <5>3. QED
          BY <5>1, <5>2
      <4>2. QED
        BY <4>1
    <3>2. QED
      BY <1>1, <2>1, <2>2, <2>4, <3>1 DEF BuildInv, ShapeInv
  <2>5. CASE phase \in {"allocationLPM", "geofeedLPM"}
    BY <1>1, <2>1, <2>2, <2>5 DEF BuildInv, ShapeInv
  <2>6. CASE phase \notin {"routeLPM", "failed", "allocationLPM", "geofeedLPM"}
    <3>1. DOMAIN trie = {}
      BY <1>1, <2>6 DEF BuildInv, ShapeInv
    <3>2. QED
      BY <2>1, <3>1
  <2>7. QED
    BY <2>3, <2>4, <2>5, <2>6
<1>2. QED
  BY <1>1, BuildInvariance, PTL

-----------------------------------------------------------------------------
(* Types *)

\* Masking is idempotent, so a masked prefix is a prefix.
LEMMA MaskedIsPrefix ==
  ASSUME NEW prefix \in WrittenPrefixes PROVE MaskedPrefix(prefix) \in AllPrefixes
<1> DEFINE s == Size(prefix.length)
           a == prefix.address
           m == Masked(a, prefix.length)
<1>1. Size(0) \in Nat \ {0} /\ s \in Nat \ {0} /\ prefix.length \in 0 .. Bits
  BY SizeIsPositive, BitsAssumption DEF WrittenPrefixes
<1>2. a \in Nat /\ a < Size(0) /\ m \in Nat
  BY <1>1, MaskedIsNat DEF WrittenPrefixes, Addresses
<1>3. m = a - (a % s) /\ Masked(m, prefix.length) = m - (m % s)
  BY DEF Masked
<1>4. MaskedPrefix(prefix) = [address |-> m, length |-> prefix.length]
  BY DEF MaskedPrefix
<1> HIDE DEF s, a, m
<1>5. a % s \in Nat /\ a = s * (a \div s) + (a % s) /\ a \div s \in Nat
  BY <1>1, <1>2
<1>6. m = s * (a \div s) + 0
  <2> DEFINE q == a \div s
             r == a % s
  <2>1. q \in Nat /\ r \in Nat /\ a = s * q + r /\ m = a - r
    BY <1>3, <1>5
  <2> HIDE DEF q, r
  <2>2. m = s * q + 0
    BY <1>1, <1>2, <2>1
  <2>3. QED
    BY <2>2 DEF q
<1>7. m \div s = a \div s
  BY <1>1, <1>5, <1>6, QuotientIs
<1>8. m % s = 0
  <2>1. m = s * (m \div s) + (m % s) /\ m % s \in Nat
    BY <1>1, <1>2
  <2>2. s * (m \div s) \in Nat /\ s * (m \div s) = s * (a \div s)
    BY <1>1, <1>5, <1>7
  <2>3. QED
    BY <1>6, <2>1, <2>2
<1>9. m \in Addresses /\ Masked(m, prefix.length) = m
  BY <1>1, <1>2, <1>3, <1>5, <1>8 DEF Addresses
<1>10. QED
  BY <1>1, <1>4, <1>9 DEF AllPrefixes

\* An index is keyed by prefixes.
KeyedByPrefixes(index) ==
  \A entry \in index : [address |-> entry.address, length |-> entry.length] \in AllPrefixes

\* Phases, keys, counters and files have their types.
KindsInv ==
  /\ phase \in {"start", "allocations", "routes", "geofeeds", "autnums", "asnRoutes",
               "routeLPM", "allocationLPM", "geofeedLPM", "summaries", "sync", "compact",
               "syncCompact", "rename", "published", "failed", "cancelled"}
  /\ KeyedByPrefixes(db.allocationIndex)
  /\ KeyedByPrefixes(db.routeIndex)
  /\ KeyedByPrefixes(db.geofeedIndex)
  /\ DOMAIN counts = Buckets(SummaryLevels)
  /\ raw.is \in {"none", "torn", "data"}
  /\ compacted.is \in {"none", "torn", "data"}
  /\ output.is \in {"none", "torn", "data"}
  /\ crashes \in 0 .. MaxCrashes

\* Entries more.
LEMMA KeysAdded ==
  ASSUME NEW index, KeyedByPrefixes(index), NEW prefixes,
         \A prefix \in prefixes : [address |-> prefix.address, length |-> prefix.length]
                                   \in AllPrefixes,
         NEW id
  PROVE  KeyedByPrefixes(index \cup IndexEntries(prefixes, id))
<1>1. ASSUME NEW entry \in IndexEntries(prefixes, id)
      PROVE  [address |-> entry.address, length |-> entry.length] \in AllPrefixes
  <2>1. PICK prefix \in prefixes :
           entry = [address |-> prefix.address, length |-> prefix.length, id |-> id]
    BY DEF IndexEntries
  <2>2. entry.address = prefix.address /\ entry.length = prefix.length
    BY <2>1
  <2>3. QED
    BY <2>2
<1>2. QED
  BY <1>1 DEF KeyedByPrefixes

\* The prefixes of a range are keys.
LEMMA PiecesAreKeys ==
  ASSUME NEW range \in Ranges, ~ (range.start > range.end),
         NEW prefix \in ToSet(RangePrefixes(range))
  PROVE  [address |-> prefix.address, length |-> prefix.length] \in AllPrefixes
<1>1. range.start <= range.end
  <2>1. range.start \in Int /\ range.end \in Int
    BY DEF Ranges, Addresses
  <2>2. QED
    BY <2>1
<1>2. RangePrefixes(range) \in Seq(AllPrefixes)
  BY <1>1, RangesAreCutExactly
<1>3. prefix \in AllPrefixes
  BY <1>2 DEF ToSet
<1>4. prefix = [address |-> prefix.address, length |-> prefix.length]
  BY <1>3 DEF AllPrefixes
<1>5. QED
  BY <1>3, <1>4

\* Every step keeps these types.
LEMMA KindsStep ==
  ASSUME ObjectsInv, PlaceInv, KindsInv, [Next]_vars PROVE KindsInv'
<1>1. CASE AddAllocation
  <2> DEFINE range == input.allocations[at]
  <2>1. /\ phase' = phase /\ range \in Ranges /\ UNCHANGED <<raw, compacted, output, crashes>>
        /\ \/ db' = db
           \/ /\ ~ (range.start > range.end)
              /\ db'.allocationIndex = db.allocationIndex
                    \cup IndexEntries(ToSet(RangePrefixes(range)), Len(db.allocations) + 1)
              /\ db'.routeIndex = db.routeIndex /\ db'.geofeedIndex = db.geofeedIndex
    BY <1>1, AllocationAdded DEF AddAllocation, Row, Same, FileBuckets, files
  <2>2. DOMAIN counts' = DOMAIN counts
    BY <1>1 DEF AddAllocation, Collect
  <2> HIDE DEF range
  <2>3. KeyedByPrefixes(db'.allocationIndex) /\ KeyedByPrefixes(db'.routeIndex)
          /\ KeyedByPrefixes(db'.geofeedIndex)
    BY <2>1, KeysAdded, PiecesAreKeys DEF KindsInv
  <2>4. QED
    BY <2>1, <2>2, <2>3 DEF KindsInv, KeyedByPrefixes
<1>2. CASE AddRoute
  <2> DEFINE prefix == MaskedPrefix(input.routes[at].prefix)
  <2>1. /\ phase' = phase /\ UNCHANGED <<raw, compacted, output, crashes>>
        /\ at \in DOMAIN input.routes
        /\ \/ db' = db
           \/ /\ db'.routeIndex = db.routeIndex \cup IndexEntries({prefix}, Len(db.routes) + 1)
              /\ db'.allocationIndex = db.allocationIndex
              /\ db'.geofeedIndex = db.geofeedIndex
    BY <1>2, RouteAdded, InputFiles DEF AddRoute, Row, Same, FileBuckets, files, ObjectsInv
  <2>2. DOMAIN counts' = DOMAIN counts
    BY <1>2 DEF AddRoute, Collect
  <2>3. prefix \in AllPrefixes
    BY <2>1, MaskedIsPrefix DEF ObjectsInv, IsInput
  <2>4. prefix = [address |-> prefix.address, length |-> prefix.length]
    BY DEF MaskedPrefix
  <2> HIDE DEF prefix
  <2>5. \A p \in {prefix} : [address |-> p.address, length |-> p.length] \in AllPrefixes
    BY <2>3, <2>4
  <2>6. KeyedByPrefixes(db'.allocationIndex) /\ KeyedByPrefixes(db'.routeIndex)
          /\ KeyedByPrefixes(db'.geofeedIndex)
    BY <2>1, <2>5, KeysAdded DEF KindsInv
  <2>7. QED
    BY <2>1, <2>2, <2>6 DEF KindsInv, KeyedByPrefixes
<1>3. CASE AddGeofeed
  <2> DEFINE range == input.geofeeds[at]
  <2>1. /\ phase' = phase /\ range \in Ranges /\ UNCHANGED <<raw, compacted, output, crashes>>
        /\ counts' = counts
        /\ \/ db' = db
           \/ /\ ~ (range.start > range.end)
              /\ db'.geofeedIndex = db.geofeedIndex
                    \cup IndexEntries(ToSet(RangePrefixes(range)), Len(db.geofeeds) + 1)
              /\ db'.routeIndex = db.routeIndex /\ db'.allocationIndex = db.allocationIndex
    BY <1>3, GeofeedAdded DEF AddGeofeed, Row, Same, FileBuckets, files
  <2> HIDE DEF range
  <2>2. KeyedByPrefixes(db'.allocationIndex) /\ KeyedByPrefixes(db'.routeIndex)
          /\ KeyedByPrefixes(db'.geofeedIndex)
    BY <2>1, KeysAdded, PiecesAreKeys DEF KindsInv
  <2>3. QED
    BY <2>1, <2>2 DEF KindsInv, KeyedByPrefixes
<1>4. CASE AddAutnum
  BY <1>4, AutnumRead DEF AddAutnum, Row, Same, FileBuckets, files, KindsInv, KeyedByPrefixes
<1>5. CASE Deriving
  <2>1. /\ db'.allocationIndex = db.allocationIndex /\ db'.routeIndex = db.routeIndex
        /\ db'.geofeedIndex = db.geofeedIndex
    BY <1>5, TablesKept DEF Same, FileBuckets
  <2>2. DOMAIN counts' = Buckets(SummaryLevels) /\ crashes' = crashes
    BY <1>5 DEF Deriving, EndOfFile, WriteASNRoutes, InsertRouteGroup, StoreRouteLPM,
       InsertObject, StoreSelectionLPM, WriteSummaries, Sync, Compact, SyncCompact, Publish,
       memory, NoCounts, KindsInv
  <2>3. /\ raw'.is \in {"none", "torn", "data"} /\ compacted'.is \in {"none", "torn", "data"}
        /\ output'.is \in {"none", "torn", "data"}
    <3>1. CASE SyncCompact
      <4>1. /\ raw' = raw /\ output' = output
            /\ compacted' = [compacted EXCEPT !.synced = TRUE]
        BY <3>1 DEF SyncCompact
      <4>2. compacted'.is = compacted.is
        BY <4>1
      <4>3. QED
        BY <4>1, <4>2 DEF KindsInv
    <3>2. CASE ~ SyncCompact
      BY <1>5, <3>2 DEF Deriving, EndOfFile, WriteASNRoutes, InsertRouteGroup, StoreRouteLPM,
         InsertObject, StoreSelectionLPM, WriteSummaries, Sync, Compact, Publish, files,
         Holding, NoFile, KindsInv
    <3>3. QED
      BY <3>1, <3>2
  <2>4. phase' \in {"start", "allocations", "routes", "geofeeds", "autnums", "asnRoutes",
                    "routeLPM", "allocationLPM", "geofeedLPM", "summaries", "sync", "compact",
                    "syncCompact", "rename", "published", "failed", "cancelled"}
    BY <1>5 DEF Deriving, EndOfFile, WriteASNRoutes, InsertRouteGroup, StoreRouteLPM,
       InsertObject, StoreSelectionLPM, WriteSummaries, Sync, Compact, SyncCompact, Publish,
       KindsInv
  <2>5. QED
    BY <2>1, <2>2, <2>3, <2>4 DEF KindsInv, KeyedByPrefixes
<1>6. CASE Start \/ Cancel \/ Crash
  <2>1. /\ db'.allocationIndex = {} /\ db'.routeIndex = {} /\ db'.geofeedIndex = {}
    BY <1>6, NothingKept, EmptyFields
  <2>2. DOMAIN counts' = Buckets(SummaryLevels)
    BY <1>6 DEF Start, Cancel, Crash, NothingBuilt, NoCounts
  <2>3. /\ raw'.is \in {"none", "torn", "data"} /\ compacted'.is \in {"none", "torn", "data"}
        /\ output'.is \in {"none", "torn", "data"}
        /\ phase' \in {"allocations", "cancelled", "start", phase}
    BY <1>6 DEF Start, Cancel, Crash, AfterCrash, NoFile, Torn, KindsInv
  <2>4. crashes' \in 0 .. MaxCrashes
    BY <1>6, BuildAssumption DEF Start, Cancel, Crash, KindsInv
  <2>5. QED
    BY <2>1, <2>2, <2>3, <2>4 DEF KindsInv, KeyedByPrefixes
<1>7. CASE UNCHANGED vars
  BY <1>7 DEF vars, memory, files, KindsInv, KeyedByPrefixes
<1>8. QED
  BY <1>1, <1>2, <1>3, <1>4, <1>5, <1>6, <1>7, StepCases

\* Types, for any files: in particular every index entry of an allocation, a
\* route or a geofeed is keyed by a prefix of the address space.
THEOREM BuildTypes == Spec => []BuildTypeOK
<1>1. Init => KindsInv
  <2> SUFFICES ASSUME Init PROVE KindsInv
    OBVIOUS
  <2>1. /\ phase = "start" /\ db = EmptyDB /\ counts = NoCounts
        /\ raw = NoFile /\ compacted = NoFile /\ output = NoFile /\ crashes = 0
    BY DEF Init
  <2>2. QED
    BY <2>1, EmptyFields, BuildAssumption DEF KindsInv, KeyedByPrefixes, NoCounts, NoFile
<1>2. BuildInv /\ KindsInv /\ [Next]_vars => KindsInv'
  BY KindsStep DEF BuildInv
<1>3. BuildInv /\ KindsInv => BuildTypeOK
  BY DEF BuildInv, ObjectsInv, PlaceInv, KindsInv, KeyedByPrefixes, BuildTypeOK
<1>4. QED
  BY <1>1, <1>2, <1>3, BuildInvariance, PTL DEF Spec

-----------------------------------------------------------------------------
(* What lookups in a published file answer *)

\* The trie of the groups holds each group's IDs at its prefix, and nothing
\* anywhere else.
LEMMA RouteTrieHolds ==
  ASSUME NEW groups \in Seq(RouteGroup),
         \A i, j \in 1 .. Len(groups) :
            SamePrefix(groups[i].prefix, groups[j].prefix) => i = j,
         NEW n \in 0 .. Len(groups)
  PROVE  /\ Patricia(RouteTrie(groups)[n], RouteValues, NoRoutes)
         /\ \A prefix, value : APrefix(prefix) /\ value # NoRoutes =>
              (HoldsAt(RouteTrie(groups)[n], prefix, value)
                <=> \E i \in 1 .. n : /\ SamePrefix(prefix, groups[i].prefix)
                                      /\ value = groups[i].ids)
<1> DEFINE T == RouteTrie(groups)
           From(k, prefix, value) == \E i \in 1 .. k : /\ SamePrefix(prefix, groups[i].prefix)
                                                       /\ value = groups[i].ids
           Right(k) == /\ Patricia(T[k], RouteValues, NoRoutes)
                       /\ \A prefix, value : APrefix(prefix) /\ value # NoRoutes =>
                            (HoldsAt(T[k], prefix, value) <=> From(k, prefix, value))
           G == {k \in Nat : k <= Len(groups) => Right(k)}
<1>1. Len(groups) \in Nat /\ NoRoutes \in RouteValues
  BY DEF NoRoutes, RouteValues
<1>2. /\ T[0] = EmptyTrie(NoRoutes)
      /\ \A k \in 1 .. Len(groups) : T[k] = Insert(T[k - 1], groups[k].prefix, groups[k].ids, NoRoutes)
  BY <1>1, RouteTrieSteps DEF InsertRoutes
<1> HIDE DEF T
<1>3. ASSUME NEW k \in 1 .. Len(groups)
      PROVE  /\ APrefix(groups[k].prefix)
             /\ groups[k].ids \in RouteValues /\ groups[k].ids # NoRoutes
  <2>1. groups[k] \in RouteGroup
    BY <1>1
  <2>2. QED
    BY <2>1 DEF RouteGroup, IndexEntry, APrefix
<1>4. 0 \in G
  <2>1. Patricia(T[0], RouteValues, NoRoutes)
    BY <1>1, <1>2, EmptyIsPatricia
  <2>2. ASSUME NEW prefix, NEW value, value # NoRoutes PROVE ~ HoldsAt(T[0], prefix, value)
    BY <1>2, <2>2, EmptyHoldsNothing
  <2>3. QED
    BY <2>1, <2>2
<1>5. ASSUME NEW k \in G PROVE k + 1 \in G
  <2> SUFFICES ASSUME k + 1 <= Len(groups) PROVE Right(k + 1)
    OBVIOUS
  <2>1. k \in Nat /\ k + 1 \in 1 .. Len(groups) /\ (k + 1) - 1 = k
    BY <1>1
  <2>2. Right(k)
    BY <1>1, <2>1
  <2> DEFINE new == groups[k + 1].prefix
             ids == groups[k + 1].ids
  <2>3. APrefix(new) /\ ids \in RouteValues /\ ids # NoRoutes
    BY <1>3, <2>1
  <2>4. T[k + 1] = Insert(T[k], new, ids, NoRoutes)
    BY <1>2, <2>1
  <2>5. \A i \in 1 .. k + 1 : i \in 1 .. k \/ i = k + 1
    BY <2>1
  <2>6. \A i \in 1 .. k : i \in 1 .. k + 1 /\ i \in 1 .. Len(groups) /\ i # k + 1
    BY <1>1, <2>1
  <2>7. \A i \in 1 .. k : ~ SamePrefix(groups[i].prefix, new)
    BY <2>1, <2>6
  <2> HIDE DEF new, ids
  <2>8. Patricia(T[k + 1], RouteValues, NoRoutes)
    BY <1>1, <2>2, <2>3, <2>4, InsertKeepsPatricia
  <2>9. ASSUME NEW prefix, NEW value, APrefix(prefix), value # NoRoutes
        PROVE  HoldsAt(T[k + 1], prefix, value) <=> From(k + 1, prefix, value)
    <3>1. HoldsAt(T[k + 1], prefix, value)
            <=> IF SamePrefix(prefix, new) THEN value = ids ELSE HoldsAt(T[k], prefix, value)
      <4>1. Patricia(T[k], RouteValues, NoRoutes)
        BY <2>2
      <4>2. QED
        BY ONLY <1>1, <2>3, <2>4, <2>9, <4>1, InsertSetsOne
    <3>2. HoldsAt(T[k], prefix, value) <=> From(k, prefix, value)
      BY <2>2, <2>9
    <3>3. CASE SamePrefix(prefix, new)
      <4>1. ASSUME NEW i \in 1 .. k PROVE ~ SamePrefix(prefix, groups[i].prefix)
        BY <2>7, <3>3, SamePrefixes
      <4>2. From(k + 1, prefix, value) <=> value = ids
        BY <2>1, <2>5, <3>3, <4>1 DEF new, ids
      <4>3. QED
        BY <3>1, <3>3, <4>2
    <3>4. CASE ~ SamePrefix(prefix, new)
      <4>1. From(k + 1, prefix, value) <=> From(k, prefix, value)
        BY <2>5, <2>6, <3>4 DEF new
      <4>2. QED
        BY <3>1, <3>2, <3>4, <4>1
    <3>5. QED
      BY <3>3, <3>4
  <2>10. QED
    BY <2>8, <2>9
<1>6. G = Nat
  <2> HIDE DEF G
  <2>1. G \in SUBSET Nat
    BY DEF G
  <2>2. QED
    BY <1>4, <1>5, <2>1, NatSetInduction
<1> HIDE DEF Right
<1>7. Right(n)
  <2>1. n \in Nat /\ n <= Len(groups)
    BY <1>1
  <2>2. n \in G
    BY <1>6, <2>1
  <2>3. QED
    BY <2>1, <2>2
<1>8. QED
  BY <1>7 DEF T, Right

\* Routes with their masked prefixes.
KeptRoute == [prefix : AllPrefixes, origin : Nat]

\* The routes registered at a prefix.
RoutesAt(routes, prefix) ==
  {id \in DOMAIN routes : /\ routes[id].prefix.address = prefix.address
                         /\ routes[id].prefix.length = prefix.length}

\* The groups of an index: each prefix of a route once, with the routes registered
\* there.
LEMMA GroupsOfRoutes ==
  ASSUME NEW routes \in Seq(KeptRoute)
  PROVE  LET groups == RouteGroups(RouteEntries(routes)) IN
         /\ groups \in Seq(RouteGroup)
         /\ \A i \in 1 .. Len(groups) :
              /\ [address |-> groups[i].prefix.address, length |-> groups[i].prefix.length]
                    \in AllPrefixes
              /\ RoutesAt(routes, groups[i].prefix) # {}
              /\ groups[i].ids = Ascending(RoutesAt(routes, groups[i].prefix), LAMBDA x, y : x < y)
         /\ \A id \in DOMAIN routes : \E i \in 1 .. Len(groups) :
              id \in RoutesAt(routes, groups[i].prefix)
         /\ \A i, j \in 1 .. Len(groups) :
              SamePrefix(groups[i].prefix, groups[j].prefix) => i = j
<1> DEFINE index == RouteEntries(routes)
           groups == RouteGroups(index)
           Entry(id) == [address |-> routes[id].prefix.address,
                         length |-> routes[id].prefix.length, id |-> id]
           Bare(entry) == [address |-> entry.address, length |-> entry.length, id |-> 0]
           P == {Bare(entry) : entry \in index}
           bare == [entry \in index |-> Bare(entry)]
           sorted == Ascending(P, IndexBefore)
           IDs(prefix) == {entry.id : entry \in
                             {entry \in index : entry.address = prefix.address
                                                        /\ entry.length = prefix.length}}
<1>1. /\ Len(routes) \in Nat /\ DOMAIN routes = 1 .. Len(routes)
      /\ \A id \in DOMAIN routes : routes[id].prefix \in AllPrefixes
  <2>1. DOMAIN routes = 1 .. Len(routes) /\ Len(routes) \in Nat
    OBVIOUS
  <2>2. \A id \in DOMAIN routes : routes[id] \in KeptRoute
    OBVIOUS
  <2>3. QED
    BY <2>1, <2>2 DEF KeptRoute
<1>2. routes \in Seq(StoredRoute)
  <2>1. ASSUME NEW x \in KeptRoute PROVE x \in StoredRoute
    BY DEF KeptRoute, StoredRoute, AllPrefixes, Addresses
  <2>2. QED
    BY <2>1
<1>3. /\ index \in SUBSET IndexEntry /\ IsFiniteSet(index)
      /\ \A entry \in index : entry.id # 0
  BY <1>2, RouteIndexType
<1>4. index = {Entry(id) : id \in DOMAIN routes}
  <2>1. ASSUME NEW id \in DOMAIN routes PROVE IndexEntries({routes[id].prefix}, id) = {Entry(id)}
    BY DEF IndexEntries
  <2> HIDE DEF Entry
  <2>2. \A x : x \in index <=> \E id \in DOMAIN routes : x = Entry(id)
    BY <2>1 DEF RouteEntries
  <2>3. QED
    BY <2>2
<1>5. groups \in Seq(RouteGroup)
  BY <1>3, GroupsAreSequence
<1>6. groups = [i \in DOMAIN sorted |->
                 [prefix |-> sorted[i], ids |-> Ascending(IDs(sorted[i]), LAMBDA x, y : x < y)]]
  BY DEF RouteGroups
<1> HIDE DEF index, groups
<1>7. P \in SUBSET IndexEntry /\ IsFiniteSet(P)
  <2>1. P \in SUBSET IndexEntry
    BY <1>3 DEF IndexEntry
  <2>2. bare \in Surjection(index, P)
    BY DEF Surjection
  <2>3. QED
    BY <1>3, <2>1, <2>2, FS_Surjection
<1>8. /\ P = {[address |-> routes[id].prefix.address, length |-> routes[id].prefix.length,
               id |-> 0] : id \in DOMAIN routes}
      /\ \A prefix : IDs(prefix) = RoutesAt(routes, prefix)
  <2>1. P = {[address |-> routes[id].prefix.address, length |-> routes[id].prefix.length,
              id |-> 0] : id \in DOMAIN routes}
    <3>1. \A id \in DOMAIN routes : Bare(Entry(id))
            = [address |-> routes[id].prefix.address, length |-> routes[id].prefix.length,
               id |-> 0]
      OBVIOUS
    <3> HIDE DEF Entry, Bare
    <3>2. P = {Bare(Entry(id)) : id \in DOMAIN routes}
      BY <1>4
    <3>3. QED
      BY <3>1, <3>2
  <2>2. ASSUME NEW prefix PROVE IDs(prefix) = RoutesAt(routes, prefix)
    <3>1. \A id \in DOMAIN routes : /\ Entry(id) \in index /\ Entry(id).id = id
                                     /\ Entry(id).address = routes[id].prefix.address
                                     /\ Entry(id).length = routes[id].prefix.length
      BY <1>4
    <3>2. \A entry \in index : \E id \in DOMAIN routes : entry = Entry(id)
      BY <1>4
    <3> HIDE DEF Entry
    <3>3. ASSUME NEW x \in IDs(prefix) PROVE x \in RoutesAt(routes, prefix)
      <4>1. PICK entry \in index : /\ x = entry.id /\ entry.address = prefix.address
                                   /\ entry.length = prefix.length
        OBVIOUS
      <4>2. PICK id \in DOMAIN routes : entry = Entry(id)
        BY <3>2
      <4>3. QED
        BY <3>1, <4>1, <4>2 DEF RoutesAt
    <3>4. ASSUME NEW id \in RoutesAt(routes, prefix) PROVE id \in IDs(prefix)
      BY <3>1 DEF RoutesAt
    <3>5. QED
      BY <3>3, <3>4
  <2>3. QED
    BY <2>1, <2>2
<1> HIDE DEF P, IDs, sorted
<1>9. /\ sorted \in Seq(P) /\ {sorted[i] : i \in DOMAIN sorted} = P
      /\ \A i, j \in DOMAIN sorted : i < j => IndexBefore(sorted[i], sorted[j])
  BY <1>7, AscendingEntries DEF SequenceOf, sorted
<1>10. /\ Len(groups) \in Nat /\ 1 .. Len(groups) = DOMAIN groups
       /\ DOMAIN groups = DOMAIN sorted /\ DOMAIN sorted = 1 .. Len(sorted)
       /\ Len(sorted) \in Nat
       /\ \A i \in DOMAIN sorted :
            /\ groups[i].prefix = sorted[i]
            /\ groups[i].ids = Ascending(RoutesAt(routes, sorted[i]), LAMBDA x, y : x < y)
  <2>1. /\ Len(groups) \in Nat /\ 1 .. Len(groups) = DOMAIN groups
    BY <1>5
  <2>2. DOMAIN sorted = 1 .. Len(sorted) /\ Len(sorted) \in Nat
    BY <1>9
  <2>3. ASSUME NEW i \in DOMAIN sorted
        PROVE  /\ groups[i].prefix = sorted[i]
               /\ groups[i].ids = Ascending(IDs(sorted[i]), LAMBDA x, y : x < y)
    BY <1>6
  <2>4. ASSUME NEW i \in DOMAIN sorted PROVE IDs(sorted[i]) = RoutesAt(routes, sorted[i])
    BY <1>8
  <2>5. QED
    BY <1>6, <2>1, <2>2, <2>3, <2>4
<1>11. ASSUME NEW i \in 1 .. Len(groups)
       PROVE  /\ [address |-> groups[i].prefix.address, length |-> groups[i].prefix.length]
                     \in AllPrefixes
              /\ RoutesAt(routes, groups[i].prefix) # {}
              /\ groups[i].ids = Ascending(RoutesAt(routes, groups[i].prefix), LAMBDA x, y : x < y)
  <2>1. sorted[i] \in P /\ groups[i].prefix = sorted[i]
    BY <1>9, <1>10
  <2>2. PICK id \in DOMAIN routes : sorted[i] = [address |-> routes[id].prefix.address,
                                              length |-> routes[id].prefix.length, id |-> 0]
    BY <1>8, <2>1
  <2>3. id \in RoutesAt(routes, groups[i].prefix)
    BY <2>1, <2>2 DEF RoutesAt
  <2>4. [address |-> groups[i].prefix.address, length |-> groups[i].prefix.length]
          = routes[id].prefix
    BY <1>1, <2>1, <2>2 DEF AllPrefixes
  <2>5. QED
    BY <1>1, <1>10, <2>1, <2>3, <2>4
<1>12. ASSUME NEW id \in DOMAIN routes
       PROVE  \E i \in 1 .. Len(groups) : id \in RoutesAt(routes, groups[i].prefix)
  <2> DEFINE x == [address |-> routes[id].prefix.address, length |-> routes[id].prefix.length,
                   id |-> 0]
  <2>1. x \in {sorted[i] : i \in DOMAIN sorted}
    BY <1>8, <1>9
  <2>2. PICK i \in DOMAIN sorted : sorted[i] = x
    BY <2>1
  <2>3. i \in 1 .. Len(groups) /\ groups[i].prefix = x
    BY <1>10, <2>2
  <2>4. id \in RoutesAt(routes, groups[i].prefix)
    BY <2>3 DEF RoutesAt
  <2>5. QED
    BY <2>3, <2>4
<1>13. ASSUME NEW i \in 1 .. Len(groups), NEW j \in 1 .. Len(groups),
              SamePrefix(groups[i].prefix, groups[j].prefix)
       PROVE  i = j
  <2> DEFINE one == sorted[i]
             two == sorted[j]
  <2>1. one \in P /\ two \in P /\ groups[i].prefix = one /\ groups[j].prefix = two
    BY <1>9, <1>10
  <2>2. /\ [address |-> one.address, length |-> one.length] \in AllPrefixes
        /\ [address |-> two.address, length |-> two.length] \in AllPrefixes
    BY <1>11, <2>1
  <2>3. one.id = 0 /\ two.id = 0
    BY <1>8, <2>1
  <2> HIDE DEF one, two
  <2>4. SamePrefix([address |-> one.address, length |-> one.length],
                   [address |-> two.address, length |-> two.length])
    BY <1>13, <2>1 DEF SamePrefix
  <2>5. one.address = two.address /\ one.length = two.length
    BY <2>2, <2>4, PrefixKinds
  <2>6. /\ one.address \in Nat /\ one.length \in Nat
        /\ two.address \in Nat /\ two.length \in Nat
    BY <1>7, <2>1, BitsAssumption DEF IndexEntry
  <2>7. ~ IndexBefore(one, two) /\ ~ IndexBefore(two, one)
    BY <2>3, <2>5, <2>6 DEF IndexBefore
  <2>8. i \in Nat /\ j \in Nat /\ ~ (i < j) /\ ~ (j < i)
    <3>1. i \in DOMAIN sorted /\ j \in DOMAIN sorted
      BY <1>10
    <3>2. ~ (i < j) /\ ~ (j < i)
      BY <1>9, <2>7, <3>1 DEF one, two
    <3>3. QED
      BY <3>2
  <2>9. QED
    BY <2>8
<1>14. QED
  BY <1>5, <1>11, <1>12, <1>13 DEF groups, index

\* No numbers in order.
LEMMA AscendingNone == Ascending({}, LAMBDA x, y : x < y) = NoRoutes
<1> DEFINE seq == Ascending({}, LAMBDA x, y : x < y)
<1>1. IsFiniteSet({})
  BY FS_EmptySet
<1>2. seq \in Seq({}) /\ {seq[i] : i \in DOMAIN seq} = {}
  BY <1>1, AscendingNumbers DEF SequenceOf
<1> HIDE DEF seq
<1>3. seq = <<>>
  BY <1>2
<1>4. QED
  BY <1>3 DEF NoRoutes, seq

\* A prefix contains an address exactly if the two agree.
LEMMA CoveringRange ==
  ASSUME NEW prefix \in AllPrefixes, NEW address \in Addresses
  PROVE  InRange(PrefixRange(prefix), address) <=> Agree(prefix.address, address, prefix.length)
BY CoversIsRange DEF InRange, PrefixRange

\* The trie of these routes answers with those registered at the longest prefix
\* that contains the address.
LEMMA RouteTrieAnswers ==
  ASSUME NEW routes \in Seq(KeptRoute), NEW address \in Addresses
  PROVE  LET groups == RouteGroups(RouteEntries(routes))
             matching == {id \in DOMAIN routes :
                             InRange(PrefixRange(routes[id].prefix), address)}
             longest == {id \in matching : \A other \in matching :
                             routes[other].prefix.length <= routes[id].prefix.length}
         IN  LookupRouteLPM(RouteTrie(groups)[Len(groups)], address)
               = Ascending(longest, LAMBDA x, y : x < y)
<1> DEFINE groups == RouteGroups(RouteEntries(routes))
           nodes == RouteTrie(groups)[Len(groups)]
           matching == {id \in DOMAIN routes : InRange(PrefixRange(routes[id].prefix), address)}
           longest == {id \in matching : \A other \in matching :
                           routes[other].prefix.length <= routes[id].prefix.length}
           found == LookupRouteLPM(nodes, address)
           Bare(i) == [address |-> groups[i].prefix.address, length |-> groups[i].prefix.length]
           IDs(set) == Ascending(set, LAMBDA x, y : x < y)
           Full == {ref \in Covering(nodes, address) : nodes[ref].value # NoRoutes}
<1>1. /\ \A id \in DOMAIN routes : routes[id].prefix \in AllPrefixes
      /\ address \in Nat
  <2>1. \A id \in DOMAIN routes : routes[id] \in KeptRoute
    OBVIOUS
  <2>2. QED
    BY <2>1, PrefixKinds DEF KeptRoute
<1>2. /\ groups \in Seq(RouteGroup)
      /\ \A i \in 1 .. Len(groups) : /\ Bare(i) \in AllPrefixes
                                     /\ RoutesAt(routes, groups[i].prefix) # {}
                                     /\ groups[i].ids = IDs(RoutesAt(routes, groups[i].prefix))
      /\ \A id \in DOMAIN routes : \E i \in 1 .. Len(groups) :
           id \in RoutesAt(routes, groups[i].prefix)
      /\ \A i, j \in 1 .. Len(groups) :
           SamePrefix(groups[i].prefix, groups[j].prefix) => i = j
  BY GroupsOfRoutes
<1> HIDE DEF groups
<1>3. /\ Patricia(nodes, RouteValues, NoRoutes)
      /\ \A prefix, value : APrefix(prefix) /\ value # NoRoutes =>
           (HoldsAt(nodes, prefix, value)
             <=> \E i \in 1 .. Len(groups) : /\ SamePrefix(prefix, groups[i].prefix)
                                             /\ value = groups[i].ids)
  <2>1. groups \in Seq(RouteGroup)
    BY <1>2
  <2>2. Len(groups) \in Nat
    BY ONLY <2>1
  <2>3. Len(groups) \in 0 .. Len(groups)
    BY ONLY <2>2
  <2>4. QED
    BY <1>2, <2>3, RouteTrieHolds
<1>4. \A i \in 1 .. Len(groups) : groups[i].ids # NoRoutes
  <2>1. groups \in Seq(RouteGroup)
    BY <1>2
  <2>2. \A i \in 1 .. Len(groups) : groups[i] \in RouteGroup
    BY ONLY <2>1
  <2>3. QED
    BY <2>2 DEF RouteGroup
<1> HIDE DEF nodes, IDs
<1>5. IF Full = {} THEN found = NoRoutes
      ELSE \E ref \in Full : /\ nodes[ref].value = found
                             /\ \A other \in Full : nodes[other].length <= nodes[ref].length
  BY <1>1, <1>3, RouteLookupIsLongest
<1> HIDE DEF found
<1>6. ASSUME NEW ref \in Covering(nodes, address)
      PROVE  /\ ref \in 1 .. Len(nodes) /\ APrefix(nodes[ref])
             /\ nodes[ref].length \in Nat
             /\ Agree(nodes[ref].address, address, nodes[ref].length)
             /\ ref \in NodesAt(nodes, nodes[ref])
  <2>1. ref \in 1 .. Len(nodes) /\ Agree(nodes[ref].address, address, nodes[ref].length)
    BY DEF Covering
  <2>2. nodes[ref] \in NodesOf(RouteValues)
    BY <1>3, <2>1 DEF Patricia
  <2>3. QED
    BY <2>1, <2>2, BitsAssumption DEF NodesOf, APrefix, NodesAt, SamePrefix, Agree
<1>7. ASSUME NEW id \in DOMAIN routes
      PROVE  id \in matching <=> Agree(routes[id].prefix.address, address, routes[id].prefix.length)
  BY <1>1, CoveringRange
<1>8. ASSUME NEW id \in matching
      PROVE  \E ref \in Full : nodes[ref].length = routes[id].prefix.length
  <2> DEFINE prefix == routes[id].prefix
  <2>1. prefix \in AllPrefixes /\ Agree(prefix.address, address, prefix.length) /\ APrefix(prefix)
    BY <1>1, <1>7, PrefixKinds
  <2>2. PICK i \in 1 .. Len(groups) : id \in RoutesAt(routes, groups[i].prefix)
    BY <1>2
  <2>3. SamePrefix(prefix, groups[i].prefix)
    BY <2>2 DEF RoutesAt, SamePrefix, Agree
  <2> HIDE DEF prefix
  <2>4. HoldsAt(nodes, prefix, groups[i].ids)
    BY <1>3, <1>4, <2>1, <2>3
  <2>5. PICK ref \in NodesAt(nodes, prefix) : nodes[ref].value = groups[i].ids
    BY <2>4 DEF HoldsAt
  <2>6. ref \in 1 .. Len(nodes) /\ SamePrefix(nodes[ref], prefix)
    BY <2>5 DEF NodesAt
  <2>7. nodes[ref].length = prefix.length /\ Agree(nodes[ref].address, address, nodes[ref].length)
    BY <2>1, <2>6 DEF SamePrefix, Agree
  <2>8. ref \in Full
    BY <1>4, <2>5, <2>6, <2>7 DEF Covering
  <2>9. QED
    BY <2>7, <2>8 DEF prefix
<1>9. ASSUME NEW ref \in Full
      PROVE  \E i \in 1 .. Len(groups) : /\ SamePrefix(nodes[ref], groups[i].prefix)
                                         /\ nodes[ref].value = groups[i].ids
  <2>1. ref \in Covering(nodes, address) /\ nodes[ref].value # NoRoutes
    OBVIOUS
  <2>2. HoldsAt(nodes, nodes[ref], nodes[ref].value)
    BY <1>6, <2>1 DEF HoldsAt
  <2>3. QED
    BY <1>3, <1>6, <2>1, <2>2
<1> HIDE DEF matching
<1>10. CASE Full = {}
  <2>1. matching = {}
    BY <1>8, <1>10
  <2>2. longest = {}
    BY <2>1
  <2>3. QED
    BY <1>5, <1>10, <2>2, AscendingNone DEF found, nodes, groups, matching
<1>11. CASE Full # {}
  <2>1. PICK ref \in Full : /\ nodes[ref].value = found
                            /\ \A other \in Full : nodes[other].length <= nodes[ref].length
    BY <1>5, <1>11
  <2>2. PICK i \in 1 .. Len(groups) : /\ SamePrefix(nodes[ref], groups[i].prefix)
                                      /\ nodes[ref].value = groups[i].ids
    BY <1>9
  <2> DEFINE prefix == Bare(i)
             here == RoutesAt(routes, groups[i].prefix)
  <2>3. /\ ref \in Covering(nodes, address)
        /\ nodes[ref].length \in Nat
        /\ Agree(nodes[ref].address, address, nodes[ref].length)
    BY <1>6
  <2>4. /\ prefix \in AllPrefixes /\ prefix.length = nodes[ref].length
        /\ Agree(prefix.address, address, prefix.length)
    BY <1>2, <2>2, <2>3 DEF SamePrefix, Agree
  <2>5. found = IDs(here) /\ here # {}
    BY <1>2, <2>1, <2>2
  <2>6. ASSUME NEW id \in here
        PROVE  /\ id \in matching /\ routes[id].prefix.length = nodes[ref].length
    <3>1. /\ id \in DOMAIN routes
          /\ routes[id].prefix.address = prefix.address
          /\ routes[id].prefix.length = prefix.length
      BY DEF RoutesAt
    <3> HIDE DEF prefix
    <3>2. QED
      BY <1>7, <2>4, <3>1
  <2>7. ASSUME NEW id \in matching PROVE routes[id].prefix.length <= nodes[ref].length
    BY <1>8, <2>1
  <2>8. \A id \in here : id \in longest
    BY <2>6, <2>7
  <2>9. ASSUME NEW id \in longest PROVE id \in here
    <3>1. id \in matching /\ id \in DOMAIN routes
      BY DEF matching
    <3>2. PICK one \in here : TRUE
      BY <2>5
    <3>3. routes[id].prefix.length >= nodes[ref].length
      BY <2>6, <3>2
    <3>4. routes[id].prefix \in AllPrefixes /\ routes[id].prefix.length \in Nat
      BY <1>1, <3>1, BitsAssumption DEF AllPrefixes
    <3>5. routes[id].prefix.length = prefix.length
      BY <2>3, <2>4, <2>7, <3>1, <3>3, <3>4
    <3>6. Agree(routes[id].prefix.address, address, routes[id].prefix.length)
      BY <1>7, <3>1
    <3> HIDE DEF prefix
    <3>7. SamePrefix(routes[id].prefix, prefix)
      BY <2>4, <3>5, <3>6, CoveringAgree
    <3>8. routes[id].prefix = prefix
      BY <2>4, <3>4, <3>7, PrefixKinds
    <3>9. QED
      BY <3>1, <3>8 DEF RoutesAt, prefix
  <2> HIDE DEF here, longest
  <2>10. here = longest
    BY <2>8, <2>9
  <2>11. found = IDs(longest)
    BY <2>5, <2>10
  <2>12. QED
    BY <2>11 DEF found, nodes, groups, matching, longest, IDs
<1>12. QED
  BY <1>10, <1>11

\* The routes of a file have masked prefixes.
LEMMA RoutesAreMasked ==
  ASSUME IsInput(input)
  PROVE  KeptRoutes(input.routes)[Len(input.routes)] \in Seq(KeptRoute)
<1> DEFINE rows == input.routes
           values == RouteObjects(rows)
           accepted == {i \in DOMAIN rows : rows[i].origin # NoOrigin}
<1>1. /\ Len(rows) \in Nat /\ DOMAIN rows = 1 .. Len(rows)
      /\ \A i \in DOMAIN rows : /\ rows[i].prefix \in WrittenPrefixes
                                /\ rows[i].origin \in Nat \cup {NoOrigin}
  BY InputFiles DEF IsInput
<1>2. /\ DOMAIN values = 1 .. Len(rows) /\ Len(values) = Len(rows)
      /\ \A i \in 1 .. Len(rows) :
           values[i] = [prefix |-> MaskedPrefix(rows[i].prefix), origin |-> rows[i].origin]
  BY <1>1 DEF RouteObjects
<1>3. ASSUME NEW i \in 1 .. Len(rows), i \in accepted PROVE values[i] \in KeptRoute
  <2>1. MaskedPrefix(rows[i].prefix) \in AllPrefixes /\ rows[i].origin \in Nat
    BY <1>1, <1>3, MaskedIsPrefix
  <2>2. [prefix |-> MaskedPrefix(rows[i].prefix), origin |-> rows[i].origin] \in KeptRoute
    BY <2>1 DEF KeptRoute
  <2>3. values[i] = [prefix |-> MaskedPrefix(rows[i].prefix), origin |-> rows[i].origin]
    BY <1>2
  <2> HIDE DEF values
  <2>4. QED
    BY <2>2, <2>3
<1>4. KeptRoutes(rows) = Kept(values, accepted)
  BY DEF KeptRoutes
<1> HIDE DEF values, accepted
<1>5. Kept(values, accepted)[Len(rows)] \in Seq(KeptRoute)
  BY <1>1, <1>2, <1>3, KeptKind
<1>6. QED
  BY <1>4, <1>5

\* Whatever a published file was built from, in however many attempts, its route
\* trie answers every address with all the routes registered at the longest
\* prefix that contains it, in ID order, and with none if no route does.
THEOREM LookupsFindLongest == Spec => []RoutesAreLongestMatch
<1>1. ASSUME BuildInv PROVE RoutesAreLongestMatch
  <2> SUFFICES ASSUME Served, NEW address \in Addresses
               PROVE  LET routes   == output.content.routes
                          matching == {id \in DOMAIN routes :
                                         InRange(PrefixRange(routes[id].prefix), address)}
                          longest  == {id \in matching : \A other \in matching :
                                routes[other].prefix.length <= routes[id].prefix.length}
                      IN  LookupRouteLPM(output.content.routeLPM, address)
                            = Ascending(longest, LAMBDA x, y : x < y)
    BY DEF RoutesAreLongestMatch
  <2>1. IsDatasetOf(output.content, input) /\ IsInput(input)
    <3>1. IsInput(input) /\ OutputInv
      BY <1>1 DEF BuildInv, ObjectsInv
    <3>2. output.is = "data" /\ NoFile.is = "none"
      BY DEF Served, NoFile
    <3>3. QED
      BY <3>1, <3>2 DEF OutputInv
  <2> DEFINE routes == output.content.routes
             groups == RouteGroups(RouteEntries(routes))
  <2>2. /\ routes = KeptRoutes(input.routes)[Len(input.routes)]
        /\ output.content.routeLPM = RouteTrie(groups)[Len(groups)]
    BY <2>1 DEF IsDatasetOf
  <2>3. routes \in Seq(KeptRoute)
    BY <2>1, <2>2, RoutesAreMasked
  <2> HIDE DEF routes
  <2>4. QED
    BY <2>2, <2>3, RouteTrieAnswers DEF routes
<1>2. QED
  BY <1>1, BuildInvariance, PTL

\* What a record enters.
CandidateOf(range, id) == [id |-> id, width |-> Width(range)]

EntriesOf(range, id) ==
  {[prefix |-> RangePrefixes(range)[i], candidate |-> CandidateOf(range, id)] :
     i \in 1 .. Len(RangePrefixes(range))}

\* A record more.
LEMMA RangeEntered ==
  ASSUME NEW nodes \in SelectionTries, NEW entered \in SUBSET Entries, HoldsBest(nodes, entered),
         NEW range \in Ranges, range.start <= range.end, NEW id \in Nat \ {0}
  PROVE  /\ InsertRange(nodes, range, id) \in SelectionTries
         /\ EntriesOf(range, id) \in SUBSET Entries
         /\ HoldsBest(InsertRange(nodes, range, id), entered \cup EntriesOf(range, id))
<1> DEFINE pieces == RangePrefixes(range)
           m == Len(pieces)
           candidate == CandidateOf(range, id)
           Entry(i) == [prefix |-> pieces[i], candidate |-> candidate]
           Put(n) == entered \cup {Entry(i) : i \in 1 .. n}
<1>1. m \in Nat /\ \A i \in 1 .. m : pieces[i] \in AllPrefixes
  BY RangesAreCutExactly
<1>2. candidate \in SelectionValues /\ candidate.id # 0
  <2>1. Size(0) \in Nat \ {0}
    BY SizeIsPositive, BitsAssumption
  <2>2. Width(range) \in Nat
    BY <2>1 DEF Width, Ranges, Addresses
  <2>3. QED
    BY <2>2 DEF SelectionValues, CandidateOf
<1>3. PICK after \in [0 .. m -> SelectionTries] :
         /\ after[0] = nodes
         /\ \A i \in 1 .. m : after[i] = InsertCandidate(after[i - 1], pieces[i], candidate)
         /\ after[m] = InsertRange(nodes, range, id)
  BY RangeInserted DEF CandidateOf
<1>4. EntriesOf(range, id) = {Entry(i) : i \in 1 .. m}
  BY DEF EntriesOf
<1> HIDE DEF pieces, m, candidate
<1>5. \A i \in 1 .. m : Entry(i) \in Entries
  BY <1>1, <1>2 DEF Entries
<1> DEFINE G == {n \in Nat : n <= m => HoldsBest(after[n], Put(n))}
<1>6. 0 \in G
  <2>1. Put(0) = entered
    OBVIOUS
  <2> HIDE DEF Put
  <2>2. QED
    BY <1>3, <2>1
<1>7. ASSUME NEW n \in G PROVE n + 1 \in G
  <2> SUFFICES ASSUME n + 1 <= m PROVE HoldsBest(after[n + 1], Put(n + 1))
    OBVIOUS
  <2>1. n \in 0 .. m /\ n + 1 \in 1 .. m /\ (n + 1) - 1 = n
    BY <1>1
  <2>2. HoldsBest(after[n], Put(n))
    BY <1>1, <2>1
  <2>3. \A i \in 1 .. n + 1 : i \in 1 .. n \/ i = n + 1
    BY <2>1
  <2>4. \A i \in 1 .. n : i \in 1 .. n + 1 /\ i \in 1 .. m
    BY <1>1, <2>1
  <2>5. Put(n + 1) = Put(n) \cup {Entry(n + 1)}
    <3> HIDE DEF Entry
    <3>1. n + 1 \in 1 .. n + 1
      BY <2>1
    <3>2. QED
      BY <2>3, <2>4, <3>1
  <2>6. Put(n) \in SUBSET Entries /\ Entry(n + 1) \in Entries
    <3> HIDE DEF Entry
    <3>1. QED
      BY <1>5, <2>1, <2>4
  <2>7. after[n + 1] = InsertCandidate(after[n], pieces[n + 1], candidate)
    BY <1>3, <2>1
  <2>8. Patricia(after[n], SelectionValues, NoCandidate)
    BY <2>1 DEF SelectionTries
  <2>9. Entry(n + 1).prefix = pieces[n + 1] /\ Entry(n + 1).candidate = candidate
    OBVIOUS
  <2> HIDE DEF Entry, Put
  <2>10. HoldsBest(InsertCandidate(after[n], Entry(n + 1).prefix, Entry(n + 1).candidate),
                   Put(n) \cup {Entry(n + 1)})
    BY <2>2, <2>6, <2>8, CandidateEntered
  <2>11. QED
    BY <2>5, <2>7, <2>9, <2>10
<1>8. G = Nat
  <2> HIDE DEF G
  <2>1. G \in SUBSET Nat
    BY DEF G
  <2>2. QED
    BY <1>6, <1>7, <2>1, NatSetInduction
<1>9. HoldsBest(after[m], Put(m))
  <2>1. m \in G
    BY <1>1, <1>8
  <2> HIDE DEF Put
  <2>2. QED
    BY <1>1, <2>1
<1>10. EntriesOf(range, id) \in SUBSET Entries
  <2> HIDE DEF Entry
  <2>1. QED
    BY <1>4, <1>5
<1>11. InsertRange(nodes, range, id) \in SelectionTries
  BY <1>1, <1>3
<1>12. QED
  BY <1>3, <1>4, <1>9, <1>10, <1>11

\* What the first n records enter.
EntriesUpto(ranges, n) == UNION {EntriesOf(ranges[id], id) : id \in 1 .. n}

\* The trie of the records holds the best of what they enter at every prefix.
LEMMA SelectionTrieHolds ==
  ASSUME NEW ranges \in Seq(Ranges),
         \A id \in DOMAIN ranges : ranges[id].start <= ranges[id].end,
         NEW n \in 0 .. Len(ranges)
  PROVE  /\ SelectionTrie(ranges)[n] \in SelectionTries
         /\ EntriesUpto(ranges, n) \in SUBSET Entries
         /\ HoldsBest(SelectionTrie(ranges)[n], EntriesUpto(ranges, n))
<1> DEFINE T == SelectionTrie(ranges)
           E(k) == EntriesUpto(ranges, k)
           Right(k) == /\ T[k] \in SelectionTries
                       /\ E(k) \in SUBSET Entries
                       /\ HoldsBest(T[k], E(k))
           G == {k \in Nat : k <= Len(ranges) => Right(k)}
<1>1. /\ Len(ranges) \in Nat /\ DOMAIN ranges = 1 .. Len(ranges)
      /\ \A id \in 1 .. Len(ranges) : ranges[id] \in Ranges /\ ranges[id].start <= ranges[id].end
  OBVIOUS
<1>2. /\ T[0] = EmptyTrie(NoCandidate)
      /\ \A k \in 1 .. Len(ranges) : T[k] = InsertRange(T[k - 1], ranges[k], k)
  BY <1>1, SelectionTrieSteps
<1> HIDE DEF T
<1>3. 0 \in G
  <2>1. NoCandidate \in SelectionValues
    BY DEF NoCandidate, SelectionValues
  <2>2. Patricia(T[0], SelectionValues, NoCandidate)
    BY <1>2, <2>1, EmptyIsPatricia
  <2>3. T[0] \in SelectionTries
    BY <2>2 DEF SelectionTries, Patricia
  <2>4. E(0) = {}
    BY DEF EntriesUpto
  <2>5. \A prefix, value : value # NoCandidate => ~ HoldsAt(T[0], prefix, value)
    BY <1>2, EmptyHoldsNothing
  <2>6. HoldsBest(T[0], E(0))
    BY <2>4, <2>5 DEF HoldsBest
  <2>7. QED
    BY <2>3, <2>4, <2>6
<1>4. ASSUME NEW k \in G PROVE k + 1 \in G
  <2> SUFFICES ASSUME k + 1 <= Len(ranges) PROVE Right(k + 1)
    OBVIOUS
  <2>1. k \in Nat /\ k + 1 \in 1 .. Len(ranges) /\ (k + 1) - 1 = k
    BY <1>1
  <2>2. Right(k)
    BY <1>1, <2>1
  <2>3. T[k + 1] = InsertRange(T[k], ranges[k + 1], k + 1)
    BY <1>2, <2>1
  <2>4. E(k + 1) = E(k) \cup EntriesOf(ranges[k + 1], k + 1)
    <3>1. \A id : id \in 1 .. k + 1 <=> id \in 1 .. k \/ id = k + 1
      BY <2>1
    <3>2. QED
      BY <3>1 DEF EntriesUpto
  <2> HIDE DEF E
  <2>5. /\ ranges[k + 1] \in Ranges /\ ranges[k + 1].start <= ranges[k + 1].end
        /\ k + 1 \in Nat \ {0}
    BY <1>1, <2>1
  <2>6. /\ InsertRange(T[k], ranges[k + 1], k + 1) \in SelectionTries
        /\ EntriesOf(ranges[k + 1], k + 1) \in SUBSET Entries
        /\ HoldsBest(InsertRange(T[k], ranges[k + 1], k + 1),
                     E(k) \cup EntriesOf(ranges[k + 1], k + 1))
    BY <2>2, <2>5, RangeEntered
  <2>7. QED
    BY <2>2, <2>3, <2>4, <2>6
<1>5. G = Nat
  <2> HIDE DEF G
  <2>1. G \in SUBSET Nat
    BY DEF G
  <2>2. QED
    BY <1>3, <1>4, <2>1, NatSetInduction
<1> HIDE DEF Right
<1>6. Right(n)
  <2>1. n \in Nat /\ n <= Len(ranges)
    BY <1>1
  <2>2. n \in G
    BY <1>5, <2>1
  <2>3. QED
    BY <2>1, <2>2
<1>7. QED
  BY <1>6 DEF Right, T

\* The pieces of a range that contain an address are there exactly if the range
\* contains it.
LEMMA PiecesCover ==
  ASSUME NEW range \in Ranges, range.start <= range.end, NEW address \in Addresses
  PROVE  /\ \A i \in 1 .. Len(RangePrefixes(range)) : RangePrefixes(range)[i] \in AllPrefixes
         /\ InRange(range, address) <=>
              \E i \in 1 .. Len(RangePrefixes(range)) :
                Agree(RangePrefixes(range)[i].address, address, RangePrefixes(range)[i].length)
<1> DEFINE pieces == RangePrefixes(range)
           m == Len(pieces)
<1>1. /\ \A i \in 1 .. m : pieces[i] \in AllPrefixes
      /\ InRange(range, address)
           <=> \E i \in 1 .. m : pieces[i].address <= address /\ address <= PrefixEnd(pieces[i])
  BY RangesAreCutExactly
<1> HIDE DEF pieces, m
<1>2. \A i \in 1 .. m : Agree(pieces[i].address, address, pieces[i].length)
        <=> pieces[i].address <= address /\ address <= PrefixEnd(pieces[i])
  BY <1>1, CoversIsRange, SMTT(30), ZenonT(30)
<1>3. QED
  BY <1>1, <1>2 DEF pieces, m

\* A selection returns a record that contains the address and is not wider than
\* any other that does, and none only if there is none.
IsNarrowest(objects, address, chosen) ==
  LET matching == {id \in DOMAIN objects : InRange(objects[id], address)}
  IN  IF matching = {} THEN chosen = 0
      ELSE chosen \in matching /\ \A id \in matching : Width(objects[chosen]) <= Width(objects[id])

\* What the nodes that cover an address hold is of records that contain it, each at
\* the prefix of the piece that does; and no candidate of such a record is better
\* than what is held at its prefix.
LEMMA SelectionTrieNodes ==
  ASSUME NEW ranges \in Seq(Ranges),
         \A id \in DOMAIN ranges : ranges[id].start <= ranges[id].end,
         NEW address \in Addresses
  PROVE  LET nodes == SelectionTrie(ranges)[Len(ranges)]
             Full == {ref \in Covering(nodes, address) : nodes[ref].value # NoCandidate}
         IN  /\ Patricia(nodes, SelectionValues, NoCandidate)
             /\ \A ref \in Full :
                  LET id == nodes[ref].value.id IN
                  /\ nodes[ref] \in NodesOf(SelectionValues)
                  /\ id \in DOMAIN ranges
                  /\ nodes[ref].value.width = Width(ranges[id])
                  /\ \E i \in 1 .. Len(RangePrefixes(ranges[id])) :
                       LET piece == RangePrefixes(ranges[id])[i] IN
                       /\ piece.length = nodes[ref].length
                       /\ Agree(piece.address, address, piece.length)
             /\ \A id \in DOMAIN ranges : \A i \in 1 .. Len(RangePrefixes(ranges[id])) :
                  LET piece == RangePrefixes(ranges[id])[i] IN
                  Agree(piece.address, address, piece.length) =>
                    /\ CandidateOf(ranges[id], id) \in SelectionValues
                    /\ \E ref \in Full :
                         /\ nodes[ref].length = piece.length
                         /\ ~ CandidateLess(CandidateOf(ranges[id], id), nodes[ref].value)
<1> DEFINE nodes == SelectionTrie(ranges)[Len(ranges)]
           Full == {ref \in Covering(nodes, address) : nodes[ref].value # NoCandidate}
           entered == EntriesUpto(ranges, Len(ranges))
<1>1. /\ Len(ranges) \in Nat /\ DOMAIN ranges = 1 .. Len(ranges)
      /\ address \in Nat
  BY PrefixKinds
<1>2. nodes \in SelectionTries /\ entered \in SUBSET Entries /\ HoldsBest(nodes, entered)
  <2>1. Len(ranges) \in 0 .. Len(ranges)
    BY <1>1
  <2>2. QED
    BY <2>1, SelectionTrieHolds
<1> HIDE DEF nodes
<1>3. Patricia(nodes, SelectionValues, NoCandidate)
  BY <1>2 DEF SelectionTries
<1>4. ASSUME NEW ref \in Full
      PROVE  LET id == nodes[ref].value.id IN
             /\ nodes[ref] \in NodesOf(SelectionValues)
             /\ id \in DOMAIN ranges
             /\ nodes[ref].value.width = Width(ranges[id])
             /\ \E i \in 1 .. Len(RangePrefixes(ranges[id])) :
                  /\ RangePrefixes(ranges[id])[i].length = nodes[ref].length
                  /\ Agree(RangePrefixes(ranges[id])[i].address, address,
                           RangePrefixes(ranges[id])[i].length)
  <2> DEFINE value == nodes[ref].value
  <2>1. /\ ref \in 1 .. Len(nodes) /\ value # NoCandidate
        /\ Agree(nodes[ref].address, address, nodes[ref].length)
    BY DEF Covering
  <2>2. nodes[ref] \in NodesOf(SelectionValues)
    BY <1>3, <2>1 DEF Patricia
  <2>3. APrefix(nodes[ref]) /\ ref \in NodesAt(nodes, nodes[ref])
    BY <2>1, <2>2 DEF NodesOf, APrefix, NodesAt, SamePrefix, Agree
  <2>4. HoldsAt(nodes, nodes[ref], value)
    BY <2>3 DEF HoldsAt
  <2>5. PICK entry \in entered : SamePrefix(entry.prefix, nodes[ref]) /\ entry.candidate = value
    BY <1>2, <2>1, <2>3, <2>4 DEF HoldsBest
  <2>6. PICK id \in DOMAIN ranges : entry \in EntriesOf(ranges[id], id)
    BY <1>1 DEF EntriesUpto
  <2>7. PICK i \in 1 .. Len(RangePrefixes(ranges[id])) :
          entry = [prefix |-> RangePrefixes(ranges[id])[i], candidate |-> CandidateOf(ranges[id], id)]
    BY <2>6 DEF EntriesOf
  <2>8. value.id = id /\ value.width = Width(ranges[id])
    BY <2>5, <2>7 DEF CandidateOf
  <2>9. SamePrefix(RangePrefixes(ranges[id])[i], nodes[ref])
    BY <2>5, <2>7
  <2>10. /\ RangePrefixes(ranges[id])[i].length = nodes[ref].length
         /\ Agree(RangePrefixes(ranges[id])[i].address, address, RangePrefixes(ranges[id])[i].length)
    BY <2>1, <2>9 DEF SamePrefix, Agree
  <2>11. QED
    BY <2>2, <2>8, <2>10
<1>5. ASSUME NEW id \in DOMAIN ranges, NEW i \in 1 .. Len(RangePrefixes(ranges[id])),
             Agree(RangePrefixes(ranges[id])[i].address, address, RangePrefixes(ranges[id])[i].length)
      PROVE  /\ CandidateOf(ranges[id], id) \in SelectionValues
             /\ \E ref \in Full :
                  /\ nodes[ref].length = RangePrefixes(ranges[id])[i].length
                  /\ ~ CandidateLess(CandidateOf(ranges[id], id), nodes[ref].value)
  <2> DEFINE pieces == RangePrefixes(ranges[id])
             candidate == CandidateOf(ranges[id], id)
             entry == [prefix |-> pieces[i], candidate |-> candidate]
  <2>1. entry \in entered
    <3>1. entry \in EntriesOf(ranges[id], id)
      BY DEF EntriesOf
    <3>2. QED
      BY <1>1, <3>1 DEF EntriesUpto
  <2>2. entry.prefix = pieces[i] /\ entry.candidate = candidate
    OBVIOUS
  <2> HIDE DEF entry
  <2>3. APrefix(pieces[i]) /\ candidate \in SelectionValues
    <3>1. entry \in Entries
      BY <1>2, <2>1
    <3>2. QED
      BY <2>2, <3>1, PrefixKinds DEF Entries
  <2>4. PICK value \in SelectionValues \ {NoCandidate} : HoldsAt(nodes, pieces[i], value)
    BY <1>2, <2>1, <2>2 DEF HoldsBest
  <2>5. ~ CandidateLess(candidate, value)
    <3>1. SamePrefix(pieces[i], pieces[i])
      BY DEF SamePrefix, Agree
    <3> HIDE DEF pieces, candidate
    <3>2. QED
      BY <1>2, <2>1, <2>2, <2>3, <2>4, <3>1 DEF HoldsBest
  <2>6. PICK ref \in NodesAt(nodes, pieces[i]) : nodes[ref].value = value
    BY <2>4 DEF HoldsAt
  <2>7. ref \in Full /\ nodes[ref].length = pieces[i].length
    BY <1>5, <2>4, <2>6 DEF NodesAt, SamePrefix, Agree, Covering
  <2>8. QED
    BY <2>3, <2>5, <2>6, <2>7
<1>6. QED
  BY <1>3, <1>4, <1>5 DEF nodes

\* The trie of these records answers that way.
LEMMA SelectionTrieAnswers ==
  ASSUME NEW ranges \in Seq(Ranges),
         \A id \in DOMAIN ranges : ranges[id].start <= ranges[id].end,
         NEW address \in Addresses
  PROVE  IsNarrowest(ranges, address,
                     LookupSelectionLPM(SelectionTrie(ranges)[Len(ranges)], address))
<1> DEFINE nodes == SelectionTrie(ranges)[Len(ranges)]
           found == LookupSelectionLPM(nodes, address)
           Full == {ref \in Covering(nodes, address) : nodes[ref].value # NoCandidate}
           matching == {id \in DOMAIN ranges : InRange(ranges[id], address)}
<1>1. /\ \A id \in DOMAIN ranges : ranges[id] \in Ranges
      /\ address \in Nat
  BY PrefixKinds
<1>2. Patricia(nodes, SelectionValues, NoCandidate)
  BY SelectionTrieNodes
<1>3. IF Full = {} THEN found = 0
      ELSE \E ref \in Full : /\ nodes[ref].value.id = found
                             /\ \A other \in Full : ~ SelectionLess(nodes[other], nodes[ref])
  BY <1>1, <1>2, SelectionLookupIsBest, SMTT(30), ZenonT(30)
<1> HIDE DEF found
<1>4. ASSUME NEW ref \in Full
      PROVE  /\ nodes[ref] \in NodesOf(SelectionValues)
             /\ nodes[ref].value.id \in matching
             /\ nodes[ref].value.width = Width(ranges[nodes[ref].value.id])
  <2> DEFINE id == nodes[ref].value.id
  <2>1. /\ nodes[ref] \in NodesOf(SelectionValues) /\ id \in DOMAIN ranges
        /\ nodes[ref].value.width = Width(ranges[id])
        /\ \E i \in 1 .. Len(RangePrefixes(ranges[id])) :
             Agree(RangePrefixes(ranges[id])[i].address, address, RangePrefixes(ranges[id])[i].length)
    BY SelectionTrieNodes
  <2>2. InRange(ranges[id], address)
    BY <1>1, <2>1, PiecesCover
  <2>3. QED
    BY <2>1, <2>2, SMTT(30), ZenonT(30)
<1>5. ASSUME NEW id \in matching
      PROVE  \E ref \in Full : nodes[ref].value.width <= Width(ranges[id])
  <2>1. id \in DOMAIN ranges /\ InRange(ranges[id], address)
    OBVIOUS
  <2>2. PICK i \in 1 .. Len(RangePrefixes(ranges[id])) :
          Agree(RangePrefixes(ranges[id])[i].address, address, RangePrefixes(ranges[id])[i].length)
    BY <1>1, <2>1, PiecesCover, SMTT(30), ZenonT(30)
  <2>3. CandidateOf(ranges[id], id) \in SelectionValues
    BY <2>1, <2>2, SelectionTrieNodes, SMTT(30), ZenonT(30)
  <2>4. PICK ref \in Full : ~ CandidateLess(CandidateOf(ranges[id], id), nodes[ref].value)
    BY <2>1, <2>2, SelectionTrieNodes
  <2>5. nodes[ref].value \in SelectionValues
    BY <1>4 DEF NodesOf
  <2>6. nodes[ref].value.width <= CandidateOf(ranges[id], id).width
    BY <2>3, <2>4, <2>5, CandidateOrder
  <2>7. QED
    BY <2>6 DEF CandidateOf
<1> HIDE DEF Full, matching
<1>6. CASE Full = {}
  <2>1. matching = {} /\ found = 0
    BY <1>3, <1>5, <1>6
  <2>2. QED
    BY <2>1 DEF IsNarrowest, found, nodes, matching
<1>7. CASE Full # {}
  <2>1. PICK ref \in Full : /\ nodes[ref].value.id = found
                            /\ \A other \in Full : ~ SelectionLess(nodes[other], nodes[ref])
    BY <1>3, <1>7
  <2>2. found \in matching /\ nodes[ref].value.width = Width(ranges[found])
    BY <1>4, <2>1
  <2>3. ASSUME NEW id \in matching PROVE Width(ranges[found]) <= Width(ranges[id])
    <3>1. PICK other \in Full : nodes[other].value.width <= Width(ranges[id])
      BY <1>5
    <3>2. nodes[ref].value.width <= nodes[other].value.width
      BY <1>4, <2>1, SelectionOrder
    <3>3. /\ nodes[ref].value.width \in Nat /\ nodes[other].value.width \in Nat
      BY <1>4 DEF NodesOf, SelectionValues
    <3>4. Width(ranges[id]) \in Int
      <4>1. ranges[id] \in Ranges
        BY <1>1 DEF matching
      <4>2. QED
        BY <4>1, PrefixKinds DEF Ranges, Width
    <3>5. QED
      BY <2>2, <3>1, <3>2, <3>3, <3>4
  <2>4. QED
    BY <2>2, <2>3 DEF IsNarrowest, found, nodes, matching
<1>8. QED
  BY <1>6, <1>7

\* Of a file of ranges those that end where they start or later are kept.
LEMMA RangesAreRanges ==
  ASSUME NEW rows \in Seq(Ranges)
  PROVE  LET kept == KeptRanges(rows)[Len(rows)] IN
         kept \in Seq(Ranges) /\ \A id \in DOMAIN kept : kept[id].start <= kept[id].end
<1> DEFINE accepted == {i \in DOMAIN rows : rows[i].start <= rows[i].end}
           S == {range \in Ranges : range.start <= range.end}
           kept == Kept(rows, accepted)[Len(rows)]
<1>1. Len(rows) \in Nat /\ DOMAIN rows = 1 .. Len(rows)
  OBVIOUS
<1>2. \A i \in 1 .. Len(rows) : i \in accepted => rows[i] \in S
  OBVIOUS
<1> HIDE DEF accepted, S
<1>3. kept \in Seq(S)
  <2>1. Len(rows) \in 0 .. Len(rows)
    BY <1>1
  <2>2. QED
    BY <1>1, <1>2, <2>1, KeptKind
<1>4. KeptRanges(rows)[Len(rows)] = kept
  BY DEF KeptRanges, accepted
<1> HIDE DEF kept
<1>5. \A id \in DOMAIN kept : kept[id] \in S
  BY <1>3
<1>6. kept \in Seq(Ranges)
  BY <1>3 DEF S
<1>7. QED
  BY <1>4, <1>5, <1>6 DEF S

\* Whatever a published file was built from, the compact lookup's allocation and
\* geofeed are records that contain the address, and no record that contains it
\* is narrower: cutting ranges into prefixes, keeping one candidate at each and
\* comparing candidates of nested prefixes loses none.
THEOREM LookupsFindNarrowest == Spec => []CompactIsNarrowest
<1>1. ASSUME BuildInv PROVE CompactIsNarrowest
  <2> SUFFICES ASSUME Served, NEW address \in Addresses
        PROVE  /\ IsNarrowest(output.content.allocations, address,
                     LookupSelectionLPM(output.content.allocationLPM, address))
               /\ IsNarrowest(output.content.geofeeds, address,
                     LookupSelectionLPM(output.content.geofeedLPM, address))
    BY DEF CompactIsNarrowest, IsNarrowest
  <2>1. IsDatasetOf(output.content, input) /\ IsInput(input)
    <3>1. IsInput(input) /\ OutputInv
      BY <1>1 DEF BuildInv, ObjectsInv
    <3>2. output.is = "data" /\ NoFile.is = "none"
      BY DEF Served, NoFile
    <3>3. QED
      BY <3>1, <3>2 DEF OutputInv
  <2>2. input.allocations \in Seq(Ranges) /\ input.geofeeds \in Seq(Ranges)
    BY <2>1 DEF IsInput
  <2> DEFINE allocations == output.content.allocations
             geofeeds == output.content.geofeeds
  <2>3. /\ allocations = KeptRanges(input.allocations)[Len(input.allocations)]
        /\ geofeeds = KeptRanges(input.geofeeds)[Len(input.geofeeds)]
        /\ output.content.allocationLPM = SelectionTrie(allocations)[Len(allocations)]
        /\ output.content.geofeedLPM = SelectionTrie(geofeeds)[Len(geofeeds)]
    BY <2>1 DEF IsDatasetOf
  <2> HIDE DEF allocations, geofeeds
  <2>4. /\ allocations \in Seq(Ranges)
        /\ \A id \in DOMAIN allocations : allocations[id].start <= allocations[id].end
    BY <2>2, <2>3, RangesAreRanges
  <2>5. /\ geofeeds \in Seq(Ranges)
        /\ \A id \in DOMAIN geofeeds : geofeeds[id].start <= geofeeds[id].end
    BY <2>2, <2>3, RangesAreRanges
  <2>6. IsNarrowest(allocations, address, LookupSelectionLPM(output.content.allocationLPM, address))
    BY <2>3, <2>4, SelectionTrieAnswers
  <2>7. IsNarrowest(geofeeds, address, LookupSelectionLPM(output.content.geofeedLPM, address))
    BY <2>3, <2>5, SelectionTrieAnswers
  <2>8. QED
    BY <2>6, <2>7 DEF allocations, geofeeds
<1>2. QED
  BY <1>1, BuildInvariance, PTL

-----------------------------------------------------------------------------
(* Which index entries an address has *)

-----------------------------------------------------------------------------
(* Records found through the prefix index *)

\* A lookup in the index compares a prefix with the masked address.
LEMMA MaskedIsCovered ==
  ASSUME NEW prefix \in AllPrefixes, NEW address \in Addresses
  PROVE  prefix.address = Masked(address, prefix.length)
           <=> Agree(prefix.address, address, prefix.length)
<1> DEFINE s == Size(prefix.length)
           x == prefix.address
           k == x \div s
           q == address \div s
           r == address % s
<1>1. /\ x \in Addresses /\ prefix.length \in 0 .. Bits /\ x = x - (x % s)
      /\ x \in Nat /\ address \in Nat
  BY DEF AllPrefixes, Masked, Addresses
<1>2. s \in Nat \ {0}
  BY <1>1, SizeIsPositive
<1>3. Agree(x, address, prefix.length) <=> k = q
  BY <1>1, AgreeIsQuotient
<1>4. Masked(address, prefix.length) = address - r
  BY DEF Masked
<1> HIDE DEF s, x
<1>5. x = s * k + (x % s) /\ x % s \in Nat /\ k \in Nat
  BY <1>1, <1>2
<1>6. address = s * q + r /\ r \in Nat /\ q \in Nat
  BY <1>1, <1>2
<1> HIDE DEF k, q, r
<1>7. s * k \in Nat /\ s * q \in Nat /\ x = s * k /\ address - r = s * q
  BY <1>1, <1>2, <1>5, <1>6
<1>8. ASSUME s * k = s * q PROVE k = q
  <2>1. (s * k + 0) \div s = k /\ (s * q + 0) \div s = q
    BY <1>2, <1>5, <1>6, QuotientIs
  <2>2. QED
    BY <1>8, <2>1
<1>9. QED
  BY <1>3, <1>4, <1>7, <1>8 DEF x

\* A range has at most one piece that contains an address.
LEMMA OnePiece ==
  ASSUME NEW range \in Ranges, range.start <= range.end, NEW address \in Addresses,
         NEW i \in 1 .. Len(RangePrefixes(range)), NEW j \in 1 .. Len(RangePrefixes(range)),
         Agree(RangePrefixes(range)[i].address, address, RangePrefixes(range)[i].length),
         Agree(RangePrefixes(range)[j].address, address, RangePrefixes(range)[j].length)
  PROVE  i = j
<1> DEFINE pieces == RangePrefixes(range)
<1>1. /\ pieces \in Seq(AllPrefixes)
      /\ \A a, b \in 1 .. Len(pieces) : a < b => PrefixEnd(pieces[a]) < pieces[b].address
  BY RangesAreCutExactly
<1> HIDE DEF pieces
<1>2. /\ Len(pieces) \in Nat /\ i \in 1 .. Len(pieces) /\ j \in 1 .. Len(pieces)
      /\ pieces[i] \in AllPrefixes /\ pieces[j] \in AllPrefixes
      /\ Agree(pieces[i].address, address, pieces[i].length)
      /\ Agree(pieces[j].address, address, pieces[j].length)
  BY <1>1 DEF pieces
<1>3. /\ pieces[i].address <= address /\ address <= PrefixEnd(pieces[i])
      /\ pieces[j].address <= address /\ address <= PrefixEnd(pieces[j])
  BY <1>2, CoversIsRange
<1>4. /\ address \in Nat /\ pieces[i].address \in Nat /\ pieces[j].address \in Nat
      /\ PrefixEnd(pieces[i]) \in Int /\ PrefixEnd(pieces[j]) \in Int
  <2>1. \A prefix \in AllPrefixes :
          prefix.address \in Nat /\ Size(prefix.length) \in Nat \ {0}
    BY SizeIsPositive DEF AllPrefixes, Addresses
  <2>2. QED
    BY <1>2, <2>1 DEF Addresses, PrefixEnd
<1>5. ~ (i < j) /\ ~ (j < i)
  BY <1>1, <1>2, <1>3, <1>4
<1>6. QED
  BY <1>2, <1>5

\* The entries found for an address: one for each of these records.
FoundFor(found, ids) ==
  /\ found \in SUBSET IndexEntry /\ IsFiniteSet(found)
  /\ {entry.id : entry \in found} = ids
  /\ \A one, two \in found : one.id = two.id => one = two

\* Through the index of ranges those records are found that contain the address,
\* each by the piece of it that does.
LEMMA RangesFound ==
  ASSUME NEW ranges \in Seq(Ranges),
         \A id \in DOMAIN ranges : ranges[id].start <= ranges[id].end,
         NEW address \in Addresses
  PROVE  LET found == Matching(RangeEntries(ranges), address) IN
         /\ FoundFor(found, {id \in DOMAIN ranges : InRange(ranges[id], address)})
         /\ \A entry \in found : \E i \in 1 .. Len(RangePrefixes(ranges[entry.id])) :
              LET piece == RangePrefixes(ranges[entry.id])[i] IN
              /\ piece.address = entry.address /\ piece.length = entry.length
              /\ Agree(piece.address, address, piece.length)
<1> DEFINE found == Matching(RangeEntries(ranges), address)
           matching == {id \in DOMAIN ranges : InRange(ranges[id], address)}
           Pieces(id) == RangePrefixes(ranges[id])
           Entry(id, i) == [address |-> Pieces(id)[i].address, length |-> Pieces(id)[i].length,
                            id |-> id]
           Covers0(id, i) == Agree(Pieces(id)[i].address, address, Pieces(id)[i].length)
<1>1. /\ Len(ranges) \in Nat /\ DOMAIN ranges = 1 .. Len(ranges)
      /\ \A id \in DOMAIN ranges : ranges[id] \in Ranges /\ ranges[id].start <= ranges[id].end
  OBVIOUS
<1>2. ASSUME NEW id \in DOMAIN ranges
      PROVE  /\ Pieces(id) \in Seq(AllPrefixes)
             /\ \A i \in 1 .. Len(Pieces(id)) : Pieces(id)[i] \in AllPrefixes
             /\ InRange(ranges[id], address) <=> \E i \in 1 .. Len(Pieces(id)) : Covers0(id, i)
             /\ \A i, j \in 1 .. Len(Pieces(id)) : Covers0(id, i) /\ Covers0(id, j) => i = j
  <2>1. ranges[id] \in Ranges /\ ranges[id].start <= ranges[id].end
    BY <1>1
  <2>2. Pieces(id) \in Seq(AllPrefixes)
    BY <2>1, RangesAreCutExactly
  <2>3. /\ \A i \in 1 .. Len(Pieces(id)) : Pieces(id)[i] \in AllPrefixes
        /\ InRange(ranges[id], address) <=> \E i \in 1 .. Len(Pieces(id)) : Covers0(id, i)
    BY <2>1, PiecesCover
  <2>4. \A i, j \in 1 .. Len(Pieces(id)) : Covers0(id, i) /\ Covers0(id, j) => i = j
    BY <2>1, OnePiece
  <2>5. QED
    BY <2>2, <2>3, <2>4
<1>3. ASSUME NEW id \in DOMAIN ranges
      PROVE  IndexEntries(ToSet(Pieces(id)), id) = {Entry(id, i) : i \in 1 .. Len(Pieces(id))}
  <2> DEFINE pieces == Pieces(id)
  <2>1. DOMAIN pieces = 1 .. Len(pieces)
    BY <1>2
  <2> HIDE DEF pieces
  <2>2. ToSet(pieces) = {pieces[i] : i \in 1 .. Len(pieces)}
    BY <2>1 DEF ToSet
  <2>3. IndexEntries(ToSet(pieces), id)
          = {[address |-> pieces[i].address, length |-> pieces[i].length, id |-> id] :
               i \in 1 .. Len(pieces)}
    BY <2>2 DEF IndexEntries
  <2>4. QED
    BY <2>3 DEF pieces
<1> HIDE DEF Pieces
<1>4. ASSUME NEW id \in DOMAIN ranges, NEW i \in 1 .. Len(Pieces(id))
      PROVE  /\ Entry(id, i) \in IndexEntry
             /\ Entry(id, i).address = Masked(address, Entry(id, i).length) <=> Covers0(id, i)
  <2>1. Pieces(id)[i] \in AllPrefixes /\ id \in Nat
    BY <1>1, <1>2
  <2>2. Pieces(id)[i].address \in Nat /\ Pieces(id)[i].length \in 0 .. Bits
    BY <2>1, PrefixKinds DEF APrefix
  <2>3. QED
    BY <2>1, <2>2, MaskedIsCovered DEF IndexEntry
<1>5. \A entry : entry \in found <=>
        \E id \in DOMAIN ranges : \E i \in 1 .. Len(Pieces(id)) :
           entry = Entry(id, i) /\ Covers0(id, i)
  <2>1. \A entry : entry \in found <=> /\ entry \in RangeEntries(ranges)
                                       /\ entry.address = Masked(address, entry.length)
    BY DEF Matching
  <2>2. \A entry : entry \in RangeEntries(ranges) <=>
          \E id \in DOMAIN ranges : entry \in IndexEntries(ToSet(Pieces(id)), id)
    BY DEF RangeEntries, Pieces
  <2>3. \A entry : entry \in RangeEntries(ranges) <=>
          \E id \in DOMAIN ranges : \E i \in 1 .. Len(Pieces(id)) : entry = Entry(id, i)
    <3> HIDE DEF Entry
    <3>1. QED
      BY <1>3, <2>2
  <2> HIDE DEF found, Covers0, Entry
  <2>4. QED
    BY <1>4, <2>1, <2>3
<1>6. \A id, i : Entry(id, i).id = id
  OBVIOUS
<1>7. \A id \in DOMAIN ranges : \A i \in 1 .. Len(Pieces(id)) :
        /\ Entry(id, i).address = Pieces(id)[i].address
        /\ Entry(id, i).length = Pieces(id)[i].length
  OBVIOUS
<1> HIDE DEF found, Entry, Covers0
<1>8. found \in SUBSET IndexEntry
  BY <1>4, <1>5
<1>9. \A one, two \in found : one.id = two.id => one = two
  BY <1>2, <1>5, <1>6
<1>10. {entry.id : entry \in found} = matching
  <2>1. ASSUME NEW entry \in found PROVE entry.id \in matching
    BY <1>2, <1>5, <1>6
  <2>2. ASSUME NEW id \in matching PROVE \E entry \in found : entry.id = id
    <3>1. PICK i \in 1 .. Len(Pieces(id)) : Covers0(id, i)
      BY <1>2
    <3>2. Entry(id, i) \in found
      BY <1>5, <3>1
    <3>3. QED
      BY <1>6, <3>2
  <2> HIDE DEF matching
  <2>3. QED
    BY <2>1, <2>2
<1>11. IsFiniteSet(found)
  <2>1. IsFiniteSet(matching)
    <3>1. IsFiniteSet(DOMAIN ranges)
      BY <1>1, FS_Interval
    <3>2. QED
      BY <3>1, FS_Subset
  <2> DEFINE by == [id \in matching |-> CHOOSE entry \in found : entry.id = id]
  <2>2. by \in Surjection(matching, found)
    <3>1. \A entry \in found : entry.id \in matching
      BY <1>10
    <3>2. \A id \in matching : by[id] \in found /\ by[id].id = id
      BY <1>10
    <3>3. \A entry \in found : by[entry.id] = entry
      BY <1>9, <3>1, <3>2
    <3> HIDE DEF matching
    <3>4. by \in [matching -> found]
      BY <3>2
    <3> HIDE DEF by
    <3>5. QED
      BY <3>1, <3>3, <3>4 DEF Surjection
  <2> HIDE DEF by, matching
  <2>3. QED
    BY <2>1, <2>2, FS_Surjection
<1>12. ASSUME NEW entry \in found
       PROVE  \E i \in 1 .. Len(Pieces(entry.id)) :
                /\ Pieces(entry.id)[i].address = entry.address
                /\ Pieces(entry.id)[i].length = entry.length
                /\ Covers0(entry.id, i)
  BY <1>5, <1>6, <1>7
<1>13. QED
  BY <1>8, <1>9, <1>10, <1>11, <1>12 DEF FoundFor, found, Pieces, Covers0

\* Through the index of routes those routes are found whose prefix contains the
\* address.
LEMMA RoutesFound ==
  ASSUME NEW routes \in Seq(KeptRoute), NEW address \in Addresses
  PROVE  LET found == Matching(RouteEntries(routes), address) IN
         /\ FoundFor(found, {id \in DOMAIN routes : InRange(PrefixRange(routes[id].prefix), address)})
         /\ \A entry \in found : entry.length = routes[entry.id].prefix.length
<1> DEFINE found == Matching(RouteEntries(routes), address)
           matching == {id \in DOMAIN routes : InRange(PrefixRange(routes[id].prefix), address)}
           Entry(id) == [address |-> routes[id].prefix.address,
                         length |-> routes[id].prefix.length, id |-> id]
           by == [id \in matching |-> Entry(id)]
<1>1. /\ Len(routes) \in Nat /\ DOMAIN routes = 1 .. Len(routes)
      /\ \A id \in DOMAIN routes : routes[id].prefix \in AllPrefixes
  <2>1. \A id \in DOMAIN routes : routes[id] \in KeptRoute
    OBVIOUS
  <2>2. QED
    BY <2>1 DEF KeptRoute
<1>2. ASSUME NEW id \in DOMAIN routes
      PROVE  /\ IndexEntries({routes[id].prefix}, id) = {Entry(id)}
             /\ Entry(id) \in IndexEntry
             /\ Entry(id).address = Masked(address, Entry(id).length) <=> id \in matching
  <2>1. routes[id].prefix \in AllPrefixes /\ id \in Nat
    BY <1>1
  <2>2. routes[id].prefix.address \in Nat /\ routes[id].prefix.length \in 0 .. Bits
    BY <2>1, PrefixKinds DEF APrefix
  <2>3. routes[id].prefix.address = Masked(address, routes[id].prefix.length)
          <=> InRange(PrefixRange(routes[id].prefix), address)
    BY <2>1, MaskedIsCovered, CoveringRange
  <2>4. QED
    BY <2>1, <2>2, <2>3 DEF IndexEntry, IndexEntries
<1>3. \A id : Entry(id).id = id /\ Entry(id).length = routes[id].prefix.length
  OBVIOUS
<1>4. found = {Entry(id) : id \in matching}
  <2> HIDE DEF Entry
  <2>1. \A entry : entry \in found <=> /\ \E id \in DOMAIN routes : entry = Entry(id)
                                       /\ entry.address = Masked(address, entry.length)
    BY <1>2 DEF Matching, RouteEntries
  <2>2. \A entry : entry \in found <=> \E id \in matching : entry = Entry(id)
    BY <1>2, <2>1
  <2> HIDE DEF found, matching
  <2>3. QED
    BY <2>2
<1>5. IsFiniteSet(matching)
  <2>1. IsFiniteSet(DOMAIN routes)
    BY <1>1, FS_Interval
  <2>2. QED
    BY <2>1, FS_Subset
<1>6. matching \subseteq DOMAIN routes
  OBVIOUS
<1>7. by \in Surjection(matching, found)
  BY <1>4 DEF Surjection
<1> HIDE DEF found, matching, Entry, by
<1>8. IsFiniteSet(found)
  BY <1>5, <1>7, FS_Surjection
<1>9. {entry.id : entry \in found} = matching
  BY <1>3, <1>4
<1>10. found \in SUBSET IndexEntry
  BY <1>2, <1>4, <1>6
<1>11. \A one, two \in found : one.id = two.id => one = two
  BY <1>3, <1>4
<1>12. \A entry \in found : entry.length = routes[entry.id].prefix.length
  BY <1>3, <1>4
<1>13. QED
  BY <1>8, <1>9, <1>10, <1>11, <1>12 DEF FoundFor, found, matching

-----------------------------------------------------------------------------
(* In the order of a lookup *)

\* The longest prefix first, then the lowest ID.
LongerFirst(left, right) == \/ left.length > right.length
                            \/ left.length = right.length /\ left.id < right.id

\* Some entry is first.
LEMMA FirstFound ==
  ASSUME NEW rest \in SUBSET IndexEntry, rest # {},
         \A one, two \in rest : one.id = two.id => one = two
  PROVE  \E x \in rest : \A y \in rest \ {x} : LongerFirst(x, y)
<1> DEFINE L == {Bits - x.length : x \in rest}
<1>1. \A x \in rest : /\ x.length \in Nat /\ x.length <= Bits /\ x.id \in Nat
                      /\ Bits - x.length \in Nat
  BY BitsAssumption DEF IndexEntry
<1>2. L \in SUBSET Nat /\ L # {}
  BY <1>1
<1>3. PICK l \in L : \A k \in L : l <= k
  <2> HIDE DEF L
  <2>1. QED
    BY <1>2, LeastElement
<1> DEFINE I == {x.id : x \in {y \in rest : Bits - y.length = l}}
<1>4. I \in SUBSET Nat /\ I # {}
  BY <1>1
<1>5. PICK i \in I : \A j \in I : i <= j
  <2> HIDE DEF I
  <2>1. QED
    BY <1>4, LeastElement
<1>6. PICK x \in rest : Bits - x.length = l /\ x.id = i
  OBVIOUS
<1>7. ASSUME NEW y \in rest \ {x} PROVE LongerFirst(x, y)
  <2>1. l <= Bits - y.length
    BY <1>3
  <2>2. Bits - y.length = l => i <= y.id
    BY <1>5
  <2>3. y.id # i
    BY <1>6
  <2>4. QED
    BY <1>1, <1>6, <2>1, <2>2, <2>3, BitsAssumption DEF LongerFirst
<1>8. QED
  BY <1>7

\* The IDs of a lookup are those of its entries in that order.
LEMMA FoundInOrder ==
  ASSUME NEW index, NEW address, NEW ids, FoundFor(Matching(index, address), ids)
  PROVE  \E sorted \in Seq(Matching(index, address)) :
           /\ MatchingIDs(index, address) = [i \in 1 .. Len(sorted) |-> sorted[i].id]
           /\ {sorted[i] : i \in 1 .. Len(sorted)} = Matching(index, address)
           /\ \A i, j \in 1 .. Len(sorted) : i < j => LongerFirst(sorted[i], sorted[j])
<1> DEFINE P == Matching(index, address)
           First(rest) == CHOOSE x \in rest : \A y \in rest \ {x} :
                             \/ x.length > y.length
                             \/ x.length = y.length /\ x.id < y.id
           least == [rest \in SUBSET P |-> First(rest)]
           order == {pair \in P \X P : LongerFirst(pair[1], pair[2])}
           Def(f) == [rest \in SUBSET P |->
                        IF rest = {} THEN <<>> ELSE <<First(rest)>> \o f[rest \ {First(rest)}]]
           f0 == CHOOSE f : f = Def(f)
           sorted == f0[P]
<1>1. /\ P \in SUBSET IndexEntry /\ IsFiniteSet(P)
      /\ \A one, two \in P : one.id = two.id => one = two
  BY DEF FoundFor
<1>2. MatchingIDs(index, address) = [i \in DOMAIN sorted |-> sorted[i].id]
  BY DEF MatchingIDs, Ascending
<1> HIDE DEF P
<1>3. ASSUME NEW rest \in SUBSET P, rest # {}
      PROVE  /\ First(rest) \in rest
             /\ \A y \in rest \ {First(rest)} : LongerFirst(First(rest), y)
  <2>1. rest \in SUBSET IndexEntry /\ \A one, two \in rest : one.id = two.id => one = two
    BY <1>1
  <2>2. \E x \in rest : \A y \in rest \ {x} : LongerFirst(x, y)
    BY <1>3, <2>1, FirstFound
  <2>3. QED
    BY <2>2 DEF LongerFirst
<1> HIDE DEF First
<1>4. \A f : f = Def(f) <=> Sorts(P, least, f)
  <2>1. ASSUME NEW f PROVE Def(f) = [rest \in SUBSET P |->
            IF rest = {} THEN <<>> ELSE <<least[rest]>> \o f[rest \ {least[rest]}]]
    OBVIOUS
  <2> HIDE DEF Def, least
  <2>2. QED
    BY <2>1 DEF Sorts
<1>5. \A rest \in SUBSET P : rest # {} =>
            /\ least[rest] \in rest
            /\ \A y \in rest \ {least[rest]} : <<least[rest], y>> \in order
  BY <1>3
<1> HIDE DEF Def, least, order
<1>6. /\ \E from : Sorts(P, least, from)
      /\ \A from : Sorts(P, least, from) => SequenceOf(P, order, from[P])
  BY <1>1, <1>5, SortingWorks
<1>7. f0 = Def(f0)
  BY <1>4, <1>6
<1>8. SequenceOf(P, order, sorted)
  BY <1>4, <1>6, <1>7
<1> HIDE DEF sorted
<1>9. /\ sorted \in Seq(P) /\ DOMAIN sorted = 1 .. Len(sorted)
      /\ {sorted[i] : i \in DOMAIN sorted} = P
      /\ \A i, j \in DOMAIN sorted : i < j => LongerFirst(sorted[i], sorted[j])
  <2>1. sorted \in Seq(P) /\ {sorted[i] : i \in DOMAIN sorted} = P
    BY <1>8 DEF SequenceOf
  <2>2. DOMAIN sorted = 1 .. Len(sorted)
    BY <2>1
  <2>3. \A i, j \in DOMAIN sorted : i < j => <<sorted[i], sorted[j]>> \in order
    BY <1>8 DEF SequenceOf
  <2>4. \A x, y : <<x, y>> \in order => LongerFirst(x, y)
    BY DEF order
  <2>5. QED
    BY <2>1, <2>2, <2>3, <2>4
<1>10. QED
  BY <1>2, <1>9 DEF P

-----------------------------------------------------------------------------
(* Folds that pick the best of a sequence *)

-----------------------------------------------------------------------------
(* Picking one of several *)

\* The candidate or the one picked before it, 0 if none was.
Pick(good, order, best, id) ==
  IF id \in good /\ (best = 0 \/ <<id, best>> \in order) THEN id ELSE best

\* What has been picked of the first n: the first of those that are good and that
\* no good one comes before.
Picked(ids, n, good, order, best) ==
  \/ best = 0 /\ \A i \in 1 .. n : ids[i] \notin good
  \/ \E k \in 1 .. n :
       /\ ids[k] = best /\ best \in good
       /\ \A j \in 1 .. n : ids[j] \in good => <<ids[j], best>> \notin order
       /\ \A j \in 1 .. k - 1 : ids[j] \in good => <<best, ids[j]>> \in order

\* The good ones are ordered, with ties.
Ranks(order, good) ==
  /\ \A x \in good : <<x, x>> \notin order
  /\ \A x, y, z \in good : <<x, y>> \in order /\ <<y, z>> \in order => <<x, z>> \in order
  /\ \A x, y, z \in good : <<x, y>> \in order => <<x, z>> \in order \/ <<z, y>> \in order

\* One more.
LEMMA PickedOnward ==
  ASSUME NEW ids, NEW good, 0 \notin good, NEW order, Ranks(order, good),
         NEW n \in Nat, NEW best, Picked(ids, n, good, order, best)
  PROVE  Picked(ids, n + 1, good, order, Pick(good, order, best, ids[n + 1]))
<1> DEFINE id == ids[n + 1]
           next == Pick(good, order, best, id)
<1>1. /\ \A k \in 1 .. n + 1 : k \in 1 .. n \/ k = n + 1
      /\ \A k \in 1 .. n : k \in 1 .. n + 1
      /\ n + 1 \in 1 .. n + 1 /\ (n + 1) - 1 = n
  OBVIOUS
<1>2. CASE best = 0 /\ \A i \in 1 .. n : ids[i] \notin good
  <2>1. CASE id \in good
    <3>1. next = id
      BY <1>2, <2>1 DEF Pick
    <3>2. <<id, id>> \notin order
      BY <2>1 DEF Ranks
    <3>3. \A j \in 1 .. n + 1 : ids[j] \in good => <<ids[j], id>> \notin order
      BY <1>1, <1>2, <3>2
    <3>4. \A j \in 1 .. (n + 1) - 1 : ids[j] \in good => <<id, ids[j]>> \in order
      BY <1>1, <1>2
    <3>5. QED
      BY <1>1, <2>1, <3>1, <3>3, <3>4 DEF Picked
  <2>2. CASE id \notin good
    <3>1. next = 0
      BY <1>2, <2>2 DEF Pick
    <3>2. \A i \in 1 .. n + 1 : ids[i] \notin good
      BY <1>1, <1>2, <2>2
    <3>3. QED
      BY <3>1, <3>2 DEF Picked
  <2>3. QED
    BY <2>1, <2>2
<1>3. ASSUME NEW k \in 1 .. n, ids[k] = best, best \in good,
             \A j \in 1 .. n : ids[j] \in good => <<ids[j], best>> \notin order,
             \A j \in 1 .. k - 1 : ids[j] \in good => <<best, ids[j]>> \in order
      PROVE  Picked(ids, n + 1, good, order, next)
  <2>1. best # 0
    BY <1>3
  <2>2. CASE id \in good /\ <<id, best>> \in order
    <3>1. next = id
      BY <2>2 DEF Pick
    <3>2. \A j \in 1 .. n : ids[j] \in good =>
            <<ids[j], id>> \notin order /\ <<id, ids[j]>> \in order
      <4>1. ASSUME NEW x \in good, <<x, best>> \notin order
            PROVE  <<x, id>> \notin order /\ <<id, x>> \in order
        BY <1>3, <2>2, <4>1 DEF Ranks
      <4>2. QED
        BY <1>3, <4>1
    <3>3. <<id, id>> \notin order
      BY <2>2 DEF Ranks
    <3>4. \A j \in 1 .. n + 1 : ids[j] \in good => <<ids[j], id>> \notin order
      BY <1>1, <3>2, <3>3
    <3>5. \A j \in 1 .. (n + 1) - 1 : ids[j] \in good => <<id, ids[j]>> \in order
      BY <1>1, <3>2
    <3>6. QED
      BY <1>1, <2>2, <3>1, <3>4, <3>5 DEF Picked
  <2>3. CASE ~ (id \in good /\ <<id, best>> \in order)
    <3>1. next = best
      BY <2>1, <2>3 DEF Pick
    <3>2. \A j \in 1 .. n + 1 : ids[j] \in good => <<ids[j], best>> \notin order
      BY <1>1, <1>3, <2>3
    <3>3. QED
      BY <1>1, <1>3, <3>1, <3>2 DEF Picked
  <2>4. QED
    BY <2>2, <2>3
<1>4. QED
  BY <1>2, <1>3 DEF Picked

\* Of a sequence, one after the other.
LEMMA PickingWorks ==
  ASSUME NEW m \in Nat, NEW ids, NEW good, 0 \notin good, NEW order, Ranks(order, good)
  PROVE  LET V == {0} \cup {ids[i] : i \in 1 .. m} IN
         \E f \in [SUBSET (1 .. m) -> V] :
           /\ \A s \in SUBSET (1 .. m) :
                f[s] = IF s = {} THEN 0 ELSE Pick(good, order, f[s \ {Greatest(s)}], ids[Greatest(s)])
           /\ Picked(ids, m, good, order, f[1 .. m])
<1> DEFINE V == {0} \cup {ids[i] : i \in 1 .. m}
           step == [i \in 1 .. m |-> [best \in V |-> Pick(good, order, best, ids[i])]]
<1>1. 0 \in V /\ \A i \in 1 .. m : ids[i] \in V
  OBVIOUS
<1> HIDE DEF V
<1>2. step \in [1 .. m -> [V -> V]]
  BY <1>1 DEF Pick
<1>3. \A i \in 1 .. m, best \in V : step[i][best] = Pick(good, order, best, ids[i])
  OBVIOUS
<1> HIDE DEF step
<1>4. PICK f \in [SUBSET (1 .. m) -> V] : FoldOf(m, 0, step, f)
  BY <1>1, <1>2, FoldingWorks
<1>5. ASSUME NEW s \in SUBSET (1 .. m)
      PROVE  f[s] = IF s = {} THEN 0 ELSE Pick(good, order, f[s \ {Greatest(s)}], ids[Greatest(s)])
  <2>1. f[s] = IF s = {} THEN 0 ELSE step[Greatest(s)][f[s \ {Greatest(s)}]]
    BY <1>4 DEF FoldOf
  <2>2. s # {} => /\ Greatest(s) \in 1 .. m /\ s \ {Greatest(s)} \in SUBSET (1 .. m)
                  /\ f[s \ {Greatest(s)}] \in V
    BY GreatestIndex
  <2>3. QED
    BY <1>3, <2>1, <2>2
<1>6. /\ f[1 .. 0] = 0
      /\ \A i \in 1 .. m : f[1 .. i] = Pick(good, order, f[1 .. i - 1], ids[i])
  <2>1. f[1 .. 0] = 0 /\ \A i \in 1 .. m : f[1 .. i] = step[i][f[1 .. i - 1]]
    BY ONLY <1>4, m \in Nat, FoldInOrder
  <2>2. ASSUME NEW i \in 1 .. m PROVE f[1 .. i - 1] \in V
    <3>1. (1 .. i - 1) \in SUBSET (1 .. m)
      OBVIOUS
    <3>2. QED
      BY <3>1
  <2>3. QED
    BY <1>3, <2>1, <2>2
<1> DEFINE G == {n \in Nat : n <= m => Picked(ids, n, good, order, f[1 .. n])}
<1>7. 0 \in G
  BY <1>6 DEF Picked
<1>8. ASSUME NEW n \in G PROVE n + 1 \in G
  <2> SUFFICES ASSUME n + 1 <= m PROVE Picked(ids, n + 1, good, order, f[1 .. n + 1])
    OBVIOUS
  <2>1. n \in Nat /\ n + 1 \in 1 .. m /\ (n + 1) - 1 = n
    OBVIOUS
  <2>2. Picked(ids, n, good, order, f[1 .. n])
    BY <2>1
  <2>3. f[1 .. n + 1] = Pick(good, order, f[1 .. n], ids[n + 1])
    BY <1>6, <2>1
  <2>4. QED
    BY <2>1, <2>2, <2>3, PickedOnward
<1>9. G = Nat
  <2> HIDE DEF G
  <2>1. G \in SUBSET Nat
    BY DEF G
  <2>2. QED
    BY <1>7, <1>8, <2>1, NatSetInduction
<1>10. Picked(ids, m, good, order, f[1 .. m])
  BY <1>9
<1>11. QED
  BY <1>5, <1>10 DEF V

\* narrowestAllocation and narrowestGeofeed pick the first of the narrowest.
LEMMA NarrowestIsPicked ==
  ASSUME NEW objects, NEW ids, Len(ids) \in Nat, DOMAIN ids = 1 .. Len(ids),
         \A i \in 1 .. Len(ids) : ids[i] # 0 /\ Width(objects[ids[i]]) \in Int
  PROVE  LET best == Narrowest(objects, ids) IN
         IF Len(ids) = 0 THEN best = 0
         ELSE \E k \in 1 .. Len(ids) :
                /\ ids[k] = best
                /\ \A j \in 1 .. Len(ids) : Width(objects[best]) <= Width(objects[ids[j]])
                /\ \A j \in 1 .. k - 1 : Width(objects[best]) < Width(objects[ids[j]])
<1> DEFINE m == Len(ids)
           good == {ids[i] : i \in 1 .. m}
           order == {pair \in good \X good : Width(objects[pair[1]]) < Width(objects[pair[2]])}
           Next0(best, id) == IF best = 0 \/ Width(objects[id]) < Width(objects[best])
                              THEN id ELSE best
           At(f, s) == IF s = {} THEN 0 ELSE Next0(f[s \ {Greatest(s)}], ids[Greatest(s)])
           D == DOMAIN ids
           Def(f) == [s \in SUBSET D |-> At(f, s)]
           f0 == CHOOSE f : f = Def(f)
           V == {0} \cup {ids[i] : i \in 1 .. m}
<1>1. Narrowest(objects, ids) = f0[D]
  BY DEF Narrowest, FoldLeft, MapThenFoldSet, Max, Greatest
<1>2. 0 \notin good /\ \A x \in good : Width(objects[x]) \in Int
  OBVIOUS
<1>3. \A x, y \in good : <<x, y>> \in order <=> Width(objects[x]) < Width(objects[y])
  OBVIOUS
<1>4. \A i \in 1 .. m : ids[i] \in good
  OBVIOUS
<1>5. V = {0} \cup good
  OBVIOUS
<1> HIDE DEF good, order
<1>6. Ranks(order, good)
  BY <1>2, <1>3 DEF Ranks
<1>7. PICK f \in [SUBSET (1 .. m) -> V] :
        /\ \A s \in SUBSET (1 .. m) :
             f[s] = IF s = {} THEN 0 ELSE Pick(good, order, f[s \ {Greatest(s)}], ids[Greatest(s)])
        /\ Picked(ids, m, good, order, f[1 .. m])
  BY <1>2, <1>6, PickingWorks
<1> HIDE DEF V
<1>8. ASSUME NEW s \in SUBSET D PROVE f[s] = At(f, s)
  <2>1. s # {} => /\ Greatest(s) \in 1 .. m /\ s \ {Greatest(s)} \in SUBSET (1 .. m)
                  /\ f[s \ {Greatest(s)}] \in V
    BY GreatestIndex
  <2>2. \A i \in 1 .. m, best \in V : Pick(good, order, best, ids[i]) = Next0(best, ids[i])
    BY <1>3, <1>4, <1>5 DEF Pick
  <2>3. QED
    BY <1>7, <2>1, <2>2, ZenonT(60)
<1>9. f0 = Def(f0)
  <2>1. f = Def(f)
    BY <1>8
  <2>2. QED
    BY <2>1
<1> HIDE DEF f0
<1>10. f0[1 .. m] = f[1 .. m]
  <2>1. ASSUME NEW s \in SUBSET (1 .. m),
               s = {} \/ f0[s \ {Greatest(s)}] = f[s \ {Greatest(s)}]
        PROVE  f0[s] = f[s]
    <3>1. f0[s] = At(f0, s) /\ f[s] = At(f, s)
      BY <1>8, <1>9
    <3>2. QED
      BY <2>1, <3>1
  <2>2. QED
    BY <2>1, FoldsAgree
<1> DEFINE best == Narrowest(objects, ids)
<1>11. Picked(ids, m, good, order, best)
  BY <1>1, <1>7, <1>10
<1> HIDE DEF best
<1>12. CASE m = 0
  BY <1>11, <1>12 DEF Picked, best
<1>13. CASE m # 0
  <2>1. 1 \in 1 .. m
    BY <1>13
  <2>2. PICK k \in 1 .. m :
       /\ ids[k] = best /\ best \in good
       /\ \A j \in 1 .. m : ids[j] \in good => <<ids[j], best>> \notin order
       /\ \A j \in 1 .. k - 1 : ids[j] \in good => <<best, ids[j]>> \in order
    BY <1>4, <1>11, <2>1 DEF Picked
  <2>3. \A j \in 1 .. m : Width(objects[best]) <= Width(objects[ids[j]])
    <3>1. ASSUME NEW x \in good, <<x, best>> \notin order
          PROVE  Width(objects[best]) <= Width(objects[x])
      <4>1. Width(objects[x]) \in Int /\ Width(objects[best]) \in Int
        BY <1>2, <2>2
      <4>2. ~ (Width(objects[x]) < Width(objects[best]))
        BY <1>3, <2>2, <3>1
      <4>3. QED
        BY <4>1, <4>2
    <3>2. QED
      BY <1>4, <2>2, <3>1
  <2>4. \A j \in 1 .. k - 1 : Width(objects[best]) < Width(objects[ids[j]])
    <3>1. ASSUME NEW x \in good, <<best, x>> \in order
          PROVE  Width(objects[best]) < Width(objects[x])
      BY <1>3, <2>2, <3>1
    <3>2. \A j \in 1 .. k - 1 : j \in 1 .. m
      BY <2>2
    <3>3. QED
      BY <1>4, <2>2, <3>1, <3>2
  <2>5. QED
    BY <1>13, <2>2, <2>3, <2>4 DEF best
<1>14. QED
  BY <1>12, <1>13

-----------------------------------------------------------------------------
(* The allocation that covers a prefix *)

\* The tighter of two records, in the order coveringAllocation compares them.
TighterOrder(records, ids) == {pair \in ids \X ids : Tighter(records, pair[1], pair[2])}

\* As pairs.
LEMMA TighterPairs ==
  ASSUME NEW records, NEW ids, NEW x \in ids, NEW y \in ids
  PROVE  <<x, y>> \in TighterOrder(records, ids) <=> Tighter(records, x, y)
BY DEF TighterOrder

\* It is a strict order without ties.
LEMMA TighterRanks ==
  ASSUME NEW records \in Seq(Ranges), NEW good \in SUBSET (DOMAIN records)
  PROVE  Ranks(TighterOrder(records, DOMAIN records), good)
<1>1. \A id \in good : /\ id \in DOMAIN records /\ id \in Nat
                       /\ records[id] \in Ranges
                       /\ records[id].start \in Nat /\ records[id].end \in Nat
  <2>1. ASSUME NEW id \in good PROVE records[id] \in Ranges /\ id \in Nat
    OBVIOUS
  <2>2. \A range \in Ranges : range.start \in Nat /\ range.end \in Nat
    BY DEF Ranges, Addresses
  <2>3. QED
    BY <2>1, <2>2
<1>2. \A x, y \in good :
        <<x, y>> \in TighterOrder(records, DOMAIN records) <=> Tighter(records, x, y)
  BY <1>1, TighterPairs
<1>3. \A one, two \in Ranges : one = two <=> one.start = two.start /\ one.end = two.end
  BY DEF Ranges
<1>4. \A x, y \in good : records[x] = records[y]
        <=> records[x].start = records[y].start /\ records[x].end = records[y].end
  BY <1>1, <1>3
<1> DEFINE S(x) == records[x].start
           E(x) == records[x].end
<1>5. \A x, y \in good : Tighter(records, x, y) <=>
        \/ S(x) > S(y)
        \/ S(x) = S(y) /\ E(x) < E(y)
        \/ S(x) = S(y) /\ E(x) = E(y) /\ x < y
  BY <1>4 DEF Tighter
<1>6. \A x \in good : S(x) \in Nat /\ E(x) \in Nat /\ x \in Nat
  BY <1>1
<1> HIDE DEF S, E
<1>7. \A x \in good : ~ Tighter(records, x, x)
  BY <1>5, <1>6
<1>8. \A x, y, z \in good :
        Tighter(records, x, y) /\ Tighter(records, y, z) => Tighter(records, x, z)
  BY <1>5, <1>6
<1>9. \A x, y, z \in good :
        Tighter(records, x, y) => Tighter(records, x, z) \/ Tighter(records, z, y)
  BY <1>5, <1>6
<1>10. QED
  BY <1>2, <1>7, <1>8, <1>9 DEF Ranks

\* coveringAllocation picks the tightest of those that contain the prefix.
LEMMA CoveringIsPicked ==
  ASSUME NEW data, data.allocations \in Seq(Ranges), NEW query,
         NEW ids, ids = MatchingIDs(data.allocationIndex, query.start),
         Len(ids) \in Nat, DOMAIN ids = 1 .. Len(ids),
         \A i \in 1 .. Len(ids) : ids[i] \in DOMAIN data.allocations
  PROVE  LET records == data.allocations
             good == {id \in DOMAIN records : records[id].start <= query.start
                                                 /\ records[id].end >= query.end}
         IN  Picked(ids, Len(ids), good, TighterOrder(records, DOMAIN records),
                    CoveringAllocation(data, query))
<1> DEFINE records == data.allocations
           m == Len(ids)
           good == {id \in DOMAIN records : records[id].start <= query.start
                                               /\ records[id].end >= query.end}
           order == TighterOrder(records, DOMAIN records)
           Next0(best, id) == IF /\ records[id].start <= query.start
                                 /\ records[id].end >= query.end
                                 /\ best = 0 \/ Tighter(records, id, best)
                              THEN id ELSE best
           At(f, s) == IF s = {} THEN 0 ELSE Next0(f[s \ {Greatest(s)}], ids[Greatest(s)])
           D == DOMAIN ids
           Def(f) == [s \in SUBSET D |-> At(f, s)]
           f0 == CHOOSE f : f = Def(f)
           V == {0} \cup {ids[i] : i \in 1 .. m}
<1>1. CoveringAllocation(data, query) = f0[D]
  BY DEF CoveringAllocation, FoldLeft, MapThenFoldSet, Max, Greatest
<1>2. 0 \notin DOMAIN records
  OBVIOUS
<1>3. \A i \in 1 .. m : ids[i] \in DOMAIN records
  OBVIOUS
<1>4. \A id \in DOMAIN records :
        id \in good <=> records[id].start <= query.start /\ records[id].end >= query.end
  OBVIOUS
<1>5. good \in SUBSET (DOMAIN records) /\ 0 \notin good
  BY <1>2
<1>6. Ranks(order, good)
  BY <1>5, TighterRanks
<1>7. \A x, y \in DOMAIN records : <<x, y>> \in order <=> Tighter(records, x, y)
  BY TighterPairs
<1>8. \A best \in V : best = 0 \/ best \in DOMAIN records
  BY <1>3
<1> HIDE DEF good, order
<1>9. PICK f \in [SUBSET (1 .. m) -> V] :
        /\ \A s \in SUBSET (1 .. m) :
             f[s] = IF s = {} THEN 0 ELSE Pick(good, order, f[s \ {Greatest(s)}], ids[Greatest(s)])
        /\ Picked(ids, m, good, order, f[1 .. m])
  <2>1. m \in Nat /\ 0 \notin good
    BY <1>5
  <2>2. QED
    BY ONLY <1>6, <2>1, PickingWorks
<1> HIDE DEF V, records
<1>10. ASSUME NEW s \in SUBSET D PROVE f[s] = At(f, s)
  <2>1. s # {} => /\ Greatest(s) \in 1 .. m /\ s \ {Greatest(s)} \in SUBSET (1 .. m)
                  /\ f[s \ {Greatest(s)}] \in V
    BY GreatestIndex
  <2>2. \A i \in 1 .. m, best \in V : Pick(good, order, best, ids[i]) = Next0(best, ids[i])
    BY <1>3, <1>4, <1>7, <1>8, SMTT(30), ZenonT(30) DEF Pick
  <2>3. QED
    BY <1>9, <2>1, <2>2
<1>11. f0 = Def(f0)
  <2>1. f = Def(f)
    BY <1>10
  <2>2. QED
    BY <2>1
<1> HIDE DEF f0
<1>12. f0[1 .. m] = f[1 .. m]
  <2>1. ASSUME NEW s \in SUBSET (1 .. m),
               s = {} \/ f0[s \ {Greatest(s)}] = f[s \ {Greatest(s)}]
        PROVE  f0[s] = f[s]
    <3>1. f0[s] = At(f0, s) /\ f[s] = At(f, s)
      BY <1>10, <1>11
    <3>2. QED
      BY <2>1, <3>1
  <2>2. QED
    BY <2>1, FoldsAgree
<1>13. QED
  BY <1>1, <1>9, <1>12 DEF good, order, records

\* What the published file's records and indexes are.
LEMMA ServedData ==
  ASSUME BuildInv, Served
  PROVE  LET data == output.content IN
         /\ data.allocations \in Seq(Ranges)
         /\ \A id \in DOMAIN data.allocations :
              data.allocations[id].start <= data.allocations[id].end
         /\ data.geofeeds \in Seq(Ranges)
         /\ \A id \in DOMAIN data.geofeeds : data.geofeeds[id].start <= data.geofeeds[id].end
         /\ data.routes \in Seq(KeptRoute)
         /\ data.allocationIndex = RangeEntries(data.allocations)
         /\ data.geofeedIndex = RangeEntries(data.geofeeds)
         /\ data.routeIndex = RouteEntries(data.routes)
         /\ data.allocationLPM = SelectionTrie(data.allocations)[Len(data.allocations)]
         /\ data.geofeedLPM = SelectionTrie(data.geofeeds)[Len(data.geofeeds)]
         /\ LET groups == RouteGroups(RouteEntries(data.routes))
            IN  data.routeLPM = RouteTrie(groups)[Len(groups)]
<1> DEFINE data == output.content
<1>1. IsDatasetOf(data, input) /\ IsInput(input)
  <2>1. IsInput(input) /\ OutputInv
    BY DEF BuildInv, ObjectsInv
  <2>2. output.is = "data" /\ NoFile.is = "none"
    BY DEF Served, NoFile
  <2>3. QED
    BY <2>1, <2>2 DEF OutputInv
<1>2. input.allocations \in Seq(Ranges) /\ input.geofeeds \in Seq(Ranges)
  BY <1>1 DEF IsInput
<1> HIDE DEF data
<1>3. /\ data.allocations = KeptRanges(input.allocations)[Len(input.allocations)]
      /\ data.geofeeds = KeptRanges(input.geofeeds)[Len(input.geofeeds)]
      /\ data.routes = KeptRoutes(input.routes)[Len(input.routes)]
      /\ data.allocationIndex = RangeEntries(data.allocations)
      /\ data.geofeedIndex = RangeEntries(data.geofeeds)
      /\ data.routeIndex = RouteEntries(data.routes)
      /\ data.allocationLPM = SelectionTrie(data.allocations)[Len(data.allocations)]
      /\ data.geofeedLPM = SelectionTrie(data.geofeeds)[Len(data.geofeeds)]
      /\ LET groups == RouteGroups(RouteEntries(data.routes))
         IN  data.routeLPM = RouteTrie(groups)[Len(groups)]
  BY <1>1 DEF IsDatasetOf
<1>4. /\ data.allocations \in Seq(Ranges)
      /\ \A id \in DOMAIN data.allocations :
           data.allocations[id].start <= data.allocations[id].end
  BY <1>2, <1>3, RangesAreRanges
<1>5. /\ data.geofeeds \in Seq(Ranges)
      /\ \A id \in DOMAIN data.geofeeds : data.geofeeds[id].start <= data.geofeeds[id].end
  BY <1>2, <1>3, RangesAreRanges
<1>6. data.routes \in Seq(KeptRoute)
  BY <1>1, <1>3, RoutesAreMasked
<1>7. QED
  BY <1>3, <1>4, <1>5, <1>6 DEF data

\* Whatever a published file was built from, the allocation named for a prefix
\* contains it, and no other that contains it lies strictly inside; one is named
\* if any contains the prefix.  (coveringAllocation looks only at the records that
\* the index has for the first address.)
THEOREM CoveringIsTightest == Spec => []CoveringIsTight
<1>1. ASSUME BuildInv PROVE CoveringIsTight
  <2> DEFINE data == output.content
             records == data.allocations
             Inside(inner, outer) == outer.start <= inner.start /\ inner.end <= outer.end
  <2> SUFFICES ASSUME Served, NEW prefix \in AllPrefixes
        PROVE  LET query == PrefixRange(prefix)
                   covering == {id \in DOMAIN records : Inside(query, records[id])}
                   chosen == CoveringAllocation(data, query)
               IN  IF covering = {} THEN chosen = 0
                   ELSE /\ chosen \in covering
                        /\ \A id \in covering :
                             Inside(records[id], records[chosen]) => records[id] = records[chosen]
    BY DEF CoveringIsTight
  <2> DEFINE query == PrefixRange(prefix)
             covering == {id \in DOMAIN records : Inside(query, records[id])}
             good == {id \in DOMAIN records : records[id].start <= query.start
                                                 /\ records[id].end >= query.end}
             chosen == CoveringAllocation(data, query)
             address == query.start
             found == Matching(data.allocationIndex, address)
             ids == MatchingIDs(data.allocationIndex, address)
             m == Len(ids)
  <2>1. /\ records \in Seq(Ranges) /\ data.allocationIndex = RangeEntries(records)
        /\ \A id \in DOMAIN records : records[id].start <= records[id].end
    BY <1>1, ServedData
  <2> HIDE DEF data, records
  <2>2. /\ address \in Addresses /\ query.end \in Int /\ query.start <= query.end
        /\ address \in Nat
    <3>1. /\ prefix.address \in Addresses /\ prefix.address \in Nat
          /\ Size(prefix.length) \in Nat \ {0}
      BY PrefixKinds, SizeIsPositive DEF APrefix
    <3>2. QED
      BY <3>1 DEF PrefixRange, PrefixEnd
  <2>3. \A range \in Ranges : range.start \in Nat /\ range.end \in Nat
    BY DEF Ranges, Addresses
  <2>4. \A id \in DOMAIN records : records[id] \in Ranges
    BY <2>1
  <2> HIDE DEF query
  <2>5. covering = good
    BY <2>2, <2>3, <2>4
  <2>6. FoundFor(found, {id \in DOMAIN records : InRange(records[id], address)})
    BY <2>1, <2>2, RangesFound
  <2>7. PICK sorted \in Seq(found) :
           /\ ids = [i \in 1 .. Len(sorted) |-> sorted[i].id]
           /\ {sorted[i] : i \in 1 .. Len(sorted)} = found
    BY <2>6, FoundInOrder
  <2> HIDE DEF found, ids
  <2>8. /\ Len(sorted) \in Nat /\ m = Len(sorted) /\ DOMAIN ids = 1 .. m
        /\ \A i \in 1 .. m : ids[i] = sorted[i].id /\ sorted[i] \in found
    BY <2>7
  <2>9. \A entry \in found : entry.id \in DOMAIN records
    BY <2>6 DEF FoundFor
  <2>10. \A i \in 1 .. m : ids[i] \in DOMAIN records
    BY <2>8, <2>9
  <2>11. \A id \in good : \E i \in 1 .. m : ids[i] = id
    <3>1. ASSUME NEW id \in good PROVE InRange(records[id], address)
      BY <2>2, <2>3, <2>4 DEF InRange
    <3>2. \A id \in good : \E entry \in found : entry.id = id
      BY <2>6, <3>1 DEF FoundFor
    <3>3. QED
      BY <2>7, <2>8, <3>2
  <2>12. Picked(ids, m, good, TighterOrder(records, DOMAIN records), chosen)
    <3>1. /\ data.allocations \in Seq(Ranges) /\ Len(ids) \in Nat /\ DOMAIN ids = 1 .. Len(ids)
          /\ ids = MatchingIDs(data.allocationIndex, query.start)
          /\ \A i \in 1 .. Len(ids) : ids[i] \in DOMAIN data.allocations
      BY <2>1, <2>8, <2>10 DEF records, ids
    <3>2. QED
      BY ONLY <3>1, CoveringIsPicked DEF records
  <2> HIDE DEF chosen, good, m
  <2>13. CASE chosen = 0 /\ \A i \in 1 .. m : ids[i] \notin good
    <3>1. good = {}
      BY <2>11, <2>13
    <3>2. QED
      BY <2>5, <2>13, <3>1 DEF query, chosen
  <2>14. ASSUME chosen \in good,
                \A j \in 1 .. m : ids[j] \in good =>
                    <<ids[j], chosen>> \notin TighterOrder(records, DOMAIN records)
         PROVE  \A id \in good :
                  Inside(records[id], records[chosen]) => records[id] = records[chosen]
    <3> SUFFICES ASSUME NEW id \in good, Inside(records[id], records[chosen])
                 PROVE  records[id] = records[chosen]
      OBVIOUS
    <3>1. id \in DOMAIN records /\ chosen \in DOMAIN records
      BY <2>14 DEF good
    <3>2. ~ Tighter(records, id, chosen)
      <4>1. <<id, chosen>> \notin TighterOrder(records, DOMAIN records)
        BY <2>11, <2>14
      <4>2. QED
        BY <3>1, <4>1, TighterPairs
    <3>3. /\ records[id] \in Ranges /\ records[chosen] \in Ranges
          /\ records[id].start \in Nat /\ records[id].end \in Nat
          /\ records[chosen].start \in Nat /\ records[chosen].end \in Nat
      BY <2>3, <2>4, <3>1
    <3>4. records[id].start = records[chosen].start /\ records[id].end = records[chosen].end
      BY <3>2, <3>3 DEF Tighter
    <3>5. QED
      BY <3>3, <3>4 DEF Ranges
  <2>15. QED
    BY <2>5, <2>12, <2>13, <2>14 DEF Picked, query, chosen
<1>2. QED
  BY <1>1, BuildInvariance, PTL

-----------------------------------------------------------------------------
(* The compact response and the full one *)

\* The candidate that the trie selects is the one that reading all records of the
\* address selects: the candidates of a prefix are compared as they are entered and
\* the prefixes when they are looked up, ties included.
LEMMA SelectionIsNarrowest ==
  ASSUME NEW ranges \in Seq(Ranges),
         \A id \in DOMAIN ranges : ranges[id].start <= ranges[id].end,
         NEW address \in Addresses
  PROVE  LookupSelectionLPM(SelectionTrie(ranges)[Len(ranges)], address)
           = Narrowest(ranges, MatchingIDs(RangeEntries(ranges), address))
<1> DEFINE nodes == SelectionTrie(ranges)[Len(ranges)]
           Full == {ref \in Covering(nodes, address) : nodes[ref].value # NoCandidate}
           chosen == LookupSelectionLPM(nodes, address)
           matching == {id \in DOMAIN ranges : InRange(ranges[id], address)}
           found == Matching(RangeEntries(ranges), address)
           ids == MatchingIDs(RangeEntries(ranges), address)
           m == Len(ids)
           best == Narrowest(ranges, ids)
           W(id) == Width(ranges[id])
           Pieces(id) == RangePrefixes(ranges[id])
           Covers0(id, i) == Agree(Pieces(id)[i].address, address, Pieces(id)[i].length)
<1>1. /\ Len(ranges) \in Nat /\ DOMAIN ranges = 1 .. Len(ranges) /\ address \in Nat
      /\ \A id \in DOMAIN ranges : ranges[id] \in Ranges /\ ranges[id].start <= ranges[id].end
  BY PrefixKinds
<1>2. /\ FoundFor(found, matching)
      /\ \A entry \in found : \E i \in 1 .. Len(Pieces(entry.id)) :
           Pieces(entry.id)[i].length = entry.length /\ Covers0(entry.id, i)
  BY RangesFound
<1>3. PICK sorted \in Seq(found) :
        /\ ids = [i \in 1 .. Len(sorted) |-> sorted[i].id]
        /\ {sorted[i] : i \in 1 .. Len(sorted)} = found
        /\ \A i, j \in 1 .. Len(sorted) : i < j => LongerFirst(sorted[i], sorted[j])
  BY <1>2, FoundInOrder
<1>4. IsNarrowest(ranges, address, chosen)
  BY SelectionTrieAnswers
<1>5. IF matching = {} THEN chosen = 0
      ELSE chosen \in matching /\ \A id \in matching : W(chosen) <= W(id)
  BY <1>4 DEF IsNarrowest
<1>6. \A id \in DOMAIN ranges : W(id) \in Int
  <2>1. \A range \in Ranges : range.start \in Nat /\ range.end \in Nat
    BY DEF Ranges, Addresses
  <2>2. QED
    BY <1>1, <2>1 DEF Width
<1> HIDE DEF found, ids, W, chosen
<1>7. /\ Len(sorted) \in Nat /\ m = Len(sorted) /\ DOMAIN ids = 1 .. m
      /\ \A i \in 1 .. m : ids[i] = sorted[i].id /\ sorted[i] \in found
  BY <1>3
<1>8. \A i \in 1 .. m : /\ ids[i] \in matching /\ ids[i] \in DOMAIN ranges /\ ids[i] # 0
                        /\ W(ids[i]) \in Int
  <2>1. \A entry \in found : entry.id \in matching
    BY <1>2 DEF FoundFor
  <2>2. \A id \in matching : id \in DOMAIN ranges /\ id # 0 /\ W(id) \in Int
    BY <1>1, <1>6
  <2>3. QED
    BY <1>7, <2>1, <2>2
<1>9. \A id \in matching : \E i \in 1 .. m : ids[i] = id
  <2>1. \A id \in matching : \E entry \in found : entry.id = id
    BY <1>2 DEF FoundFor
  <2>2. QED
    BY <1>3, <1>7, <2>1
<1>10. IF m = 0 THEN best = 0
       ELSE \E k \in 1 .. m :
              /\ ids[k] = best
              /\ \A j \in 1 .. m : W(best) <= W(ids[j])
              /\ \A j \in 1 .. k - 1 : W(best) < W(ids[j])
  <2>1. /\ Len(ids) \in Nat /\ DOMAIN ids = 1 .. Len(ids)
        /\ \A i \in 1 .. Len(ids) : ids[i] # 0 /\ Width(ranges[ids[i]]) \in Int
    BY <1>7, <1>8 DEF W
  <2>2. QED
    BY ONLY <2>1, NarrowestIsPicked DEF W
<1> HIDE DEF best, matching
<1>11. CASE m = 0
  <2>1. matching = {}
    BY <1>9, <1>11
  <2>2. QED
    BY <1>5, <1>10, <1>11, <2>1 DEF chosen, best, nodes, ids
<1>12. CASE m # 0
  <2>1. PICK k \in 1 .. m : /\ ids[k] = best
                            /\ \A j \in 1 .. m : W(best) <= W(ids[j])
                            /\ \A j \in 1 .. k - 1 : W(best) < W(ids[j])
    BY <1>10, <1>12
  <2>2. best \in matching /\ best \in DOMAIN ranges
    BY <1>8, <2>1
  <2>3. chosen \in matching /\ W(chosen) <= W(best)
    BY <1>5, <2>2
  <2>4. PICK c \in 1 .. m : ids[c] = chosen
    BY <1>9, <2>3
  <2>5. W(chosen) = W(best) /\ W(best) \in Int
    BY <1>8, <2>1, <2>3, <2>4
  <2>6. ~ (c < k)
    <3>1. c < k => c \in 1 .. k - 1
      BY <1>7
    <3>2. QED
      BY <2>1, <2>4, <2>5, <3>1
  <2>7. ~ (k < c)
    <3> SUFFICES ASSUME k < c PROVE FALSE
      OBVIOUS
    <3>1. LongerFirst(sorted[k], sorted[c])
      BY <1>3, <1>7
    <3>2. Patricia(nodes, SelectionValues, NoCandidate)
      BY SelectionTrieNodes
    <3>3. IF Full = {} THEN chosen = 0
          ELSE \E ref \in Full : /\ nodes[ref].value.id = chosen
                                 /\ \A other \in Full : ~ SelectionLess(nodes[other], nodes[ref])
      BY <1>1, <3>2, SelectionLookupIsBest DEF chosen
    <3>4. PICK i \in 1 .. Len(Pieces(best)) :
            Pieces(best)[i].length = sorted[k].length /\ Covers0(best, i)
      <4>1. sorted[k] \in found /\ sorted[k].id = best
        BY <1>7, <2>1
      <4>2. QED
        BY <1>2, <4>1
    <3>5. PICK other \in Full :
            /\ nodes[other].length = Pieces(best)[i].length
            /\ ~ CandidateLess(CandidateOf(ranges[best], best), nodes[other].value)
      BY <2>2, <3>4, SelectionTrieNodes
    <3>6. PICK ref \in Full : nodes[ref].value.id = chosen
                              /\ ~ SelectionLess(nodes[other], nodes[ref])
      BY <3>3, <3>5
    <3>7. /\ nodes[ref] \in NodesOf(SelectionValues)
          /\ chosen \in DOMAIN ranges
          /\ nodes[ref].value.width = W(chosen)
          /\ \E j \in 1 .. Len(Pieces(chosen)) :
               Pieces(chosen)[j].length = nodes[ref].length /\ Covers0(chosen, j)
      <4> DEFINE Stated(r) ==
            LET id == nodes[r].value.id IN
            /\ nodes[r] \in NodesOf(SelectionValues)
            /\ id \in DOMAIN ranges
            /\ nodes[r].value.width = Width(ranges[id])
            /\ \E j \in 1 .. Len(Pieces(id)) :
                 Pieces(id)[j].length = nodes[r].length /\ Covers0(id, j)
      <4>0. \A r \in Full : Stated(r)
        BY SelectionTrieNodes, ZenonT(60)
      <4> HIDE DEF Stated
      <4>a. Stated(ref)
        BY <4>0
      <4>1. LET id == nodes[ref].value.id IN
            /\ nodes[ref] \in NodesOf(SelectionValues)
            /\ id \in DOMAIN ranges
            /\ nodes[ref].value.width = Width(ranges[id])
            /\ \E j \in 1 .. Len(Pieces(id)) :
                 Pieces(id)[j].length = nodes[ref].length /\ Covers0(id, j)
        BY <4>a DEF Stated
      <4>2. nodes[ref].value.id = chosen
        BY <3>6, Zenon, SMTT(30)
      <4>3. QED
        BY <4>1, <4>2, SMTT(30), ZenonT(30) DEF W
    <3>8. nodes[other] \in NodesOf(SelectionValues)
      BY <3>5, SelectionTrieNodes
    <3>9. nodes[ref].length = sorted[c].length
      <4>1. PICK j \in 1 .. Len(Pieces(chosen)) :
              Pieces(chosen)[j].length = nodes[ref].length /\ Covers0(chosen, j)
        BY <3>7
      <4>2. sorted[c] \in found /\ sorted[c].id = chosen
        BY <1>7, <2>4
      <4>3. PICK l \in 1 .. Len(Pieces(chosen)) :
              Pieces(chosen)[l].length = sorted[c].length /\ Covers0(chosen, l)
        BY <1>2, <4>2
      <4>4. ranges[chosen] \in Ranges /\ ranges[chosen].start <= ranges[chosen].end
        BY <1>1, <3>7
      <4>5. j = l
        BY <4>1, <4>3, <4>4, OnePiece
      <4>6. QED
        BY <4>1, <4>3, <4>5
    <3> DEFINE one == nodes[ref]
               two == nodes[other]
    <3>10. /\ one.length \in Nat /\ one.value.width \in Nat /\ one.value.id \in Nat
           /\ two.length \in Nat /\ two.value.width \in Nat /\ two.value.id \in Nat
      <4>1. \A node \in NodesOf(SelectionValues) :
              node.length \in Nat /\ node.value.width \in Nat /\ node.value.id \in Nat
        BY BitsAssumption DEF NodesOf, SelectionValues
      <4>2. QED
        BY <3>7, <3>8, <4>1
    <3>11. /\ one.value.width = W(best) /\ one.value.id = chosen
           /\ one.length = sorted[c].length /\ two.length = sorted[k].length
      BY <2>5, <3>4, <3>5, <3>6, <3>7, <3>9
    <3>12. /\ ~ (W(best) < two.value.width)
           /\ W(best) = two.value.width => ~ (best < two.value.id)
      BY <3>5 DEF CandidateLess, CandidateOf, W
    <3>13. /\ ~ (two.value.width < one.value.width)
           /\ two.value.width = one.value.width =>
                /\ ~ (two.length > one.length)
                /\ two.length = one.length => ~ (two.value.id < one.value.id)
      BY <3>6 DEF SelectionLess
    <3>14. \/ two.length > one.length
           \/ two.length = one.length /\ best < chosen
      BY <1>7, <2>1, <2>4, <3>1, <3>11 DEF LongerFirst
    <3>15. best \in Nat
      BY <1>1, <2>2
    <3> HIDE DEF one, two
    <3>16. two.value.width = one.value.width
      BY <3>10, <3>11, <3>12, <3>13
    <3>17. ~ (best < two.value.id)
      BY <3>11, <3>12, <3>16
    <3>18. two.length = one.length /\ best < chosen
      BY <3>13, <3>14, <3>16
    <3>19. ~ (two.value.id < chosen)
      BY <3>11, <3>13, <3>16, <3>18
    <3>20. QED
      BY <3>10, <3>11, <3>15, <3>17, <3>18, <3>19, SMTT(30), ZenonT(30)
  <2>8. c = k
    BY <1>7, <2>6, <2>7
  <2>9. QED
    BY <2>1, <2>4, <2>8 DEF chosen, best, nodes, ids
<1>13. QED
  BY <1>11, <1>12

\* The first m values of a are numbers in ascending order.
Rises(a, m) ==
  /\ m \in Nat
  /\ \A i \in 1 .. m : a[i] \in Nat
  /\ \A i, j \in 1 .. m : i < j => a[i] < a[j]

\* Each of the first m values of a is one of the first l values of b.
Within(a, m, b, l) == \A i \in 1 .. m : \E j \in 1 .. l : b[j] = a[i]

\* The first m values of a are the first m of the l values of b.
Begins(a, m, b, l) == m <= l /\ \A i \in 1 .. m : a[i] = b[i]

\* Numbers can be put in ascending order in one way only: of two sequences of the
\* same numbers neither is longer, and they agree.
LEMMA AscendingAgree ==
  ASSUME NEW m, NEW l, NEW a, NEW b,
         Rises(a, m), Rises(b, l), Within(a, m, b, l), Within(b, l, a, m)
  PROVE  Begins(a, m, b, l)
<1> USE DEF Rises, Within, Begins
<1> DEFINE SameTo(n) == n <= l /\ \A i \in 1 .. n : a[i] = b[i]
           G == {n \in Nat : n <= m => SameTo(n)}
<1>1. 0 \in G
  OBVIOUS
<1>2. ASSUME NEW n \in G PROVE n + 1 \in G
  <2> SUFFICES ASSUME n + 1 <= m PROVE SameTo(n + 1)
    OBVIOUS
  <2> DEFINE k == n + 1
  <2>1. n \in Nat /\ k \in 1 .. m /\ k \in Nat
    OBVIOUS
  <2>2. SameTo(n)
    BY <2>1
  <2>3. \A i \in 1 .. n : a[i] = b[i] /\ i \in 1 .. m /\ i \in 1 .. l /\ i < k
    BY <2>1, <2>2
  <2>4. \A i \in 1 .. n : a[i] < a[k]
    BY <2>1, <2>3
  <2>5. PICK j \in 1 .. l : b[j] = a[k]
    BY <2>1
  <2>6. ~ (j <= n)
    <3>1. j <= n => j \in 1 .. n
      BY <2>1
    <3>2. a[k] \in Nat
      BY <2>1
    <3>3. QED
      BY <2>3, <2>4, <2>5, <3>1, <3>2
  <2>7. k \in 1 .. l /\ k <= j
    BY <2>1, <2>6
  <2>8. b[k] \in Nat /\ b[j] \in Nat /\ b[k] <= b[j]
    <3>1. b[k] \in Nat /\ b[j] \in Nat
      BY <2>7
    <3>2. k = j \/ b[k] < b[j]
      BY <2>1, <2>7
    <3>3. QED
      BY <3>1, <3>2
  <2>9. \A i \in 1 .. n : b[i] < b[k]
    BY <2>3, <2>7
  <2>10. PICK h \in 1 .. m : a[h] = b[k]
    BY <2>7
  <2>11. ~ (h <= n)
    <3>1. h <= n => h \in 1 .. n
      BY <2>1
    <3>2. QED
      BY <2>3, <2>8, <2>9, <2>10, <3>1
  <2>12. a[k] <= a[h]
    <3>1. k = h \/ k < h
      BY <2>1, <2>11
    <3>2. a[k] \in Nat
      BY <2>1
    <3>3. k = h \/ a[k] < a[h]
      BY <2>1, <3>1
    <3>4. QED
      BY <2>8, <2>10, <3>2, <3>3
  <2>13. a[k] = b[k]
    BY <2>5, <2>8, <2>10, <2>12
  <2>14. \A i \in 1 .. k : i \in 1 .. n \/ i = k
    BY <2>1
  <2>15. k <= l
    BY <2>7
  <2> HIDE DEF k
  <2>16. \A i \in 1 .. k : a[i] = b[i]
    BY <2>3, <2>13, <2>14
  <2>17. QED
    BY <2>15, <2>16 DEF k
<1>3. G = Nat
  <2> HIDE DEF G
  <2>1. G \in SUBSET Nat
    BY DEF G
  <2>2. QED
    BY <1>1, <1>2, <2>1, NatSetInduction
<1>4. m \in G
  BY <1>3
<1>5. SameTo(m)
  <2> HIDE DEF SameTo
  <2>1. QED
    BY <1>4
<1>6. QED
  BY <1>5

\* Of 1 .. n a set has the first c.
FirstOnes(set, c, n) == c \in 0 .. n /\ \A i \in 1 .. n : i \in set <=> i <= c

\* The values kept are the first ones if those are the accepted places.
LEMMA KeptFront ==
  ASSUME NEW values, Len(values) \in Nat, NEW c, NEW accepted,
         FirstOnes(accepted, c, Len(values))
  PROVE  Kept(values, accepted)[Len(values)] = [i \in 1 .. c |-> values[i]]
<1> USE DEF FirstOnes
<1> DEFINE K == Kept(values, accepted)
           Least(n) == IF n <= c THEN n ELSE c
           Right(n) == K[n] = [i \in 1 .. Least(n) |-> values[i]]
           G == {n \in Nat : n <= Len(values) => Right(n)}
<1>1. /\ K[0] = <<>>
      /\ \A n \in 1 .. Len(values) :
           K[n] = IF n \in accepted THEN Append(K[n - 1], values[n]) ELSE K[n - 1]
  BY KeptSteps
<1> HIDE DEF K
<1>2. 0 \in G
  <2>1. 1 .. 0 = {} /\ Least(0) = 0
    OBVIOUS
  <2>2. [i \in 1 .. Least(0) |-> values[i]] = <<>>
    BY <2>1
  <2>3. QED
    BY <1>1, <2>2
<1>3. ASSUME NEW n \in G PROVE n + 1 \in G
  <2> SUFFICES ASSUME n + 1 <= Len(values) PROVE Right(n + 1)
    OBVIOUS
  <2>1. n \in Nat /\ n + 1 \in 1 .. Len(values) /\ (n + 1) - 1 = n
    OBVIOUS
  <2>2. Right(n)
    BY <2>1
  <2>3. K[n + 1] = IF n + 1 \in accepted THEN Append(K[n], values[n + 1]) ELSE K[n]
    BY <1>1, <2>1
  <2>4. CASE n + 1 <= c
    <3>1. Least(n) = n /\ Least(n + 1) = n + 1
      BY <2>1, <2>4
    <3>2. K[n + 1] = Append([i \in 1 .. n |-> values[i]], values[n + 1])
      BY <2>1, <2>2, <2>3, <2>4, <3>1
    <3>3. Append([i \in 1 .. n |-> values[i]], values[n + 1]) = [i \in 1 .. n + 1 |-> values[i]]
      BY <2>1
    <3>4. QED
      BY <3>1, <3>2, <3>3
  <2>5. CASE ~ (n + 1 <= c)
    <3>1. Least(n) = c /\ Least(n + 1) = c
      BY <2>1, <2>5
    <3>2. QED
      BY <2>1, <2>2, <2>3, <2>5, <3>1
  <2>6. QED
    BY <2>4, <2>5
<1>4. G = Nat
  <2> HIDE DEF G
  <2>1. G \in SUBSET Nat
    BY DEF G
  <2>2. QED
    BY <1>2, <1>3, <2>1, NatSetInduction
<1>5. Right(Len(values)) /\ Least(Len(values)) = c
  BY <1>4
<1>6. QED
  BY <1>5 DEF K

\* The first of a sequence, up to a limit.
LEMMA UptoIsFront ==
  ASSUME NEW seq, Len(seq) \in Nat, seq = [i \in 1 .. Len(seq) |-> seq[i]],
         NEW limit \in Nat \ {0}
  PROVE  /\ Upto(seq, limit)
              = [i \in 1 .. (IF Len(seq) <= limit THEN Len(seq) ELSE limit) |-> seq[i]]
         /\ Len(Upto(seq, limit)) = IF Len(seq) <= limit THEN Len(seq) ELSE limit
<1>1. CASE Len(seq) <= limit
  BY <1>1 DEF Upto
<1>2. CASE ~ (Len(seq) <= limit)
  <2>1. SubSeq(seq, 1, limit) = [i \in 1 .. limit |-> seq[i]]
    BY <1>2
  <2>2. QED
    BY <1>2, <2>1 DEF Upto
<1>3. QED
  BY <1>1, <1>2

\* A set of indexes that has all below each of its own is where a sequence begins.
LEMMA FrontOf ==
  ASSUME NEW m \in Nat, NEW Q \in SUBSET (1 .. m),
         \A i, j \in 1 .. m : i < j /\ j \in Q => i \in Q
  PROVE  \E q \in 0 .. m : \A i \in 1 .. m : i \in Q <=> i <= q
<1> DEFINE T == {i \in 1 .. m + 1 : i \notin Q}
<1>1. T \in SUBSET Nat /\ m + 1 \in T
  OBVIOUS
<1>2. PICK t \in T : \A i \in T : t <= i
  <2> HIDE DEF T
  <2>1. QED
    BY <1>1, LeastElement
<1>3. t - 1 \in 0 .. m
  OBVIOUS
<1>4. ASSUME NEW i \in 1 .. m PROVE i \in Q <=> i <= t - 1
  <2>1. i \notin Q => t <= i
    BY <1>2
  <2>2. ASSUME i \in Q, t <= i PROVE FALSE
    BY <2>2
  <2>3. QED
    BY <1>3, <2>1, <2>2
<1>5. QED
  BY <1>3, <1>4

\* The routes that the trie finds are those that reading all routes of the address
\* selects, as many as are read.
LEMMA LongestIsNarrowest ==
  ASSUME NEW routes \in Seq(KeptRoute), NEW address \in Addresses
  PROVE  LET groups == RouteGroups(RouteEntries(routes)) IN
         Upto(LookupRouteLPM(RouteTrie(groups)[Len(groups)], address), MaxCandidates)
           = NarrowestRoutes(routes, Upto(MatchingIDs(RouteEntries(routes), address), MaxCandidates))
<1> DEFINE groups == RouteGroups(RouteEntries(routes))
           chosen == LookupRouteLPM(RouteTrie(groups)[Len(groups)], address)
           matching == {id \in DOMAIN routes : InRange(PrefixRange(routes[id].prefix), address)}
           longest == {id \in matching : \A other \in matching :
                           routes[other].prefix.length <= routes[id].prefix.length}
           found == Matching(RouteEntries(routes), address)
           ids == MatchingIDs(RouteEntries(routes), address)
           m == Len(ids)
           L(id) == routes[id].prefix.length
<1>1. chosen = Ascending(longest, LAMBDA x, y : x < y)
  BY RouteTrieAnswers
<1>2. /\ FoundFor(found, matching)
      /\ \A entry \in found : entry.length = L(entry.id)
  BY RoutesFound
<1>3. PICK sorted \in Seq(found) :
        /\ ids = [i \in 1 .. Len(sorted) |-> sorted[i].id]
        /\ {sorted[i] : i \in 1 .. Len(sorted)} = found
        /\ \A i, j \in 1 .. Len(sorted) : i < j => LongerFirst(sorted[i], sorted[j])
  BY <1>2, FoundInOrder
<1>4. \A id \in matching : L(id) \in Nat /\ id \in Nat
  <2>1. \A id \in matching : routes[id] \in KeptRoute /\ id \in Nat
    OBVIOUS
  <2>2. \A route \in KeptRoute : route.prefix.length \in Nat
    BY BitsAssumption, PrefixKinds DEF KeptRoute, APrefix
  <2>3. QED
    BY <2>1, <2>2
<1>5. IsFiniteSet(matching)
  <2>1. IsFiniteSet(DOMAIN routes)
    <3>1. Len(routes) \in Nat /\ DOMAIN routes = 1 .. Len(routes)
      OBVIOUS
    <3>2. QED
      BY <3>1, FS_Interval
  <2>2. QED
    BY <2>1, FS_Subset
<1>6. longest \in SUBSET matching /\ \A id \in matching :
        id \in longest <=> \A other \in matching : L(other) <= L(id)
  OBVIOUS
<1> HIDE DEF found, ids, chosen, L, matching, longest
<1>7. /\ Len(sorted) \in Nat /\ m = Len(sorted) /\ DOMAIN ids = 1 .. m
      /\ \A i \in 1 .. m : ids[i] = sorted[i].id /\ sorted[i] \in found
      /\ ids = [i \in 1 .. m |-> ids[i]]
  BY <1>3
<1>8. \A i \in 1 .. m : ids[i] \in matching /\ L(ids[i]) \in Nat /\ ids[i] \in Nat
  <2>1. \A entry \in found : entry.id \in matching
    BY <1>2 DEF FoundFor
  <2>2. QED
    BY <1>4, <1>7, <2>1
<1>9. \A id \in matching : \E i \in 1 .. m : ids[i] = id
  <2>1. \A id \in matching : \E entry \in found : entry.id = id
    BY <1>2 DEF FoundFor
  <2>2. QED
    BY <1>3, <1>7, <2>1
<1>10. \A i, j \in 1 .. m : i < j =>
         \/ L(ids[i]) > L(ids[j])
         \/ L(ids[i]) = L(ids[j]) /\ ids[i] < ids[j]
  <2>1. \A i \in 1 .. m : sorted[i].length = L(ids[i]) /\ sorted[i].id = ids[i]
    BY <1>2, <1>7
  <2>2. \A i, j \in 1 .. m : i < j => LongerFirst(sorted[i], sorted[j])
    BY <1>3, <1>7
  <2>3. QED
    BY <2>1, <2>2 DEF LongerFirst
<1>11. \A i \in 1 .. m : ids[i] \in longest <=> \A j \in 1 .. m : L(ids[j]) <= L(ids[i])
  BY <1>6, <1>8, <1>9
<1> DEFINE Q == {i \in 1 .. m : ids[i] \in longest}
<1>12. ASSUME NEW i \in 1 .. m, NEW j \in 1 .. m, i < j, j \in Q PROVE i \in Q
  <2>1. L(ids[i]) >= L(ids[j])
    BY <1>8, <1>10, <1>12
  <2>2. \A h \in 1 .. m : L(ids[h]) <= L(ids[j])
    BY <1>11, <1>12
  <2>3. \A h \in 1 .. m : L(ids[h]) <= L(ids[i])
    BY <1>8, <2>1, <2>2
  <2>4. QED
    BY <1>11, <2>3
<1>13. PICK q \in 0 .. m : \A i \in 1 .. m : i \in Q <=> i <= q
  <2>1. m \in Nat /\ Q \in SUBSET (1 .. m)
    BY <1>7
  <2> HIDE DEF Q
  <2>2. QED
    BY <1>12, <2>1, FrontOf
<1>14. q \in Nat /\ q <= m /\ m \in Nat /\ \A i \in 1 .. m : ids[i] \in longest <=> i <= q
  BY <1>7, <1>13
<1> HIDE DEF Q, m
<1>15. Len(chosen) = q /\ chosen = [i \in 1 .. q |-> ids[i]]
  <2>1. SequenceOf(longest, {pair \in longest \X longest : pair[1] < pair[2]}, chosen)
    <3>1. longest \in SUBSET Nat /\ IsFiniteSet(longest)
      BY <1>4, <1>5, <1>6, FS_Subset
    <3>2. QED
      BY <1>1, <3>1, AscendingNumbers
  <2>2. /\ chosen \in Seq(longest) /\ {chosen[i] : i \in DOMAIN chosen} = longest
        /\ \A i, j \in DOMAIN chosen : i < j => chosen[i] < chosen[j]
    <3>1. \A x, y : <<x, y>> \in {pair \in longest \X longest : pair[1] < pair[2]} => x < y
      OBVIOUS
    <3>2. QED
      BY <2>1, <3>1 DEF SequenceOf
  <2> DEFINE l == Len(chosen)
  <2>3. l \in Nat /\ DOMAIN chosen = 1 .. l /\ chosen = [i \in 1 .. l |-> chosen[i]]
    BY <2>2
  <2> HIDE DEF l
  <2>4. \A i \in 1 .. l : chosen[i] \in longest /\ chosen[i] \in Nat
    BY <1>4, <1>6, <2>2, <2>3
  <2>5. \A i \in 1 .. q : i \in 1 .. m /\ ids[i] \in longest /\ ids[i] \in Nat
    BY <1>8, <1>14
  <2>6. \A i \in 1 .. l : \E j \in 1 .. q : ids[j] = chosen[i]
    <3>1. ASSUME NEW id \in longest PROVE \E j \in 1 .. q : ids[j] = id
      <4>1. PICK j \in 1 .. m : ids[j] = id
        BY <1>6, <1>9
      <4>2. QED
        BY <1>14, <4>1
    <3>2. QED
      BY <2>4, <3>1
  <2>7. \A i \in 1 .. q : \E j \in 1 .. l : chosen[j] = ids[i]
    BY <2>2, <2>3, <2>5
  <2>8. \A i, j \in 1 .. q : i < j => ids[i] < ids[j]
    <3> SUFFICES ASSUME NEW i \in 1 .. q, NEW j \in 1 .. q, i < j PROVE ids[i] < ids[j]
      OBVIOUS
    <3>1. i \in 1 .. m /\ j \in 1 .. m /\ ids[j] \in longest
      BY <2>5
    <3>2. L(ids[i]) <= L(ids[j])
      BY <1>11, <3>1
    <3>3. L(ids[i]) \in Nat /\ L(ids[j]) \in Nat
      BY <1>8, <3>1
    <3>4. QED
      BY <1>10, <3>1, <3>2, <3>3
  <2>9. \A i, j \in 1 .. l : i < j => chosen[i] < chosen[j]
    BY <2>2, <2>3
  <2>10. Rises(chosen, l) /\ Rises(ids, q)
    BY <1>14, <2>3, <2>4, <2>5, <2>8, <2>9 DEF Rises
  <2>11. Within(chosen, l, ids, q) /\ Within(ids, q, chosen, l)
    BY <2>6, <2>7 DEF Within
  <2>12. Begins(chosen, l, ids, q) /\ Begins(ids, q, chosen, l)
    BY ONLY <2>10, <2>11, AscendingAgree
  <2>13. l = q /\ \A i \in 1 .. l : chosen[i] = ids[i]
    BY <1>14, <2>3, <2>12 DEF Begins
  <2>14. QED
    BY <2>3, <2>13 DEF l
<1> DEFINE u == IF m <= MaxCandidates THEN m ELSE MaxCandidates
           c == IF q <= MaxCandidates THEN q ELSE MaxCandidates
           read == Upto(ids, MaxCandidates)
           Longest(i) == \A j \in DOMAIN read :
                            routes[read[j]].prefix.length <= routes[read[i]].prefix.length
           accepted == {i \in DOMAIN read : Longest(i)}
<1>16. MaxCandidates \in Nat \ {0}
  BY CandidatesAssumption
<1>17. Upto(chosen, MaxCandidates) = [i \in 1 .. c |-> ids[i]]
  <2>1. Len(chosen) = q /\ q \in Nat /\ chosen = [i \in 1 .. q |-> chosen[i]]
    BY <1>14, <1>15
  <2>2. Upto(chosen, MaxCandidates) = [i \in 1 .. c |-> chosen[i]]
    BY <1>16, <2>1, UptoIsFront
  <2>3. \A i \in 1 .. c : i \in 1 .. q
    BY <1>14, <1>16
  <2>4. \A i \in 1 .. c : chosen[i] = ids[i]
    BY <1>15, <2>3
  <2>5. QED
    BY <2>2, <2>4
<1>18. /\ read = [i \in 1 .. u |-> ids[i]] /\ Len(read) = u /\ u \in Nat /\ u <= m
       /\ c \in 0 .. u /\ \A i \in 1 .. u : i <= q <=> i <= c
  <2>1. Len(ids) \in Nat /\ Len(ids) = m /\ ids = [i \in 1 .. Len(ids) |-> ids[i]]
    BY <1>7, <1>14 DEF m
  <2>2. read = [i \in 1 .. u |-> ids[i]] /\ Len(read) = u
    BY <1>16, <2>1, UptoIsFront
  <2>3. QED
    BY <1>14, <1>16, <2>2
<1> HIDE DEF read, u, c
<1>19. NarrowestRoutes(routes, read) = Kept(read, accepted)[Len(read)]
  BY DEF NarrowestRoutes
<1>20. DOMAIN read = 1 .. u /\ (\A i \in 1 .. u : i \in 1 .. m /\ read[i] = ids[i])
  BY <1>14, <1>18
<1>21. ASSUME NEW i \in 1 .. u PROVE i \in accepted <=> i <= c
  <2>1. i \in accepted <=> \A j \in 1 .. u : L(ids[j]) <= L(ids[i])
    BY <1>20 DEF L
  <2>2. i <= c <=> \A j \in 1 .. m : L(ids[j]) <= L(ids[i])
    BY <1>11, <1>14, <1>18, <1>20
  <2>3. ASSUME \A j \in 1 .. u : L(ids[j]) <= L(ids[i]), NEW j \in 1 .. m
        PROVE  L(ids[j]) <= L(ids[i])
    <3>1. 1 \in 1 .. u /\ 1 \in 1 .. m /\ i \in 1 .. m
      BY <1>18, <1>20
    <3>2. L(ids[1]) <= L(ids[i])
      BY <2>3, <3>1
    <3>3. 1 = j \/ 1 < j
      OBVIOUS
    <3>4. /\ L(ids[j]) \in Nat /\ L(ids[1]) \in Nat /\ L(ids[i]) \in Nat
          /\ (1 = j \/ L(ids[1]) >= L(ids[j]))
      BY <1>8, <1>10, <3>1, <3>3
    <3>5. QED
      BY <3>2, <3>4
  <2>4. QED
    BY <1>20, <2>1, <2>2, <2>3
<1> HIDE DEF accepted
<1>22. Kept(read, accepted)[Len(read)] = [i \in 1 .. c |-> read[i]]
  <2>1. Len(read) = u /\ Len(read) \in Nat
    BY <1>18
  <2>2. FirstOnes(accepted, c, Len(read))
    BY <1>18, <1>21, <2>1 DEF FirstOnes
  <2>3. QED
    BY ONLY <2>1, <2>2, KeptFront
<1>23. [i \in 1 .. c |-> read[i]] = [i \in 1 .. c |-> ids[i]]
  <2>1. \A i \in 1 .. c : i \in 1 .. u
    BY <1>18
  <2>2. QED
    BY <1>20, <2>1
<1>24. QED
  BY <1>17, <1>19, <1>22, <1>23 DEF chosen, read, ids, groups

\* Where the full lookup does not cut its candidates off, it names the range that
\* the trie names.
LEMMA FullSelectsCandidate ==
  ASSUME NEW ranges \in Seq(Ranges),
         \A id \in DOMAIN ranges : ranges[id].start <= ranges[id].end,
         NEW address \in Addresses,
         Len(MatchingIDs(RangeEntries(ranges), address)) <= MaxCandidates
  PROVE  LookupSelectionLPM(SelectionTrie(ranges)[Len(ranges)], address)
           = Narrowest(ranges, Upto(MatchingIDs(RangeEntries(ranges), address), MaxCandidates))
<1> DEFINE ids == MatchingIDs(RangeEntries(ranges), address)
<1>1. Len(ids) \in Nat /\ MaxCandidates \in Nat
  <2>1. FoundFor(Matching(RangeEntries(ranges), address),
                 {id \in DOMAIN ranges : InRange(ranges[id], address)})
    BY RangesFound
  <2>2. PICK sorted \in Seq(Matching(RangeEntries(ranges), address)) :
          ids = [i \in 1 .. Len(sorted) |-> sorted[i].id]
    BY <2>1, FoundInOrder
  <2>3. Len(sorted) \in Nat
    BY <2>2
  <2> HIDE DEF ids
  <2>4. QED
    BY <2>2, <2>3, CandidatesAssumption
<1>2. Upto(ids, MaxCandidates) = ids
  <2> HIDE DEF ids
  <2>1. ~ (Len(ids) > MaxCandidates)
    BY <1>1 DEF ids
  <2>2. QED
    BY <2>1 DEF Upto
<1>3. QED
  BY <1>2, SelectionIsNarrowest

\* Whatever a published file was built from, the compact response for an address
\* is made of the allocation, the routes and the geofeed that details=full selects,
\* ties included, wherever the full lookup does not cut its candidates off.  (The
\* selection tries keep one candidate a prefix, chosen when the file is built; the
\* full lookup chooses among all the records that cover the address.)
THEOREM CompactAgreesWithFull == Spec => []CompactIsFull
<1>1. ASSUME BuildInv PROVE CompactIsFull
  <2> DEFINE data == output.content
             Candidates(index, address) == Upto(MatchingIDs(index, address), MaxCandidates)
  <2> SUFFICES ASSUME Served, NEW address \in Addresses,
                      \A index \in {data.allocationIndex, data.geofeedIndex} :
                          Len(MatchingIDs(index, address)) <= MaxCandidates
               PROVE  LookupCompact(data, address) = LookupFull(data, address)
    BY DEF CompactIsFull
  <2>1. /\ data.allocations \in Seq(Ranges)
        /\ \A id \in DOMAIN data.allocations :
             data.allocations[id].start <= data.allocations[id].end
        /\ data.geofeeds \in Seq(Ranges)
        /\ \A id \in DOMAIN data.geofeeds : data.geofeeds[id].start <= data.geofeeds[id].end
        /\ data.routes \in Seq(KeptRoute)
        /\ data.allocationIndex = RangeEntries(data.allocations)
        /\ data.geofeedIndex = RangeEntries(data.geofeeds)
        /\ data.routeIndex = RouteEntries(data.routes)
        /\ data.allocationLPM = SelectionTrie(data.allocations)[Len(data.allocations)]
        /\ data.geofeedLPM = SelectionTrie(data.geofeeds)[Len(data.geofeeds)]
        /\ LET groups == RouteGroups(RouteEntries(data.routes))
           IN  data.routeLPM = RouteTrie(groups)[Len(groups)]
    BY <1>1, ServedData
  <2> HIDE DEF data
  <2>2. /\ Len(MatchingIDs(data.allocationIndex, address)) <= MaxCandidates
        /\ Len(MatchingIDs(data.geofeedIndex, address)) <= MaxCandidates
    OBVIOUS
  <2>3. LookupSelectionLPM(data.allocationLPM, address)
          = Narrowest(data.allocations, Candidates(data.allocationIndex, address))
    BY <2>1, <2>2, FullSelectsCandidate
  <2>4. LookupSelectionLPM(data.geofeedLPM, address)
          = Narrowest(data.geofeeds, Candidates(data.geofeedIndex, address))
    BY <2>1, <2>2, FullSelectsCandidate
  <2>5. Upto(LookupRouteLPM(data.routeLPM, address), MaxCandidates)
          = NarrowestRoutes(data.routes, Candidates(data.routeIndex, address))
    BY <2>1, LongestIsNarrowest
  <2> HIDE DEF Candidates
  <2>6. LookupFull(data, address)
          = Response(data, Narrowest(data.allocations, Candidates(data.allocationIndex, address)),
                     NarrowestRoutes(data.routes, Candidates(data.routeIndex, address)),
                     Narrowest(data.geofeeds, Candidates(data.geofeedIndex, address)))
    BY DEF LookupFull, Candidates
  <2>7. QED
    BY <2>3, <2>4, <2>5, <2>6 DEF LookupCompact
<1>2. QED
  BY <1>1, BuildInvariance, PTL

-----------------------------------------------------------------------------
(* Sums over sets *)

\* The sums of f over the subsets of S, one element after another.
SumsOver(S, f, sum) ==
  sum = [s \in SUBSET S |->
           IF s = {} THEN 0
           ELSE LET x == CHOOSE x \in s : TRUE IN f[x] + sum[s \ {x}]]

\* f is how many pairs of R each member of S is in.
PairsCounted(S, T, R, f) == \A x \in S : f[x] = Cardinality({t \in T : <<x, t>> \in R})

\* In whatever order elements are taken, the sum of how many pairs each is in is the
\* number of pairs.
LEMMA SumsCount ==
  ASSUME NEW S, IsFiniteSet(S), NEW T, IsFiniteSet(T), NEW R \in SUBSET (S \X T),
         NEW f, PairsCounted(S, T, R, f)
  PROVE  /\ \E sum : SumsOver(S, f, sum)
         /\ \A sum : SumsOver(S, f, sum) => sum[S] = Cardinality(R)
<1> DEFINE Of(s) == {pair \in R : pair[1] \in s}
           One(s) == CHOOSE x \in s : TRUE
           g == [s \in SUBSET S |-> Cardinality(Of(s))]
<1>1. IsFiniteSet(R)
  BY FS_Product, FS_Subset
<1>2. \A s : IsFiniteSet(Of(s)) /\ Cardinality(Of(s)) \in Nat
  <2>1. \A s : Of(s) \in SUBSET R
    OBVIOUS
  <2>2. \A s : IsFiniteSet(Of(s))
    BY <1>1, <2>1, FS_Subset
  <2>3. QED
    BY <2>2, FS_CardinalityType
<1>3. ASSUME NEW x \in S
      PROVE  Cardinality(Of({x})) = f[x] /\ f[x] \in Nat
  <2> DEFINE At == {t \in T : <<x, t>> \in R}
  <2>1. IsFiniteSet(At) /\ Cardinality(At) \in Nat
    BY FS_Subset, FS_CardinalityType
  <2>2. Of({x}) = {x} \X At
    <3>1. ASSUME NEW pair \in Of({x}) PROVE pair \in {x} \X At
      BY <3>1
    <3>2. ASSUME NEW pair \in {x} \X At PROVE pair \in Of({x})
      BY <3>2
    <3>3. QED
      BY <3>1, <3>2
  <2>3. Cardinality({x} \X At) = Cardinality({x}) * Cardinality(At)
    BY <2>1, FS_Singleton, FS_Product
  <2>4. Cardinality({x}) = 1
    BY FS_Singleton
  <2> HIDE DEF At
  <2>5. Cardinality({x} \X At) = Cardinality(At)
    BY <2>1, <2>3, <2>4
  <2>6. f[x] = Cardinality({t \in T : <<x, t>> \in R})
    BY DEF PairsCounted
  <2>7. QED
    BY <2>1, <2>2, <2>5, <2>6 DEF At
<1>4. ASSUME NEW s \in SUBSET S, s # {}
      PROVE  One(s) \in s /\ Cardinality(Of(s)) = f[One(s)] + Cardinality(Of(s \ {One(s)}))
  <2>1. One(s) \in s
    BY <1>4
  <2> DEFINE x == One(s)
  <2> HIDE DEF x
  <2>2. x \in s /\ x \in S
    BY <2>1 DEF x
  <2>3. /\ Of(s) = Of({x}) \cup Of(s \ {x})
        /\ Of({x}) \cap Of(s \ {x}) = {}
    BY <2>2
  <2>4. IsFiniteSet(Of({x})) /\ IsFiniteSet(Of(s \ {x}))
    BY <1>2
  <2>5. Cardinality(Of(s)) = Cardinality(Of({x})) + Cardinality(Of(s \ {x})) - 0
    <3>1. ASSUME NEW A, NEW B, IsFiniteSet(A), IsFiniteSet(B), A \cap B = {}
          PROVE  Cardinality(A \cup B) = Cardinality(A) + Cardinality(B) - 0
      BY ONLY <3>1, FS_Union, FS_EmptySet
    <3> DEFINE A == Of({x})
               B == Of(s \ {x})
    <3>2. Of(s) = A \cup B /\ A \cap B = {} /\ IsFiniteSet(A) /\ IsFiniteSet(B)
      BY <2>3, <2>4
    <3> HIDE DEF A, B
    <3>3. Cardinality(Of(s)) = Cardinality(A) + Cardinality(B) - 0
      BY <3>1, <3>2
    <3>4. QED
      BY <3>3 DEF A, B
  <2>6. /\ Cardinality(Of({x})) = f[x] /\ f[x] \in Nat
        /\ Cardinality(Of(s \ {x})) \in Nat
    BY <1>2, <1>3, <2>2
  <2> HIDE DEF Of
  <2>7. Cardinality(Of(s)) = f[x] + Cardinality(Of(s \ {x}))
    BY <2>5, <2>6
  <2>8. QED
    BY <2>1, <2>7 DEF x
<1>5. Of({}) = {} /\ Cardinality(Of({})) = 0 /\ Of(S) = R
  <2>1. Of({}) = {} /\ Of(S) = R
    OBVIOUS
  <2>2. QED
    BY <2>1, FS_EmptySet
<1> HIDE DEF Of, One
<1>6. SumsOver(S, f, g)
  <2>1. \A s \in SUBSET S : g[s] = Cardinality(Of(s))
    OBVIOUS
  <2>2. ASSUME NEW s \in SUBSET S
        PROVE  g[s] = IF s = {} THEN 0 ELSE f[One(s)] + g[s \ {One(s)}]
    <3>1. (s \ {One(s)}) \in SUBSET S
      OBVIOUS
    <3> HIDE DEF g
    <3>2. QED
      BY <1>4, <1>5, <2>1, <3>1
  <2>3. g = [s \in SUBSET S |-> IF s = {} THEN 0 ELSE f[One(s)] + g[s \ {One(s)}]]
    BY <2>2
  <2> HIDE DEF g
  <2>4. QED
    BY <2>3 DEF SumsOver, One
<1>7. ASSUME NEW sum, SumsOver(S, f, sum) PROVE sum[S] = Cardinality(R)
  <2>1. \A s \in SUBSET S : sum[s] = IF s = {} THEN 0 ELSE f[One(s)] + sum[s \ {One(s)}]
    <3>1. sum = [s \in SUBSET S |-> IF s = {} THEN 0 ELSE f[One(s)] + sum[s \ {One(s)}]]
      BY <1>7 DEF SumsOver, One
    <3> DEFINE Def(s) == IF s = {} THEN 0 ELSE f[One(s)] + sum[s \ {One(s)}]
    <3> HIDE DEF Def
    <3>2. sum = [s \in SUBSET S |-> Def(s)]
      BY <3>1 DEF Def
    <3>3. \A s \in SUBSET S : sum[s] = Def(s)
      BY <3>2
    <3>4. QED
      BY <3>3 DEF Def
  <2> DEFINE Counts(n) == \A s \in SUBSET S : Cardinality(s) <= n => sum[s] = Cardinality(Of(s))
             G == {n \in Nat : Counts(n)}
  <2>2. \A s \in SUBSET S : IsFiniteSet(s) /\ Cardinality(s) \in Nat
    BY FS_Subset, FS_CardinalityType
  <2>3. 0 \in G
    <3>1. \A s \in SUBSET S : Cardinality(s) <= 0 => s = {}
      BY <2>2, FS_EmptySet
    <3>2. QED
      BY <1>5, <2>1, <3>1
  <2>4. ASSUME NEW n \in G PROVE n + 1 \in G
    <3>1. n \in Nat /\ Counts(n)
      OBVIOUS
    <3>2. ASSUME NEW s \in SUBSET S, Cardinality(s) <= n + 1 PROVE sum[s] = Cardinality(Of(s))
      <4>1. CASE s = {}
        BY <1>5, <2>1, <4>1
      <4>2. CASE s # {}
        <5>1. One(s) \in s /\ s \ {One(s)} \in SUBSET S
          BY <1>4, <4>2
        <5>2. Cardinality(s \ {One(s)}) = Cardinality(s) - 1
          BY <2>2, <5>1, FS_RemoveElement
        <5>3. Cardinality(s \ {One(s)}) <= n
          BY <2>2, <3>1, <3>2, <5>2
        <5>4. sum[s \ {One(s)}] = Cardinality(Of(s \ {One(s)}))
          BY <3>1, <5>1, <5>3
        <5>5. QED
          BY <1>4, <2>1, <4>2, <5>4
      <4>3. QED
        BY <4>1, <4>2
    <3> HIDE DEF Counts
    <3>3. Counts(n + 1)
      BY <3>2 DEF Counts
    <3>4. QED
      BY <3>1, <3>3
  <2>5. G = Nat
    <3> HIDE DEF G
    <3>1. G \in SUBSET Nat
      BY DEF G
    <3>2. QED
      BY <2>3, <2>4, <3>1, NatSetInduction
  <2>6. Cardinality(S) \in G
    BY <2>2, <2>5
  <2>7. sum[S] = Cardinality(Of(S))
    BY <2>2, <2>6
  <2>8. QED
    BY <1>5, <2>7
<1>8. QED
  BY <1>6, <1>7

-----------------------------------------------------------------------------
(* Records and the buckets they count in *)

\* What may count in a bucket, and when it does.
Spans == [start : Nat, end : Nat]

Meets(range, prefix) == range.start <= PrefixEnd(prefix) /\ range.end >= prefix.address

\* The records that a bucket counts.
MeetingIDs(ranges, prefix) == {id \in DOMAIN ranges : Meets(ranges[id], prefix)}

RouteSpans(routes) == [id \in DOMAIN routes |-> PrefixRange(routes[id].prefix)]

\* The buckets of two tables of records.
Tally(allocations, routes) ==
  [prefix \in Buckets(SummaryLevels) |->
     [allocations |-> Cardinality(MeetingIDs(allocations, prefix)),
      routes      |-> Cardinality(MeetingIDs(RouteSpans(routes), prefix))]]

\* An address is before the end of a prefix, or after its start, exactly if the prefix of
\* that length which has the address is.
LEMMA MaskedOrder ==
  ASSUME NEW address \in Nat, NEW prefix \in AllPrefixes
  PROVE  /\ Masked(address, prefix.length) <= prefix.address <=> address <= PrefixEnd(prefix)
         /\ prefix.address <= Masked(address, prefix.length) <=> prefix.address <= address
<1> DEFINE s == Size(prefix.length)
           first == prefix.address
           k == first \div s
           q == address \div s
           r == address % s
<1>1. /\ first \in Nat /\ prefix.length \in 0 .. Bits /\ first = first - (first % s)
  BY DEF AllPrefixes, Masked, Addresses
<1>2. s \in Nat \ {0}
  BY <1>1, SizeIsPositive
<1>3. PrefixEnd(prefix) = first + s - 1 /\ Masked(address, prefix.length) = address - r
  BY DEF PrefixEnd, Masked
<1> HIDE DEF s, first
<1>4. k \in Nat /\ first = s * k + (first % s) /\ first % s \in Nat
  BY <1>1, <1>2
<1>5. q \in Nat /\ r \in 0 .. s - 1 /\ address = s * q + r
  BY <1>2
<1> HIDE DEF k, q, r
<1>6. first = s * k /\ s * k \in Nat /\ s * q \in Nat /\ address - r = s * q
  BY <1>1, <1>2, <1>4, <1>5
<1>7. CASE q <= k
  <2> DEFINE d == k - q
  <2>1. d \in Nat /\ k = q + d
    BY <1>4, <1>5, <1>7
  <2> HIDE DEF d
  <2>2. s * k = s * q + s * d /\ s * d \in Nat
    BY <1>2, <1>5, <2>1
  <2>3. s * q <= s * k /\ s * q + r <= s * k + s - 1
    BY <1>2, <1>5, <1>6, <2>2
  <2>4. s * k <= s * q <=> s * k <= s * q + r
    <3>1. CASE d = 0
      <4>1. s * d = 0
        BY <1>2, <3>1
      <4>2. QED
        BY <1>5, <1>6, <2>2, <4>1
    <3>2. CASE d # 0
      <4>1. d - 1 \in Nat /\ s * d = s + s * (d - 1) /\ s * (d - 1) \in Nat
        BY <1>2, <2>1, <3>2
      <4>2. s * q + r < s * k
        BY <1>2, <1>5, <1>6, <2>2, <4>1
      <4>3. QED
        BY <1>5, <1>6, <4>2
    <3>3. QED
      BY <3>1, <3>2
  <2>5. QED
    BY <1>3, <1>5, <1>6, <2>3, <2>4 DEF first
<1>8. CASE ~ (q <= k)
  <2> DEFINE d == q - k - 1
  <2>1. d \in Nat /\ q = k + 1 + d
    BY <1>4, <1>5, <1>8
  <2> HIDE DEF d
  <2>2. s * q = s * k + s + s * d /\ s * d \in Nat
    BY <1>2, <1>4, <2>1
  <2>3. ~ (s * q <= s * k) /\ ~ (s * q + r <= s * k + s - 1) /\ s * k <= s * q /\ s * k <= s * q + r
    BY <1>2, <1>5, <1>6, <2>2
  <2>4. QED
    BY <1>3, <1>5, <1>6, <2>3 DEF first
<1>9. QED
  BY <1>7, <1>8

\* One record more.
LEMMA MeetingAppended ==
  ASSUME NEW ranges \in Seq(Spans), NEW range \in Spans, NEW prefix
  PROVE  /\ Cardinality(MeetingIDs(ranges, prefix)) \in Nat
         /\ Cardinality(MeetingIDs(Append(ranges, range), prefix))
              = IF Meets(range, prefix) THEN Cardinality(MeetingIDs(ranges, prefix)) + 1
                ELSE Cardinality(MeetingIDs(ranges, prefix))
<1> DEFINE n == Len(ranges)
           old == MeetingIDs(ranges, prefix)
           longer == Append(ranges, range)
<1>1. n \in Nat /\ DOMAIN ranges = 1 .. n /\ DOMAIN longer = 1 .. n + 1 /\ n + 1 \notin 1 .. n
  OBVIOUS
<1>2. \A id \in 1 .. n : longer[id] = ranges[id]
  OBVIOUS
<1>3. longer[n + 1] = range
  OBVIOUS
<1>4. old \in SUBSET (1 .. n) /\ IsFiniteSet(old)
  <2>1. IsFiniteSet(1 .. n)
    BY <1>1, FS_Interval
  <2>2. old \in SUBSET (1 .. n)
    BY <1>1 DEF MeetingIDs
  <2>3. QED
    BY <2>1, <2>2, FS_Subset
<1>5. 1 .. n + 1 = (1 .. n) \cup {n + 1}
  BY <1>1
<1> HIDE DEF n, longer
<1>6. MeetingIDs(longer, prefix)
        = IF Meets(range, prefix) THEN old \cup {n + 1} ELSE old
  <2>1. MeetingIDs(longer, prefix) = {id \in 1 .. n + 1 : Meets(longer[id], prefix)}
    BY <1>1 DEF MeetingIDs
  <2>2. old = {id \in 1 .. n : Meets(ranges[id], prefix)}
    BY <1>1 DEF MeetingIDs
  <2>3. \A id \in 1 .. n : Meets(longer[id], prefix) <=> Meets(ranges[id], prefix)
    BY <1>2
  <2>4. Meets(longer[n + 1], prefix) <=> Meets(range, prefix)
    BY <1>3
  <2> HIDE DEF old
  <2>5. QED
    BY <1>5, <2>1, <2>2, <2>3, <2>4
<1>7. n + 1 \notin old
  BY <1>1, <1>4
<1> HIDE DEF old
<1>8. QED
  BY <1>4, <1>6, <1>7, FS_AddElement, FS_CardinalityType DEF old, longer

\* What collectSummary does to the buckets.
LEMMA Collected ==
  ASSUME NEW range \in Spans, DOMAIN counts = Buckets(SummaryLevels), NEW kind
  PROVE  /\ DOMAIN Collect(range, kind) = Buckets(SummaryLevels)
         /\ \A prefix \in Buckets(SummaryLevels) :
              Collect(range, kind)[prefix] =
                IF Meets(range, prefix) THEN [counts[prefix] EXCEPT ![kind] = @ + 1]
                ELSE counts[prefix]
<1>1. ASSUME NEW prefix \in Buckets(SummaryLevels)
      PROVE  Meets(range, prefix) <=> /\ Masked(range.start, prefix.length) <= prefix.address
                                      /\ prefix.address <= Masked(range.end, prefix.length)
  <2>1. range.start \in Nat /\ range.end \in Nat /\ prefix \in AllPrefixes
        /\ prefix.address \in Nat
    BY DEF Spans, Buckets, AllPrefixes, Addresses
  <2>2. range.end >= prefix.address <=> prefix.address <= range.end
    BY <2>1
  <2>3. QED
    BY <2>1, <2>2, MaskedOrder DEF Meets
<1>2. QED
  BY <1>1 DEF Collect

\* An allocation more.
LEMMA AllocationCounted ==
  ASSUME NEW allocations \in Seq(Spans), NEW routes, NEW range \in Spans,
         counts = Tally(allocations, routes)
  PROVE  Collect(range, "allocations") = Tally(Append(allocations, range), routes)
<1> DEFINE new == Collect(range, "allocations")
           R(prefix) == Cardinality(MeetingIDs(RouteSpans(routes), prefix))
           A(prefix) == Cardinality(MeetingIDs(allocations, prefix))
           B(prefix) == Cardinality(MeetingIDs(Append(allocations, range), prefix))
<1>1. DOMAIN counts = Buckets(SummaryLevels)
  BY DEF Tally
<1>2. \A prefix \in Buckets(SummaryLevels) :
        counts[prefix] = [allocations |-> A(prefix), routes |-> R(prefix)]
  BY DEF Tally
<1>3. \A prefix : B(prefix) = IF Meets(range, prefix) THEN A(prefix) + 1 ELSE A(prefix)
  BY MeetingAppended
<1>4. new = [prefix \in Buckets(SummaryLevels) |-> new[prefix]]
  BY <1>1, Collected DEF Collect
<1>5. \A prefix \in Buckets(SummaryLevels) :
        new[prefix] = IF Meets(range, prefix)
                      THEN [counts[prefix] EXCEPT !["allocations"] = @ + 1] ELSE counts[prefix]
  BY <1>1, Collected
<1> HIDE DEF new, A, B, R
<1>6. \A prefix \in Buckets(SummaryLevels) :
        new[prefix] = [allocations |-> B(prefix), routes |-> R(prefix)]
  <2>1. \A a, b : [[allocations |-> a, routes |-> b] EXCEPT !["allocations"] = @ + 1]
                   = [allocations |-> a + 1, routes |-> b]
    OBVIOUS
  <2> SUFFICES ASSUME NEW prefix \in Buckets(SummaryLevels)
               PROVE  new[prefix] = [allocations |-> B(prefix), routes |-> R(prefix)]
    OBVIOUS
  <2>2. counts[prefix] = [allocations |-> A(prefix), routes |-> R(prefix)]
    BY <1>2
  <2>3. [counts[prefix] EXCEPT !["allocations"] = @ + 1]
          = [allocations |-> A(prefix) + 1, routes |-> R(prefix)]
    BY <2>1, <2>2
  <2>4. QED
    BY <1>3, <1>5, <2>2, <2>3
<1>7. QED
  BY <1>4, <1>6 DEF Tally, new, B, R

\* A route more.
LEMMA RouteCounted ==
  ASSUME NEW allocations, NEW routes \in Seq(StoredRoute), NEW route \in StoredRoute,
         counts = Tally(allocations, routes)
  PROVE  Collect(PrefixRange(route.prefix), "routes") = Tally(allocations, Append(routes, route))
<1> DEFINE range == PrefixRange(route.prefix)
           new == Collect(range, "routes")
           R(prefix) == Cardinality(MeetingIDs(RouteSpans(routes), prefix))
           A(prefix) == Cardinality(MeetingIDs(allocations, prefix))
           B(prefix) == Cardinality(MeetingIDs(RouteSpans(Append(routes, route)), prefix))
<1>0. \A stored \in StoredRoute : PrefixRange(stored.prefix) \in Spans
  <2>1. ASSUME NEW stored \in StoredRoute
        PROVE  /\ stored.prefix.address \in Nat
               /\ Size(stored.prefix.length) \in Nat \ {0}
    BY SizeIsPositive DEF StoredRoute
  <2>2. QED
    BY <2>1 DEF PrefixRange, PrefixEnd, Spans
<1>1. DOMAIN counts = Buckets(SummaryLevels)
  BY DEF Tally
<1>2. \A prefix \in Buckets(SummaryLevels) :
        counts[prefix] = [allocations |-> A(prefix), routes |-> R(prefix)]
  BY DEF Tally
<1>3. \A prefix : B(prefix) = IF Meets(range, prefix) THEN R(prefix) + 1 ELSE R(prefix)
  <2>1. RouteSpans(routes) \in Seq(Spans) /\ range \in Spans
    <3>1. Len(routes) \in Nat /\ DOMAIN routes = 1 .. Len(routes)
          /\ \A id \in DOMAIN routes : routes[id] \in StoredRoute
      OBVIOUS
    <3>2. RouteSpans(routes) \in [1 .. Len(routes) -> Spans]
      BY <1>0, <3>1 DEF RouteSpans
    <3>3. QED
      BY <1>0, <3>1, <3>2
  <2>2. RouteSpans(Append(routes, route)) = Append(RouteSpans(routes), range)
    <3>1. Len(routes) \in Nat /\ DOMAIN routes = 1 .. Len(routes)
          /\ DOMAIN Append(routes, route) = 1 .. Len(routes) + 1
          /\ Append(routes, route)[Len(routes) + 1] = route
          /\ \A id \in 1 .. Len(routes) : Append(routes, route)[id] = routes[id]
      OBVIOUS
    <3> DEFINE spans == RouteSpans(routes)
               both == RouteSpans(Append(routes, route))
    <3>2. DOMAIN spans = 1 .. Len(routes) /\ Len(spans) = Len(routes)
          /\ \A id \in 1 .. Len(routes) : spans[id] = PrefixRange(routes[id].prefix)
      <4>1. DOMAIN spans = 1 .. Len(routes)
        BY <3>1 DEF RouteSpans
      <4>2. \A id \in 1 .. Len(routes) : spans[id] = PrefixRange(routes[id].prefix)
        BY <3>1 DEF RouteSpans
      <4>3. QED
        BY <3>1, <4>1, <4>2
    <3>3. both = [id \in 1 .. Len(routes) + 1 |-> both[id]]
          /\ \A id \in 1 .. Len(routes) + 1 :
                both[id] = PrefixRange(Append(routes, route)[id].prefix)
      BY <3>1 DEF RouteSpans
    <3>4. Append(spans, range)
            = [id \in 1 .. Len(routes) + 1 |-> IF id = Len(routes) + 1 THEN range ELSE spans[id]]
      <4> HIDE DEF spans, range
      <4> DEFINE n == Len(routes)
      <4>1. spans \in Seq(Spans) /\ range \in Spans /\ Len(spans) = n /\ n \in Nat
        BY <2>1, <3>1, <3>2 DEF spans
      <4> HIDE DEF n
      <4>2. /\ Append(spans, range) = [id \in 1 .. n + 1 |-> Append(spans, range)[id]]
            /\ \A id \in 1 .. n : Append(spans, range)[id] = spans[id]
            /\ Append(spans, range)[n + 1] = range
        <5>1. Append(spans, range) \in Seq(Spans) /\ Len(Append(spans, range)) = n + 1
          BY <4>1
        <5>2. Append(spans, range) = [id \in 1 .. n + 1 |-> Append(spans, range)[id]]
          <6>1. \A seq \in Seq(Spans) : seq = [id \in 1 .. Len(seq) |-> seq[id]]
            OBVIOUS
          <6> DEFINE seq == Append(spans, range)
          <6> HIDE DEF seq
          <6>2. seq = [id \in 1 .. Len(seq) |-> seq[id]] /\ Len(seq) = n + 1
            BY <5>1, <6>1 DEF seq
          <6>3. seq = [id \in 1 .. n + 1 |-> seq[id]]
            BY <6>2
          <6>4. QED
            BY <6>3 DEF seq
        <5>3. Append(spans, range)[n + 1] = range
          BY <4>1
        <5>4. \A id \in 1 .. n : Append(spans, range)[id] = spans[id]
          BY <4>1
        <5>5. QED
          BY <5>2, <5>3, <5>4
      <4>3. \A id \in 1 .. n + 1 : id = n + 1 \/ (id \in 1 .. n /\ id # n + 1)
        BY <4>1
      <4>4. \A id \in 1 .. n + 1 :
              Append(spans, range)[id] = IF id = n + 1 THEN range ELSE spans[id]
        BY <4>2, <4>3
      <4>5. QED
        BY <4>2, <4>4 DEF n
    <3>5. \A id \in 1 .. Len(routes) + 1 :
            both[id] = IF id = Len(routes) + 1 THEN range ELSE spans[id]
      <4>1. both[Len(routes) + 1] = range
        BY <3>1, <3>3
      <4>2. \A id \in 1 .. Len(routes) : id \in 1 .. Len(routes) + 1 /\ both[id] = spans[id]
        BY <3>1, <3>2, <3>3
      <4>3. \A id \in 1 .. Len(routes) + 1 : id = Len(routes) + 1 \/ id \in 1 .. Len(routes)
        BY <3>1
      <4> HIDE DEF both, spans, range
      <4>4. QED
        BY <4>1, <4>2, <4>3
    <3> HIDE DEF both, spans
    <3>6. QED
      BY <3>3, <3>4, <3>5 DEF both, spans
  <2>3. QED
    BY <2>1, <2>2, MeetingAppended
<1>4. new = [prefix \in Buckets(SummaryLevels) |-> new[prefix]]
  BY <1>1 DEF Collect
<1>5. \A prefix \in Buckets(SummaryLevels) :
        new[prefix] = IF Meets(range, prefix)
                      THEN [counts[prefix] EXCEPT !["routes"] = @ + 1] ELSE counts[prefix]
  <2>1. range \in Spans
    BY <1>0
  <2>2. QED
    BY <1>1, <2>1, Collected
<1> HIDE DEF new, A, B, R, range
<1>6. \A prefix \in Buckets(SummaryLevels) :
        new[prefix] = [allocations |-> A(prefix), routes |-> B(prefix)]
  <2>1. \A a, b : [[allocations |-> a, routes |-> b] EXCEPT !["routes"] = @ + 1]
                   = [allocations |-> a, routes |-> b + 1]
    OBVIOUS
  <2> SUFFICES ASSUME NEW prefix \in Buckets(SummaryLevels)
               PROVE  new[prefix] = [allocations |-> A(prefix), routes |-> B(prefix)]
    OBVIOUS
  <2>2. counts[prefix] = [allocations |-> A(prefix), routes |-> R(prefix)]
    BY <1>2
  <2>3. [counts[prefix] EXCEPT !["routes"] = @ + 1]
          = [allocations |-> A(prefix), routes |-> R(prefix) + 1]
    BY <2>1, <2>2
  <2>4. QED
    BY <1>3, <1>5, <2>2, <2>3
<1>7. QED
  BY <1>4, <1>6 DEF Tally, new, A, B, range

-----------------------------------------------------------------------------
(* The buckets of a summary *)

\* The level whose buckets a summary of this length adds up.
CountedLevel(length) ==
  CHOOSE l \in SummaryLevels : l >= length /\ \A k \in SummaryLevels : k >= length => l <= k

\* The buckets of that level inside a prefix.
BucketsWithin(prefix) ==
  {bucket \in Buckets({CountedLevel(prefix.length)}) : InRange(PrefixRange(prefix), bucket.address)}

\* Each record with each bucket that it counts in.
MeetingPairs(buckets, ranges) ==
  {pair \in buckets \X (DOMAIN ranges) : Meets(ranges[pair[2]], pair[1])}

\* The levels have a deepest one, and one at or below each length above it.
LEMMA LevelsWork ==
  /\ SummaryLevels \in SUBSET (0 .. Bits)
  /\ DeepestLevel \in SummaryLevels
  /\ \A other \in SummaryLevels : other <= DeepestLevel
  /\ \A length \in 0 .. DeepestLevel :
       /\ CountedLevel(length) \in SummaryLevels
       /\ CountedLevel(length) >= length
       /\ \A k \in SummaryLevels : k >= length => CountedLevel(length) <= k
<1>1. SummaryLevels \in SUBSET (0 .. Bits) /\ 0 \in SummaryLevels /\ Bits \in Nat
  BY BuildAssumption, BitsAssumption
<1>2. \E level \in SummaryLevels : \A other \in SummaryLevels : other <= level
  <2> DEFINE T == {k \in Nat : Bits - k \in SummaryLevels}
  <2>1. T \in SUBSET Nat /\ Bits \in T
    BY <1>1
  <2>2. PICK k \in T : \A j \in T : k <= j
    <3> HIDE DEF T
    <3>1. QED
      BY <2>1, LeastElement
  <2>3. ASSUME NEW other \in SummaryLevels PROVE other <= Bits - k
    <3>1. other \in Nat /\ Bits - other \in Nat /\ Bits - (Bits - other) = other
      BY <1>1
    <3>2. k <= Bits - other
      BY <2>2, <3>1
    <3>3. QED
      BY <1>1, <3>1, <3>2
  <2>4. QED
    BY <2>2, <2>3
<1>3. /\ DeepestLevel \in SummaryLevels
      /\ \A other \in SummaryLevels : other <= DeepestLevel
  BY <1>2 DEF DeepestLevel
<1>4. ASSUME NEW length \in 0 .. DeepestLevel
      PROVE  /\ CountedLevel(length) \in SummaryLevels
             /\ CountedLevel(length) >= length
             /\ \A k \in SummaryLevels : k >= length => CountedLevel(length) <= k
  <2> DEFINE T == {l \in SummaryLevels : l >= length}
  <2>1. T \in SUBSET Nat /\ DeepestLevel \in T
    <3>1. \A l \in SummaryLevels : l \in Nat
      BY <1>1
    <3>2. DeepestLevel \in Nat /\ DeepestLevel >= length
      BY <1>3, <3>1
    <3>3. QED
      BY <1>3, <3>1, <3>2
  <2>2. PICK l \in T : \A k \in T : l <= k
    <3> HIDE DEF T
    <3>1. QED
      BY <2>1, LeastElement
  <2>3. \E l1 \in SummaryLevels : l1 >= length /\ \A k \in SummaryLevels : k >= length => l1 <= k
    BY <2>2
  <2>4. QED
    BY <2>3 DEF CountedLevel
<1>5. QED
  BY <1>1, <1>3, <1>4

\* The buckets of a prefix.
LEMMA BucketsAre ==
  ASSUME NEW prefix \in Buckets(0 .. DeepestLevel)
  PROVE  /\ prefix \in AllPrefixes
         /\ IsFiniteSet(BucketsWithin(prefix))
         /\ BucketsWithin(prefix) \in SUBSET Buckets(SummaryLevels)
         /\ prefix.length \in SummaryLevels =>
              prefix \in Buckets(SummaryLevels) /\ BucketsWithin(prefix) = {prefix}
         /\ prefix.length \notin SummaryLevels =>
              LET childLength == CHOOSE level \in SummaryLevels :
                     /\ level > prefix.length
                     /\ \A other \in SummaryLevels : other > prefix.length => level <= other
              IN  BucketsWithin(prefix)
                    = {child \in Buckets({childLength}) : Covers(prefix, child.address)}
<1> DEFINE length == prefix.length
           level == CountedLevel(length)
<1>1. /\ prefix \in AllPrefixes /\ length \in 0 .. DeepestLevel /\ length \in 0 .. Bits
      /\ DeepestLevel \in Nat
  BY LevelsWork, BitsAssumption DEF Buckets, AllPrefixes
<1>2. /\ level \in SummaryLevels /\ level \in Nat /\ level >= length
      /\ \A k \in SummaryLevels : k \in Nat /\ (k >= length => level <= k)
  <2>1. \A k \in SummaryLevels : k \in Nat
    BY LevelsWork, BitsAssumption
  <2>2. QED
    BY <1>1, <2>1, LevelsWork
<1>3. \A bucket \in Buckets({level}) : /\ bucket \in AllPrefixes /\ bucket.length = level
                                       /\ bucket.address \in Addresses
  BY PrefixKinds DEF Buckets
<1>4. IsFiniteSet(BucketsWithin(prefix))
  <2> DEFINE B == BucketsWithin(prefix)
             f == [bucket \in B |-> bucket.address]
  <2>1. \A bucket \in B : bucket \in AllPrefixes /\ bucket.length = level
    BY <1>3 DEF BucketsWithin
  <2>2. \A bucket \in B : bucket.address \in Addresses
    BY <1>3 DEF BucketsWithin
  <2>3. \A one, two \in AllPrefixes :
          one.address = two.address /\ one.length = two.length => one = two
    BY PrefixKinds
  <2>4. f \in [B -> Addresses] /\ \A one, two \in B : f[one] = f[two] => one = two
    BY <2>1, <2>2, <2>3
  <2> HIDE DEF B, f
  <2>5. f \in Injection(B, Addresses)
    BY <2>4 DEF Injection, IsInjective
  <2>6. IsFiniteSet(Addresses)
    <3>1. Size(0) - 1 \in Int
      BY SizeIsPositive, BitsAssumption
    <3>2. QED
      BY <3>1, FS_Interval DEF Addresses
  <2>7. QED
    BY <2>5, <2>6, FS_Injection DEF B
<1>5. BucketsWithin(prefix) \in SUBSET Buckets(SummaryLevels)
  BY <1>2 DEF BucketsWithin, Buckets
<1>6. ASSUME NEW bucket \in AllPrefixes
      PROVE  /\ InRange(PrefixRange(prefix), bucket.address)
                  <=> Agree(prefix.address, bucket.address, length)
             /\ InRange(PrefixRange(prefix), bucket.address) <=> Covers(prefix, bucket.address)
  <2>1. bucket.address \in Addresses /\ bucket.address \in Nat /\ APrefix(prefix)
    BY <1>1, PrefixKinds
  <2>2. InRange(PrefixRange(prefix), bucket.address)
          <=> Agree(prefix.address, bucket.address, length)
    BY <1>1, <2>1, CoversIsRange DEF InRange, PrefixRange
  <2>3. Covers(prefix, bucket.address) <=> Agree(prefix.address, bucket.address, length)
    BY <1>1, <2>1, CoversAgreeing DEF APrefix
  <2>4. QED
    BY <2>2, <2>3
<1>7. ASSUME length \in SummaryLevels
      PROVE  prefix \in Buckets(SummaryLevels) /\ BucketsWithin(prefix) = {prefix}
  <2>1. level = length
    BY <1>1, <1>2, <1>7
  <2>2. prefix \in BucketsWithin(prefix)
    <3>1. Agree(prefix.address, prefix.address, length)
      BY DEF Agree
    <3>2. QED
      BY <1>1, <1>6, <2>1, <3>1 DEF BucketsWithin, Buckets
  <2>3. ASSUME NEW bucket \in BucketsWithin(prefix) PROVE bucket = prefix
    <3>1. bucket \in AllPrefixes /\ bucket.length = length
          /\ Agree(prefix.address, bucket.address, length)
      BY <1>3, <1>6, <2>1 DEF BucketsWithin
    <3>2. SamePrefix(prefix, bucket)
      BY <3>1 DEF SamePrefix
    <3>3. QED
      BY <1>1, <3>1, <3>2, PrefixKinds
  <2>4. QED
    BY <1>1, <1>7, <2>2, <2>3 DEF Buckets
<1>8. ASSUME length \notin SummaryLevels
      PROVE  LET childLength == CHOOSE other \in SummaryLevels :
                    /\ other > length
                    /\ \A third \in SummaryLevels : third > length => other <= third
             IN  childLength = level
  <2>1. \A k \in SummaryLevels : k > length <=> k >= length
    BY <1>1, <1>2, <1>8
  <2>2. level > length /\ \A k \in SummaryLevels : k > length => level <= k
    BY <1>2, <2>1
  <2> DEFINE Least(other) == /\ other > length
                             /\ \A third \in SummaryLevels : third > length => other <= third
  <2>3. \A other \in SummaryLevels : Least(other) => other = level
    BY <1>2, <2>2
  <2>4. Least(level)
    BY <2>2
  <2> HIDE DEF Least
  <2>5. (CHOOSE other \in SummaryLevels : Least(other)) = level
    BY <1>2, <2>3, <2>4
  <2>6. QED
    BY <2>5 DEF Least
<1>9. BucketsWithin(prefix) = {child \in Buckets({level}) : Covers(prefix, child.address)}
  BY <1>3, <1>6 DEF BucketsWithin
<1>10. QED
  BY <1>1, <1>4, <1>5, <1>7, <1>8, <1>9

-----------------------------------------------------------------------------
(* What a summary says *)

\* Adding up buckets counts each record once in every bucket it meets.
LEMMA BucketSums ==
  ASSUME NEW S, IsFiniteSet(S), NEW ranges, Len(ranges) \in Nat, DOMAIN ranges = 1 .. Len(ranges),
         NEW f, \A bucket \in S : f[bucket] = Cardinality(MeetingIDs(ranges, bucket))
  PROVE  /\ \E sum : SumsOver(S, f, sum)
         /\ \A sum : SumsOver(S, f, sum) => sum[S] = Cardinality(MeetingPairs(S, ranges))
<1> DEFINE T == DOMAIN ranges
           R == MeetingPairs(S, ranges)
<1>1. IsFiniteSet(T)
  <2>1. IsFiniteSet(1 .. Len(ranges))
    BY FS_Interval
  <2>2. QED
    BY <2>1
<1>2. R \in SUBSET (S \X T)
  BY DEF MeetingPairs
<1>3. ASSUME NEW bucket \in S
      PROVE  {id \in T : <<bucket, id>> \in R} = MeetingIDs(ranges, bucket)
  BY DEF MeetingPairs, MeetingIDs
<1> HIDE DEF R, T
<1>4. \A bucket \in S : f[bucket] = Cardinality({id \in T : <<bucket, id>> \in R})
  BY <1>3
<1>5. /\ \E sum : SumsOver(S, f, sum)
      /\ \A sum : SumsOver(S, f, sum) => sum[S] = Cardinality(R)
  <2>1. PairsCounted(S, T, R, f)
    BY <1>4 DEF PairsCounted
  <2>2. IsFiniteSet(S)
    OBVIOUS
  <2>3. QED
    BY ONLY <1>1, <1>2, <2>1, <2>2, SumsCount
<1>6. QED
  BY <1>5 DEF R

\* A bucket alone.
LEMMA BucketAlone ==
  ASSUME NEW bucket, NEW ranges, Len(ranges) \in Nat, DOMAIN ranges = 1 .. Len(ranges)
  PROVE  Cardinality(MeetingPairs({bucket}, ranges)) = Cardinality(MeetingIDs(ranges, bucket))
<1> DEFINE ids == MeetingIDs(ranges, bucket)
<1>1. IsFiniteSet(ids)
  <2>1. ids \in SUBSET (1 .. Len(ranges))
    BY DEF MeetingIDs
  <2>2. IsFiniteSet(1 .. Len(ranges))
    BY FS_Interval
  <2> HIDE DEF ids
  <2>3. QED
    BY <2>1, <2>2, FS_Subset
<1>2. MeetingPairs({bucket}, ranges) = {bucket} \X ids
  <2>1. ASSUME NEW pair \in MeetingPairs({bucket}, ranges) PROVE pair \in {bucket} \X ids
    BY DEF MeetingPairs, MeetingIDs
  <2>2. ASSUME NEW pair \in {bucket} \X ids PROVE pair \in MeetingPairs({bucket}, ranges)
    BY DEF MeetingPairs, MeetingIDs
  <2>3. QED
    BY <2>1, <2>2
<1> HIDE DEF ids
<1>3. Cardinality({bucket} \X ids) = 1 * Cardinality(ids) /\ Cardinality(ids) \in Nat
  <2>1. IsFiniteSet({bucket}) /\ Cardinality({bucket}) = 1
    BY FS_Singleton
  <2>2. Cardinality({bucket} \X ids) = Cardinality({bucket}) * Cardinality(ids)
    BY <1>1, <2>1, FS_Product
  <2>3. QED
    BY <1>1, <2>1, <2>2, FS_CardinalityType
<1>4. Cardinality({bucket} \X ids) = Cardinality(ids)
  BY <1>3
<1>5. QED
  BY <1>2, <1>4 DEF ids

\* The sum over buckets of a counter that counts the records meeting each.
LEMMA SumsOfCounts ==
  ASSUME NEW S, IsFiniteSet(S), NEW ranges, Len(ranges) \in Nat, DOMAIN ranges = 1 .. Len(ranges)
  PROVE  /\ (\A bucket \in S :
                counts[bucket].allocations = Cardinality(MeetingIDs(ranges, bucket)))
              => MapThenSumSet(LAMBDA child : counts[child].allocations, S)
                   = Cardinality(MeetingPairs(S, ranges))
         /\ (\A bucket \in S : counts[bucket].routes = Cardinality(MeetingIDs(ranges, bucket)))
              => MapThenSumSet(LAMBDA child : counts[child].routes, S)
                   = Cardinality(MeetingPairs(S, ranges))
<1>1. ASSUME \A bucket \in S :
               counts[bucket].allocations = Cardinality(MeetingIDs(ranges, bucket))
      PROVE  MapThenSumSet(LAMBDA child : counts[child].allocations, S)
               = Cardinality(MeetingPairs(S, ranges))
  <2> DEFINE f == [bucket \in S |-> counts[bucket].allocations]
             One(s) == CHOOSE x \in s : TRUE
             Def(h) == [s \in SUBSET S |-> IF s = {} THEN 0
                                           ELSE counts[One(s)].allocations + h[s \ {One(s)}]]
             h0 == CHOOSE h : h = Def(h)
  <2>1. MapThenSumSet(LAMBDA child : counts[child].allocations, S) = h0[S]
    BY DEF MapThenSumSet, MapThenFoldSet
  <2>2. ASSUME NEW h PROVE SumsOver(S, f, h) <=> h = Def(h)
    <3>1. ASSUME NEW s \in SUBSET S, s # {}
          PROVE  f[One(s)] = counts[One(s)].allocations
      <4>1. One(s) \in s
        BY <3>1
      <4> HIDE DEF One
      <4>2. QED
        BY <4>1
    <3> DEFINE Step(s) == IF s = {} THEN 0 ELSE f[One(s)] + h[s \ {One(s)}]
               StepOf(s) == IF s = {} THEN 0 ELSE counts[One(s)].allocations + h[s \ {One(s)}]
    <3>2. \A s \in SUBSET S : Step(s) = StepOf(s)
      <4> HIDE DEF f, One
      <4>1. QED
        BY <3>1
    <3> HIDE DEF Step, StepOf
    <3>3. [s \in SUBSET S |-> Step(s)] = [s \in SUBSET S |-> StepOf(s)]
      BY <3>2
    <3>4. SumsOver(S, f, h) <=> h = [s \in SUBSET S |-> Step(s)]
      BY DEF SumsOver, Step
    <3>5. Def(h) = [s \in SUBSET S |-> StepOf(s)]
      BY DEF StepOf
    <3> HIDE DEF Def, f
    <3>6. QED
      BY <3>3, <3>4, <3>5
  <2>3. /\ \E sum : SumsOver(S, f, sum)
        /\ \A sum : SumsOver(S, f, sum) => sum[S] = Cardinality(MeetingPairs(S, ranges))
    <3>1. \A bucket \in S : f[bucket] = Cardinality(MeetingIDs(ranges, bucket))
      BY <1>1
    <3> HIDE DEF f
    <3>2. QED
      BY <3>1, BucketSums
  <2> HIDE DEF Def, f
  <2>4. h0 = Def(h0)
    BY <2>2, <2>3
  <2> HIDE DEF h0
  <2>5. QED
    BY <2>1, <2>2, <2>3, <2>4
<1>2. ASSUME \A bucket \in S : counts[bucket].routes = Cardinality(MeetingIDs(ranges, bucket))
      PROVE  MapThenSumSet(LAMBDA child : counts[child].routes, S)
               = Cardinality(MeetingPairs(S, ranges))
  <2> DEFINE f == [bucket \in S |-> counts[bucket].routes]
             One(s) == CHOOSE x \in s : TRUE
             Def(h) == [s \in SUBSET S |-> IF s = {} THEN 0
                                           ELSE counts[One(s)].routes + h[s \ {One(s)}]]
             h0 == CHOOSE h : h = Def(h)
  <2>1. MapThenSumSet(LAMBDA child : counts[child].routes, S) = h0[S]
    BY DEF MapThenSumSet, MapThenFoldSet
  <2>2. ASSUME NEW h PROVE SumsOver(S, f, h) <=> h = Def(h)
    <3>1. ASSUME NEW s \in SUBSET S, s # {}
          PROVE  f[One(s)] = counts[One(s)].routes
      <4>1. One(s) \in s
        BY <3>1
      <4> HIDE DEF One
      <4>2. QED
        BY <4>1
    <3> DEFINE Step(s) == IF s = {} THEN 0 ELSE f[One(s)] + h[s \ {One(s)}]
               StepOf(s) == IF s = {} THEN 0 ELSE counts[One(s)].routes + h[s \ {One(s)}]
    <3>2. \A s \in SUBSET S : Step(s) = StepOf(s)
      <4> HIDE DEF f, One
      <4>1. QED
        BY <3>1
    <3> HIDE DEF Step, StepOf
    <3>3. [s \in SUBSET S |-> Step(s)] = [s \in SUBSET S |-> StepOf(s)]
      BY <3>2
    <3>4. SumsOver(S, f, h) <=> h = [s \in SUBSET S |-> Step(s)]
      BY DEF SumsOver, Step
    <3>5. Def(h) = [s \in SUBSET S |-> StepOf(s)]
      BY DEF StepOf
    <3> HIDE DEF Def, f
    <3>6. QED
      BY <3>3, <3>4, <3>5
  <2>3. /\ \E sum : SumsOver(S, f, sum)
        /\ \A sum : SumsOver(S, f, sum) => sum[S] = Cardinality(MeetingPairs(S, ranges))
    <3>1. \A bucket \in S : f[bucket] = Cardinality(MeetingIDs(ranges, bucket))
      BY <1>2
    <3> HIDE DEF f
    <3>2. QED
      BY <3>1, BucketSums
  <2> HIDE DEF Def, f
  <2>4. h0 = Def(h0)
    BY <2>2, <2>3
  <2> HIDE DEF h0
  <2>5. QED
    BY <2>1, <2>2, <2>3, <2>4
<1>3. QED
  BY <1>1, <1>2

\* A summary counts each record once per bucket it meets.
LEMMA SummaryFor ==
  ASSUME NEW allocations, Len(allocations) \in Nat, DOMAIN allocations = 1 .. Len(allocations),
         NEW routes, Len(routes) \in Nat, DOMAIN routes = 1 .. Len(routes),
         counts = Tally(allocations, routes),
         NEW prefix \in Buckets(0 .. DeepestLevel)
  PROVE  SummaryForPrefix(prefix) =
           [allocations |-> Cardinality(MeetingPairs(BucketsWithin(prefix), allocations)),
            routes |-> Cardinality(MeetingPairs(BucketsWithin(prefix), RouteSpans(routes)))]
<1> DEFINE spans == RouteSpans(routes)
           buckets == BucketsWithin(prefix)
<1>1. Len(spans) \in Nat /\ DOMAIN spans = 1 .. Len(spans)
  <2>1. DOMAIN spans = 1 .. Len(routes)
    BY DEF RouteSpans
  <2>2. Len(spans) = Len(routes)
    BY <2>1
  <2>3. QED
    BY <2>1, <2>2
<1>2. \A bucket \in Buckets(SummaryLevels) :
        /\ counts[bucket] = [allocations |-> Cardinality(MeetingIDs(allocations, bucket)),
                             routes |-> Cardinality(MeetingIDs(spans, bucket))]
        /\ counts[bucket].allocations = Cardinality(MeetingIDs(allocations, bucket))
        /\ counts[bucket].routes = Cardinality(MeetingIDs(spans, bucket))
  BY DEF Tally
<1> HIDE DEF spans
<1>3. CASE prefix.length \in SummaryLevels
  <2>1. prefix \in Buckets(SummaryLevels) /\ buckets = {prefix}
    BY <1>3, BucketsAre
  <2>2. SummaryForPrefix(prefix) = counts[prefix]
    BY <1>3 DEF SummaryForPrefix
  <2>3. /\ Cardinality(MeetingPairs({prefix}, allocations))
             = Cardinality(MeetingIDs(allocations, prefix))
        /\ Cardinality(MeetingPairs({prefix}, spans)) = Cardinality(MeetingIDs(spans, prefix))
    BY <1>1, BucketAlone
  <2>4. QED
    BY <1>2, <2>1, <2>2, <2>3 DEF spans
<1>4. CASE prefix.length \notin SummaryLevels
  <2> DEFINE childLength == CHOOSE level \in SummaryLevels :
                 /\ level > prefix.length
                 /\ \A other \in SummaryLevels : other > prefix.length => level <= other
             children == {child \in Buckets({childLength}) : Covers(prefix, child.address)}
  <2>1. SummaryForPrefix(prefix)
          = [allocations |-> MapThenSumSet(LAMBDA child : counts[child].allocations, children),
             routes      |-> MapThenSumSet(LAMBDA child : counts[child].routes, children)]
    BY <1>4 DEF SummaryForPrefix
  <2>2. children = buckets
    BY <1>4, BucketsAre
  <2> HIDE DEF children
  <2>3. IsFiniteSet(children) /\ children \in SUBSET Buckets(SummaryLevels)
    BY <2>2, BucketsAre
  <2>4. MapThenSumSet(LAMBDA child : counts[child].allocations, children)
          = Cardinality(MeetingPairs(children, allocations))
    BY <1>2, <2>3, SumsOfCounts
  <2>5. MapThenSumSet(LAMBDA child : counts[child].routes, children)
          = Cardinality(MeetingPairs(children, spans))
    BY <1>1, <1>2, <2>3, SumsOfCounts
  <2>6. QED
    BY <2>1, <2>2, <2>4, <2>5 DEF spans
<1>5. QED
  BY <1>3, <1>4

-----------------------------------------------------------------------------
(* Counting while building *)

\* The powers of two grow.
LEMMA PowerGrows ==
  ASSUME NEW i \in 0 .. Bits, NEW j \in 0 .. Bits, i < j
  PROVE  Power[i] < Power[j]
<1>1. i + 1 \in 1 .. Bits /\ i + 1 \in 0 .. Bits /\ j \in i + 1 .. Bits /\ (i + 1) - 1 = i
  BY BitsAssumption
<1>2. PICK k \in Nat \ {0} : Power[j] = k * Power[i + 1]
  BY <1>1, PowerDivides
<1>3. Power[i + 1] = 2 * Power[i] /\ Power[i] \in Nat \ {0}
  BY <1>1, PowerSteps
<1>4. k - 1 \in Nat /\ (k - 1) * (2 * Power[i]) \in Nat
      /\ k * (2 * Power[i]) = (k - 1) * (2 * Power[i]) + 2 * Power[i]
  BY <1>3
<1>5. QED
  BY <1>2, <1>3, <1>4

\* Prefixes of different lengths have different sizes.
LEMMA OneSize ==
  ASSUME NEW one \in 0 .. Bits, NEW two \in 0 .. Bits, Size(one) = Size(two)
  PROVE  one = two
<1>1. Bits - one \in 0 .. Bits /\ Bits - two \in 0 .. Bits
  BY BitsAssumption
<1>2. Power[Bits - one] = Power[Bits - two] /\ Power[Bits - one] \in Nat
  BY <1>1, PowerSteps DEF Size
<1>3. Bits - one = Bits - two
  BY <1>1, <1>2, PowerGrows
<1>4. QED
  BY <1>3, BitsAssumption

\* The range of a prefix is the CIDR that the prefix is.
LEMMA PrefixOfRange ==
  ASSUME NEW prefix \in AllPrefixes
  PROVE  IsCIDR(PrefixRange(prefix)) /\ PrefixForRange(PrefixRange(prefix)) = prefix
<1> DEFINE range == PrefixRange(prefix)
           s == Size(prefix.length)
<1>1. /\ prefix.length \in 0 .. Bits /\ prefix.address \in Nat
      /\ prefix.address = prefix.address - (prefix.address % s)
      /\ prefix = [address |-> prefix.address, length |-> prefix.length]
  BY DEF AllPrefixes, Masked, Addresses
<1>2. s \in Nat \ {0}
  BY <1>1, SizeIsPositive
<1>3. range.start = prefix.address /\ Width(range) + 1 = s
  <2>1. range.start = prefix.address /\ range.end = prefix.address + s - 1
    BY DEF PrefixRange, PrefixEnd
  <2> HIDE DEF range, s
  <2>2. QED
    BY <1>1, <1>2, <2>1 DEF Width
<1>4. prefix.address % s = 0
  <2> HIDE DEF s
  <2>1. prefix.address % s \in Int
    BY <1>1, <1>2
  <2>2. QED
    BY <1>1, <2>1
<1>5. (CHOOSE length \in 0 .. Bits : Width(range) + 1 = Size(length)) = prefix.length
  BY <1>1, <1>3, OneSize
<1>6. IsCIDR(range)
  BY <1>1, <1>3, <1>4 DEF IsCIDR
<1>7. QED
  BY <1>1, <1>3, <1>5, <1>6 DEF PrefixForRange

\* Every summary counts each record once per bucket it meets.
SummariesAre(data) ==
  \A prefix \in Buckets(0 .. DeepestLevel) :
    data.summaries[prefix] =
      [allocations |-> Cardinality(MeetingPairs(BucketsWithin(prefix), data.allocations)),
       routes |-> Cardinality(MeetingPairs(BucketsWithin(prefix), RouteSpans(data.routes)))]

\* The counters count what has been stored so far; the summaries, all of it.
CountsInv ==
  /\ phase \in Building \ PastSummaries => counts = Tally(db.allocations, db.routes)
  /\ phase \in PastSummaries => SummariesAre(db)
  /\ output.is = "data" => SummariesAre(output.content)

\* Counters begin at 0.
LEMMA NoneCounted == NoCounts = Tally(EmptyDB.allocations, EmptyDB.routes)
<1>1. \A prefix : MeetingIDs(<<>>, prefix) = {} /\ MeetingIDs(RouteSpans(<<>>), prefix) = {}
  BY DEF MeetingIDs, RouteSpans
<1>2. Cardinality({}) = 0
  BY FS_EmptySet
<1>3. Tally(<<>>, <<>>) = NoCounts
  BY <1>1, <1>2 DEF Tally, NoCounts
<1>4. QED
  BY <1>3, EmptyFields

\* What the steps that store records do to the counters.
LEMMA RecordsCounted ==
  ASSUME ObjectsInv, PlaceInv, AddAllocation \/ AddRoute \/ AddGeofeed \/ AddAutnum,
         counts = Tally(db.allocations, db.routes)
  PROVE  counts' = Tally(db'.allocations, db'.routes)
<1>1. /\ db.allocations \in Seq(Ranges) /\ db.routes \in Seq(StoredRoute)
      /\ \A range \in Ranges : range \in Spans
  BY DEF ObjectsInv, Ranges, Spans, Addresses
<1>2. db.allocations \in Seq(Spans)
  BY <1>1
<1>3. CASE AddAllocation
  <2> DEFINE range == input.allocations[at]
  <2>1. range \in Ranges
    BY <1>3, AllocationAdded
  <2>2. CASE range.start > range.end
    <3>1. db' = db /\ counts' = counts
      BY <1>3, <2>2 DEF AddAllocation
    <3>2. QED
      BY <3>1
  <2>3. CASE ~ (range.start > range.end)
    <3>1. counts' = Collect(range, "allocations")
      BY <1>3, <2>3 DEF AddAllocation
    <3>2. db'.allocations = Append(db.allocations, range) /\ db'.routes = db.routes
      BY <1>3, <2>3, AllocationAdded DEF Same, FileBuckets
    <3>3. range \in Spans
      BY <1>1, <2>1
    <3> HIDE DEF range
    <3>4. QED
      BY <1>2, <3>1, <3>2, <3>3, AllocationCounted
  <2>4. QED
    BY <2>2, <2>3
<1>4. CASE AddRoute
  <2> DEFINE asn == input.routes[at].origin
             route == [prefix |-> MaskedPrefix(input.routes[at].prefix), origin |-> asn]
  <2>1. CASE asn = NoOrigin
    <3>1. db' = db /\ counts' = counts
      BY <1>4, <2>1 DEF AddRoute
    <3>2. QED
      BY <3>1
  <2>2. CASE asn # NoOrigin
    <3>1. counts' = Collect(PrefixRange(route.prefix), "routes")
      BY <1>4, <2>2 DEF AddRoute
    <3>2. /\ route \in StoredRoute /\ db'.routes = Append(db.routes, route)
          /\ db'.allocations = db.allocations
      BY <1>4, <2>2, RouteAdded DEF Same, FileBuckets
    <3> HIDE DEF route
    <3>3. QED
      BY <1>1, <3>1, <3>2, RouteCounted
  <2>3. QED
    BY <2>1, <2>2
<1>5. CASE AddGeofeed
  <2>1. counts' = counts
    BY <1>5 DEF AddGeofeed
  <2>2. db'.allocations = db.allocations /\ db'.routes = db.routes
    BY <1>5, GeofeedAdded DEF Same, FileBuckets
  <2>3. QED
    BY <2>1, <2>2
<1>6. CASE AddAutnum
  <2>1. counts' = counts
    BY <1>6 DEF AddAutnum
  <2>2. db'.allocations = db.allocations /\ db'.routes = db.routes
    BY <1>6, AutnumRead DEF Same, FileBuckets
  <2>3. QED
    BY <2>1, <2>2
<1>7. QED
  BY <1>3, <1>4, <1>5, <1>6

\* What is written is the summaries of the records stored.
LEMMA SummariesWritten ==
  ASSUME ObjectsInv, WriteSummaries, counts = Tally(db.allocations, db.routes)
  PROVE  SummariesAre(db')
<1>1. /\ Len(db.allocations) \in Nat /\ DOMAIN db.allocations = 1 .. Len(db.allocations)
      /\ Len(db.routes) \in Nat /\ DOMAIN db.routes = 1 .. Len(db.routes)
      /\ "summaries" \in DOMAIN db
  BY EmptyFields DEF ObjectsInv
<1>2. /\ db'.summaries = [prefix \in Buckets(0 .. DeepestLevel) |-> SummaryForPrefix(prefix)]
      /\ db'.allocations = db.allocations /\ db'.routes = db.routes
  <2>1. db' = [db EXCEPT !.summaries =
                 [prefix \in Buckets(0 .. DeepestLevel) |-> SummaryForPrefix(prefix)]]
    BY DEF WriteSummaries
  <2>2. QED
    BY <1>1, <2>1
<1>3. ASSUME NEW prefix \in Buckets(0 .. DeepestLevel)
      PROVE  db'.summaries[prefix] =
               [allocations |-> Cardinality(MeetingPairs(BucketsWithin(prefix), db'.allocations)),
                routes |-> Cardinality(MeetingPairs(BucketsWithin(prefix), RouteSpans(db'.routes)))]
  <2>1. db'.summaries[prefix] = SummaryForPrefix(prefix)
    BY <1>2
  <2>2. SummaryForPrefix(prefix) =
          [allocations |-> Cardinality(MeetingPairs(BucketsWithin(prefix), db.allocations)),
           routes |-> Cardinality(MeetingPairs(BucketsWithin(prefix), RouteSpans(db.routes)))]
    BY ONLY <1>1, counts = Tally(db.allocations, db.routes),
            prefix \in Buckets(0 .. DeepestLevel), SummaryFor
  <2>3. QED
    BY <1>2, <2>1, <2>2
<1>4. QED
  BY <1>3 DEF SummariesAre

\* Nothing has been counted before the first step.
LEMMA NothingCounted == Begun => CountsInv
BY DEF Begun, CountsInv, NoFile, Building, PastAllocations, PastRoutes, PastGeofeeds,
   PastAutnums, PastASNRoutes, PastRouteLPM, PastAllocationLPM, PastGeofeedLPM, PastSummaries

\* The steps keep the counts.
LEMMA CountsStep ==
  ASSUME BuildInv, CountsInv, [Next]_vars PROVE CountsInv'
<1>1. ObjectsInv /\ PlaceInv /\ FilesInv /\ OutputInv
  BY DEF BuildInv
<1>2. /\ phase \in Building \ PastSummaries => counts = Tally(db.allocations, db.routes)
      /\ phase \in PastSummaries => SummariesAre(db)
      /\ output.is = "data" => SummariesAre(output.content)
  BY DEF CountsInv
<1>3. phase' \in Building \ PastSummaries => counts' = Tally(db'.allocations, db'.routes)
  <2> SUFFICES ASSUME phase' \in Building \ PastSummaries
               PROVE  counts' = Tally(db'.allocations, db'.routes)
    OBVIOUS
  <2>1. CASE AddAllocation \/ AddRoute \/ AddGeofeed \/ AddAutnum
    <3>1. phase' = phase
      BY <1>1, <2>1, AllocationAdded, RouteAdded, GeofeedAdded, AutnumRead
    <3>2. QED
      BY <1>1, <1>2, <2>1, <3>1, RecordsCounted
  <2>2. CASE Deriving
    <3>1. phase \in Building \ PastSummaries /\ counts' = counts
      BY <2>2 DEF Deriving, EndOfFile, WriteASNRoutes, InsertRouteGroup, StoreRouteLPM,
         InsertObject, StoreSelectionLPM, WriteSummaries, Sync, Compact, SyncCompact, Publish,
         memory, Building, PastAllocations, PastRoutes, PastGeofeeds, PastAutnums,
         PastASNRoutes, PastRouteLPM, PastAllocationLPM, PastGeofeedLPM, PastSummaries
    <3>2. db'.allocations = db.allocations /\ db'.routes = db.routes
      BY <1>1, <2>2, TablesKept DEF Same, FileBuckets
    <3>3. QED
      BY <1>2, <3>1, <3>2
  <2>3. CASE Start \/ Cancel \/ Crash
    <3>1. counts' = NoCounts /\ db' = EmptyDB
      BY <2>3 DEF Start, Cancel, Crash, NothingBuilt
    <3>2. QED
      BY <3>1, NoneCounted
  <2>4. CASE UNCHANGED vars
    BY <1>2, <2>4 DEF vars, memory
  <2>5. QED
    BY <2>1, <2>2, <2>3, <2>4, StepCases
<1>4. phase' \in PastSummaries => SummariesAre(db')
  <2> SUFFICES ASSUME phase' \in PastSummaries PROVE SummariesAre(db')
    OBVIOUS
  <2>1. CASE WriteSummaries
    <3>1. phase \in Building \ PastSummaries
      BY <2>1 DEF WriteSummaries, Building, PastAllocations, PastRoutes, PastGeofeeds,
         PastAutnums, PastASNRoutes, PastRouteLPM, PastAllocationLPM, PastGeofeedLPM,
         PastSummaries
    <3>2. QED
      BY <1>1, <1>2, <2>1, <3>1, SummariesWritten
  <2>2. CASE ~ WriteSummaries
    <3>1. phase' \notin {"allocations", "routes", "geofeeds", "autnums", "asnRoutes", "routeLPM",
                         "allocationLPM", "geofeedLPM", "summaries", "start", "published",
                         "failed", "cancelled"}
      BY DEF PastSummaries
    <3>2. ~ AddAllocation /\ ~ AddRoute /\ ~ AddGeofeed /\ ~ AddAutnum
      BY <1>1, <3>1, AllocationAdded, RouteAdded, GeofeedAdded, AutnumRead
    <3>3. CASE Start \/ Cancel \/ Crash
      <4>1. phase' = phase \/ phase' \in {"allocations", "cancelled", "start"}
        BY <3>3 DEF Start, Cancel, Crash
      <4>2. phase = "published"
        BY <3>1, <3>3, <4>1 DEF Start, Cancel, Crash
      <4>3. QED
        BY <3>1, <3>3, <4>1, <4>2 DEF Start, Cancel, Crash
    <3>4. CASE Deriving
      <4>1. phase \in PastSummaries /\ db' = db
        BY <2>2, <3>1, <3>4 DEF Deriving, EndOfFile, WriteASNRoutes, InsertRouteGroup,
           StoreRouteLPM, InsertObject, StoreSelectionLPM, Sync, Compact, SyncCompact, Publish,
           memory, PastSummaries
      <4>2. QED
        BY <1>2, <4>1
    <3>5. CASE UNCHANGED vars
      BY <1>2, <3>5 DEF vars, memory
    <3>6. QED
      BY <3>2, <3>3, <3>4, <3>5, StepCases
  <2>3. QED
    BY <2>1, <2>2
<1>5. output'.is = "data" => SummariesAre(output'.content)
  <2>1. CASE Publish
    <3>1. phase = "rename" /\ output' = IF input.compact THEN compacted ELSE raw
      BY <2>1 DEF Publish
    <3>2. output' = Holding(db, TRUE)
      BY <1>1, <3>1 DEF FilesInv
    <3>3. output'.content = db /\ phase \in PastSummaries
      BY <3>1, <3>2 DEF Holding, PastSummaries
    <3>4. QED
      BY <1>2, <3>3
  <2>2. CASE Crash
    <3>1. output' = AfterCrash(output)
      BY <2>2 DEF Crash
    <3>2. output = NoFile \/ output = Holding(output.content, TRUE)
      BY <1>1 DEF OutputInv
    <3>3. output' = output
      BY <3>1, <3>2 DEF AfterCrash, Holding, NoFile
    <3>4. QED
      BY <1>2, <3>3
  <2>3. CASE ~ Publish /\ ~ Crash
    <3>1. output' = output
      BY <1>1, <2>3, StepCases, AllocationAdded, RouteAdded, GeofeedAdded, AutnumRead
         DEF Deriving, EndOfFile, WriteASNRoutes, InsertRouteGroup, StoreRouteLPM,
             InsertObject, StoreSelectionLPM, WriteSummaries, Sync, Compact, SyncCompact,
             Start, Cancel, files, vars
    <3>2. QED
      BY <1>2, <3>1
  <2>4. QED
    BY <2>1, <2>2, <2>3
<1>6. QED
  BY <1>3, <1>4, <1>5 DEF CountsInv, SummariesAre

\* Whatever a published file was built from, the summary of every prefix, counted
\* or added up from the next counted level, counts each record once per bucket of
\* that level inside the prefix that the record meets.
THEOREM SummariesCountOnce == Spec => []SummaryCounts
<1>1. Init => CountsInv
  BY BuildInit, NothingCounted, SMTT(30), ZenonT(30)
<1>2. ASSUME CountsInv PROVE SummaryCounts
  <2> DEFINE data == output.content
             Counted(query) ==
               LET length  == PrefixForRange(query).length
                   level   == CHOOSE l \in SummaryLevels :
                                  l >= length /\ \A k \in SummaryLevels : k >= length => l <= k
                   buckets == {bucket \in Buckets({level}) : InRange(query, bucket.address)}
                   Pairs(ranges) ==
                       {pair \in buckets \X (DOMAIN ranges) :
                           /\ ranges[pair[2]].start <= PrefixEnd(pair[1])
                           /\ ranges[pair[2]].end >= pair[1].address}
                   routes  == data.routes
                   summary == LookupRangeSummary(data, query)
               IN  Summarised(query)
                   /\ summary.allocations = Cardinality(Pairs(data.allocations))
                   /\ summary.routes = Cardinality(Pairs(
                         [id \in DOMAIN routes |-> PrefixRange(routes[id].prefix)]))
  <2> SUFFICES ASSUME Served,
                      NEW query \in {PrefixRange(prefix) : prefix \in Buckets(0 .. DeepestLevel)}
               PROVE  Counted(query)
    BY DEF SummaryCounts
  <2>0. PICK prefix \in Buckets(0 .. DeepestLevel) : query = PrefixRange(prefix)
    OBVIOUS
  <2> DEFINE buckets == BucketsWithin(prefix)
  <2>1. /\ data.summaries[prefix].allocations = Cardinality(MeetingPairs(buckets, data.allocations))
        /\ data.summaries[prefix].routes
             = Cardinality(MeetingPairs(buckets, RouteSpans(data.routes)))
    <3>1. SummariesAre(data)
      BY <1>2 DEF CountsInv, Served
    <3>2. data.summaries[prefix] =
            [allocations |-> Cardinality(MeetingPairs(buckets, data.allocations)),
             routes      |-> Cardinality(MeetingPairs(buckets, RouteSpans(data.routes)))]
      BY <3>1 DEF SummariesAre
    <3> HIDE DEF data, buckets
    <3>3. QED
      BY <3>2
  <2>2. PrefixForRange(query) = prefix /\ IsCIDR(query)
    BY <2>0, PrefixOfRange DEF Buckets
  <2>3. Summarised(query)
    <3>1. prefix.length <= DeepestLevel
      <4>1. DeepestLevel \in Nat /\ prefix.length \in 0 .. DeepestLevel
        BY LevelsWork, BitsAssumption DEF Buckets
      <4>2. QED
        BY <4>1
    <3>2. QED
      BY <2>2, <3>1 DEF Summarised
  <2>4. LookupRangeSummary(data, query) = data.summaries[prefix]
    BY <2>2 DEF LookupRangeSummary
  <2>5. buckets = {bucket \in Buckets({CountedLevel(PrefixForRange(query).length)}) :
                     InRange(query, bucket.address)}
    BY <2>0, <2>2 DEF BucketsWithin
  <2> HIDE DEF data
  <2>6. Counted(query)
    BY <2>1, <2>3, <2>4, <2>5 DEF MeetingPairs, Meets, RouteSpans, CountedLevel
  <2>7. QED
    BY <2>6, SMTT(30), ZenonT(30) DEF data
<1>3. BuildInv /\ CountsInv /\ [Next]_vars => CountsInv'
  BY CountsStep
<1>4. QED
  BY <1>1, <1>2, <1>3, BuildInvariance, PTL DEF Spec
=============================================================================
