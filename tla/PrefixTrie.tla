--------------------------- MODULE PrefixTrie ---------------------------
(***************************************************************************)
(* The Patricia tries of internal/boltstore: route_lpm.go, whose nodes     *)
(* hold the IDs of the routes registered at a prefix, and                  *)
(* selection_lpm.go, whose nodes hold the one allocation or geofeed that   *)
(* the compact response selects.  A trie is the builder's sequence of      *)
(* nodes; a child is the one-based index of a node, 0 for none.  The       *)
(* encoded form is the same sequence, node by node.                        *)
(***************************************************************************)
EXTENDS IPRanges, SequencesExt

\* What a branch node holds: no route IDs, or no candidate.
NoRoutes == <<>>
NoCandidate == [id |-> 0, width |-> 0]

Node(prefix, value) ==
    [address |-> Masked(prefix.address, prefix.length), length |-> prefix.length,
     child |-> <<0, 0>>, value |-> value]

EmptyTrie(nothing) == <<Node([address |-> 0, length |-> 0], nothing)>>

\* The child slot below a node of this length that leads to the prefix.
Branch(prefix, length) == BitAt(prefix.address, length) + 1

(***************************************************************************)
(* The descent of insert, from the root, which covers everything: it stops *)
(* at the node of the prefix itself (parent = 0), or at a child slot of    *)
(* `parent` that is empty (at = 0) or leads to a node `at` that does not   *)
(* cover the prefix.                                                       *)
(***************************************************************************)
Stop(nodes, prefix) ==
    LET NotLonger == {ref \in DOMAIN nodes : nodes[ref].length <= prefix.length}
        descend[ref \in NotLonger] ==
            LET next == nodes[ref].child[Branch(prefix, nodes[ref].length)]
            IN  IF nodes[ref].length = prefix.length THEN [parent |-> 0, at |-> ref]
                ELSE IF next = 0 \/ CommonLength(nodes[next], prefix) < nodes[next].length
                     THEN [parent |-> ref, at |-> next]
                     ELSE descend[next]
    IN  descend[1]

\* Mutant: the old node goes where the new prefix branches to.
ForkOnNewBranch(prefix, length, old, ref, nothing) ==
    [Node([address |-> prefix.address, length |-> length], nothing)
        EXCEPT !.child[Branch(prefix, length)] = ref]

\* The node put where `old` (at `ref`) and a prefix part, with `old` below it.
Fork(prefix, length, old, ref, nothing) ==
    [Node([address |-> prefix.address, length |-> length], nothing)
        EXCEPT !.child[Branch(old, length)] = ref]

\* The trie with `value` at the prefix; a node that is there loses its own.
Insert(nodes, prefix, value, nothing) ==
    LET stop   == Stop(nodes, prefix)
        new    == Len(nodes) + 1
        linked == [nodes EXCEPT
                       ![stop.parent].child[Branch(prefix, nodes[stop.parent].length)] = new]
        old    == nodes[stop.at]
        common == CommonLength(old, prefix)
        fork   == Fork(prefix, common, old, stop.at, nothing)
    IN  IF stop.parent = 0 THEN [nodes EXCEPT ![stop.at].value = value]
        ELSE IF stop.at = 0 THEN Append(linked, Node(prefix, value))
        ELSE IF common = prefix.length THEN Append(linked, [fork EXCEPT !.value = value])
        ELSE linked \o <<[fork EXCEPT !.child[Branch(prefix, common)] = new + 1],
                         Node(prefix, value)>>

\* What the node of this very prefix holds.
Held(nodes, prefix, nothing) ==
    LET stop == Stop(nodes, prefix)
    IN  IF stop.parent = 0 THEN nodes[stop.at].value ELSE nothing

\* Routes inserted at the same prefix before are an error.
Occupied(nodes, prefix) == Held(nodes, prefix, NoRoutes) # NoRoutes

InsertRoutes(nodes, prefix, ids) == Insert(nodes, prefix, ids, NoRoutes)

\* Mutant: the first record wins.
LowerID(left, right) == left.id < right.id

\* selectionCandidateLess: the narrower range, then the lower ID.
CandidateLess(left, right) ==
    \/ left.width < right.width
    \/ left.width = right.width /\ left.id < right.id

\* The better of two candidates for one prefix stays.
InsertCandidate(nodes, prefix, candidate) ==
    LET held == Held(nodes, prefix, NoCandidate)
    IN  IF held = NoCandidate \/ CandidateLess(candidate, held)
        THEN Insert(nodes, prefix, candidate, NoCandidate) ELSE nodes

\* The nodes a lookup visits, from the root down, as long as they cover the
\* address.
Walk(nodes, address) ==
    LET visit[ref \in DOMAIN nodes] ==
            LET node == nodes[ref]
                next == IF node.length < Bits
                        THEN node.child[BitAt(address, node.length) + 1] ELSE 0
            IN  IF ~ Covers(node, address) THEN <<>>
                ELSE IF next = 0 THEN <<node>> ELSE <<node>> \o visit[next]
    IN  visit[1]

\* Mutant: the first node with routes wins.
ShortestMatch(nodes, address) ==
    FoldLeft(LAMBDA best, node : IF best # NoRoutes THEN best ELSE node.value,
             NoRoutes, Walk(nodes, address))

\* The route IDs of the last node that has any.
LookupRouteLPM(nodes, address) ==
    FoldLeft(LAMBDA best, node : IF node.value = NoRoutes THEN best ELSE node.value,
             NoRoutes, Walk(nodes, address))

\* Mutant: the order the builder uses within one prefix.
SelectionLessByID(node, best) == CandidateLess(node.value, best.value)

\* selectionEncodedCandidateLess: the narrower range, then the longer prefix,
\* then the lower ID.
SelectionLess(node, best) ==
    \/ node.value.width < best.value.width
    \/ /\ node.value.width = best.value.width
       /\ \/ node.length > best.length
          \/ node.length = best.length /\ node.value.id < best.value.id

LookupSelectionLPM(nodes, address) ==
    FoldLeft(LAMBDA best, node :
                 IF /\ node.value # NoCandidate
                    /\ best.value = NoCandidate \/ SelectionLess(node, best)
                 THEN node ELSE best,
             [value |-> NoCandidate, length |-> 0], Walk(nodes, address)).value.id
=========================================================================
