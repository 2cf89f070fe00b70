---------------------------- MODULE MCLookups ----------------------------
(* Instances of Lookups for TLC: files of up to three rows over addresses *)
(* of three bits.                                                         *)
EXTENDS Lookups

Between(start, end) == [start |-> start, end |-> end]

\* Ranges around one address, so that they overlap, and one that is refused.
AroundFour == {range \in Ranges : range.start >= 2 /\ InRange(range, 4)} \cup {Between(5, 2)}

Files(allocations, routes, geofeeds, compact) ==
    [allocations : allocations, routes : routes, geofeeds : geofeeds, autnums : {<<>>},
     compact : {compact}]

Routes(origins) == [prefix : AllPrefixes, origin : origins]

RoutesToFour(origins) == {route \in Routes(origins) : Covers(route.prefix, 4)}

Triples(S) == [1 .. 3 -> S]
Pairs(S)   == [1 .. 2 -> S]
Singles(S) == [1 .. 1 -> S]

Autnums == [asn : {NoNumber, 64500}, registry : {"arin", "ripe"}]

MCInputs ==
    Files(Triples(AroundFour), {<<>>}, {<<>>}, TRUE)
    \cup Files({<<>>}, Triples(Routes({64500})), {<<>>}, FALSE)
    \cup Files({<<>>}, Pairs(RoutesToFour({NoOrigin, NoNumber, 64500, 64501})), {<<>>}, TRUE)
    \cup Files({<<>>}, {<<>>}, Pairs({range \in Ranges : range.start <= range.end}), TRUE)
    \cup Files(Singles(AroundFour), Singles(Routes({64500})), Singles({Between(0, 7), Between(3, 4)}), TRUE)
    \cup {[allocations |-> <<Between(2, 4)>>, routes |-> <<>>, geofeeds |-> <<>>,
           autnums |-> autnums, compact |-> TRUE] : autnums \in Pairs(Autnums)}
=========================================================================
