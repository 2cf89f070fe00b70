----------------------------- MODULE MCPages -----------------------------
(* Instances of Pages for TLC: three records around the middle of eight   *)
(* addresses, and the queries that begin or end among them.               *)
EXTENDS Pages

Allocated == {range \in Ranges : range.start \in 1 .. 3 /\ range.end \in 3 .. 5}

Prefix(address, length) == [address |-> address, length |-> length]

Registered == {Prefix(0, 0), Prefix(2, 3), Prefix(4, 1), Prefix(4, 2), Prefix(4, 3)}

File(allocations, routes) ==
    [allocations |-> allocations, routes |-> routes, geofeeds |-> <<>>, autnums |-> <<>>,
     compact |-> FALSE]

MCInputs ==
    {File(rows, <<>>) : rows \in {r \in [1 .. 3 -> Allocated] :
                                     r[1].start <= r[2].start /\ r[2].start <= r[3].start}}
    \cup {File(<<>>, rows) : rows \in [1 .. 3 -> [prefix : Registered, origin : {64500}]]}
    \cup {File(<<>>, rows) :
             rows \in [1 .. 3 -> [prefix : {Prefix(4, 1), Prefix(4, 3)},
                                  origin : {NoNumber, 64500, 64501}]]}

Asked == {range \in Ranges : range.start \in 2 .. 4 /\ range.end \in 4 .. 6}
AskedPrefixes == {PrefixRange(prefix) : prefix \in {p \in AllPrefixes : Covers(p, 3) \/ Covers(p, 5)}}

MCQueries(csv) ==
    IF csv.routes = <<>>
    THEN [kind : {"allocations"}, range : Asked, limit : 1 .. 2]
    ELSE IF \E i \in DOMAIN csv.routes : csv.routes[i].origin # 64500
    THEN [kind : {"asn", "asnPage"}, asn : {64500, 64501}, limit : 1 .. 2]
    ELSE [kind : {"routes"}, range : Asked, limit : 1 .. 2]
         \cup [kind : {"prefix"}, range : AskedPrefixes, limit : 1 .. 2]
=========================================================================
