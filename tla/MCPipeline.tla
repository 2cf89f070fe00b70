--------------------------- MODULE MCPipeline ---------------------------
(* Instances of Pipeline for TLC: two registries that publish up to three *)
(* objects each over addresses of three bits, and up to three geofeeds.   *)
EXTENDS Pipeline

Inetnum(start, end, iana) ==
    [class |-> "inetnum", start |-> start, end |-> end, iana |-> iana, feed |-> NoFeed]
Delegated(start, count, status) ==
    [class |-> "delegated", start |-> start, count |-> count, status |-> status, feed |-> NoFeed]
Prefix(address, length) == [address |-> address, length |-> length]
Route(prefix, origin) == [class |-> "route", prefix |-> prefix, origin |-> origin, feed |-> NoFeed]
Autnum(asn) == [class |-> "aut-num", asn |-> asn, feed |-> NoFeed]

Naming(feed, object) == [object EXCEPT !.feed = feed]

MCRegistries == <<"arin", "ripe">>

World(arin, ripe, lines) ==
    [objects |-> [registry \in {"arin", "ripe"} |-> IF registry = "arin" THEN arin ELSE ripe],
     lines |-> lines]

OneLine == "feed" :> <<Prefix(5, 2)>>

\* One allocation of every shape next to a fixed one.
Allocations ==
    {Inetnum(start, end, FALSE) : start \in Addresses, end \in Addresses}
    \cup {Inetnum(0, 7, TRUE), Inetnum(0, 6, TRUE)}
    \cup {Delegated(start, count, "allocated") : start \in Addresses, count \in Addresses}
    \cup {Delegated(2, 3, "assigned"), Delegated(2, 3, "reserved")}

\* One route of every written prefix and kind of origin next to a fixed one.
Routes == {Route(prefix, origin) : prefix \in WrittenPrefixes, origin \in {NoOrigin, NoNumber, 64500}}

MCSources ==
    {World(<<allocation, Naming("feed", Route(Prefix(4, 1), 64500))>>,
           <<Inetnum(2, 4, FALSE), Autnum(64500)>>, OneLine) : allocation \in Allocations}
    \cup {World(<<Delegated(3, 2, "allocated"), Autnum(64500)>>,
                <<Route(Prefix(3, 2), 64501), route, Naming("feed", Autnum(64500))>>, OneLine) :
             route \in Routes}
    \cup {World(<<Naming("first", Inetnum(2, 5, FALSE)), Naming("second", Autnum(asn))>>,
                <<Naming("first", Route(Prefix(2, 3), 64500)), Autnum(64500)>>,
                "first" :> <<Prefix(0, 3), Prefix(7, 1)>> @@ "second" :> second) :
             asn \in {NoNumber, 64500, 64501}, second \in {<<Prefix(1, 3)>>, <<Prefix(2, 2), Prefix(3, 3)>>}}
    \cup {World(<<Naming("first", Inetnum(2, 5, FALSE)), Naming("second", Route(Prefix(2, 3), 64500))>>,
                <<Naming("third", Autnum(64500))>>,
                "first" :> <<Prefix(0, 3)>> @@ "second" :> <<Prefix(2, 2)>> @@ "third" :> <<Prefix(5, 1)>>)}
=========================================================================
