--------------------------- MODULE SourceParser ---------------------------
(***************************************************************************)
(* Reading the registries' published files (cmd/parse-rir) and geofeeds    *)
(* (cmd/fetch-geofeeds): which objects become CSV rows, and the range each *)
(* row is given.                                                           *)
(*                                                                         *)
(* A source is the sequence of objects of one registry's files, in the     *)
(* order they are read.  An object is an RPSL block or a line of ARIN's    *)
(* delegated statistics; every RPSL block may name a geofeed.  The classes *)
(* are those of IPv4: route6 is a route, and an inet6num an allocation     *)
(* that takes its range from a prefix as routes do.                        *)
(***************************************************************************)
EXTENDS CSVFiles, SequencesExt

NoFeed == "no feed"

\* The objects that a registry's files may hold when these are the geofeeds.
Objects(feeds) ==
    [class : {"inetnum"}, start : Addresses, end : Addresses, iana : BOOLEAN,
     feed : feeds \cup {NoFeed}]
    \cup [class : {"route"}, prefix : WrittenPrefixes, origin : Nat \cup {NoOrigin},
          feed : feeds \cup {NoFeed}]
    \cup [class : {"aut-num"}, asn : Nat, feed : feeds \cup {NoFeed}]
    \cup [class : {"delegated"}, start : Addresses, count : Addresses,
          status : {"allocated", "assigned", "reserved"}, feed : {NoFeed}]

-----------------------------------------------------------------------------
\* cidrToRange: the host bits of the written prefix are cleared.
CidrRange(prefix) ==
    LET first == Masked(prefix.address, prefix.length)
    IN  [start |-> first, end |-> first + Size(prefix.length) - 1]

\* Mutant: the last address is start + count.
DelegatedRangeTooLong(line) ==
    [start |-> line.start, end |-> (line.start + line.count) % Size(0)]

\* The end is computed in an unsigned word of the address's width: a count
\* that passes the last address wraps.
DelegatedRange(line) ==
    [start |-> line.start, end |-> (line.start + line.count - 1) % Size(0)]

\* The full address space that registries repeat as IANA's.
IsPlaceholder(object) ==
    object.iana /\ object.start = 0 /\ object.end = Size(0) - 1

WritesAllocation(object) ==
    \/ object.class = "inetnum" /\ ~ IsPlaceholder(object)
    \/ object.class = "delegated" /\ object.count # 0
                                  /\ object.status \in {"allocated", "assigned"}

AllocationRow(object) ==
    CASE object.class = "inetnum"   -> [start |-> object.start, end |-> object.end]
      [] object.class = "delegated" -> DelegatedRange(object)

WritesRoute(object) == object.class = "route" /\ object.origin # NoOrigin

RouteRow(object) ==
    [range |-> CidrRange(object.prefix), prefix |-> object.prefix, origin |-> object.origin]

\* An aut-num becomes a row whatever its ASN looks like.
AutnumRow(object, registry) == [asn |-> object.asn, registry |-> registry]

\* What a registry's job writes, its geofeed list included.
Parse(objects, registry) ==
    LET Rows(Writes(_), RowOf(_)) ==
            LET chosen == Selected(objects, Writes)
            IN  [i \in DOMAIN chosen |-> RowOf(chosen[i])]
    IN  [allocations |-> Rows(WritesAllocation, AllocationRow),
         routes      |-> Rows(WritesRoute, RouteRow),
         autnums     |-> Rows(LAMBDA object : object.class = "aut-num",
                              LAMBDA object : AutnumRow(object, registry)),
         feeds       |-> {object.feed : object \in ToSet(objects)} \ {NoFeed}]

(***************************************************************************)
(* A download that was cut, a line longer than the scanner's buffer or a   *)
(* file that cannot be opened ends the reading of that file; the error is  *)
(* only logged, and the registry's next file is read.  What had been read  *)
(* of the last object is processed like a whole one: its attributes may be *)
(* missing, or end in the middle of a number or of a URL.                  *)
(***************************************************************************)

\* Some objects, with the line that names their feed or without it.
FeedOrNot(objects) == objects \cup {[object EXCEPT !.feed = NoFeed] : object \in objects}

\* The range is the first line of an inetnum, its netname one of the next.
InetnumsCut(object) ==
    {[object EXCEPT !.end = end, !.iana = FALSE, !.feed = NoFeed] : end \in 0 .. object.end}
    \cup FeedOrNot({[object EXCEPT !.iana = iana] : iana \in {FALSE, object.iana}})

\* The feed of a route may be named before its origin.
RoutesCut(object) ==
    FeedOrNot({object} \cup
        IF object.origin = NoOrigin THEN {}
        ELSE {[object EXCEPT !.origin = origin] :
                 origin \in {NoOrigin, NoNumber, object.origin \div 10}})

AutnumsCut(object) ==
    {[object EXCEPT !.asn = @ \div 10, !.feed = NoFeed]} \cup FeedOrNot({object})

\* A line of delegated statistics has its status last: cut, it is passed over.
ReadCut(object) ==
    {<<>>} \cup {<<read>> : read \in CASE object.class = "inetnum"   -> InetnumsCut(object)
                                       [] object.class = "route"     -> RoutesCut(object)
                                       [] object.class = "aut-num"   -> AutnumsCut(object)
                                       [] object.class = "delegated" -> {}}

\* The readings of a registry of whose files one is cut: the objects before
\* the cut, what was read of the last one, and the files after it.  Where a
\* file ends among the objects is left open, so the next one begins at any.
CutReadings(objects) ==
    UNION {UNION {{SubSeq(objects, 1, kept - 1) \o last \o SubSeq(objects, next, Len(objects)) :
                      last \in ReadCut(objects[kept])} :
                  next \in kept + 1 .. Len(objects) + 1} :
              kept \in DOMAIN objects}
=========================================================================
