------------------------------ MODULE Pages ------------------------------
(***************************************************************************)
(* Paginated queries over a published dataset (internal/api/bbolt.go): the *)
(* records that overlap a range, the routes that overlap a prefix, and the *)
(* routes of an ASN by cursor or by page number.  A client asks one query  *)
(* and follows the cursors it is given, as docs/data-contract.md tells it. *)
(*                                                                         *)
(* A range cursor repeats the query it belongs to and is refused for       *)
(* another one; it is given here by what it adds, its phase and key.  The  *)
(* cursor of a prefix or an ASN is the last ID sent.                       *)
(***************************************************************************)
EXTENDS Lookups

CONSTANTS
    Queries(_),             \* what clients ask of the dataset of an input
    MaxOverlapIndexEntries, \* maxOverlapIndexEntries, 2 000 000
    MaxItems                \* bound on what a client keeps: no result is longer

RangeKinds == {"allocations", "routes"}
Kinds      == RangeKinds \cup {"prefix", "asn", "asnPage"}

ASSUME PagesAssumption ==
    /\ \A csv \in Inputs : \A asked \in Queries(csv) :
          /\ asked.kind \in Kinds /\ asked.limit \in Nat \ {0}
          /\ asked.kind \in RangeKinds \cup {"prefix"} =>
                asked.range \in Ranges /\ asked.range.start <= asked.range.end
          /\ asked.kind = "prefix" => IsCIDR(asked.range)
          /\ asked.kind \in {"asn", "asnPage"} => asked.asn \in Nat \ {NoNumber}
    /\ MaxOverlapIndexEntries \in Nat
    /\ MaxItems \in Nat

VARIABLES
    query,      \* the query being paged through
    cursor,     \* where its next page begins
    items,      \* everything received so far: range keys or route IDs
    status      \* "none", "asked", "paging", "refused" or "done"

clientVars == <<query, cursor, items, status>>
pagesVars  == <<vars, clientVars>>

Data == output.content

From(part, key) == [phase |-> part, key |-> key]
FirstPage == [phase |-> "first"]
NoCursor  == [phase |-> "end"]

-----------------------------------------------------------------------------
\* The two orders of delivery: range keys as the index has them, and IDs.
KeysInOrder(keys) == Ascending(keys, RangeBefore)
IDsInOrder(ids) == Ascending(ids, LAMBDA x, y : x < y)

-----------------------------------------------------------------------------
(* Range pages. *)

RangeOf(kind, id) ==
    IF kind = "allocations" THEN Data.allocations[id] ELSE PrefixRange(Data.routes[id].prefix)

PointIndex(kind) == IF kind = "allocations" THEN Data.allocationIndex ELSE Data.routeIndex
RangeIndex(kind) == IF kind = "allocations" THEN Data.allocationRange ELSE Data.routeRange

\* Mutant: a record that begins with the queried range is a covering one too.
CoversFirst(range, start) == InRange(range, start)

\* coveringRangeEntry: the record began before the range and reaches into it.
CoversStart(range, start) == range.start < start /\ start <= range.end

CoveringEntries(kind, start) ==
    LET ids == {entry.id : entry \in Matching(PointIndex(kind), start)}
    IN  {RangeKey(RangeOf(kind, id), id) : id \in {id \in ids : CoversStart(RangeOf(kind, id), start)}}

\* The covering records the cursor has not passed yet, in order.
CoveringLeft(kind, start, after) ==
    IF after.phase = "direct" THEN <<>>
    ELSE KeysInOrder({key \in CoveringEntries(kind, start) :
                         after.phase = "covering" => RangeBefore(after.key, key)})

\* Mutant: the key the cursor stands on is not skipped.
DirectEntriesAgain(kind, range, after, maximum) ==
    LET Reached(key) == IF after.phase = "direct" THEN ~ RangeBefore(key, after.key)
                        ELSE range.start <= key.start
    IN  Upto(KeysInOrder({key \in RangeIndex(kind) : Reached(key) /\ key.start <= range.end}),
             maximum)

\* directRangeEntries: the records that begin in the range, after the
\* cursor's key if it has reached them.
DirectEntries(kind, range, after, maximum) ==
    LET Reached(key) == IF after.phase = "direct" THEN RangeBefore(after.key, key)
                        ELSE range.start <= key.start
    IN  Upto(KeysInOrder({key \in RangeIndex(kind) : Reached(key) /\ key.start <= range.end}),
             maximum)

\* RangeIndexStartKey: before every record that begins at `start`.
StartKey(start) == RangeKey([start |-> start, end |-> 0], 0)

\* rangePageEntries: first the covering records, then the direct ones, with
\* one more than fits to know whether there is a next page.
RangePage(kind, range, limit, after) ==
    LET covering == CoveringLeft(kind, range.start, after)
        maximum  == limit - Len(covering) + 1
        direct   == DirectEntries(kind, range, after, maximum)
        entries  == Upto(covering \o direct, limit)
    IN  [entries |-> entries,
         next    |-> IF Len(covering) > limit THEN From("covering", Last(entries))
                     ELSE IF Len(direct) < maximum THEN NoCursor
                     ELSE IF Len(covering) = limit THEN From("direct", StartKey(range.start))
                     ELSE From("direct", Last(entries))]

-----------------------------------------------------------------------------
(* Pages of route IDs. *)

\* routePage: `ids` are the IDs after the cursor.
IDPage(ids, limit) ==
    [entries |-> Upto(ids, limit),
     next    |-> IF Len(ids) <= limit THEN NoCursor ELSE From("id", ids[limit])]

LastID(after) == IF after.phase = "first" THEN 0 ELSE after.key

\* overlapIDs: the entries whose prefix covers the start, and those whose
\* prefix begins in the range.
EntriesCovering(start) == Matching(Data.routeIndex, start)
EntriesWithin(range) == {entry \in Data.routeIndex : InRange(range, entry.address)}

TooBroad(range) ==
    Cardinality(EntriesCovering(range.start)) + Cardinality(EntriesWithin(range))
        > MaxOverlapIndexEntries

OverlapIDs(range, after) ==
    LET ids == {entry.id : entry \in EntriesCovering(range.start) \cup EntriesWithin(range)}
    IN  IDsInOrder({id \in ids : id > after})

ASNRoutes(asn) == IF asn \in DOMAIN Data.asnRoutes THEN Data.asnRoutes[asn] ELSE <<>>

\* The IDs from the first one greater than the cursor on (sort.Search).
ASNRoutesAfter(asn, after) ==
    LET ids   == ASNRoutes(asn)
        first == CHOOSE i \in 1 .. Len(ids) + 1 :
                     /\ i <= Len(ids) => ids[i] > after
                     /\ \A j \in 1 .. i - 1 : ids[j] <= after
    IN  SubSeq(ids, first, Len(ids))

\* Mutant: the next page is the current one counted from 0.
NumberedFromZero(ids, limit, number) ==
    LET totalPages == (Len(ids) + limit - 1) \div limit
    IN  [entries |-> Upto(SubSeq(ids, (number - 1) * limit + 1, Len(ids)), limit),
         next    |-> IF number < totalPages THEN From("page", number) ELSE NoCursor]

\* A numbered page; the next one exists up to total_pages.
NumberedPage(ids, limit, number) ==
    LET totalPages == (Len(ids) + limit - 1) \div limit
    IN  [entries |-> Upto(SubSeq(ids, (number - 1) * limit + 1, Len(ids)), limit),
         next    |-> IF number < totalPages THEN From("page", number + 1) ELSE NoCursor]

-----------------------------------------------------------------------------
Page ==
    CASE query.kind \in RangeKinds ->
            RangePage(query.kind, query.range, query.limit, cursor)
      [] query.kind = "prefix" ->
            IDPage(OverlapIDs(query.range, LastID(cursor)), query.limit)
      [] query.kind = "asn" ->
            IDPage(ASNRoutesAfter(query.asn, LastID(cursor)), query.limit)
      [] query.kind = "asnPage" ->
            NumberedPage(ASNRoutes(query.asn), query.limit,
                         IF cursor.phase = "first" THEN 1 ELSE cursor.key)

PagesInit ==
    /\ Init
    /\ query = [kind |-> "none"] /\ cursor = FirstPage /\ items = <<>> /\ status = "none"

BuildStep == Build /\ UNCHANGED clientVars

Ask ==
    /\ Served /\ status = "none"
    /\ query' \in Queries(input)
    /\ status' = "asked"
    /\ UNCHANGED <<vars, cursor, items>>

\* QUERY_TOO_BROAD
Refuse ==
    /\ status \in {"asked", "paging"} /\ query.kind = "prefix" /\ TooBroad(query.range)
    /\ status' = "refused"
    /\ UNCHANGED <<vars, query, cursor, items>>

NextPage ==
    /\ status \in {"asked", "paging"} /\ Len(items) <= MaxItems
    /\ query.kind = "prefix" => ~ TooBroad(query.range)
    /\ \E page \in {Page} :
          /\ items' = items \o page.entries
          /\ cursor' = page.next
          /\ status' = IF page.next = NoCursor THEN "done" ELSE "paging"
    /\ UNCHANGED <<vars, query>>

PagesNext == BuildStep \/ Ask \/ Refuse \/ NextPage

\* A client goes on to the end.
PagesSpec == PagesInit /\ [][PagesNext]_pagesVars /\ WF_pagesVars(Refuse \/ NextPage)

-----------------------------------------------------------------------------
\* The records of a kind that overlap a range.
Overlapping(kind, range) ==
    LET records == IF kind = "allocations" THEN Data.allocations ELSE Data.routes
    IN  {id \in DOMAIN records : /\ RangeOf(kind, id).start <= range.end
                                /\ RangeOf(kind, id).end >= range.start}

OverlapKeys(kind, range) ==
    {RangeKey(RangeOf(kind, id), id) : id \in Overlapping(kind, range)}

RoutesFrom(asn) == {id \in DOMAIN Data.routes : Data.routes[id].origin = asn}

\* What the query selects, in the order in which it must be delivered.
Result ==
    CASE query.kind \in RangeKinds ->
            KeysInOrder(OverlapKeys(query.kind, query.range))
      [] query.kind = "prefix" -> IDsInOrder(Overlapping("routes", query.range))
      [] OTHER -> IDsInOrder(RoutesFrom(query.asn))

PagesTypeOK ==
    /\ query = [kind |-> "none"] \/ query \in Queries(input)
    /\ status \in {"none", "asked", "paging", "refused", "done"}
    /\ status \in {"none", "asked"} => items = <<>> /\ cursor = FirstPage
    /\ status = "done" <=> cursor = NoCursor
    /\ status = "paging" =>
          \/ cursor.phase \in {"covering", "direct"} /\ query.kind \in RangeKinds
          \/ cursor.phase = "id" /\ query.kind \in {"prefix", "asn"} /\ cursor.key = Last(items)
          \/ cursor.phase = "page" /\ query.kind = "asnPage" /\ cursor.key \in 2 .. Len(Data.routes)

\* Pages put together are the result of the query, each record once and in
\* order, whatever the limit and wherever the pages end: among the records
\* that began before the range, between those and the others, at the last
\* record.  A cursor is handed out exactly while something is left, and a
\* query is refused as too broad at once or never.
PagesAreTheResult ==
    /\ status = "paging" => IsStrictPrefix(items, Result)
    /\ status = "done" => items = Result
    /\ status = "refused" => items = <<>>

\* Following cursors ends: no page sends the client round in circles.
PagingEnds == status = "asked" ~> status \in {"done", "refused"}
=========================================================================
