----------------------------- MODULE Lookups -----------------------------
(***************************************************************************)
(* Point lookups in a finished dataset (internal/api/bbolt.go): the        *)
(* compact response from the tries, the full one from the prefix indexes,  *)
(* the allocation that covers a prefix and the generated summaries; and    *)
(* what they must answer whatever the producer's files contain.            *)
(***************************************************************************)
EXTENDS DatasetBuild

CONSTANT MaxCandidates      \* maxCandidates, 64

ASSUME CandidatesAssumption == MaxCandidates \in Nat \ {0}

Upto(ids, limit) == IF Len(ids) > limit THEN SubSeq(ids, 1, limit) ELSE ids

\* matchingIPIDs without its limit: the entries whose prefix covers the
\* address, longest first, in ID order within a prefix.
Matching(index, address) == {entry \in index : entry.address = Masked(address, entry.length)}

MatchingIDs(index, address) ==
    LET sorted == Ascending(Matching(index, address), LAMBDA left, right :
                      \/ left.length > right.length
                      \/ left.length = right.length /\ left.id < right.id)
    IN  [i \in DOMAIN sorted |-> sorted[i].id]

\* narrowestAllocation and narrowestGeofeed: the first of the smallest width,
\* 0 for none.
Narrowest(objects, ids) ==
    FoldLeft(LAMBDA best, id :
                 IF best = 0 \/ Width(objects[id]) < Width(objects[best]) THEN id ELSE best,
             0, ids)

\* narrowestRoutes: all that share the greatest prefix length, in order.
NarrowestRoutes(routes, ids) ==
    LET Longest(i) == \A j \in DOMAIN ids :
                          routes[ids[j]].prefix.length <= routes[ids[i]].prefix.length
    IN  Kept(ids, {i \in DOMAIN ids : Longest(i)})[Len(ids)]

\* bboltASNs: the distinct origins in ascending order.
OriginsOf(routes, ids) ==
    Ascending({routes[id].origin : id \in ToSet(ids)}, LAMBDA x, y : x < y)

NotFound == [found |-> FALSE]

\* buildSelectedBboltResponse
Response(data, allocation, routes, geofeed) ==
    IF allocation = 0 /\ routes = <<>> /\ geofeed = 0 THEN NotFound
    ELSE [found |-> TRUE, allocation |-> allocation, routes |-> routes,
          origins |-> OriginsOf(data.routes, routes), geofeed |-> geofeed]

LookupCompact(data, address) ==
    Response(data, LookupSelectionLPM(data.allocationLPM, address),
             Upto(LookupRouteLPM(data.routeLPM, address), MaxCandidates),
             LookupSelectionLPM(data.geofeedLPM, address))

LookupFull(data, address) ==
    LET Candidates(index) == Upto(MatchingIDs(index, address), MaxCandidates)
    IN  Response(data, Narrowest(data.allocations, Candidates(data.allocationIndex)),
                 NarrowestRoutes(data.routes, Candidates(data.routeIndex)),
                 Narrowest(data.geofeeds, Candidates(data.geofeedIndex)))

\* Mutant: the least end is not looked at.
TighterStart(records, id, best) ==
    \/ records[id].start > records[best].start
    \/ records[id].start = records[best].start /\ id < best

\* The greatest start, then the least end, then the lowest ID.
Tighter(records, id, best) ==
    LET new == records[id]
        old == records[best]
    IN  \/ new.start > old.start
        \/ new.start = old.start /\ new.end < old.end
        \/ new = old /\ id < best

\* coveringAllocation: the tightest of the records that contain the prefix.
CoveringAllocation(data, query) ==
    LET records == data.allocations
    IN  FoldLeft(LAMBDA best, id :
                     IF /\ records[id].start <= query.start
                        /\ records[id].end >= query.end
                        /\ best = 0 \/ Tighter(records, id, best)
                     THEN id ELSE best,
                 0, MatchingIDs(data.allocationIndex, query.start))

\* SummaryPrefixKeys and LookupRangeSummary.
Summarised(query) == IsCIDR(query) /\ PrefixForRange(query).length <= DeepestLevel

LookupRangeSummary(data, query) == data.summaries[PrefixForRange(query)]

-----------------------------------------------------------------------------
(* What must hold of the trie under construction and of what is published. *)

Served == phase = "published" /\ output.is = "data"

BuildTypeOK ==
    /\ IsInput(input)
    /\ phase \in {"start", "allocations", "routes", "geofeeds", "autnums", "asnRoutes",
                  "routeLPM", "allocationLPM", "geofeedLPM", "summaries", "sync", "compact",
                  "syncCompact", "rename", "published", "failed", "cancelled"}
    /\ at \in Nat \ {0}
    /\ db.allocations \in Seq(Ranges) /\ db.geofeeds \in Seq(Ranges)
    /\ \A entry \in db.allocationIndex \cup db.routeIndex \cup db.geofeedIndex :
          [address |-> entry.address, length |-> entry.length] \in AllPrefixes
    /\ DOMAIN counts = Buckets(SummaryLevels)
    /\ \A file \in {raw, compacted, output} : file.is \in {"none", "torn", "data"}
    /\ crashes \in 0 .. MaxCrashes

\* The tries stay Patricia tries through any sequence of insertions: the root
\* covers everything, every other node hangs below exactly one node, in the
\* slot its next bit selects and with a longer prefix, and a node that holds
\* nothing has two children.  (insert splits and links nodes in place.)
TrieWellFormed ==
    \A ref \in DOMAIN trie :
        LET node == trie[ref]
            Holds == node.value # (IF phase = "routeLPM" THEN NoRoutes ELSE NoCandidate)
            Parents == {link \in (DOMAIN trie) \X {1, 2} :
                            trie[link[1]].child[link[2]] = ref}
        IN  /\ ref = 1 => node.length = 0 /\ Parents = {}
            /\ ref # 1 =>
                  /\ Cardinality(Parents) = 1
                  /\ \A link \in Parents :
                        LET above == trie[link[1]] IN
                        /\ above.length < node.length
                        /\ Covers(above, node.address)
                        /\ Branch(node, above.length) = link[2]
                  /\ ~ Holds => 0 \notin {node.child[1], node.child[2]}

\* What a file of rows becomes: the rows that are kept, up to each row.
KeptRanges(rows) == Kept(rows, {i \in DOMAIN rows : rows[i].start <= rows[i].end})

RouteObjects(rows) ==
    [i \in DOMAIN rows |->
        [prefix |-> MaskedPrefix(rows[i].prefix), origin |-> rows[i].origin]]

KeptRoutes(rows) ==
    Kept(RouteObjects(rows), {i \in DOMAIN rows : rows[i].origin # NoOrigin})

\* The indexes of stored records.
RangeEntries(ranges) ==
    UNION {IndexEntries(ToSet(RangePrefixes(ranges[id])), id) : id \in DOMAIN ranges}

RangeKeys(ranges) == {RangeKey(ranges[id], id) : id \in DOMAIN ranges}

RouteEntries(routes) == UNION {IndexEntries({routes[id].prefix}, id) : id \in DOMAIN routes}

RouteKeys(routes) == {RangeKey(PrefixRange(routes[id].prefix), id) : id \in DOMAIN routes}

ASNLists(lists, routes) ==
    /\ DOMAIN lists = {routes[id].origin : id \in DOMAIN routes} \ {NoNumber}
    /\ \A asn \in DOMAIN lists :
          /\ lists[asn] \in Seq(Nat)
          /\ ToSet(lists[asn]) = {id \in DOMAIN routes : routes[id].origin = asn}
          /\ \A i, j \in DOMAIN lists[asn] : i < j => lists[asn][i] < lists[asn][j]

\* Of the rows of an ASN the first.
FirstRows(objects, rows) ==
    /\ DOMAIN objects = {rows[i].asn : i \in DOMAIN rows} \ {NoNumber}
    /\ \A i \in DOMAIN rows :
          rows[i].asn # NoNumber /\ (\A j \in 1 .. i - 1 : rows[j].asn # rows[i].asn)
              => objects[rows[i].asn] = rows[i]

\* The tries of all routes, and of all records of a kind, entered one by one.
RouteTrie(groups) ==
    LET upto[n \in 0 .. Len(groups)] ==
            IF n = 0 THEN EmptyTrie(NoRoutes)
            ELSE InsertRoutes(upto[n - 1], groups[n].prefix, groups[n].ids)
    IN  upto

SelectionTrie(ranges) ==
    LET upto[n \in 0 .. Len(ranges)] ==
            IF n = 0 THEN EmptyTrie(NoCandidate)
            ELSE InsertRange(upto[n - 1], ranges[n], n)
    IN  upto

\* A dataset of these files: every accepted row, every index of those rows and
\* nothing else, every value derived from all of them.
IsDatasetOf(data, csv) ==
    /\ data.allocations = KeptRanges(csv.allocations)[Len(csv.allocations)]
    /\ data.routes      = KeptRoutes(csv.routes)[Len(csv.routes)]
    /\ data.geofeeds    = KeptRanges(csv.geofeeds)[Len(csv.geofeeds)]
    /\ data.allocationIndex = RangeEntries(data.allocations)
    /\ data.geofeedIndex    = RangeEntries(data.geofeeds)
    /\ data.routeIndex      = RouteEntries(data.routes)
    /\ data.allocationRange = RangeKeys(data.allocations)
    /\ data.routeRange      = RouteKeys(data.routes)
    /\ FirstRows(data.autnums, csv.autnums)
    /\ ASNLists(data.asnRoutes, data.routes)
    /\ LET groups == RouteGroups(data.routeIndex)
       IN  data.routeLPM = RouteTrie(groups)[Len(groups)]
    /\ data.allocationLPM = SelectionTrie(data.allocations)[Len(data.allocations)]
    /\ data.geofeedLPM    = SelectionTrie(data.geofeeds)[Len(data.geofeeds)]
    /\ DOMAIN data.summaries = Buckets(0 .. DeepestLevel)

\* Whenever the host goes down or the build is cancelled, and however often it
\* starts again, the output path holds nothing or a whole dataset of these
\* files.  (The work file is written without syncing; Sync precedes the
\* rename.)
OutputIsWhole ==
    /\ output.is # "torn"
    /\ output.is = "data" => IsDatasetOf(output.content, input)

\* The compact allocation and geofeed are records that contain the address,
\* and none that contains it is narrower; there is none only if no record
\* contains the address.  (Ranges are cut into prefixes, and only one
\* candidate per prefix is kept, before any address is known.)
CompactIsNarrowest ==
    Served =>
        \A address \in Addresses :
            LET Right(objects, chosen) ==
                    LET matching == {id \in DOMAIN objects : InRange(objects[id], address)}
                    IN  IF matching = {} THEN chosen = 0
                        ELSE /\ chosen \in matching
                             /\ \A id \in matching :
                                   Width(objects[chosen]) <= Width(objects[id])
            IN  /\ Right(output.content.allocations,
                         LookupSelectionLPM(output.content.allocationLPM, address))
                /\ Right(output.content.geofeeds,
                         LookupSelectionLPM(output.content.geofeedLPM, address))

\* The route trie resolves an address to the longest registered prefix that
\* covers it, with every route registered there, so a multi-origin prefix
\* keeps all its origins.
RoutesAreLongestMatch ==
    Served =>
        \A address \in Addresses :
            LET routes   == output.content.routes
                matching == {id \in DOMAIN routes :
                                InRange(PrefixRange(routes[id].prefix), address)}
                longest  == {id \in matching : \A other \in matching :
                                routes[other].prefix.length <= routes[id].prefix.length}
            IN  LookupRouteLPM(output.content.routeLPM, address)
                    = Ascending(longest, LAMBDA x, y : x < y)

\* The compact response is made of the records that details=full selects
\* (bbolt.go:284), ties included, wherever the full lookup does not cut its
\* candidates off: with more than MaxCandidates allocations or geofeeds at one
\* address the wider ones may come first and hide the narrowest.
CompactIsFull ==
    Served =>
        \A address \in Addresses :
            (\A index \in {output.content.allocationIndex, output.content.geofeedIndex} :
                Len(MatchingIDs(index, address)) <= MaxCandidates)
            => LookupCompact(output.content, address) = LookupFull(output.content, address)

\* The allocation named in a prefix response contains the prefix, and no other
\* record that contains it lies strictly inside the one named.
CoveringIsTight ==
    Served =>
        \A prefix \in AllPrefixes :
            LET records == output.content.allocations
                query   == PrefixRange(prefix)
                Inside(inner, outer) == outer.start <= inner.start /\ inner.end <= outer.end
                covering == {id \in DOMAIN records : Inside(query, records[id])}
                chosen  == CoveringAllocation(output.content, query)
            IN  IF covering = {} THEN chosen = 0
                ELSE /\ chosen \in covering
                     /\ \A id \in covering :
                           Inside(records[id], records[chosen]) => records[id] = records[chosen]

\* A summary counts each record once per bucket it overlaps, the buckets being
\* those of the next counted level: once if the prefix is itself a bucket.
SummaryCounts ==
    Served =>
        \A query \in {PrefixRange(prefix) : prefix \in Buckets(0 .. DeepestLevel)} :
            LET length  == PrefixForRange(query).length
                level   == CHOOSE l \in SummaryLevels :
                               l >= length /\ \A k \in SummaryLevels : k >= length => l <= k
                buckets == {bucket \in Buckets({level}) : InRange(query, bucket.address)}
                Pairs(ranges) ==
                    {pair \in buckets \X (DOMAIN ranges) :
                        /\ ranges[pair[2]].start <= PrefixEnd(pair[1])
                        /\ ranges[pair[2]].end >= pair[1].address}
                routes  == output.content.routes
                summary == LookupRangeSummary(output.content, query)
            IN  Summarised(query)
                /\ summary.allocations = Cardinality(Pairs(output.content.allocations))
                /\ summary.routes = Cardinality(Pairs(
                      [id \in DOMAIN routes |-> PrefixRange(routes[id].prefix)]))
=========================================================================
