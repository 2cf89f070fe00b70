-------------------------- MODULE DatasetBuild --------------------------
(***************************************************************************)
(* Building the bbolt dataset from the producer's CSV files                *)
(* (internal/boltstore/build.go, Build): rows become objects with stable   *)
(* IDs and index keys, then the derived values are computed from what was  *)
(* stored, and the file is put in place by a rename.                       *)
(*                                                                         *)
(* `db` is the database under construction, bucket by bucket; `asnRoutes`  *)
(* and `counts` are the builder's maps, kept in memory until they are      *)
(* written; `trie` is the trie being filled.  `phase` is the file or the   *)
(* derived value being worked on and `at` the next row or key of it.       *)
(* `raw`, `compacted` and `output` are the files `.building`, `.compact`   *)
(* and the output path.  A row carries its range or prefix and a route     *)
(* its origin; the other columns are copied without being looked at.  What an *)
(* ASN says of itself is read from the row of its autnum.                  *)
(***************************************************************************)
EXTENDS PrefixTrie, CSVFiles

CONSTANTS
    Inputs,         \* the CSV files and options a build may be given
    SummaryLevels,  \* {0, 8, 16}: the prefix lengths whose records are counted
    MaxCrashes      \* bound on the crashes of the building host

ASSUME BuildAssumption ==
    /\ \A csv \in Inputs : IsInput(csv)
    /\ SummaryLevels \subseteq 0 .. Bits
    /\ 0 \in SummaryLevels
    /\ IsFiniteSet(SummaryLevels)
    /\ MaxCrashes \in Nat

VARIABLES input, phase, at, db, asnRoutes, counts, trie, raw, compacted, output, crashes

memory == <<db, asnRoutes, counts, trie>>
files  == <<raw, compacted, output>>
vars   == <<input, phase, at, memory, files, crashes>>

-----------------------------------------------------------------------------
(* Keys and derived values. *)

IndexEntries(prefixes, id) ==
    {[address |-> prefix.address, length |-> prefix.length, id |-> id] :
        prefix \in prefixes}

RangeKey(range, id) == [start |-> range.start, end |-> range.end, id |-> id]

MaskedPrefix(prefix) ==
    [address |-> Masked(prefix.address, prefix.length), length |-> prefix.length]

PrefixRange(prefix) == [start |-> prefix.address, end |-> PrefixEnd(prefix)]

\* The order of the prefix index, and of the range index.
IndexBefore(left, right) ==
    \/ left.address < right.address
    \/ left.address = right.address /\ left.length < right.length
    \/ left.address = right.address /\ left.length = right.length /\ left.id < right.id

RangeBefore(left, right) ==
    \/ left.start < right.start
    \/ left.start = right.start /\ left.end < right.end
    \/ left.start = right.start /\ left.end = right.end /\ left.id < right.id

DeepestLevel == CHOOSE level \in SummaryLevels : \A other \in SummaryLevels : other <= level

\* The prefixes of summary buckets: the counted levels, or every length that
\* is materialized.
Buckets(levels) == {prefix \in AllPrefixes : prefix.length \in levels}

NoCounts == [prefix \in Buckets(SummaryLevels) |-> [allocations |-> 0, routes |-> 0]]

\* Mutant: only the bucket of the first address.
CollectStart(range, kind) ==
    [prefix \in DOMAIN counts |->
        IF prefix.address = Masked(range.start, prefix.length)
        THEN [counts[prefix] EXCEPT ![kind] = @ + 1]
        ELSE counts[prefix]]

\* collectSummary: a record counts in every bucket from its start's to its
\* end's, at every level.
Collect(range, kind) ==
    [prefix \in DOMAIN counts |->
        IF /\ Masked(range.start, prefix.length) <= prefix.address
           /\ prefix.address <= Masked(range.end, prefix.length)
        THEN [counts[prefix] EXCEPT ![kind] = @ + 1]
        ELSE counts[prefix]]

\* summaryForPrefix: between two levels, the sum over the buckets of the next
\* deeper one.
SummaryForPrefix(prefix) ==
    IF prefix.length \in SummaryLevels THEN counts[prefix]
    ELSE LET childLength == CHOOSE level \in SummaryLevels :
                 /\ level > prefix.length
                 /\ \A other \in SummaryLevels : other > prefix.length => level <= other
             children == {child \in Buckets({childLength}) : Covers(prefix, child.address)}
         IN  [allocations |-> MapThenSumSet(LAMBDA child : counts[child].allocations, children),
              routes      |-> MapThenSumSet(LAMBDA child : counts[child].routes, children)]

\* The groups of the route prefix index: each prefix with its route IDs, in
\* key order.
RouteGroups(index) ==
    LET prefixes == {[address |-> entry.address, length |-> entry.length, id |-> 0] :
                        entry \in index}
        IDs(prefix) == {entry.id : entry \in
                           {entry \in index : entry.address = prefix.address
                                                      /\ entry.length = prefix.length}}
        sorted == Ascending(prefixes, IndexBefore)
    IN  [i \in DOMAIN sorted |->
            [prefix |-> sorted[i], ids |-> Ascending(IDs(sorted[i]), LAMBDA x, y : x < y)]]

\* One record of a selection trie: its candidate at every prefix of its range.
InsertRange(nodes, range, id) ==
    FoldLeft(LAMBDA built, prefix :
                 InsertCandidate(built, prefix, [id |-> id, width |-> Width(range)]),
             nodes, RangePrefixes(range))

-----------------------------------------------------------------------------
(* Files.  A file that was not synced is torn by a crash of the host. *)

NoFile == [is |-> "none"]
Torn   == [is |-> "torn"]
Holding(content, synced) == [is |-> "data", content |-> content, synced |-> synced]

AfterCrash(file) == IF file.is = "data" /\ ~ file.synced THEN Torn ELSE file

EmptyDB ==
    [allocations |-> <<>>, routes |-> <<>>, geofeeds |-> <<>>, autnums |-> <<>>,
     allocationIndex |-> {}, routeIndex |-> {}, geofeedIndex |-> {},
     allocationRange |-> {}, routeRange |-> {},
     asnRoutes |-> <<>>, routeLPM |-> <<>>, allocationLPM |-> <<>>, geofeedLPM |-> <<>>,
     summaries |-> <<>>]

\* The builder's map with one more ID in the list of an ASN.
Listed(lists, asn, id) ==
    [known \in (DOMAIN lists) \cup {asn} |->
        IF known # asn THEN lists[known]
        ELSE IF asn \in DOMAIN lists THEN Append(lists[asn], id) ELSE <<id>>]

\* The ASN objects with one more, unless the ASN has one.
WithAutnum(objects, row) ==
    [asn \in (DOMAIN objects) \cup {row.asn} |->
        IF asn \in DOMAIN objects THEN objects[asn] ELSE row]

-----------------------------------------------------------------------------
NothingBuilt ==
    /\ db' = EmptyDB /\ asnRoutes' = <<>> /\ counts' = NoCounts /\ trie' = <<>>

Init ==
    /\ input \in Inputs
    /\ phase = "start" /\ at = 1
    /\ db = EmptyDB /\ asnRoutes = <<>> /\ counts = NoCounts /\ trie = <<>>
    /\ raw = NoFile /\ compacted = NoFile /\ output = NoFile
    /\ crashes = 0

\* Stale build files are removed before the new one is opened.
Start ==
    /\ phase = "start"
    /\ phase' = "allocations" /\ at' = 1
    /\ NothingBuilt
    /\ raw' = Torn /\ compacted' = NoFile
    /\ UNCHANGED <<input, output, crashes>>

\* The next row of the file the phase is named after.
Row(kind) ==
    /\ phase = kind /\ at <= Len(input[kind])
    /\ at' = at + 1
    /\ UNCHANGED <<input, phase, trie, files, crashes>>

AddAllocation ==
    /\ Row("allocations")
    /\ LET range == input.allocations[at]
           id    == Len(db.allocations) + 1
       IN  IF range.start > range.end THEN UNCHANGED <<db, counts>>
           ELSE /\ db' = [db EXCEPT
                      !.allocations     = Append(@, range),
                      !.allocationRange = @ \cup {RangeKey(range, id)},
                      !.allocationIndex = @ \cup IndexEntries(ToSet(RangePrefixes(range)), id)]
                /\ counts' = Collect(range, "allocations")
    /\ UNCHANGED asnRoutes

AddRoute ==
    /\ Row("routes")
    /\ LET prefix == MaskedPrefix(input.routes[at].prefix)
           asn    == input.routes[at].origin
           id     == Len(db.routes) + 1
       IN  IF asn = NoOrigin THEN UNCHANGED <<db, counts, asnRoutes>>
           ELSE /\ db' = [db EXCEPT
                      !.routes     = Append(@, [prefix |-> prefix, origin |-> asn]),
                      !.routeIndex = @ \cup IndexEntries({prefix}, id),
                      !.routeRange = @ \cup {RangeKey(PrefixRange(prefix), id)}]
                /\ counts' = Collect(PrefixRange(prefix), "routes")
                /\ asnRoutes' = IF asn = NoNumber THEN asnRoutes
                                ELSE Listed(asnRoutes, asn, id)

AddGeofeed ==
    /\ Row("geofeeds")
    /\ LET range == input.geofeeds[at]
           id    == Len(db.geofeeds) + 1
       IN  IF range.start > range.end THEN UNCHANGED db
           ELSE db' = [db EXCEPT
                    !.geofeeds     = Append(@, range),
                    !.geofeedIndex = @ \cup IndexEntries(ToSet(RangePrefixes(range)), id)]
    /\ UNCHANGED <<asnRoutes, counts>>

\* Mutant: the last row of an ASN wins.
AddLastAutnum ==
    /\ Row("autnums")
    /\ LET row == input.autnums[at]
       IN  IF row.asn = NoNumber THEN UNCHANGED db
           ELSE db' = [db EXCEPT !.autnums = [WithAutnum(@, row) EXCEPT ![row.asn] = row]]
    /\ UNCHANGED <<asnRoutes, counts>>

\* The first row of an ASN wins.
AddAutnum ==
    /\ Row("autnums")
    /\ LET row == input.autnums[at]
       IN  IF row.asn = NoNumber THEN UNCHANGED db
           ELSE db' = [db EXCEPT !.autnums = WithAutnum(@, row)]
    /\ UNCHANGED <<asnRoutes, counts>>

EndOfFile ==
    /\ \/ phase = "allocations" /\ phase' = "routes" /\ at > Len(input.allocations)
       \/ phase = "routes" /\ phase' = "geofeeds" /\ at > Len(input.routes)
       \/ phase = "geofeeds" /\ phase' = "autnums" /\ at > Len(input.geofeeds)
       \/ phase = "autnums" /\ phase' = "asnRoutes" /\ at > Len(input.autnums)
    /\ at' = 1
    /\ UNCHANGED <<input, memory, files, crashes>>

WriteASNRoutes ==
    /\ phase = "asnRoutes"
    /\ phase' = "routeLPM" /\ at' = 1
    /\ db' = [db EXCEPT !.asnRoutes = asnRoutes]
    /\ asnRoutes' = <<>>
    /\ trie' = EmptyTrie(NoRoutes)
    /\ UNCHANGED <<input, counts, files, crashes>>

\* One flush of writeRouteLPM.  A prefix met twice fails the build, which then
\* removes both work files.
InsertRouteGroup ==
    /\ phase = "routeLPM" /\ at <= Len(RouteGroups(db.routeIndex))
    /\ LET group == RouteGroups(db.routeIndex)[at]
       IN  IF Occupied(trie, group.prefix)
           THEN /\ phase' = "failed"
                /\ raw' = NoFile /\ compacted' = NoFile
                /\ UNCHANGED <<trie, at>>
           ELSE /\ trie' = InsertRoutes(trie, group.prefix, group.ids)
                /\ at' = at + 1
                /\ UNCHANGED <<phase, raw, compacted>>
    /\ UNCHANGED <<input, db, asnRoutes, counts, output, crashes>>

StoreRouteLPM ==
    /\ phase = "routeLPM" /\ at > Len(RouteGroups(db.routeIndex))
    /\ phase' = "allocationLPM" /\ at' = 1
    /\ db' = [db EXCEPT !.routeLPM = trie]
    /\ trie' = EmptyTrie(NoCandidate)
    /\ UNCHANGED <<input, asnRoutes, counts, files, crashes>>

\* One object of writeSelectionLPM, in ID order.
InsertObject(selector, objects) ==
    /\ phase = selector /\ at <= Len(db[objects])
    /\ trie' = InsertRange(trie, db[objects][at], at)
    /\ at' = at + 1
    /\ UNCHANGED <<input, phase, db, asnRoutes, counts, files, crashes>>

StoreSelectionLPM(selector, objects, next) ==
    /\ phase = selector /\ at > Len(db[objects])
    /\ phase' = next /\ at' = 1
    /\ db' = [db EXCEPT ![selector] = trie]
    /\ trie' = IF next = "geofeedLPM" THEN EmptyTrie(NoCandidate) ELSE <<>>
    /\ UNCHANGED <<input, asnRoutes, counts, files, crashes>>

WriteSummaries ==
    /\ phase = "summaries"
    /\ phase' = "sync"
    /\ db' = [db EXCEPT !.summaries =
                  [prefix \in Buckets(0 .. DeepestLevel) |-> SummaryForPrefix(prefix)]]
    /\ counts' = NoCounts
    /\ UNCHANGED <<input, at, asnRoutes, trie, files, crashes>>

Sync ==
    /\ phase = "sync"
    /\ phase' = IF input.compact THEN "compact" ELSE "rename"
    /\ raw' = Holding(db, TRUE)
    /\ UNCHANGED <<input, at, memory, compacted, output, crashes>>

\* bbolt.Compact copies bucket by bucket, without syncing.
Compact ==
    /\ phase = "compact"
    /\ phase' = "syncCompact"
    /\ compacted' = Holding(raw.content, FALSE)
    /\ UNCHANGED <<input, at, memory, raw, output, crashes>>

\* Mutant: renamed without being synced.
SyncCompactSkipped ==
    /\ phase = "syncCompact"
    /\ phase' = "rename"
    /\ UNCHANGED <<input, at, memory, files, crashes>>

SyncCompact ==
    /\ phase = "syncCompact"
    /\ phase' = "rename"
    /\ compacted' = [compacted EXCEPT !.synced = TRUE]
    /\ UNCHANGED <<input, at, memory, raw, output, crashes>>

Publish ==
    /\ phase = "rename"
    /\ phase' = "published"
    /\ output' = IF input.compact THEN compacted ELSE raw
    /\ raw' = NoFile /\ compacted' = NoFile
    /\ UNCHANGED <<input, at, memory, crashes>>

-----------------------------------------------------------------------------
Working == phase \notin {"start", "failed", "cancelled", "published"}

\* The context is cancelled, or a write fails: the work files are removed.
Cancel ==
    /\ Working
    /\ phase' = "cancelled" /\ at' = 1
    /\ raw' = NoFile /\ compacted' = NoFile
    /\ NothingBuilt
    /\ UNCHANGED <<input, output, crashes>>

\* The host goes down.  A build that had not ended is run again with the same
\* files.
Crash ==
    /\ Working \/ phase = "published"
    /\ crashes < MaxCrashes
    /\ crashes' = crashes + 1
    /\ phase' = IF Working THEN "start" ELSE phase
    /\ at' = 1
    /\ raw' = AfterCrash(raw) /\ compacted' = AfterCrash(compacted)
    /\ output' = AfterCrash(output)
    /\ NothingBuilt
    /\ UNCHANGED input

Build ==
    \/ Start
    \/ AddAllocation \/ AddRoute \/ AddGeofeed \/ AddAutnum \/ EndOfFile
    \/ WriteASNRoutes \/ InsertRouteGroup \/ StoreRouteLPM
    \/ InsertObject("allocationLPM", "allocations")
    \/ StoreSelectionLPM("allocationLPM", "allocations", "geofeedLPM")
    \/ InsertObject("geofeedLPM", "geofeeds")
    \/ StoreSelectionLPM("geofeedLPM", "geofeeds", "summaries")
    \/ WriteSummaries \/ Sync \/ Compact \/ SyncCompact \/ Publish

Next == Build \/ Cancel \/ Crash

Spec == Init /\ [][Next]_vars
=========================================================================
