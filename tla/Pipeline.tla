----------------------------- MODULE Pipeline -----------------------------
(***************************************************************************)
(* One production run of a release (.github/workflows/import-database.yml, *)
(* every six days): a job per registry parses its files, one job fetches   *)
(* the geofeeds they name, two jobs build the dataset in its two formats   *)
(* from the merged rows, and the release is published when all are done.   *)
(*                                                                         *)
(* The two builds share nothing but their input, so the model runs the     *)
(* bbolt one first; DatasetBuild's phase "waiting" precedes it.  A job     *)
(* that fails leaves the release a draft for ever: the next run of the     *)
(* workflow creates its own.                                               *)
(***************************************************************************)
EXTENDS SqliteDataset, SourceParser

CONSTANTS
    Registries, \* the registries in the order of their names
    Sources,    \* what registries and geofeeds publish: objects and lines
    FetchLimit, \* how many feeds are fetched at once, 50
    MaxCuts     \* bound on the sources that are read up to a cut

ASSUME SourcesAssumption ==
    /\ Registries \in Seq(ToSet(Registries)) /\ IsInjective(Registries)
    /\ \A world \in Sources :
          /\ IsFiniteSet(DOMAIN world.lines)
          /\ \A feed \in DOMAIN world.lines : world.lines[feed] \in Seq(WrittenPrefixes)
          /\ \A registry \in ToSet(Registries) :
                world.objects[registry] \in Seq(Objects(DOMAIN world.lines))
    /\ FetchLimit \in Nat \ {0}
    /\ MaxCuts \in Nat

VARIABLES
    world,      \* what is published while this run reads it
    stage,      \* "parse", "fetch", "merge", "build", "published" or "failed"
    artifacts,  \* what each finished parse job uploaded
    cut,        \* the registries whose files were read up to a cut
    listed,     \* the feeds not yet asked for, each once
    fetching,   \* the feeds being read, and how many of their lines have been
    locations,  \* the rows of geolocations.csv
    whole       \* the feeds read to their end

sourceVars   == <<world, artifacts, cut>>
fetchVars    == <<listed, fetching, locations, whole>>
pipelineVars == <<vars, sqliteVars, stage, sourceVars, fetchVars>>

NoInput == [allocations |-> <<>>, routes |-> <<>>, geofeeds |-> <<>>, autnums |-> <<>>,
            compact |-> TRUE]

PipelineInit ==
    /\ world \in Sources
    /\ stage = "parse"
    /\ artifacts = <<>> /\ cut = {}
    /\ listed = <<>> /\ fetching = <<>> /\ locations = <<>> /\ whole = {}
    /\ input = NoInput
    /\ phase = "waiting" /\ at = 1
    /\ db = EmptyDB /\ asnRoutes = <<>> /\ counts = NoCounts /\ trie = <<>>
    /\ raw = NoFile /\ compacted = NoFile /\ output = NoFile
    /\ crashes = 0
    /\ SqliteInit

-----------------------------------------------------------------------------
(* The parse jobs and the geofeeds. *)

\* The job of one registry, on files that were read whole or up to a cut.
ParseRegistry(registry) ==
    /\ stage = "parse" /\ registry \notin DOMAIN artifacts
    /\ \E isCut \in BOOLEAN :
          /\ isCut => Cardinality(cut) < MaxCuts
          /\ cut' = IF isCut THEN cut \cup {registry} ELSE cut
          /\ \E read \in IF isCut THEN CutReadings(world.objects[registry])
                         ELSE {world.objects[registry]} :
                artifacts' = [known \in (DOMAIN artifacts) \cup {registry} |->
                                 IF known = registry THEN Parse(read, registry)
                                 ELSE artifacts[known]]
    /\ UNCHANGED <<world, stage, fetchVars, vars, sqliteVars>>

\* Mutant: a feed is fetched as often as registries name it.
FeedsPerRegistry == FlattenSeq([i \in DOMAIN Registries |-> SetToSeq(artifacts[Registries[i]].feeds)])

\* sort -u over the lists of all registries.
FeedList == SetToSeq(UNION {artifacts[registry].feeds : registry \in DOMAIN artifacts})

ListFeeds ==
    /\ stage = "parse" /\ DOMAIN artifacts = ToSet(Registries)
    /\ stage' = "fetch"
    /\ listed' = FeedList
    /\ UNCHANGED <<sourceVars, fetching, locations, whole, vars, sqliteVars>>

\* The main goroutine starts the next fetch when the semaphore admits it.
StartFetch ==
    /\ stage = "fetch" /\ listed # <<>>
    /\ Cardinality(DOMAIN fetching) < FetchLimit
    /\ fetching' = [feed \in (DOMAIN fetching) \cup {Head(listed)} |->
                        IF feed = Head(listed) THEN 0 ELSE fetching[feed]]
    /\ listed' = Tail(listed)
    /\ UNCHANGED <<sourceVars, stage, locations, whole, vars, sqliteVars>>

\* A line of a feed, written under the mutex.
FetchLine(feed) ==
    /\ stage = "fetch" /\ fetching[feed] < Len(world.lines[feed])
    /\ fetching' = [fetching EXCEPT ![feed] = @ + 1]
    /\ locations' = Append(locations, CidrRange(world.lines[feed][fetching[feed] + 1]))
    /\ UNCHANGED <<sourceVars, stage, listed, whole, vars, sqliteVars>>

\* The feed is at its end, or it cannot be read, or the ten seconds are over:
\* what was written stays.
EndFetch(feed) ==
    /\ stage = "fetch"
    /\ fetching' = Restrict(fetching, DOMAIN fetching \ {feed})
    /\ whole' = IF fetching[feed] = Len(world.lines[feed]) THEN whole \cup {feed} ELSE whole
    /\ UNCHANGED <<sourceVars, stage, listed, locations, vars, sqliteVars>>

\* waitGroup.Wait
Fetched == listed = <<>> /\ DOMAIN fetching = {}

\* The files of all registries one after the other, in the order of their
\* names.
Joined(file) == FlattenSeq([i \in DOMAIN Registries |-> artifacts[Registries[i]][file]])

Merged ==
    [allocations |-> Joined("allocations"), routes |-> Joined("routes"),
     autnums |-> Joined("autnums"), geofeeds |-> locations, compact |-> TRUE]

\* A release without geolocations is not built.
Merge ==
    /\ stage = "fetch" /\ Fetched
    /\ IF locations = <<>>
       THEN stage' = "failed" /\ UNCHANGED <<input, phase>>
       ELSE /\ stage' = "build"
            /\ phase' = "start"
            /\ input' = Merged
    /\ UNCHANGED <<sourceVars, fetchVars, at, memory, files, crashes, sqliteVars>>

-----------------------------------------------------------------------------
(* The two builds, and the release. *)

BuildEnded == phase \in {"published", "failed", "cancelled"}

BboltJob ==
    /\ stage = "build"
    /\ Build \/ Cancel
    /\ UNCHANGED <<stage, sourceVars, fetchVars, sqliteVars>>

SqliteJob ==
    /\ stage = "build" /\ BuildEnded
    /\ SqliteStep
    /\ UNCHANGED <<stage, sourceVars, fetchVars, vars>>

PublishRelease ==
    /\ stage = "build"
    /\ phase = "published" /\ job = Ready
    /\ stage' = "published"
    /\ UNCHANGED <<sourceVars, fetchVars, vars, sqliteVars>>

\* A job fails, one of those that are not modelled (the API binaries, the
\* checksums) or one that is: nothing is published.
LeaveDraft ==
    /\ stage \in {"parse", "fetch", "build"}
    /\ stage' = "failed"
    /\ UNCHANGED <<sourceVars, fetchVars, vars, sqliteVars>>

PipelineNext ==
    \/ \E registry \in ToSet(Registries) : ParseRegistry(registry)
    \/ ListFeeds \/ StartFetch
    \/ \E feed \in DOMAIN fetching : FetchLine(feed) \/ EndFetch(feed)
    \/ Merge \/ BboltJob \/ SqliteJob \/ PublishRelease \/ LeaveDraft

PipelineSpec == PipelineInit /\ [][PipelineNext]_pipelineVars

-----------------------------------------------------------------------------
\* The two databases of a release are the same dataset, although the builders
\* share no code, one refuses what the other skips, one counts as it stores
\* records and the other from the imported rows: the same records under the
\* same IDs, the same prefix index, the same counts at the counted levels, and
\* an ASN is what its first autnum row says.  (Release notes: both are "fully indexed".)
FormatsAgree ==
    stage = "published" =>
        LET bbolt == output.content
        IN  /\ bbolt.allocations = tables.allocations
            /\ bbolt.geofeeds = tables.geofeeds
            /\ Len(bbolt.routes) = Len(tables.routes)
            /\ \A id \in DOMAIN bbolt.routes :
                  /\ PrefixRange(bbolt.routes[id].prefix) = tables.routes[id].range
                  /\ bbolt.routes[id].origin = tables.routes[id].origin
            /\ bbolt.allocationIndex = prefixRows.allocations
            /\ bbolt.routeIndex = prefixRows.routes
            /\ bbolt.geofeedIndex = prefixRows.geofeeds
            /\ \A bucket \in Buckets(SummaryLevels) :
                  IF bucket \in DOMAIN summaryRows
                  THEN bbolt.summaries[bucket] = summaryRows[bucket]
                  ELSE bbolt.summaries[bucket] = [allocations |-> 0, routes |-> 0]
            /\ {row.asn : row \in ToSet(tables.autnums)} \ {NoNumber} = DOMAIN bbolt.autnums
            /\ \A asn \in DOMAIN bbolt.autnums :
                  \E i \in DOMAIN tables.autnums :
                     /\ tables.autnums[i] = bbolt.autnums[asn] /\ tables.autnums[i].asn = asn
                     /\ \A j \in 1 .. i - 1 : tables.autnums[j].asn # asn

\* The places of the objects that the registries publish.
Stated ==
    UNION {{<<registry, i>> : i \in DOMAIN world.objects[registry]} :
              registry \in ToSet(Registries)}

ObjectAt(place) == world.objects[place[1]][place[2]]

\* The addresses an object states.
StatesRange(object, range) ==
    \/ /\ object.class = "inetnum" /\ ~ IsPlaceholder(object)
       /\ object.start = range.start /\ object.end = range.end
    \/ /\ object.class = "delegated" /\ object.status # "reserved"
       /\ object.count > 0
       /\ object.start = range.start /\ object.count = Width(range) + 1

StatesRoute(object, route) ==
    /\ object.class = "route" /\ object.origin = route.origin
    /\ object.prefix.length = route.prefix.length
    /\ object.prefix.address - (object.prefix.address % Size(object.prefix.length))
          = route.prefix.address

\* The places of the lines of these feeds that are about exactly a range.
StatingLines(feeds, range) ==
    UNION {{<<feed, i>> : i \in {i \in DOMAIN world.lines[feed] :
                                     CidrRange(world.lines[feed][i]) = range}} : feed \in feeds}

Times(sequence, value) == Cardinality({i \in DOMAIN sequence : sequence[i] = value})

\* What a release serves is what the sources state.  If no source was cut,
\* each accepted object is one record over exactly the addresses it states,
\* also when it is written with host bits or as a count, and there is no other
\* record; each line of a feed that was read to its end is one geofeed, and no
\* line of any feed is two.
PublishedIsStated ==
    stage = "published" /\ cut = {} =>
        LET data == output.content
            Accepted == {place \in Stated :
                            \E range \in Ranges : StatesRange(ObjectAt(place), range)}
            Announced == {place \in Stated : /\ ObjectAt(place).class = "route"
                                             /\ ObjectAt(place).origin # NoOrigin}
        IN  /\ Cardinality(Accepted) = Len(data.allocations)
            /\ \A range \in Ranges :
                  Times(data.allocations, range)
                      = Cardinality({place \in Stated : StatesRange(ObjectAt(place), range)})
            /\ Cardinality(Announced) = Len(data.routes)
            /\ \A route \in ToSet(data.routes) :
                  Times(data.routes, route)
                      = Cardinality({place \in Stated : StatesRoute(ObjectAt(place), route)})
            /\ \A range \in Ranges :
                  /\ Cardinality(StatingLines(whole, range)) <= Times(data.geofeeds, range)
                  /\ Times(data.geofeeds, range)
                         <= Cardinality(StatingLines(DOMAIN world.lines, range))
=========================================================================
