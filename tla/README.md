# Verification of bgp-api

TLA+ modules, TLC configurations and TLAPS proofs for the bgp-api service: a Go
HTTP API that answers IP, prefix, range and ASN queries from an immutable bbolt
dataset, and the shell programs that install it and update it daily without
downtime. Paths below are relative to the repository (`src/`).

## The system

| Part | State | Operations | Interacts with |
|---|---|---|---|
| Response caches (`internal/api/compact_cache.go`) | 32 LRU shards with byte budgets, a table of flights, an atomic switch | Get, Acquire and its release function, Add, Enable, DisableAndClear | called by every cacheable handler; switched by the signal loop |
| HTTP handlers (`internal/api/api.go`, `resources.go`) | two caches, the overlap slots | one request each, on its own goroutine | caches, repository |
| Repository (`internal/api/bbolt.go`) | read-only database, in-memory selectors behind an RWMutex | lookups, pages, summaries, preload and drop of selectors | handlers, warmer, signal loop |
| Dataset store and tries (`internal/boltstore`) | the database file | build, longest-prefix match, scans | repository, pipeline |
| API process (`cmd/bgp-api/main.go`) | cache plan, warmer, signal queue | start, warm up, SIGUSR1, SIGUSR2, shut down | systemd, updater |
| Updater (`scripts/sync-bbolt.sh`) | two slots (dataset, unit, process), one binary, `caddy.env`, marker, release files | check, download, stage, switch, drain, undo, replace, record | systemd, Caddy, GitHub, API processes |
| Installer (`install.sh`) | the same host, without the updater's lock | install over an installation, uninstall | updater, Caddy |
| Dataset pipeline (`cmd/parse-rir`, `fetch-geofeeds`, `build-*`, `validate-database`, `import-database.yml`) | CSV files, the two databases, a draft release | parse, fetch, merge, build twice, publish | registries, geofeed hosts; publishes releases |

What is hard: requests, failing producers and signals interleave on the cache's
locks; the updater can be killed between any two of about thirty commands that
change the host, and the host rebooted; systemd restarts services on its own;
Caddy's persisted and running configuration can differ; the installer and the
updater act on the same files. In the dataset the hard part is arithmetic: ranges are cut
into prefixes and selected prefix by prefix before any address is asked for, tries
are split in place, and pages end anywhere. `PROJECT.json` lists each hazard at its line with
the properties that would notice it going wrong, or why none does yet.

What makes each part correct:

* caches: one producer per key, nobody waits for a flight that will not close, a
  switched-off cache stays empty, the budget holds, requests end;
* updater: service never stops in blue-green mode, the recorded state is true of
  the host, undo restores a consistent host, a reboot always finds a bootable
  slot, the host converges to the newest release;
* installer: what it reports as installed serves;
* dataset: a published file is whole, its tries implement longest-prefix match and
  narrowest-range selection for every address, its summaries count what they should;
* pipeline: both formats of a release are the same dataset, and that dataset is what the sources state;
* repository: the compact and the full lookup agree, and pages put together
  are the whole result, each record once and in order;
* requests: scans never outnumber the overlap slots, every request is answered when clients read, a
  process that is told to stop does;
* process: a blocking warmup is over before the listener opens, released caches stay
  released until SIGUSR1, and come back when an update does not activate.

## Modules

### ResponseCache

`compact_cache.go` at the grain of its locks and atomics. A request (`Threads`)
carries one key; its label `pc` is where it is in `Get`, `Acquire`, its producer,
`Add` or the release function. Shards are `lru` (keys, most recent first), `used`
bytes and `holder`, the request inside the shard's lock while it inserts and evicts;
`flights` maps a key to its leader, `flightsM` is that table's lock, and
`awaits` is the channel a follower blocks on. `enabled` is the atomic switch and
`clearNext` the next shard of a running `DisableAndClear`; the signal loop is a
single goroutine, so there is one. `Enter`, `LockFlights`, `Recheck` read
the switch as often as the code does; `Add` looks at it without the shard lock and
`InsertRefused`/`InsertNew`/`InsertReplace` again with it. A critical section
that no other section can observe halfway is one step; the eviction loop takes a
step per evicted entry. Values are abstracted to their key, sizes are a
function of the key (`EntrySize`), a value over `maxEntry` is a member of
`Oversized`. A producer succeeds (`Succeed`, then `Add`, then release) or fails
(`Fail`, release only), as the handlers do.

### SingleFlight

The abstract specification of the cache: requests ask, hit, lead, bypass, store and end,
without shards, locks, flights or channels. `ResponseCache!ImplementsSingleFlight` is the
refinement: `phase` is `pc` seen from outside (`PhaseOf`), `stored` the keys that are in some
list, `leaders` the producers whose release closes a flight, `untouched` that no
`DisableAndClear` was called. What it adds to the invariants are the steps: nobody leads for
a key that is stored (unless the switch was used), only a disabled cache is bypassed,
only a producer stores and only while the cache is on, and an entry that is being
stored is not evicted for itself.

### Requests

`ResponseCache` composed with what a producer does between miss and `Add`, and
with the end of the process. `ResponseCache` leaves the producer one step; here it
takes an overlap slot if its key is a prefix or range lookup (`TakeSlot`; `GiveUp` is the other case of
the `select`), begins a read transaction, ends it (`EndViewFailed`, `EndViewFound`: the end of the
transaction and the deferred return of the slot are one step, since nobody waits for
both), and writes its answer (`Write`) after `Add` and before the deferred release of its
flight. `at` is that place, `slots` the tokens in the channel, `gone` the context of the
request, which `HangUp` ends at any time; `Acquire` does not look at it. `life` goes from serving to
draining (`server.Shutdown`, the listener closed), closing (`store.Close`, which lets no transaction begin and waits for
the open ones) and exited. `InCache` is any other step of `ResponseCache`. Compact
lookups read without checking the context; a scan checks it to the end. Error bodies and hits are not
written in a step of their own: an error fits the connection's buffer, and a hit holds nothing.

### BlueGreenUpdate

`sync-bbolt.sh` with systemd, Caddy and the host around it. One action per
command that changes the host; `pc` names the next command and `run` holds the
script's shell variables. The flock admits one run, so there is one `pc`. A
release is a number in publication order; its dataset and binary carry it.
`db` is what is stored at a slot's path, `proc` the process of a slot and the
dataset it has mapped, `enabled` what systemd starts at boot, `caddyEnv` the
persisted first upstream and `caddyConf` the running one, `marker`, `tag`,
`published` the three state files. `Boot` is `main` opening the dataset and
listening, or exiting (`failing`) to be started again by `Restart=` (`Retry`).
`scenario`, chosen in `Init` and never changed, is the deployment and what may go
wrong on it: whether Caddy is managed, which binaries can open which datasets
(`schema`), the settings runs use, and the kinds and number of faults. A property that
is promised only under conditions names them (`OnlyBlueGreen`, `OneSchema`,
`Without`), and one run covers the scenarios of them all.

Faults are actions of their own or alternatives of a command, each gated by
`scenario.kinds` and counted: the script killed (or ended by errexit), the host
rebooted, a process dying, Caddy stopped, `systemctl start` refused, a startup
timeout, a service that does not stop, a refused Caddy reload, a marker
that cannot be written, no room for a second dataset. The `mv` of a dataset may copy, so a kill or a
reboot can leave a file that is there and cannot be opened (`CutShort`, `Partial`). Downloading,
verification and validation only touch the work directory and are part of
`Plan`; a failure there is a kill at `plan`.

### Rollout

The abstract specification of an update: releases are brought up beside the one that answers,
traffic moves from one that runs to another that runs, back only after a failure, and what answers is
not taken down. `BlueGreenUpdate!ImplementsRollout` is the refinement: `running` are the releases
of serving slots, `answering` is that of the first upstream in Caddy's order that serves,
`failed` is the undo of the current run. `promise` says how much a deployment may expect: `seamless` in
blue-green mode when runs are not killed, `available` when they are (`CleanUp`: another
release, possibly an older one, but always one), `none` when hosts reboot, processes die, or the service
is stopped to replace its dataset (`Outage`: what answers was published and runs).

### InstallAndUpdate

Composes `install.sh`, run over an existing installation, with all of
`BlueGreenUpdate` (`EXTENDS`). The installer does not take the updater's lock:
it stops both units, rewrites the env files, enables the primary unit and calls
the updater in stop-and-replace mode. `InstSyncStart` is that call finding the lock
free and a newer release, `InstSyncSkipped` the updater exiting 0 at once; then come
the unit check and the Caddy restart. `UpdateStep` is any step of the updater, systemd, Caddy
or GitHub in between.

### RuntimeCaches and StagedWarmup

`RuntimeCaches` is the life of an API process, one per slot: the settings systemd
reads when it starts the service (`Launched`), `main` up to its listener (`Exec`,
`Announce`, `Open`, `Notify`), the warmer with its `running` flag (`WarmStart`,
`WarmWork`, `WarmError`, `WarmFinish`) and the signal loop with its channel
(`Take`, then `RestartWarmer` for SIGUSR1 or `DropSelectors` and `DisableCaches` for
SIGUSR2). `proc[s]` records what is loaded, `warmer` and `loop` are the two goroutines'
places. It has no `Next` of its own: who starts and signals a process is the
updater.

`StagedWarmup` extends it with lines 526-635 of `sync-bbolt.sh` as far as they
concern the processes: releasing the active slot's caches (`Release`),
saving, replacing and putting back the idle slot's settings (`Save`, `SetDefer`, `SetBlock`),
the start, the health check, the switch, and `GiveBack` on every path that does not
activate. `before` and `released` are the script's variables; `operator` remembers
what the operator wrote, for the properties only. The switch of Caddy, its undo and the
files are `BlueGreenUpdate`'s; here a failed switch or marker is one outcome
(`undo`) and the drain at the end succeeds. `Begin` waits until the active
slot has taken the signals of earlier runs (`Settled`): a run downloads gigabytes before it
stages.

### IPRanges and PrefixTrie

`IPRanges` is the arithmetic on addresses that the builder, its tries and the
lookups share. An address is its number, and `Bits` the width of the IP version: keys
begin with the version and nothing crosses it, so one version at a time is
enough, and the checks use three bits. (An IPv4-mapped IPv6 address is an
IPv4 one by the time it gets here.) Cutting a range and sorting a set are recursive functions, and powers of two
are defined by their recurrence, so that theorems can be stated about them.

`PrefixTrie` is both tries: `route_lpm.go` keeps all route IDs of a
prefix and refuses a prefix twice, `selection_lpm.go` keeps the best of the candidates.
Their `insert` is the same but for that; `Held` is what a prefix holds already.
`Stop` is the descent of `insert`, which never visits a node longer than the prefix, `Fork` the node put where two prefixes
part. Nodes are the builder's slice and children one-based indexes into it; the encoded form
is the same list node by node, so `LookupRouteLPM` and `LookupSelectionLPM` walk
that list (`Walk`).

### DatasetBuild

`Build` of `build.go`, one action per row, per trie insertion, per derived value and
per file operation, from the four CSV files (`CSVFiles` says what an input is; a prefix may be written with
host bits, the first aut-num row of an ASN counts). `db` is the database by bucket; `asnRoutes` and `counts` are the
builder's maps and `trie` the trie being filled; `raw`, `compacted` and `output` are
`<output>.building`, `<output>.compact` and the output path. A file whose content
was not synced is torn when the host goes down (`AfterCrash`), since the database is opened with
`NoSync`. `Cancel` is the context ending or a write failing, at any step; `Crash` loses
the builder's memory and the build is started again. A row that the code
skips (start after end, no origin) takes an ID from nobody. A rename
is atomic and is not undone by a crash: whether it is depends on the file
system, and either way the output path holds an old or a new file, never half of one.

### Lookups

The point lookups of `bbolt.go` over a published dataset, as operators:
`LookupCompact` from the tries, `LookupFull` from the prefix indexes,
`CoveringAllocation` and `LookupRangeSummary`. The properties compare each with
its definition over the records. `IsDatasetOf` says what the published file is: the accepted rows of the CSV files
in order, their indexes and lists and nothing else, the tries of all of them, and a summary for each prefix down to the deepest level. `CompactIsFull` states the comment at
`bbolt.go:284` with a precondition the code needs: `lookupFull` collects
at most `maxCandidates` (64) entries, longest prefix first, and the narrowest range need
not be among them, because a wide range that is not a CIDR can hold the address in a longer
prefix than the narrowest one does. The checks use 2 for 64.

### Pages

A client asks a query of a published dataset and follows its cursors. `RangePage` is
`rangePageEntries` with its two phases, records that began before the range and
records that begin in it; `IDPage` is `routePage`, for the routes of a prefix
(`OverlapIDs`) and of an ASN (`ASNRoutesAfter`); `NumberedPage` is the numbered form
of ASN pages. `items` is what the client received so far. A range cursor is opaque and
repeats its query, so a client can use it for that query only; what remains of it
is its phase and key. `Refuse` is `QUERY_TOO_BROAD`. Ranges that have a generated summary
are not excluded, since IPv6 ones are paged whatever their size.

### SourceParser, SqliteDataset and Pipeline

A production run of `import-database.yml`. `SourceParser` is `cmd/parse-rir`: which RPSL objects and delegated lines become
rows, and the range of each, with the sum in 32 bits taken modulo the model's width. A registry is read file by file and a
file may end early (`CutReadings`): the rest of that file is lost, the registry's next files are read, and the object at
the cut is processed with the lines that were read of it (`ReadCut`), so that its netname, origin or feed may be missing and a number may
have lost digits. Which objects share a file is left open. `SqliteDataset` is the SQLite job: import table by table, the prefix index
in batches by row number, the summaries row by row, each counted from its first to its last bucket (`SummarizeRow`), the last check. `Pipeline` composes both with `DatasetBuild`:
registry jobs (`ParseRegistry`), the sorted list of feeds, concurrent fetches behind a semaphore (`StartFetch`,
`FetchLine`, `EndFetch`, which may come at any line), the merge, both builds and the publication, which
waits for every job (`LeaveDraft` is any other job failing). The two build jobs share only their input, so the
model runs the bbolt one first: no order of their steps differs in its result.

## Runs

| Run | Instance | What it shows |
|---|---|---|
| `ResponseCache_signals` | 3 requesters, 2 keys of one shard that do not fit it together, 2 requests each, 1 disable; requesters symmetric | types, single flight, waiters have leaders, a disabled cache stays empty, exact accounting, budgets, and the refinement of `SingleFlight` |
| `Requests` | 2 requesters, 2 requests each, a scan and a compact lookup whose answer is over its budget, one key in each of 2 shards, 1 slot, 1 disable, clients that leave or never read, a shutdown; fair | scans are bounded, requests are answered, clears end, shutdown ends |
| `BlueGreenUpdate` | 3 releases, 2 or 3 faults, eight scenarios (below), fair | the refinement of `Rollout`, bootable at any time, serving slot keeps its file, undo restores Caddy, binary and datasets, a recorded release is what the host is left with, the recorded state is true, convergence to the newest release |
| `InstallAndUpdate_again` | 3 releases, 2 faults, installer at any moment | an installed release serves |
| `StagedWarmup_faults` | 2 slots, 2 runs, 2 faults, 3 cache plans, 3 operator settings, queue of 2, fair | a warm slot gets the traffic, settings and caches come back |
| `Lookups` | 8 addresses; files of 3 allocations, 3 routes, 2 routes with every kind of origin, 2 geofeeds, 2 aut-nums, or one of the first three each; 1 crash; levels 0, 1 and 3; 2 candidates | tries stay well formed, the output is whole, every lookup is what its definition says |
| `Pages` | 8 addresses; files of 3 allocations or 3 routes; page sizes 1 and 2; at most 4 index entries scanned; fair client | pages put together are the result, a query is refused at once or never, paging ends |
| `Pipeline` | 2 registries, up to 3 objects each: every allocation and every route next to fixed ones, up to 3 feeds, 2 fetches at a time, batches of 2 rows, 1 cut source | both formats are the same dataset, and it is what the sources state |
| `BlueGreenUpdate_drain`, `BlueGreenUpdate_startfail`, `InstallAndUpdate_reinstall`, `StagedWarmup_restart` | 1 fault or none | the findings below |

Bounds. Three requesters are a leader, a follower and a late arrival; the
fourth would repeat one of those roles. Two keys of one shard evict each other. In `Requests` two
requesters suffice for one to hold the only slot while the other waits, gives up and asks again; they scan at the same time
when the switch is off and they bypass the flights. One slot stands for the code's two, so that waiting happens with two
requesters. The second key's answer does not fit the cache, so its followers lead one after another. Its two
shards make `DisableAndClear` take their locks one after the other while both are in use; what two keys of one
shard do to each other is `ResponseCache_signals`'. Three releases are one that
serves, one that is being staged and one published meanwhile. With three faults a
run can be killed, the next one fail in its undo and a third be killed again, and the last run of a host
with every fault then has none left, which is what convergence needs. `MaxRequests`,
`MaxDisables`, `MaxRelease`, `MaxRuns` and the number of faults are the only counters of these models, bounded in
the guards of `Request`, `Disable`, `Publish`, `Begin` and `Fault`. Two runs of `StagedWarmup` stage
both slots, so that each is once active and once staged. The queue of two is
the code's.

Eight addresses hold prefixes of four lengths, ranges that need one to four prefixes, and every relation of two
ranges: apart, touching, overlapping, nested, equal. Three records in one trie reach each case
of `insert` in each order (new leaf, same prefix, a prefix above an existing node, a fork), and a fork below a
fork. The levels 0, 1 and 3 leave one length between two counted ones, as 1 to 7 and 9 to 15 are between 0, 8 and
16. Two candidates let an address have more. With pages of one or two and three records a page
ends after each record and in the middle of each phase, exactly at the last covering one, and exactly at
the end; four scanned entries let some prefixes of some datasets be too broad. In `Pages` the
allocations come in order of their start, since a range page does not depend on IDs
otherwise; routes come in every order. `MaxCrashes` and `MaxItems` (bounding what a client keeps, and not
reached as long as pages are right) are bounded in the guards of `Crash` and `NextPage`. In `Pipeline` every range of eight
addresses, inverted ones included, every delegated start and count, and every prefix with and without host bits appears once beside rows
that do not change; three rows need two batches of two, three feeds and two fetches make one wait. `MaxCuts` and
`FetchLimit` bound the guards of `ParseRegistry` and `StartFetch`; a build there does not crash, which `Lookups` covers.

The scenarios of `BlueGreenUpdate` (`MCBlueGreenUpdate`): blue-green only, one schema, every command
may be killed or fail, three faults; the same with reboots; a schema that changes, no kill, with
and without refused starts, three faults; both modes, with and without Caddy, kills, reboots
and a full disk, two faults; everything that can go wrong and no forced run, both modes, with and without Caddy, three faults. The conditions in the properties are there for a reason.
`BootSafe` and the two stronger promises of `Rollout` are those of blue-green updates. A staged slot may be
withdrawn while the active one still boots after a reboot, so nothing is promised across
reboots. `UndoMatchesBinary` excludes kills, which leave the new binary installed, and
refused starts (see the findings). `ServingSlotKeepsItsFile` is stated for one
schema and without process crashes: a target slot found inactive while systemd
is about to restart it is not drained, and its dataset is removed under it
(the hazard at `sync-bbolt.sh:502`). `CleanFinish` is stated for any faults and covers what comes of that: the process
that came up in the target slot, with the old dataset or with none, is not taken for the staged one, because `health_check` compares the
release tag (`Healthy`; its mutant `Answers` takes any answer). Two of its conjuncts have conditions. A
crashed process need not answer at that moment. And in stop-and-replace a Caddy found
stopped may be started by somebody before `caddy.env` is written: it then has the old upstream, and traffic uses the
fallback until Caddy starts again or an update switches it (the hazard at `sync-bbolt.sh:653`, which no property rules out). `CleanFinish` says nothing of a run whose health
check fails (`sync-bbolt.sh:649`), which records nothing. `AlreadyActiveIsTrue` and `EventuallyCurrent` exclude forced runs: a
forced stop-and-replace killed after `rm` leaves the recorded tag equal to the newest release,
so later unforced runs exit at "already active". In `StagedWarmup`, `FirstStartWarm` excludes
failing warmups and dying processes (see the findings), and `SettingsRestored` and
`CachesComeBack` exclude kills: a run killed between lines 542 and 554 leaves its settings in the
env file, and the next run saves them as the operator's. `CachesComeBack` claims the
response caches only: a SIGUSR1 that meets a warmup about to finish does not start another one.

Deadlock checking is off for the host models: with the newest release active, or all runs made, and no
fault left the system rests. It is off for the dataset too (a build ends, a client is done, a release is published or
not), and for `Requests`, where the process exits.

Fairness. In `Requests` each handler's step, the clearing loop and the end of `main` are weakly
fair: goroutines are scheduled, Go's mutexes and channels do not starve, a transaction ends, time passes. Nobody
has to ask, hang up or signal. A write is fair only for a client that has gone, because the server sets no
`WriteTimeout`; `RequestsAnswered` therefore names `ClientsRead` as its assumption, and `ShutdownEnds` does without. In
`BlueGreenUpdate` the script, systemd's starts and restarts, the daily run
(`Check`, cron and `bgp-api-sync.service`) and the restart of Caddy are weakly fair; faults are not,
and there are finitely many, so convergence is claimed for a host that
eventually stops failing. In `StagedWarmup` a started script goes on, systemd restarts, and each
process's `main`, warmer and signal loop are scheduled; `Begin` is not fair, so `CachesComeBack` is
checked of hosts that stop updating after any run. In `Pages` a client goes on asking for the next
page; the build is not fair.

## Findings

* `sync-bbolt.sh:384` (`BlueGreenUpdate_drain`): after a kill between writing `caddy.env`
  and reloading Caddy, the next run drains the slot Caddy still tries first, against the
  comment at 503-505. The fallback upstream answers meanwhile.
* `sync-bbolt.sh:546` (`BlueGreenUpdate_startfail`): when the staged slot cannot be
  started, neither the binary nor the staged dataset is undone.
* `install.sh:341` (`InstallAndUpdate_reinstall`): reinstalling a host that runs the newest
  release in its secondary slot stops both slots, installs nothing and reports success.
* `sync-bbolt.sh:554` (`StagedWarmup_restart`): the blocking warmup is asked of the first
  start only. A staged process whose warmup fails is restarted by systemd with the restored
  settings, listens cold, and gets the traffic, against README.md:82.

Three smaller observations have no run. A run killed after `sync-bbolt.sh:544` leaves blocking warmup in the env file of
the slot it was staging; the next run reads that at 538-539 as what was there before, activates the slot and puts it back, so that the slot
waits for its warmup at every later restart, where README.md:239 says that an ordinary startup serves first. `restore_active_caches_after_failed_stage` returns 1 when
nothing was released, and `errexit` then ends the script before its error message is
printed. Stop-and-replace whose health check fails restores the old binary over the new
dataset, the old one being gone; the next run repairs it.

In the pipeline: a single range that ends before it starts is skipped by the bbolt build and fails the SQLite
job, so no release is published that day. A source that was cut is only logged (`cmd/parse-rir/main.go:140`) and the release
published without its rest, the last object possibly with a shortened number. `net.ParseCIDR` and
`netip.ParsePrefix` differ on a length with a leading zero, and a `route:` object with an IPv6 prefix fails the
SQLite job only; neither form is in the model.

In the requests: the answer is written before the flight is released, and nothing limits the write, so one client that
does not read its answer holds back every request that follows its flight, for as long as it likes.

One more, in the lookups: at an address with more than 64 allocations (or geofeeds),
`details=full` may name a wider record than the compact response, which the comment at `bbolt.go:284`
rules out.

## Proofs

Theorems hold for every value of the constants that the named assumptions of a module allow, which say what the code
guarantees: `ConstantsAssumption` (`ResponseCache`: every key hashes to a shard, sizes and budgets
are natural numbers), `RequestsAssumption`, `UpdateAssumption` (at least one release; scenarios are
records of their type), `StagingAssumption` and `QueueSize \in Nat \ {0}` (`signal.Notify`'s channel holds two),
`BitsAssumption` (addresses have at least one bit), `BuildAssumption` (inputs are CSV files, levels are prefix lengths), `CandidatesAssumption`,
and of `Pipeline` the `SourcesAssumption`: registries have different names, they publish objects and feeds publish lines, finitely
many of both, at least one fetch runs at a time; and `BatchAssumption`.
Each component's proofs are in a module of their own. An inductive invariant was
checked by TLC on the run of its module before it was proved (`PipelineInv`, which speaks of sequences that exist, could not be); one lemma per action, or per part of the
invariant, preserves it, and a theorem per property follows.

`SetInduction` has what the others share: induction on the natural numbers with the
predicate given as a set (the library's, which take an operator, cannot be instantiated), and with it the
existence and uniqueness of partial sums. The same form gives what a recursive function computes: that a function
satisfying the recurrence exists on the first n stages of its domain (lengths of prefixes, addresses from the end, sizes of subsets), by
induction on n, and then that `CHOOSE` has picked such a function.

`ResponseCacheProofs`, for every number of requesters, keys, shards and
every budget: `TypeCorrectness`, `OneProducerPerKey`, `WaitersAreFollowers`, `NoRepopulation`, `BudgetRespected` and
`LateArrivals`, from `IInv`. Its parts say
what the safety properties leave out: who holds the flight lock and each shard's
lock according to the labels, that a flight in the table belongs to a producing
leader of that key (so the release removes its own flight), that a follower
waits only for such a flight, and what an `Add` that is past its unlocked check may still
do to a shard that is already cleared. `SingleProducer` alone is not inductive:
that a leader deletes its own flight and no other comes from the invariant.
`LateArrivals` states in its own words the part of `ImplementsSingleFlight` that the second look
under the flight lock is for.

`AccountsMatch` says that the byte counter of a shard is the sum over its list, by induction
over the list for each of insertion, replacement and eviction; `CacheIsSingleFlight` is the refinement of
`SingleFlight`. Beyond `IInv` it needs that an entry being stored is still as the unlocked check found it and is in front of its list
(`StoringInv`: otherwise eviction could take the entry it makes room for, and the
abstract `Store` would also be an eviction) and that a cache that is being cleared is off.

At the end of `ResponseCacheProofs`, requests: with `RInv`, that the counter of slots is the number of requests inside the semaphore, a finite
set, `ScansStayBounded`. `RequestsKeepTheCache` shows that `Requests` implies
`ResponseCache!Spec`, so what is proved of the cache holds of the composition (`RequestsKeepThePromises`), clients that
leave and a shutdown included.

`StagedWarmupProofs`: `StagingTyped`, `StartsAreAccepted`, `SwitchedSlotIsWarm`, `SettingsComeBack` and `ReleaseHolds`, from
`WInv`. What a property says of one step of the script holds because of what earlier steps did and no process undid:
`WrittenInv` and `SettingsInv` follow the two settings through save, replace and restore (the target's setting is the operator's, or `before`
holds it); `StagedInv` says of the started process, from `start` until the drain, what has happened to its warmer;
`ReleaseInv` that the active process is quiet from the release on.

`BlueGreenUpdateProofs`: all the invariants of the updater, and `UpdatesAreRollouts`, that it implements `Rollout`. The
invariant `BInv` is a conjunction of what each command relies on. Every part names the deployments it is stated for, since
what is true of a host depends on what can go wrong on it; `OnlyBlueGreen` means Caddy, blue-green runs, and no dying process, stopping
Caddy or full disk.

| Part | Says | Stated for |
|---|---|---|
| `RunInv` | the shell variables of a run: which slot is active, which binary is saved and which installed | any faults |
| `DiskInv` | datasets, enabled units and marker by label; it mentions neither processes nor Caddy | any faults |
| `HostInv` | what a slot may be running at which label, and where Caddy points | any faults; that a slot is up, no dying process; that Caddy runs, none that stops by itself |
| `FileInv` | no running process has lost its file, no boot fails | one schema, no dying process, no reboot |
| `EnvInv` | the slot in `caddy.env` is enabled and has a dataset it can open, so a run is blue-green; the old slot too until it is drained | `OnlyBlueGreen`, and one schema or no reboot |
| `ConfInv` | what Caddy does is what `caddy.env` says, but between the two halves of a switch | `OnlyBlueGreen`, no kill, no reboot |
| `BackupInv` | the saved binary is that of the old slot | `OnlyBlueGreen`, no kill, no reboot, no refused start |
| `TagInv` | nothing is newer than what is published; the recorded tag is true and a run is for a newer release | any faults; the tag, unforced runs |
| `OrderInv` | no slot is ahead of what is published, Caddy moves back only after a failure; the old slot is not ahead of the run | any faults; the last, `OnlyBlueGreen`, no kill, no reboot |

The parts lean on each other: `BootSafe` is `EnvInv` in one schema, and `EnvInv` is kept when `caddy.env` moves to the target because the
target is enabled and holds the run's release (`DiskInv`), which is the one whose dataset the health check found answering (`RunInv`, `HostInv`). `FinishesAreClean` (`CleanFinish`) is `DiskInv` and `HostInv` at the commands that record a release:
the dataset of the slot found healthy is the run's until then, so whatever process systemd brings back there serves that. In the refinement
each action is first shown to be of one kind (`KindsOfSteps`: nothing that clients see, a slot that comes, a slot that goes, the
first upstream moved), and then each kind to be a step of `Rollout` or none; that the
slot that goes is not the one that answers is `EnvInv` and `ConfInv`.

At the end of the module, the installer: `InstallationsServe` (`InstalledReleaseServes`), from `InstallInvariance`. The installer stops both
units and rewrites `caddy.env` at any step of a run, so most of `BInv` is false next to it, and `InstInv` is an invariant of
its own that supposes nothing of the host but the types. It begins where the installer's sync does: that run is stop-and-replace because it is told so, whatever
an ended update left, and each of its commands re-establishes what the earlier ones of the other run may have undone
(`SyncInv`). From its last command to the end of the installation the lock is free, and no step of the host takes the release away
(`InstalledStays`), which is false where a service dies on its own or the host reboots; the property says so.

`PrefixTrieProofs` is about the arithmetic of ranges and tries, for addresses of any width. `RangesAreCutExactly`: the prefixes a range is cut into are
aligned, in ascending order and apart, and cover the addresses of the range and no other; the next block always fits because a single
address does (`BlockFits`). `SortingWorks`: what `Ascending` returns for a finite set and a strict total order. `InsertKeepsPatricia`: whatever is inserted at whatever
prefix, a Patricia trie remains one, in each of the four cases of `insert`. `Patricia` says more than `TrieWellFormed`, and has to:
links go to longer prefixes that agree with the node above and lie in the slot of their next bit, every node but the root has exactly one link to it, and
a node that holds nothing has two children. The descent is shown to stop at the prefix's own node or at the only link the new node can go
into (`DescentStops`), which it does because every node it visits covers the prefix and is longer than the one before.
`InsertSetsOne`: an insertion changes what the trie holds at one prefix only. With both, a lookup is followed exactly: the nodes that cover an
address are a chain from the root (`CoveringChain`), the walk visits them all, shortest first (`WalkVisits`), so it ends with the full node that
has the longest prefix covering the address (`RouteLookupIsLongest`) or with the best candidate held by one (`SelectionLookupIsBest`). What the folds of
the model return is used through one fact, that a fold over a finite set exists and is taken one element at a time in an order (`FoldsAgree`).

`LookupsProofs` begins with the build. For any files, `BuildInvariance` (`BuildInv`): the stored rows are the accepted ones among those read so far (`RowsInv`), indexes and ASN lists are
exactly those of the stored rows (`IndexInv`, `ListsInv`), the trie under construction is that of the records inserted so far and finished tries of all (`TriesInv`), a work file that
is synced is a whole dataset (`FilesInv`, `OutputInv`), index IDs are in order and prefixes are prefixes (`OrderedInv`, `ShapeInv`). From it
`OutputsAreWhole` (`OutputIsWhole` at every crash and cancellation), `TriesStayPatricia` (`TrieWellFormed` of every trie at every insertion) and `BuildTypes`.

The rest of the module is about what readers of a published file are answered, whatever it was built from. `LookupsFindLongest` (`RoutesAreLongestMatch`): a finished
route trie holds at a prefix the stored routes of it and nothing elsewhere (`RouteTrieHolds`), so the answer is every stored route of the longest matching prefix.
`LookupsFindNarrowest` (`CompactIsNarrowest`): a finished selection trie holds at each prefix the best of the candidates entered there, and a candidate wherever one was
entered (`HoldsBest`); a range enters at exactly the prefixes that cover its addresses (`PiecesCover`), so the best candidate on the chain is the narrowest stored range.

Two are about the index that `details=full` reads. An address has exactly one entry per stored record that contains it, of the length of the
one piece of the record that covers the address (`RangesFound`, `RoutesFound`, `OnePiece`), and they are read longest first (`FoundInOrder`). A loop that keeps
the better of two keeps the first of the best (`PickingWorks`, for any order in which two things that are not comparable are equally good). `CoveringIsTightest` (`CoveringIsTight`) follows, since whatever contains a
prefix contains its first address. `CompactAgreesWithFull` (`CompactIsFull`) needs ties: of two ranges of one width the full lookup takes
the longer piece and then the lower ID, because that is the order of reading, and the compact lookup does because candidates are compared that way, at a prefix when they are
entered and between prefixes when they are looked up (`SelectionIsNarrowest`); the routes of greatest length are the first of those that are read, so
cutting either list off leaves the same (`LongestIsNarrowest`). Whatever takes a part of
a file in order is written with `Kept` since the prover knows nothing of `SelectSeq`.

`SummariesCountOnce` (`SummaryCounts`) strengthens `BuildInv` by `CountsInv`: while the build reads, every counter of every bucket is the number of stored
records that meet the bucket (`Tally`; `Collect` compares masked addresses, and `MaskedOrder` shows that this is meeting the bucket), and once summaries are written
each one is the number of pairs of a record and a bucket inside the prefix that it meets. Between two counted levels the builder adds up buckets in
whatever order the map yields them: `SumsCount` shows that a sum over a set does not depend on the order, by induction on the number of elements, and that
a sum of how many pairs each element is in is the number of pairs.

`PagesProofs`: `PagesAreExact` (`PagesAreTheResult`) and `PagesTypes`, for any published file, query and page size. A client that
follows its cursors only reads, so `BuildInv` holds of every behaviour of `Pages` (`PagesBuild`), and from it what the
indexes and ASN lists of the file are. `PagesInv` says that what was received is the first n records of the result and that the cursor
stands right behind them (`Stands`): on the last one, on the key before all direct records when the covering ones are
exhausted, or at a page number whose product with the page size is n. Neither half is inductive alone: the next page is
what the cursor says it is, and only where the cursor stands makes it what follows on what was received (`PageFollows`). `OverlapSplit`: the records that overlap a range are those
that began before it and reach into it, and those that begin in it, and the keys of the former come first, so
the result is one list after the other (`RangeResult`); that a set is sorted in one way (`OneOrder`) makes what is left of the sorted
set the sorted rest (`OthersSorted`). The point index, read for one address, is shown to hold every covering record (`ServedSpans`, by
`RangesFound` and `RoutesFound`), `sort.Search` to find the first ID after the cursor (`ASNRoutesLeft`), and `total_pages` to count the pages (`PageCount`).

`PipelineProofs`: `ReleasesAgree` (`FormatsAgree`) and `SourcesAreServed` (`PublishedIsStated`), for any registries, sources, feeds,
fetch limit, batch size and counted levels. Both follow the rows of files, and need one notion for all of them: a
sequence `Lists` a family of values if its places and the family's members can be numbered one to one, so that
nothing is lost, added or written twice whatever the order. A parse job's file lists the rows of its accepted objects by
their places (`ParseLists`), files one after the other list the families together (`ListsFlattened`, `JoinedLists`), a
line appended by any of the running fetches adds one member (`LineWritten`), and a value stands in a sequence as often as in the family it
lists (`ListsCount`). The inductive invariant is `PipelineInv`:

| Part | Says |
|---|---|
| `ArtifactsInv` | a finished parse job's files are those of the objects it read, its registry's unless it was cut |
| `FetchInv` | for some progress in each feed, geolocations.csv lists the lines up to there; a feed waiting to be fetched is listed once and has not been opened, one read to its end has all its lines |
| `WaitingInv` | before the merge neither build has begun |
| `ReleaseInv` | after it both have the merged rows: `BuildInv` and `CountsInv` hold of the bbolt build, `SqliteInv` of the other, and a release has two finished ones |

`FetchInv` is why a line is one geofeed: without "not opened" a feed listed twice would start again at its first line.
`SqliteInv` says which rowids the index has (`IndexedIDs`: all up to `lastRowID` in the table being indexed), which is
what the batches' choice of the next rowids keeps (`BatchAdvances`), and what the map of summaries holds after each row
(`SummariesInv`: a bucket is there if some row so far meets it, with the number of those rows). For `FormatsAgree` the bbolt side is `BuildInv` at its
last step, and the two sides meet because no parsed row is dropped by either: a route's range is its
masked prefix's, which is cut into that prefix alone (`OnePrefix`), and a range that ends before it starts makes the SQLite build fail, so there is none
in a release (`ReleaseHolds`). For `PublishedIsStated` that is needed again: a delegated range that wraps
around the end of the address space ends before it starts (`Wrapped`), so the addresses served are the stated ones (`RowsAreStated`).

Model-checked only, and why:

* liveness (`RequestsAnswered`, `ClearCompletes`, `ShutdownEnds`, `EventuallyCurrent`, `CachesComeBack`, `PagingEnds`): fairness
  needs ENABLED, which the prover does not handle;
* the properties of the four violation runs, which are false.

## Not modelled

Authentication, CORS, the validation of queries and the shape of JSON, which keep no state; bbolt, Caddy, systemd and
`net/http` themselves (modelled from how the code uses them); package installation, uninstalling and `--local-only`;
benchmarks and CI. How the cache plan is chosen from dataset size and host memory: a comparison of constants at start; every plan is
a case of `StagedWarmup`. A shutdown while the selectors are being loaded, which holds a
transaction as a request does. Of the dataset: the metadata bucket, the ranked facets of a
summary (a bucket keeps ten per kind, and merging two buckets merges their tens, so facets between two
counted levels are approximate), IDs beyond 32 bits, byte encodings. Of the pipeline: `inet6num` and IPv6 prefixes,
metadata columns, the API binaries, checksums and uploads. Of the repository: labels such as
a route's relation to the prefix. A cursor kept over an update is used on the new
dataset, whose IDs mean other records; nothing in the code or its documents says what a client then
gets, so no property does.

## Plan

1. `ResponseCache`, proofs; `BlueGreenUpdate`, `InstallAndUpdate` (done).
2. `RuntimeCaches`, `StagedWarmup` (done).
3. `IPRanges`, `PrefixTrie`, `DatasetBuild`, `Lookups`, `Pages` (done).
4. `SingleFlight` and `Rollout` with their refinements; `SourceParser`, `SqliteDataset`, `Pipeline`; `Requests` (done).
5. Proofs of the caches and their refinement, requests, warmups, the updater and its refinement, the installer, tries, the build, the lookups, the pages and the pipeline (done). No safety property of a passing run is left
   without a theorem.

Runs are few and each asks one question. A new property takes the place of one that it makes
shallow.
