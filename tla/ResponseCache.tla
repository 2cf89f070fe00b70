---------------------------- MODULE ResponseCache ----------------------------
(***************************************************************************)
(* internal/api/compact_cache.go: the sharded LRU of serialized responses  *)
(* and its per-key flight table, driven by the request handlers of api.go  *)
(* and by the signal loop of cmd/bgp-api/main.go.                          *)
(*                                                                         *)
(* A handler thread runs Acquire, produces the response, runs Add and      *)
(* finally the deferred release.  Steps are cut at every atomic load, lock *)
(* acquisition and channel receive, so all interleavings of those are      *)
(* explored.  The dataset is immutable, so the response of a key never     *)
(* changes and an entry is represented by its key and its size.            *)
(***************************************************************************)
EXTENDS Integers, SequencesExt

CONSTANTS Threads,      \* handler goroutines
          Keys,         \* response keys
          NumShards,    \* responseCacheShards
          ShardOf,      \* [Keys -> Shards], the FNV-1a shard hash
          Budget,       \* the byte budget of the whole cache
          EntrySize,    \* [Keys -> Nat], len(key) + len(value) + overhead
          Oversized,    \* keys whose value is longer than maxEntry
          MaxRequests,  \* bound: requests per thread
          MaxDisables,  \* bound: DisableAndClear calls
          NoThread      \* the absence of a thread

Shards == 0 .. NumShards - 1

ASSUME ConstantsAssumption ==
  /\ NumShards \in Nat \ {0}
  /\ ShardOf \in [Keys -> Shards]
  /\ Budget \in Nat \ {0}          \* a smaller budget makes no cache at all
  /\ EntrySize \in [Keys -> Nat \ {0}]
  /\ Oversized \subseteq Keys
  /\ MaxRequests \in Nat
  /\ MaxDisables \in Nat
  /\ NoThread \notin Threads

VARIABLES
  enabled,      \* cache.enabled
  clearNext,    \* the shard DisableAndClear clears next, NumShards when idle
  disables,     \* DisableAndClear calls so far
  lru,          \* [Shards -> Seq(Keys)], most recently used first
  used,         \* [Shards -> Int], bytes accounted to each shard
  holder,       \* [Shards -> Threads \cup {NoThread}], owner of shard.mu
  flights,      \* [Keys -> Threads \cup {NoThread}], the leader of the flight
  flightsM,     \* the thread owning flightsM
  pc,           \* [Threads -> Labels], where each handler is
  key,          \* [Threads -> Keys], the key of its request
  role,         \* [Threads -> Roles], which release closure Acquire returned
  awaits,       \* [Threads -> Threads \cup {NoThread}], the unfinished flight
                \* a waiter receives from; NoThread once it is closed
  requests      \* [Threads -> Nat], requests taken so far

cacheVars  == <<lru, used>>
switchVars == <<enabled, clearNext, disables>>
flightVars == <<flights, flightsM, awaits>>
callVars   == <<key, role, requests>>
vars == <<switchVars, cacheVars, holder, flightVars, pc, callVars>>

Roles == {"leader", "bypass"}
Labels == {"idle", "enter", "get", "getShard", "lock", "recheck", "reget",
           "regetShard", "join", "wait", "produce", "add", "insert", "evict",
           "release"}

ShardBudget(s) ==
  Budget \div NumShards + (IF s < Budget % NumShards THEN 1 ELSE 0)

Shard(t) == ShardOf[key[t]]
KeysOf(s) == {k \in Keys : ShardOf[k] = s}

Cached(k) == k \in ToSet(lru[ShardOf[k]])

Clearing == clearNext # NumShards

Goto(t, label) == pc' = [pc EXCEPT ![t] = label]

Init ==
  /\ enabled = TRUE
  /\ clearNext = NumShards
  /\ disables = 0
  /\ lru = [s \in Shards |-> << >>]
  /\ used = [s \in Shards |-> 0]
  /\ holder = [s \in Shards |-> NoThread]
  /\ flights = [k \in Keys |-> NoThread]
  /\ flightsM = NoThread
  /\ pc = [t \in Threads |-> "idle"]
  /\ key \in [Threads -> Keys]
  /\ role = [t \in Threads |-> "bypass"]
  /\ awaits = [t \in Threads |-> NoThread]
  /\ requests = [t \in Threads |-> 0]

-----------------------------------------------------------------------------
(* Acquire *)

\* A compact lookup arrives; its key decides shard and flight.
Request(t, k) ==
  /\ pc[t] = "idle"
  /\ requests[t] < MaxRequests
  /\ requests' = [requests EXCEPT ![t] = @ + 1]
  /\ key' = [key EXCEPT ![t] = k]
  /\ role' = [role EXCEPT ![t] = "bypass"]
  /\ Goto(t, "enter")
  /\ UNCHANGED <<switchVars, cacheVars, holder, flightVars>>

\* The load that opens each round of Acquire: a disabled cache is bypassed.
Enter(t) ==
  /\ pc[t] = "enter"
  /\ Goto(t, IF enabled THEN "get" ELSE "produce")
  /\ UNCHANGED <<switchVars, cacheVars, holder, flightVars, callVars>>

\* Get loads enabled before it takes the shard lock.  It runs twice, without
\* and with flightsM held.
GetLoad(t, here, found, missed) ==
  /\ pc[t] = here
  /\ Goto(t, IF enabled THEN found ELSE missed)
  /\ UNCHANGED <<switchVars, cacheVars, holder, flightVars, callVars>>

\* A hit moves the entry to the front and ends the request; flightsM is
\* given back if Get ran under it.
GetHit(t, here) ==
  /\ pc[t] = here
  /\ holder[Shard(t)] = NoThread
  /\ \E i \in 1 .. Len(lru[Shard(t)]) :
       /\ lru[Shard(t)][i] = key[t]
       /\ lru' = [lru EXCEPT ![Shard(t)] = <<key[t]>> \o RemoveAt(@, i)]
  /\ flightsM' = IF flightsM = t THEN NoThread ELSE flightsM
  /\ Goto(t, "idle")
  /\ UNCHANGED <<switchVars, used, holder, flights, awaits, callVars>>

GetMiss(t, here, missed) ==
  /\ pc[t] = here
  /\ holder[Shard(t)] = NoThread
  /\ ~ Cached(key[t])
  /\ Goto(t, missed)
  /\ UNCHANGED <<switchVars, cacheVars, holder, flightVars, callVars>>

Get(t, load, shard, missed) ==
  \/ GetLoad(t, load, shard, missed)
  \/ GetHit(t, shard)
  \/ GetMiss(t, shard, missed)

LockFlights(t) ==
  /\ pc[t] = "lock"
  /\ flightsM = NoThread
  /\ flightsM' = t
  /\ Goto(t, "recheck")
  /\ UNCHANGED <<switchVars, cacheVars, holder, flights, awaits, callVars>>

\* Mutant: no second Get under flightsM.
RecheckWithoutGet(t) ==
  /\ pc[t] = "recheck"
  /\ flightsM' = IF enabled THEN flightsM ELSE NoThread
  /\ Goto(t, IF enabled THEN "join" ELSE "produce")
  /\ UNCHANGED <<switchVars, cacheVars, holder, flights, awaits, callVars>>

Recheck(t) ==
  /\ pc[t] = "recheck"
  /\ flightsM' = IF enabled THEN flightsM ELSE NoThread
  /\ Goto(t, IF enabled THEN "reget" ELSE "produce")
  /\ UNCHANGED <<switchVars, cacheVars, holder, flights, awaits, callVars>>

\* Mutant: an existing flight is not looked up.
LeadAlways(t) ==
  /\ pc[t] = "join"
  /\ flights' = [flights EXCEPT ![key[t]] = t]
  /\ role' = [role EXCEPT ![t] = "leader"]
  /\ flightsM' = NoThread
  /\ Goto(t, "produce")
  /\ UNCHANGED <<switchVars, cacheVars, holder, awaits, key, requests>>

\* No flight for the key: this thread becomes its single producer.
Lead(t) ==
  /\ pc[t] = "join"
  /\ flights[key[t]] = NoThread
  /\ flights' = [flights EXCEPT ![key[t]] = t]
  /\ role' = [role EXCEPT ![t] = "leader"]
  /\ flightsM' = NoThread
  /\ Goto(t, "produce")
  /\ UNCHANGED <<switchVars, cacheVars, holder, awaits, key, requests>>

Follow(t) ==
  /\ pc[t] = "join"
  /\ flights[key[t]] # NoThread
  /\ awaits' = [awaits EXCEPT ![t] = flights[key[t]]]
  /\ flightsM' = NoThread
  /\ Goto(t, "wait")
  /\ UNCHANGED <<switchVars, cacheVars, holder, flights, callVars>>

\* The receive from flight.done returns once the channel is closed; the
\* waiter starts over.
Wake(t) ==
  /\ pc[t] = "wait"
  /\ awaits[t] = NoThread
  /\ Goto(t, "enter")
  /\ UNCHANGED <<switchVars, cacheVars, holder, flightVars, callVars>>

-----------------------------------------------------------------------------
(* The producer: repository lookup, Add, deferred release *)

\* Mutant: the error path returns without the deferred release.
FailWithoutRelease(t) ==
  /\ pc[t] = "produce"
  /\ Goto(t, "idle")
  /\ UNCHANGED <<switchVars, cacheVars, holder, flightVars, callVars>>

\* The lookup fails, finds nothing or is too broad: no Add.
Fail(t) ==
  /\ pc[t] = "produce"
  /\ Goto(t, "release")
  /\ UNCHANGED <<switchVars, cacheVars, holder, flightVars, callVars>>

Succeed(t) ==
  /\ pc[t] = "produce"
  /\ Goto(t, "add")
  /\ UNCHANGED <<switchVars, cacheVars, holder, flightVars, callVars>>

\* Add's unlocked checks: enabled, entry limit, shard budget.
Add(t) ==
  /\ pc[t] = "add"
  /\ Goto(t, IF /\ enabled
                /\ key[t] \notin Oversized
                /\ EntrySize[key[t]] <= ShardBudget(Shard(t))
             THEN "insert" ELSE "release")
  /\ UNCHANGED <<switchVars, cacheVars, holder, flightVars, callVars>>

\* Under the shard lock enabled is read again; the entry replaces an older
\* one of the same key and goes to the front.
InsertRefused(t) ==
  /\ pc[t] = "insert"
  /\ holder[Shard(t)] = NoThread
  /\ ~ enabled
  /\ Goto(t, "release")
  /\ UNCHANGED <<switchVars, cacheVars, holder, flightVars, callVars>>

\* Mutant: enabled is not read again under the shard lock.
InsertUnchecked(t) ==
  /\ pc[t] = "insert"
  /\ holder[Shard(t)] = NoThread
  /\ ~ Cached(key[t])
  /\ lru' = [lru EXCEPT ![Shard(t)] = <<key[t]>> \o @]
  /\ used' = [used EXCEPT ![Shard(t)] = @ + EntrySize[key[t]]]
  /\ holder' = [holder EXCEPT ![Shard(t)] = t]
  /\ Goto(t, "evict")
  /\ UNCHANGED <<switchVars, flightVars, callVars>>

\* Mutant: Add picks the shard otherwise than Get does.
InsertElsewhere(t) ==
  /\ pc[t] = "insert"
  /\ holder[Shard(t)] = NoThread
  /\ enabled
  /\ ~ Cached(key[t])
  /\ lru' = [lru EXCEPT ![NumShards - 1] = <<key[t]>> \o @]
  /\ used' = [used EXCEPT ![NumShards - 1] = @ + EntrySize[key[t]]]
  /\ holder' = [holder EXCEPT ![Shard(t)] = t]
  /\ Goto(t, "evict")
  /\ UNCHANGED <<switchVars, flightVars, callVars>>

InsertNew(t) ==
  /\ pc[t] = "insert"
  /\ holder[Shard(t)] = NoThread
  /\ enabled
  /\ ~ Cached(key[t])
  /\ lru' = [lru EXCEPT ![Shard(t)] = <<key[t]>> \o @]
  /\ used' = [used EXCEPT ![Shard(t)] = @ + EntrySize[key[t]]]
  /\ holder' = [holder EXCEPT ![Shard(t)] = t]
  /\ Goto(t, "evict")
  /\ UNCHANGED <<switchVars, flightVars, callVars>>

\* Mutant: the bytes of the replaced entry stay on the account.
InsertWithoutRefund(t) ==
  /\ pc[t] = "insert"
  /\ holder[Shard(t)] = NoThread
  /\ enabled
  /\ \E i \in 1 .. Len(lru[Shard(t)]) :
       /\ lru[Shard(t)][i] = key[t]
       /\ lru' = [lru EXCEPT ![Shard(t)] = <<key[t]>> \o RemoveAt(@, i)]
  /\ used' = [used EXCEPT ![Shard(t)] = @ + EntrySize[key[t]]]
  /\ holder' = [holder EXCEPT ![Shard(t)] = t]
  /\ Goto(t, "evict")
  /\ UNCHANGED <<switchVars, flightVars, callVars>>

InsertReplace(t) ==
  /\ pc[t] = "insert"
  /\ holder[Shard(t)] = NoThread
  /\ enabled
  /\ \E i \in 1 .. Len(lru[Shard(t)]) :
       /\ lru[Shard(t)][i] = key[t]
       /\ lru' = [lru EXCEPT ![Shard(t)] = <<key[t]>> \o RemoveAt(@, i)]
  /\ used' = [used EXCEPT ![Shard(t)] =
                @ - EntrySize[key[t]] + EntrySize[key[t]]]
  /\ holder' = [holder EXCEPT ![Shard(t)] = t]
  /\ Goto(t, "evict")
  /\ UNCHANGED <<switchVars, flightVars, callVars>>

\* Mutant: the eviction loop drops the head of the list.
EvictFront(t) ==
  LET s == Shard(t) IN
  /\ pc[t] = "evict"
  /\ used[s] > ShardBudget(s)
  /\ lru[s] # << >>
  /\ used' = [used EXCEPT ![s] = @ - EntrySize[Head(lru[s])]]
  /\ lru' = [lru EXCEPT ![s] = Tail(@)]
  /\ UNCHANGED <<switchVars, holder, flightVars, pc, callVars>>

\* One turn of the eviction loop drops the tail.  On an empty list the code
\* would dereference a nil element: the thread has no step then.
Evict(t) ==
  LET s == Shard(t) IN
  /\ pc[t] = "evict"
  /\ used[s] > ShardBudget(s)
  /\ lru[s] # << >>
  /\ used' = [used EXCEPT ![s] = @ - EntrySize[Last(lru[s])]]
  /\ lru' = [lru EXCEPT ![s] = Front(@)]
  /\ UNCHANGED <<switchVars, holder, flightVars, pc, callVars>>

\* Mutant: at most one entry is evicted per insertion, or none.
UnlockEarly(t) ==
  /\ pc[t] = "evict"
  /\ holder' = [holder EXCEPT ![Shard(t)] = NoThread]
  /\ Goto(t, "release")
  /\ UNCHANGED <<switchVars, cacheVars, flightVars, callVars>>

Unlock(t) ==
  /\ pc[t] = "evict"
  /\ used[Shard(t)] <= ShardBudget(Shard(t))
  /\ holder' = [holder EXCEPT ![Shard(t)] = NoThread]
  /\ Goto(t, "release")
  /\ UNCHANGED <<switchVars, cacheVars, flightVars, callVars>>

\* Mutant: the flight is deleted but its channel never closed.
ReleaseWithoutClose(t) ==
  /\ pc[t] = "release"
  /\ role[t] = "leader"
  /\ flightsM = NoThread
  /\ flights' = [flights EXCEPT ![key[t]] = NoThread]
  /\ Goto(t, "idle")
  /\ UNCHANGED <<switchVars, cacheVars, holder, flightsM, awaits, callVars>>

\* A leader deletes its flight and closes the channel under flightsM, which
\* frees every waiter of that flight; a bypassing thread releases nothing.
ReleaseFlight(t) ==
  /\ pc[t] = "release"
  /\ role[t] = "leader"
  /\ flightsM = NoThread
  /\ flights' = [flights EXCEPT ![key[t]] = NoThread]
  /\ awaits' = [u \in Threads |-> IF awaits[u] = t THEN NoThread ELSE awaits[u]]
  /\ Goto(t, "idle")
  /\ UNCHANGED <<switchVars, cacheVars, holder, flightsM, callVars>>

ReleaseNothing(t) ==
  /\ pc[t] = "release"
  /\ role[t] = "bypass"
  /\ Goto(t, "idle")
  /\ UNCHANGED <<switchVars, cacheVars, holder, flightVars, callVars>>

-----------------------------------------------------------------------------
(* The signal loop: SIGUSR1 enables, SIGUSR2 disables and clears.  One loop *)
(* runs both, so they never overlap.                                        *)

Enable ==
  /\ ~ Clearing
  /\ enabled' = TRUE
  /\ UNCHANGED <<clearNext, disables, cacheVars, holder, flightVars, pc, callVars>>

Disable ==
  /\ ~ Clearing
  /\ disables < MaxDisables
  /\ disables' = disables + 1
  /\ enabled' = FALSE
  /\ clearNext' = 0
  /\ UNCHANGED <<cacheVars, holder, flightVars, pc, callVars>>

\* Mutant: a shard is cleared once the flights of its keys have ended.
ClearShardAfterFlights ==
  /\ Clearing
  /\ holder[clearNext] = NoThread
  /\ \A k \in KeysOf(clearNext) : flights[k] = NoThread
  /\ lru' = [lru EXCEPT ![clearNext] = << >>]
  /\ used' = [used EXCEPT ![clearNext] = 0]
  /\ clearNext' = clearNext + 1
  /\ UNCHANGED <<enabled, disables, holder, flightVars, pc, callVars>>

ClearShard ==
  /\ Clearing
  /\ holder[clearNext] = NoThread
  /\ lru' = [lru EXCEPT ![clearNext] = << >>]
  /\ used' = [used EXCEPT ![clearNext] = 0]
  /\ clearNext' = clearNext + 1
  /\ UNCHANGED <<enabled, disables, holder, flightVars, pc, callVars>>

-----------------------------------------------------------------------------
\* What a thread does by itself once it has a request.
Step(t) ==
  \/ Enter(t)
  \/ Get(t, "get", "getShard", "lock")
  \/ LockFlights(t)
  \/ Recheck(t)
  \/ Get(t, "reget", "regetShard", "join")
  \/ Lead(t)
  \/ Follow(t)
  \/ Wake(t)
  \/ Fail(t)
  \/ Succeed(t)
  \/ Add(t)
  \/ InsertRefused(t)
  \/ InsertNew(t)
  \/ InsertReplace(t)
  \/ Evict(t)
  \/ Unlock(t)
  \/ ReleaseFlight(t)
  \/ ReleaseNothing(t)

Next ==
  \/ \E t \in Threads : Step(t) \/ \E k \in Keys : Request(t, k)
  \/ Enable
  \/ Disable
  \/ ClearShard

Spec == Init /\ [][Next]_vars
-----------------------------------------------------------------------------
(* Properties *)

\* A list holds only keys that hash to its shard.
OwnShards == \A s \in Shards : lru[s] \in Seq(KeysOf(s))

TypeOK ==
  /\ enabled \in BOOLEAN
  /\ clearNext \in 0 .. NumShards
  /\ disables \in 0 .. MaxDisables
  /\ lru \in [Shards -> Seq(Keys)]
  /\ OwnShards
  /\ used \in [Shards -> Int]
  /\ holder \in [Shards -> Threads \cup {NoThread}]
  /\ flights \in [Keys -> Threads \cup {NoThread}]
  /\ flightsM \in Threads \cup {NoThread}
  /\ pc \in [Threads -> Labels]
  /\ key \in [Threads -> Keys]
  /\ role \in [Threads -> Roles]
  /\ awaits \in [Threads -> Threads \cup {NoThread}]
  /\ requests \in [Threads -> 0 .. MaxRequests]

\* Between becoming the producer of its key and releasing the flight.
Producing(t) ==
  pc[t] \in {"produce", "add", "insert", "evict", "release"}

LeaderOf(t, k) == Producing(t) /\ role[t] = "leader" /\ key[t] = k

\* Acquire "makes the caller the single producer for key": two leaders never
\* compute the same response, whatever requests, failures and signals do.
SingleProducer ==
  \A t, u \in Threads : \A k \in Keys :
    LeaderOf(t, k) /\ LeaderOf(u, k) => t = u

\* A waiter blocks only on an open flight of its own key whose leader is still
\* at work, so a close that can wake it is always to come.
WaitersHaveLeader ==
  \A t \in Threads :
    pc[t] = "wait" /\ awaits[t] # NoThread
      => LeaderOf(awaits[t], key[t]) /\ flights[key[t]] = awaits[t]

\* "their producer may finish, but it cannot repopulate a disabled cache":
\* until Enable, a shard DisableAndClear is done with holds nothing, however
\* late an Add that started before it gets the shard lock.
DisabledStaysEmpty ==
  ~ enabled => \A s \in Shards : s < clearNext => lru[s] = << >> /\ used[s] = 0

\* An insertion may overshoot, but it evicts before it gives the shard lock
\* back: a shard nobody holds is within its share.
ShardsWithinBudget ==
  \A s \in Shards : holder[s] = NoThread => used[s] <= ShardBudget(s)

Bytes(q) ==
  LET sum[i \in 0 .. Len(q)] ==
        IF i = 0 THEN 0 ELSE sum[i - 1] + EntrySize[q[i]]
  IN  sum[Len(q)]

BytesOf(s) == Bytes(lru[s])

\* The used counter of a shard is the size of what its list holds, and the
\* list holds a key once; so the eviction loop always finds a tail.
UsedMatchesEntries ==
  \A s \in Shards :
    /\ used[s] = BytesOf(s)
    /\ IsInjective(lru[s])
    /\ \A k \in ToSet(lru[s]) : ShardOf[k] = s /\ k \notin Oversized

\* Where a handler is in the eyes of its caller.
PhaseOf(label) ==
  CASE label = "idle" -> "idle"
    [] label \in {"produce", "add", "insert"} -> "producing"
    [] label = "evict" -> "storing"
    [] label = "release" -> "done"
    [] OTHER -> "asking"

Stored == {k \in Keys : Cached(k)}
Phase == [t \in Threads |-> PhaseOf(pc[t])]
Leading == {t \in Threads : Producing(t) /\ role[t] = "leader"}

Abstract == INSTANCE SingleFlight WITH
  untouched <- disables = 0,
  stored    <- Stored,
  phase     <- Phase,
  leaders   <- Leading,
  wants     <- key

\* Shards, locks, flights and the switch together are one cache with one
\* producer per key: every step is one of SingleFlight or invisible.  Among
\* other things a late arrival does not lead for a key that has just been
\* stored, nobody bypasses a cache that is on or adds to one that is off, and
\* an entry is not evicted to make room for itself.
ImplementsSingleFlight == Abstract!Spec
=============================================================================
