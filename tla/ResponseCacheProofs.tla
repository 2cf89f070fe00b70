------------------------- MODULE ResponseCacheProofs -------------------------
(* Safety of the response cache and of the requests that use it, for any     *)
(* number of threads, keys, shards, slots, requests and signals.             *)
EXTENDS Requests, SetInduction, SequenceTheorems, TLAPS

\* Where a thread is while it owns flightsM, and while it is inside Acquire.
InFlightSection(t) == pc[t] \in {"recheck", "reget", "regetShard", "join"}
Acquiring(t) ==
  pc[t] \in {"enter", "get", "getShard", "lock", "recheck", "reget",
             "regetShard", "join", "wait"}

\* The locks are owned by exactly the threads inside their sections.
LocksInv ==
  /\ \A t \in Threads : InFlightSection(t) <=> flightsM = t
  /\ \A t \in Threads, s \in Shards :
       holder[s] = t <=> pc[t] = "evict" /\ Shard(t) = s

\* A flight is registered exactly while its leader produces; Acquire hands
\* out the leader's closure only with the flight.
FlightsInv ==
  /\ \A k \in Keys : flights[k] # NoThread => LeaderOf(flights[k], k)
  /\ \A t \in Threads :
       Producing(t) /\ role[t] = "leader" => flights[key[t]] = t
  /\ \A t \in Threads : Acquiring(t) => role[t] = "bypass"

WaitersInv ==
  \A t \in Threads : awaits[t] # NoThread =>
    pc[t] = "wait" /\ flights[key[t]] = awaits[t]

\* A cleared shard is empty and nobody is inserting into it.
DisabledInv ==
  ~ enabled => \A s \in Shards : s < clearNext =>
    lru[s] = << >> /\ used[s] = 0 /\ holder[s] = NoThread

\* Without any DisableAndClear every producer leads a flight, and what the
\* second Get missed is still absent when the flight table is read.
UndisturbedInv ==
  disables = 0 =>
    /\ enabled
    /\ \A t \in Threads : Producing(t) => role[t] = "leader"
    /\ \A t \in Threads :
         pc[t] = "join" /\ flights[key[t]] = NoThread => ~ Cached(key[t])

IInv == /\ TypeOK
        /\ LocksInv
        /\ FlightsInv
        /\ WaitersInv
        /\ DisabledInv
        /\ ShardsWithinBudget
        /\ UndisturbedInv

-----------------------------------------------------------------------------
\* RemoveAt yields a sequence whose elements come from the old one.
LEMMA RemoveAtProperties ==
  ASSUME NEW S, NEW q \in Seq(S), NEW i \in 1 .. Len(q)
  PROVE  /\ RemoveAt(q, i) \in Seq(S)
         /\ ToSet(RemoveAt(q, i)) \subseteq ToSet(q)
<1> DEFINE a == SubSeq(q, 1, i - 1)
           b == SubSeq(q, i + 1, Len(q))
<1>1. a \in Seq(S) /\ Len(a) = i - 1 /\ \A j \in 1 .. i - 1 : a[j] = q[j]
  BY SubSeqProperties
<1>2. b \in Seq(S) /\ Len(b) = Len(q) - i /\ \A j \in 1 .. Len(q) - i : b[j] = q[i + j]
  BY SubSeqProperties
<1>3. RemoveAt(q, i) = a \o b
  BY DEF RemoveAt
<1> HIDE DEF a, b
<1>4. /\ a \o b \in Seq(S)
      /\ Len(a \o b) = Len(a) + Len(b)
      /\ \A j \in 1 .. Len(a) + Len(b) :
           (a \o b)[j] = IF j <= Len(a) THEN a[j] ELSE b[j - Len(a)]
  BY <1>1, <1>2, ConcatProperties
<1>5. ASSUME NEW j \in 1 .. Len(a) + Len(b)
      PROVE  \E k \in 1 .. Len(q) : (a \o b)[j] = q[k]
  <2>1. CASE j <= Len(a)
    <3>1. (a \o b)[j] = q[j]
      BY <1>1, <1>4, <2>1
    <3>2. QED
      BY <1>1, <2>1, <3>1
  <2>2. CASE j > Len(a)
    <3>1. (a \o b)[j] = b[j - Len(a)]
      BY <1>1, <1>2, <1>4, <2>2
    <3>2. j - Len(a) \in 1 .. Len(q) - i /\ i + (j - Len(a)) \in 1 .. Len(q)
      BY <1>1, <1>2, <2>2
    <3>3. b[j - Len(a)] = q[i + (j - Len(a))]
      BY <1>2, <3>2
    <3>4. QED
      BY <3>1, <3>2, <3>3
  <2>3. QED
    BY <1>1, <1>2, <2>1, <2>2
<1>6. ToSet(a \o b) \subseteq ToSet(q)
  BY <1>4, <1>5 DEF ToSet
<1>7. QED
  BY <1>3, <1>4, <1>6

\* Moving an element to the front keeps the set of elements.
LEMMA ToFrontProperties ==
  ASSUME NEW S, NEW q \in Seq(S), NEW e \in S
  PROVE  /\ <<e>> \o q \in Seq(S)
         /\ ToSet(<<e>> \o q) \subseteq ToSet(q) \cup {e}
<1>1. /\ <<e>> \o q \in Seq(S)
      /\ Len(<<e>> \o q) = Len(q) + 1
      /\ \A j \in 1 .. Len(q) + 1 :
           (<<e>> \o q)[j] = IF j = 1 THEN e ELSE q[j - 1]
  OBVIOUS
<1>2. QED
  BY <1>1 DEF ToSet

\* The rounded share of a shard is a natural number.
LEMMA ShardBudgetNat == ASSUME NEW s \in Shards PROVE ShardBudget(s) \in Nat
<1>1. Budget \div NumShards \in Nat
  BY ConstantsAssumption
<1>2. QED
  BY <1>1 DEF ShardBudget

\* An empty list caches nothing.
LEMMA EmptyToSet == ToSet(<< >>) = {}
BY DEF ToSet

\* Front drops the last element and keeps the others in place.
LEMMA FrontProperties ==
  ASSUME NEW S, NEW q \in Seq(S), q # << >>
  PROVE  /\ Front(q) \in Seq(S)
         /\ Len(Front(q)) = Len(q) - 1
         /\ \A j \in 1 .. Len(q) - 1 : Front(q)[j] = q[j]
<1>1. Len(q) \in Nat \ {0} /\ \A j \in 1 .. Len(q) - 1 : q[j] \in S
  OBVIOUS
<1> DEFINE n == Len(q) - 1
<1>2. n \in Nat /\ \A j \in 1 .. n : q[j] \in S
  BY <1>1
<1>3. Front(q) = SubSeq(q, 1, n)
  BY DEF Front
<1> HIDE DEF n
<1>4. /\ SubSeq(q, 1, n) \in Seq(S)
      /\ Len(SubSeq(q, 1, n)) = IF 1 <= n THEN n - 1 + 1 ELSE 0
      /\ \A j \in 1 .. n - 1 + 1 : SubSeq(q, 1, n)[j] = q[1 + j - 1]
  BY <1>2, SubSeqProperties
<1>5. n = Len(q) - 1
  BY DEF n
<1>6. QED
  BY <1>1, <1>2, <1>3, <1>4, <1>5

\* What a hit of Get does to the state: it reorders one list.
HitEffect(t, here) ==
  /\ pc[t] = here
  /\ lru' \in [Shards -> Seq(Keys)]
  /\ OwnShards'
  /\ \A k \in Keys : Cached(k)' => Cached(k)
  /\ \A s \in Shards : lru[s] = << >> => lru'[s] = << >>
  /\ pc' = [pc EXCEPT ![t] = "idle"]
  /\ flightsM' = IF flightsM = t THEN NoThread ELSE flightsM
  /\ UNCHANGED <<switchVars, used, holder, flights, awaits, callVars>>

\* A hit of Get reorders one list: nothing becomes cached, no counter moves.
LEMMA GetHitEffect ==
  ASSUME lru \in [Shards -> Seq(Keys)],
         OwnShards, key \in [Threads -> Keys],
         NEW t \in Threads, NEW here, GetHit(t, here)
  PROVE  HitEffect(t, here)
<1> DEFINE s == Shard(t)
<1>1. PICK i \in 1 .. Len(lru[s]) :
        /\ lru[s][i] = key[t]
        /\ lru' = [lru EXCEPT ![s] = <<key[t]>> \o RemoveAt(@, i)]
  BY DEF GetHit
<1>2. s \in Shards /\ lru[s] \in Seq(Keys) /\ key[t] \in Keys
  BY ConstantsAssumption DEF Shard
<1> HIDE DEF s
<1>3. /\ RemoveAt(lru[s], i) \in Seq(Keys)
      /\ ToSet(RemoveAt(lru[s], i)) \subseteq ToSet(lru[s])
  BY <1>2, RemoveAtProperties
<1>4. /\ <<key[t]>> \o RemoveAt(lru[s], i) \in Seq(Keys)
      /\ ToSet(<<key[t]>> \o RemoveAt(lru[s], i)) \subseteq ToSet(lru[s]) \cup {key[t]}
  BY <1>2, <1>3, ToFrontProperties
<1>5. key[t] \in ToSet(lru[s])
  BY <1>1, <1>2 DEF ToSet
<1>6. lru' \in [Shards -> Seq(Keys)]
  BY <1>1, <1>2, <1>4
<1>11. OwnShards'
  <2>1. lru[s] \in Seq(KeysOf(s)) /\ key[t] \in KeysOf(s)
    BY <1>2 DEF KeysOf, OwnShards, Shard, s
  <2>2. RemoveAt(lru[s], i) \in Seq(KeysOf(s))
    BY <2>1, RemoveAtProperties
  <2>3. <<key[t]>> \o RemoveAt(lru[s], i) \in Seq(KeysOf(s))
    BY <2>1, <2>2, ToFrontProperties
  <2>4. QED
    BY <1>1, <1>2, <2>3 DEF OwnShards
<1>7. \A u \in Shards : ToSet(lru'[u]) \subseteq ToSet(lru[u])
  BY <1>1, <1>2, <1>4, <1>5
<1>8. \A k \in Keys : Cached(k)' => Cached(k)
  BY <1>7, ConstantsAssumption DEF Cached
<1>9. \A u \in Shards : lru[u] = << >> => lru'[u] = << >>
  BY <1>1, <1>2
<1>10. QED
  BY <1>6, <1>8, <1>9, <1>11 DEF GetHit, HitEffect, Goto

\* What replacing an entry does to the state.
ReplaceEffect(t) ==
  /\ pc[t] = "insert"
  /\ enabled
  /\ holder[Shard(t)] = NoThread
  /\ lru' \in [Shards -> Seq(Keys)]
  /\ OwnShards'
  /\ \A k \in Keys : Cached(k)' => Cached(k)
  /\ used' = used
  /\ holder' = [holder EXCEPT ![Shard(t)] = t]
  /\ pc' = [pc EXCEPT ![t] = "evict"]
  /\ UNCHANGED <<switchVars, flightVars, callVars>>

\* Replacing an entry reorders one list and leaves the account as it was.
LEMMA InsertReplaceEffect ==
  ASSUME lru \in [Shards -> Seq(Keys)],
         OwnShards, key \in [Threads -> Keys],
         used \in [Shards -> Int], NEW t \in Threads, InsertReplace(t)
  PROVE  ReplaceEffect(t)
<1> DEFINE s == Shard(t)
<1>1. PICK i \in 1 .. Len(lru[s]) :
        /\ lru[s][i] = key[t]
        /\ lru' = [lru EXCEPT ![s] = <<key[t]>> \o RemoveAt(@, i)]
  BY DEF InsertReplace
<1>2. s \in Shards /\ lru[s] \in Seq(Keys) /\ key[t] \in Keys
  BY ConstantsAssumption DEF Shard
<1> HIDE DEF s
<1>3. /\ RemoveAt(lru[s], i) \in Seq(Keys)
      /\ ToSet(RemoveAt(lru[s], i)) \subseteq ToSet(lru[s])
  BY <1>2, RemoveAtProperties
<1>4. /\ <<key[t]>> \o RemoveAt(lru[s], i) \in Seq(Keys)
      /\ ToSet(<<key[t]>> \o RemoveAt(lru[s], i)) \subseteq ToSet(lru[s]) \cup {key[t]}
  BY <1>2, <1>3, ToFrontProperties
<1>5. key[t] \in ToSet(lru[s])
  BY <1>1, <1>2 DEF ToSet
<1>6. lru' \in [Shards -> Seq(Keys)]
  BY <1>1, <1>2, <1>4
<1>11. OwnShards'
  <2>1. lru[s] \in Seq(KeysOf(s)) /\ key[t] \in KeysOf(s)
    BY <1>2 DEF KeysOf, OwnShards, Shard, s
  <2>2. RemoveAt(lru[s], i) \in Seq(KeysOf(s))
    BY <2>1, RemoveAtProperties
  <2>3. <<key[t]>> \o RemoveAt(lru[s], i) \in Seq(KeysOf(s))
    BY <2>1, <2>2, ToFrontProperties
  <2>4. QED
    BY <1>1, <1>2, <2>3 DEF OwnShards
<1>7. \A u \in Shards : ToSet(lru'[u]) \subseteq ToSet(lru[u])
  BY <1>1, <1>2, <1>4, <1>5
<1>8. \A k \in Keys : Cached(k)' => Cached(k)
  BY <1>7, ConstantsAssumption DEF Cached
<1>9. used' = used
  BY ConstantsAssumption DEF InsertReplace, Shard
<1>10. QED
  BY <1>6, <1>8, <1>9, <1>11 DEF InsertReplace, ReplaceEffect, Goto

\* An eviction drops an element of one list and its bytes.
LEMMA EvictEffect ==
  ASSUME lru \in [Shards -> Seq(Keys)],
         OwnShards, key \in [Threads -> Keys],
         used \in [Shards -> Int], NEW t \in Threads, Evict(t)
  PROVE  /\ lru' \in [Shards -> Seq(Keys)]
         /\ OwnShards'
         /\ used' \in [Shards -> Int]
         /\ \A k \in Keys : Cached(k)' => Cached(k)
<1> DEFINE s == Shard(t)
           q == lru[s]
<1>1. s \in Shards /\ q \in Seq(Keys) /\ q # << >>
  BY ConstantsAssumption DEF Shard, Evict
<1>2. /\ lru' = [lru EXCEPT ![s] = Front(q)]
      /\ used' = [used EXCEPT ![s] = @ - EntrySize[Last(q)]]
  BY DEF Evict
<1> HIDE DEF q, s
<1>3. /\ Front(q) \in Seq(Keys)
      /\ Len(Front(q)) = Len(q) - 1
      /\ \A j \in 1 .. Len(q) - 1 : Front(q)[j] = q[j]
  <2>1. \A j \in 1 .. Len(q) - 1 : q[j] \in Keys
    BY <1>1
  <2>2. Len(q) \in Nat \ {0}
    BY <1>1
  <2>3. QED
    BY <1>1, <2>1, <2>2, FrontProperties
<1>4. ToSet(Front(q)) \subseteq ToSet(q)
  <2>1. \A j \in DOMAIN Front(q) : j \in DOMAIN q /\ Front(q)[j] = q[j]
    BY <1>1, <1>3, SMTT(20)
  <2>2. QED
    BY <2>1 DEF ToSet
<1>5. Last(q) \in Keys
  BY <1>1 DEF Last
<1>6. EntrySize[Last(q)] \in Int
  BY <1>5, ConstantsAssumption
<1>7. lru' \in [Shards -> Seq(Keys)] /\ used' \in [Shards -> Int]
  BY <1>1, <1>2, <1>3, <1>6
<1>8. \A u \in Shards : ToSet(lru'[u]) \subseteq ToSet(lru[u])
  BY <1>1, <1>2, <1>4 DEF q
<1>9. OwnShards'
  <2>1. q \in Seq(KeysOf(s)) /\ q # << >>
    BY <1>1 DEF q, OwnShards
  <2>2. Front(q) \in Seq(KeysOf(s))
    BY <2>1, FrontProperties
  <2>3. QED
    BY <1>1, <1>2, <2>2 DEF OwnShards
<1>10. QED
  BY <1>7, <1>8, <1>9, ConstantsAssumption DEF Cached

-----------------------------------------------------------------------------
\* Every step keeps the type invariant.
LEMMA TypeStep == TypeOK /\ [Next]_vars => TypeOK'
<1> SUFFICES ASSUME TypeOK, [Next]_vars PROVE TypeOK'
  OBVIOUS
<1> USE ConstantsAssumption
       DEF TypeOK, OwnShards, Labels, Roles, Goto, Shard, switchVars, cacheVars,
           flightVars, callVars
<1>1. ASSUME NEW t \in Threads, Enter(t) PROVE TypeOK'
  BY <1>1 DEF Enter
<1>2. ASSUME NEW t \in Threads, GetLoad(t, "get", "getShard", "lock") PROVE TypeOK'
  BY <1>2 DEF GetLoad
<1>3. ASSUME NEW t \in Threads, GetHit(t, "getShard") PROVE TypeOK'
  <2>1. HitEffect(t, "getShard")
    BY <1>3, GetHitEffect
  <2>2. QED
    BY <2>1 DEF HitEffect
<1>4. ASSUME NEW t \in Threads, GetMiss(t, "getShard", "lock") PROVE TypeOK'
  BY <1>4 DEF GetMiss
<1>5. ASSUME NEW t \in Threads, LockFlights(t) PROVE TypeOK'
  BY <1>5 DEF LockFlights
<1>6. ASSUME NEW t \in Threads, Recheck(t) PROVE TypeOK'
  BY <1>6 DEF Recheck
<1>7. ASSUME NEW t \in Threads, GetLoad(t, "reget", "regetShard", "join") PROVE TypeOK'
  BY <1>7 DEF GetLoad
<1>8. ASSUME NEW t \in Threads, GetHit(t, "regetShard") PROVE TypeOK'
  <2>1. HitEffect(t, "regetShard")
    BY <1>8, GetHitEffect
  <2>2. QED
    BY <2>1 DEF HitEffect
<1>9. ASSUME NEW t \in Threads, GetMiss(t, "regetShard", "join") PROVE TypeOK'
  BY <1>9 DEF GetMiss
<1>10. ASSUME NEW t \in Threads, Lead(t) PROVE TypeOK'
  BY <1>10 DEF Lead
<1>11. ASSUME NEW t \in Threads, Follow(t) PROVE TypeOK'
  BY <1>11 DEF Follow
<1>12. ASSUME NEW t \in Threads, Wake(t) PROVE TypeOK'
  BY <1>12 DEF Wake
<1>13. ASSUME NEW t \in Threads, Fail(t) PROVE TypeOK'
  BY <1>13 DEF Fail
<1>14. ASSUME NEW t \in Threads, Succeed(t) PROVE TypeOK'
  BY <1>14 DEF Succeed
<1>15. ASSUME NEW t \in Threads, Add(t) PROVE TypeOK'
  BY <1>15 DEF Add
<1>16. ASSUME NEW t \in Threads, InsertRefused(t) PROVE TypeOK'
  BY <1>16 DEF InsertRefused
<1>17. ASSUME NEW t \in Threads, InsertNew(t) PROVE TypeOK'
  <2>1. key[t] \in Keys /\ ShardOf[key[t]] \in Shards
    OBVIOUS
  <2>2. key[t] \in KeysOf(ShardOf[key[t]])
    BY <2>1 DEF KeysOf
  <2>3. lru' = [lru EXCEPT ![ShardOf[key[t]]] = <<key[t]>> \o @]
    BY <1>17 DEF InsertNew
  <2>4. lru' \in [Shards -> Seq(Keys)]
    BY <2>1, <2>3, ToFrontProperties
  <2>5. \A s \in Shards : lru'[s] \in Seq(KeysOf(s))
    BY <2>1, <2>2, <2>3, ToFrontProperties
  <2>6. QED
    BY <1>17, <2>4, <2>5 DEF InsertNew
<1>18. ASSUME NEW t \in Threads, InsertReplace(t) PROVE TypeOK'
  <2>1. ReplaceEffect(t)
    BY <1>18, InsertReplaceEffect
  <2>2. QED
    BY <2>1 DEF ReplaceEffect
<1>19. ASSUME NEW t \in Threads, Evict(t) PROVE TypeOK'
  BY <1>19, EvictEffect DEF Evict
<1>20. ASSUME NEW t \in Threads, Unlock(t) PROVE TypeOK'
  BY <1>20 DEF Unlock
<1>21. ASSUME NEW t \in Threads, ReleaseFlight(t) PROVE TypeOK'
  BY <1>21 DEF ReleaseFlight
<1>22. ASSUME NEW t \in Threads, ReleaseNothing(t) PROVE TypeOK'
  BY <1>22 DEF ReleaseNothing
<1>23. ASSUME NEW t \in Threads, NEW k \in Keys, Request(t, k) PROVE TypeOK'
  BY <1>23, SMTT(20) DEF Request
<1>24. ASSUME Enable PROVE TypeOK'
  BY <1>24 DEF Enable
<1>25. ASSUME Disable PROVE TypeOK'
  <2>1. disables' = disables + 1 /\ disables < MaxDisables
    BY <1>25 DEF Disable
  <2>2. disables' \in 0 .. MaxDisables
    BY <2>1
  <2>3. clearNext' \in 0 .. NumShards
    BY <1>25 DEF Disable
  <2>4. QED
    BY <1>25, <2>2, <2>3 DEF Disable
<1>26. ASSUME ClearShard PROVE TypeOK'
  BY <1>26 DEF ClearShard, Clearing, Shards
<1>27. CASE UNCHANGED vars
  BY <1>27 DEF vars
<1> QED
  BY <1>1, <1>2, <1>3, <1>4, <1>5, <1>6, <1>7, <1>8, <1>9, <1>10, <1>11, <1>12, <1>13, <1>14, <1>15, <1>16, <1>17, <1>18, <1>19, <1>20, <1>21, <1>22, <1>23, <1>24, <1>25, <1>26, <1>27
  DEF Next, Step, Get

\* Every step keeps the ownership of flightsM and of the shard locks.
LEMMA LocksStep == TypeOK /\ LocksInv /\ [Next]_vars => LocksInv'
<1> SUFFICES ASSUME TypeOK, LocksInv, [Next]_vars PROVE LocksInv'
  OBVIOUS
<1> USE ConstantsAssumption
       DEF TypeOK, LocksInv, InFlightSection, Goto, Shard, switchVars, cacheVars, flightVars, callVars
<1>1. ASSUME NEW t \in Threads, Enter(t) PROVE LocksInv'
  BY <1>1 DEF Enter
<1>2. ASSUME NEW t \in Threads, GetLoad(t, "get", "getShard", "lock") PROVE LocksInv'
  BY <1>2 DEF GetLoad
<1>3. ASSUME NEW t \in Threads, GetHit(t, "getShard") PROVE LocksInv'
  <2>1. HitEffect(t, "getShard")
    BY <1>3, GetHitEffect
  <2>2. QED
    BY <2>1, SMTT(20) DEF HitEffect
<1>4. ASSUME NEW t \in Threads, GetMiss(t, "getShard", "lock") PROVE LocksInv'
  BY <1>4 DEF GetMiss
<1>5. ASSUME NEW t \in Threads, LockFlights(t) PROVE LocksInv'
  BY <1>5 DEF LockFlights
<1>6. ASSUME NEW t \in Threads, Recheck(t) PROVE LocksInv'
  BY <1>6 DEF Recheck
<1>7. ASSUME NEW t \in Threads, GetLoad(t, "reget", "regetShard", "join") PROVE LocksInv'
  BY <1>7 DEF GetLoad
<1>8. ASSUME NEW t \in Threads, GetHit(t, "regetShard") PROVE LocksInv'
  <2>1. HitEffect(t, "regetShard")
    BY <1>8, GetHitEffect
  <2>2. QED
    BY <2>1, SMTT(20) DEF HitEffect
<1>9. ASSUME NEW t \in Threads, GetMiss(t, "regetShard", "join") PROVE LocksInv'
  BY <1>9 DEF GetMiss
<1>10. ASSUME NEW t \in Threads, Lead(t) PROVE LocksInv'
  BY <1>10 DEF Lead
<1>11. ASSUME NEW t \in Threads, Follow(t) PROVE LocksInv'
  BY <1>11, SMTT(20) DEF Follow
<1>12. ASSUME NEW t \in Threads, Wake(t) PROVE LocksInv'
  BY <1>12 DEF Wake
<1>13. ASSUME NEW t \in Threads, Fail(t) PROVE LocksInv'
  BY <1>13 DEF Fail
<1>14. ASSUME NEW t \in Threads, Succeed(t) PROVE LocksInv'
  BY <1>14 DEF Succeed
<1>15. ASSUME NEW t \in Threads, Add(t) PROVE LocksInv'
  BY <1>15 DEF Add
<1>16. ASSUME NEW t \in Threads, InsertRefused(t) PROVE LocksInv'
  BY <1>16 DEF InsertRefused
<1>17. ASSUME NEW t \in Threads, InsertNew(t) PROVE LocksInv'
  BY <1>17, SMTT(20) DEF InsertNew
<1>18. ASSUME NEW t \in Threads, InsertReplace(t) PROVE LocksInv'
  <2>1. ReplaceEffect(t)
    BY <1>18, InsertReplaceEffect
  <2>2. /\ pc[t] = "insert" /\ holder[Shard(t)] = NoThread
        /\ holder' = [holder EXCEPT ![Shard(t)] = t]
        /\ pc' = [pc EXCEPT ![t] = "evict"]
        /\ UNCHANGED <<key, flightsM>>
    BY <2>1 DEF ReplaceEffect
  <2>3. \A u \in Threads : InFlightSection(u)' <=> flightsM' = u
    BY <2>2
  <2>4. \A u \in Threads, s \in Shards :
          holder'[s] = u <=> pc'[u] = "evict" /\ Shard(u)' = s
    BY <2>2, SMTT(20)
  <2>5. QED
    BY <2>3, <2>4
<1>19. ASSUME NEW t \in Threads, Evict(t) PROVE LocksInv'
  <2>1. UNCHANGED <<pc, key, role, holder, flightsM, flights>>
    BY <1>19 DEF Evict
  <2>2. QED
    BY <2>1
<1>20. ASSUME NEW t \in Threads, Unlock(t) PROVE LocksInv'
  BY <1>20 DEF Unlock
<1>21. ASSUME NEW t \in Threads, ReleaseFlight(t) PROVE LocksInv'
  BY <1>21 DEF ReleaseFlight
<1>22. ASSUME NEW t \in Threads, ReleaseNothing(t) PROVE LocksInv'
  BY <1>22 DEF ReleaseNothing
<1>23. ASSUME NEW t \in Threads, NEW k \in Keys, Request(t, k) PROVE LocksInv'
  <2>1. /\ pc[t] = "idle" /\ pc' = [pc EXCEPT ![t] = "enter"]
        /\ \A u \in Threads : u # t => key'[u] = key[u]
        /\ UNCHANGED <<holder, flightsM>>
    BY <1>23 DEF Request
  <2>2. \A u \in Threads : InFlightSection(u)' <=> flightsM' = u
    BY <2>1
  <2>3. \A u \in Threads, s \in Shards :
          holder'[s] = u <=> pc'[u] = "evict" /\ Shard(u)' = s
    BY <2>1, SMTT(20)
  <2>4. QED
    BY <2>2, <2>3
<1>24. ASSUME Enable PROVE LocksInv'
  BY <1>24 DEF Enable
<1>25. ASSUME Disable PROVE LocksInv'
  BY <1>25 DEF Disable
<1>26. ASSUME ClearShard PROVE LocksInv'
  BY <1>26 DEF ClearShard
<1>27. CASE UNCHANGED vars
  BY <1>27 DEF vars
<1> QED
  BY <1>1, <1>2, <1>3, <1>4, <1>5, <1>6, <1>7, <1>8, <1>9, <1>10, <1>11, <1>12, <1>13, <1>14, <1>15, <1>16, <1>17, <1>18, <1>19, <1>20, <1>21, <1>22, <1>23, <1>24, <1>25, <1>26, <1>27
  DEF Next, Step, Get

\* Every step keeps flights and their leaders in agreement.
LEMMA FlightsStep == TypeOK /\ LocksInv /\ FlightsInv /\ [Next]_vars => FlightsInv'
<1> SUFFICES ASSUME TypeOK, LocksInv, FlightsInv, [Next]_vars PROVE FlightsInv'
  OBVIOUS
<1> USE ConstantsAssumption
       DEF TypeOK, LocksInv, FlightsInv, LeaderOf, Producing, Acquiring, InFlightSection, Goto, Shard, switchVars, cacheVars, flightVars, callVars
<1>1. ASSUME NEW t \in Threads, Enter(t) PROVE FlightsInv'
  BY <1>1 DEF Enter
<1>2. ASSUME NEW t \in Threads, GetLoad(t, "get", "getShard", "lock") PROVE FlightsInv'
  BY <1>2 DEF GetLoad
<1>3. ASSUME NEW t \in Threads, GetHit(t, "getShard") PROVE FlightsInv'
  <2>1. HitEffect(t, "getShard")
    BY <1>3, GetHitEffect
  <2>2. QED
    BY <2>1 DEF HitEffect
<1>4. ASSUME NEW t \in Threads, GetMiss(t, "getShard", "lock") PROVE FlightsInv'
  BY <1>4 DEF GetMiss
<1>5. ASSUME NEW t \in Threads, LockFlights(t) PROVE FlightsInv'
  BY <1>5 DEF LockFlights
<1>6. ASSUME NEW t \in Threads, Recheck(t) PROVE FlightsInv'
  BY <1>6 DEF Recheck
<1>7. ASSUME NEW t \in Threads, GetLoad(t, "reget", "regetShard", "join") PROVE FlightsInv'
  BY <1>7 DEF GetLoad
<1>8. ASSUME NEW t \in Threads, GetHit(t, "regetShard") PROVE FlightsInv'
  <2>1. HitEffect(t, "regetShard")
    BY <1>8, GetHitEffect
  <2>2. QED
    BY <2>1 DEF HitEffect
<1>9. ASSUME NEW t \in Threads, GetMiss(t, "regetShard", "join") PROVE FlightsInv'
  BY <1>9 DEF GetMiss
<1>10. ASSUME NEW t \in Threads, Lead(t) PROVE FlightsInv'
  BY <1>10 DEF Lead
<1>11. ASSUME NEW t \in Threads, Follow(t) PROVE FlightsInv'
  BY <1>11 DEF Follow
<1>12. ASSUME NEW t \in Threads, Wake(t) PROVE FlightsInv'
  BY <1>12 DEF Wake
<1>13. ASSUME NEW t \in Threads, Fail(t) PROVE FlightsInv'
  BY <1>13 DEF Fail
<1>14. ASSUME NEW t \in Threads, Succeed(t) PROVE FlightsInv'
  BY <1>14 DEF Succeed
<1>15. ASSUME NEW t \in Threads, Add(t) PROVE FlightsInv'
  BY <1>15 DEF Add
<1>16. ASSUME NEW t \in Threads, InsertRefused(t) PROVE FlightsInv'
  BY <1>16 DEF InsertRefused
<1>17. ASSUME NEW t \in Threads, InsertNew(t) PROVE FlightsInv'
  BY <1>17 DEF InsertNew
<1>18. ASSUME NEW t \in Threads, InsertReplace(t) PROVE FlightsInv'
  <2>1. ReplaceEffect(t)
    BY <1>18, InsertReplaceEffect
  <2>2. QED
    BY <2>1 DEF ReplaceEffect
<1>19. ASSUME NEW t \in Threads, Evict(t) PROVE FlightsInv'
  <2>1. UNCHANGED <<pc, key, role, holder, flightsM, flights>>
    BY <1>19 DEF Evict
  <2>2. QED
    BY <2>1
<1>20. ASSUME NEW t \in Threads, Unlock(t) PROVE FlightsInv'
  BY <1>20 DEF Unlock
<1>21. ASSUME NEW t \in Threads, ReleaseFlight(t) PROVE FlightsInv'
  BY <1>21 DEF ReleaseFlight
<1>22. ASSUME NEW t \in Threads, ReleaseNothing(t) PROVE FlightsInv'
  BY <1>22 DEF ReleaseNothing
<1>23. ASSUME NEW t \in Threads, NEW k \in Keys, Request(t, k) PROVE FlightsInv'
  BY <1>23 DEF Request
<1>24. ASSUME Enable PROVE FlightsInv'
  BY <1>24 DEF Enable
<1>25. ASSUME Disable PROVE FlightsInv'
  BY <1>25 DEF Disable
<1>26. ASSUME ClearShard PROVE FlightsInv'
  BY <1>26 DEF ClearShard
<1>27. CASE UNCHANGED vars
  BY <1>27 DEF vars
<1> QED
  BY <1>1, <1>2, <1>3, <1>4, <1>5, <1>6, <1>7, <1>8, <1>9, <1>10, <1>11, <1>12, <1>13, <1>14, <1>15, <1>16, <1>17, <1>18, <1>19, <1>20, <1>21, <1>22, <1>23, <1>24, <1>25, <1>26, <1>27
  DEF Next, Step, Get

\* Every step leaves waiters only on open flights.
LEMMA WaitersStep == TypeOK /\ FlightsInv /\ WaitersInv /\ [Next]_vars => WaitersInv'
<1> SUFFICES ASSUME TypeOK, FlightsInv, WaitersInv, [Next]_vars PROVE WaitersInv'
  OBVIOUS
<1> USE ConstantsAssumption
       DEF TypeOK, FlightsInv, WaitersInv, LeaderOf, Producing, Goto, Shard, switchVars, cacheVars, flightVars, callVars
<1>1. ASSUME NEW t \in Threads, Enter(t) PROVE WaitersInv'
  BY <1>1 DEF Enter
<1>2. ASSUME NEW t \in Threads, GetLoad(t, "get", "getShard", "lock") PROVE WaitersInv'
  BY <1>2 DEF GetLoad
<1>3. ASSUME NEW t \in Threads, GetHit(t, "getShard") PROVE WaitersInv'
  <2>1. HitEffect(t, "getShard")
    BY <1>3, GetHitEffect
  <2>2. QED
    BY <2>1 DEF HitEffect
<1>4. ASSUME NEW t \in Threads, GetMiss(t, "getShard", "lock") PROVE WaitersInv'
  BY <1>4 DEF GetMiss
<1>5. ASSUME NEW t \in Threads, LockFlights(t) PROVE WaitersInv'
  BY <1>5 DEF LockFlights
<1>6. ASSUME NEW t \in Threads, Recheck(t) PROVE WaitersInv'
  BY <1>6 DEF Recheck
<1>7. ASSUME NEW t \in Threads, GetLoad(t, "reget", "regetShard", "join") PROVE WaitersInv'
  BY <1>7 DEF GetLoad
<1>8. ASSUME NEW t \in Threads, GetHit(t, "regetShard") PROVE WaitersInv'
  <2>1. HitEffect(t, "regetShard")
    BY <1>8, GetHitEffect
  <2>2. QED
    BY <2>1 DEF HitEffect
<1>9. ASSUME NEW t \in Threads, GetMiss(t, "regetShard", "join") PROVE WaitersInv'
  BY <1>9 DEF GetMiss
<1>10. ASSUME NEW t \in Threads, Lead(t) PROVE WaitersInv'
  BY <1>10 DEF Lead
<1>11. ASSUME NEW t \in Threads, Follow(t) PROVE WaitersInv'
  BY <1>11 DEF Follow
<1>12. ASSUME NEW t \in Threads, Wake(t) PROVE WaitersInv'
  BY <1>12 DEF Wake
<1>13. ASSUME NEW t \in Threads, Fail(t) PROVE WaitersInv'
  BY <1>13 DEF Fail
<1>14. ASSUME NEW t \in Threads, Succeed(t) PROVE WaitersInv'
  BY <1>14 DEF Succeed
<1>15. ASSUME NEW t \in Threads, Add(t) PROVE WaitersInv'
  BY <1>15 DEF Add
<1>16. ASSUME NEW t \in Threads, InsertRefused(t) PROVE WaitersInv'
  BY <1>16 DEF InsertRefused
<1>17. ASSUME NEW t \in Threads, InsertNew(t) PROVE WaitersInv'
  BY <1>17 DEF InsertNew
<1>18. ASSUME NEW t \in Threads, InsertReplace(t) PROVE WaitersInv'
  <2>1. ReplaceEffect(t)
    BY <1>18, InsertReplaceEffect
  <2>2. QED
    BY <2>1 DEF ReplaceEffect
<1>19. ASSUME NEW t \in Threads, Evict(t) PROVE WaitersInv'
  BY <1>19 DEF Evict
<1>20. ASSUME NEW t \in Threads, Unlock(t) PROVE WaitersInv'
  BY <1>20 DEF Unlock
<1>21. ASSUME NEW t \in Threads, ReleaseFlight(t) PROVE WaitersInv'
  BY <1>21 DEF ReleaseFlight
<1>22. ASSUME NEW t \in Threads, ReleaseNothing(t) PROVE WaitersInv'
  BY <1>22 DEF ReleaseNothing
<1>23. ASSUME NEW t \in Threads, NEW k \in Keys, Request(t, k) PROVE WaitersInv'
  BY <1>23 DEF Request
<1>24. ASSUME Enable PROVE WaitersInv'
  BY <1>24 DEF Enable
<1>25. ASSUME Disable PROVE WaitersInv'
  BY <1>25 DEF Disable
<1>26. ASSUME ClearShard PROVE WaitersInv'
  BY <1>26 DEF ClearShard
<1>27. CASE UNCHANGED vars
  BY <1>27 DEF vars
<1> QED
  BY <1>1, <1>2, <1>3, <1>4, <1>5, <1>6, <1>7, <1>8, <1>9, <1>10, <1>11, <1>12, <1>13, <1>14, <1>15, <1>16, <1>17, <1>18, <1>19, <1>20, <1>21, <1>22, <1>23, <1>24, <1>25, <1>26, <1>27
  DEF Next, Step, Get

\* Every step leaves the cleared shards of a disabled cache empty.
LEMMA DisabledStep == TypeOK /\ LocksInv /\ DisabledInv /\ [Next]_vars => DisabledInv'
<1> SUFFICES ASSUME TypeOK, LocksInv, DisabledInv, [Next]_vars PROVE DisabledInv'
  OBVIOUS
<1> USE ConstantsAssumption
       DEF TypeOK, LocksInv, DisabledInv, Goto, Shard, switchVars, cacheVars, flightVars, callVars
<1>1. ASSUME NEW t \in Threads, Enter(t) PROVE DisabledInv'
  BY <1>1 DEF Enter
<1>2. ASSUME NEW t \in Threads, GetLoad(t, "get", "getShard", "lock") PROVE DisabledInv'
  BY <1>2 DEF GetLoad
<1>3. ASSUME NEW t \in Threads, GetHit(t, "getShard") PROVE DisabledInv'
  <2>1. HitEffect(t, "getShard")
    BY <1>3, GetHitEffect
  <2>2. QED
    BY <2>1 DEF HitEffect
<1>4. ASSUME NEW t \in Threads, GetMiss(t, "getShard", "lock") PROVE DisabledInv'
  BY <1>4 DEF GetMiss
<1>5. ASSUME NEW t \in Threads, LockFlights(t) PROVE DisabledInv'
  BY <1>5 DEF LockFlights
<1>6. ASSUME NEW t \in Threads, Recheck(t) PROVE DisabledInv'
  BY <1>6 DEF Recheck
<1>7. ASSUME NEW t \in Threads, GetLoad(t, "reget", "regetShard", "join") PROVE DisabledInv'
  BY <1>7 DEF GetLoad
<1>8. ASSUME NEW t \in Threads, GetHit(t, "regetShard") PROVE DisabledInv'
  <2>1. HitEffect(t, "regetShard")
    BY <1>8, GetHitEffect
  <2>2. QED
    BY <2>1 DEF HitEffect
<1>9. ASSUME NEW t \in Threads, GetMiss(t, "regetShard", "join") PROVE DisabledInv'
  BY <1>9 DEF GetMiss
<1>10. ASSUME NEW t \in Threads, Lead(t) PROVE DisabledInv'
  BY <1>10 DEF Lead
<1>11. ASSUME NEW t \in Threads, Follow(t) PROVE DisabledInv'
  BY <1>11 DEF Follow
<1>12. ASSUME NEW t \in Threads, Wake(t) PROVE DisabledInv'
  BY <1>12 DEF Wake
<1>13. ASSUME NEW t \in Threads, Fail(t) PROVE DisabledInv'
  BY <1>13 DEF Fail
<1>14. ASSUME NEW t \in Threads, Succeed(t) PROVE DisabledInv'
  BY <1>14 DEF Succeed
<1>15. ASSUME NEW t \in Threads, Add(t) PROVE DisabledInv'
  BY <1>15 DEF Add
<1>16. ASSUME NEW t \in Threads, InsertRefused(t) PROVE DisabledInv'
  BY <1>16 DEF InsertRefused
<1>17. ASSUME NEW t \in Threads, InsertNew(t) PROVE DisabledInv'
  BY <1>17 DEF InsertNew
<1>18. ASSUME NEW t \in Threads, InsertReplace(t) PROVE DisabledInv'
  <2>1. ReplaceEffect(t)
    BY <1>18, InsertReplaceEffect
  <2>2. QED
    BY <2>1 DEF ReplaceEffect
<1>19. ASSUME NEW t \in Threads, Evict(t) PROVE DisabledInv'
  BY <1>19 DEF Evict
<1>20. ASSUME NEW t \in Threads, Unlock(t) PROVE DisabledInv'
  BY <1>20 DEF Unlock
<1>21. ASSUME NEW t \in Threads, ReleaseFlight(t) PROVE DisabledInv'
  BY <1>21 DEF ReleaseFlight
<1>22. ASSUME NEW t \in Threads, ReleaseNothing(t) PROVE DisabledInv'
  BY <1>22 DEF ReleaseNothing
<1>23. ASSUME NEW t \in Threads, NEW k \in Keys, Request(t, k) PROVE DisabledInv'
  BY <1>23 DEF Request
<1>24. ASSUME Enable PROVE DisabledInv'
  BY <1>24 DEF Enable
<1>25. ASSUME Disable PROVE DisabledInv'
  BY <1>25 DEF Disable, Shards
<1>26. ASSUME ClearShard PROVE DisabledInv'
  <2>1. clearNext \in Shards /\ \A s \in Shards : s < clearNext + 1 => s < clearNext \/ s = clearNext
    BY <1>26 DEF ClearShard, Clearing, Shards
  <2>2. QED
    BY <1>26, <2>1 DEF ClearShard
<1>27. CASE UNCHANGED vars
  BY <1>27 DEF vars
<1> QED
  BY <1>1, <1>2, <1>3, <1>4, <1>5, <1>6, <1>7, <1>8, <1>9, <1>10, <1>11, <1>12, <1>13, <1>14, <1>15, <1>16, <1>17, <1>18, <1>19, <1>20, <1>21, <1>22, <1>23, <1>24, <1>25, <1>26, <1>27
  DEF Next, Step, Get

\* Every step leaves the shards nobody holds within their budget.
LEMMA BudgetStep == TypeOK /\ LocksInv /\ ShardsWithinBudget /\ [Next]_vars => ShardsWithinBudget'
<1> SUFFICES ASSUME TypeOK, LocksInv, ShardsWithinBudget, [Next]_vars PROVE ShardsWithinBudget'
  OBVIOUS
<1> USE ConstantsAssumption
       DEF TypeOK, LocksInv, ShardsWithinBudget, Goto, Shard, switchVars, cacheVars, flightVars, callVars
<1>1. ASSUME NEW t \in Threads, Enter(t) PROVE ShardsWithinBudget'
  BY <1>1 DEF Enter
<1>2. ASSUME NEW t \in Threads, GetLoad(t, "get", "getShard", "lock") PROVE ShardsWithinBudget'
  BY <1>2 DEF GetLoad
<1>3. ASSUME NEW t \in Threads, GetHit(t, "getShard") PROVE ShardsWithinBudget'
  <2>1. HitEffect(t, "getShard")
    BY <1>3, GetHitEffect
  <2>2. QED
    BY <2>1 DEF HitEffect
<1>4. ASSUME NEW t \in Threads, GetMiss(t, "getShard", "lock") PROVE ShardsWithinBudget'
  BY <1>4 DEF GetMiss
<1>5. ASSUME NEW t \in Threads, LockFlights(t) PROVE ShardsWithinBudget'
  BY <1>5 DEF LockFlights
<1>6. ASSUME NEW t \in Threads, Recheck(t) PROVE ShardsWithinBudget'
  BY <1>6 DEF Recheck
<1>7. ASSUME NEW t \in Threads, GetLoad(t, "reget", "regetShard", "join") PROVE ShardsWithinBudget'
  BY <1>7 DEF GetLoad
<1>8. ASSUME NEW t \in Threads, GetHit(t, "regetShard") PROVE ShardsWithinBudget'
  <2>1. HitEffect(t, "regetShard")
    BY <1>8, GetHitEffect
  <2>2. QED
    BY <2>1 DEF HitEffect
<1>9. ASSUME NEW t \in Threads, GetMiss(t, "regetShard", "join") PROVE ShardsWithinBudget'
  BY <1>9 DEF GetMiss
<1>10. ASSUME NEW t \in Threads, Lead(t) PROVE ShardsWithinBudget'
  BY <1>10 DEF Lead
<1>11. ASSUME NEW t \in Threads, Follow(t) PROVE ShardsWithinBudget'
  BY <1>11 DEF Follow
<1>12. ASSUME NEW t \in Threads, Wake(t) PROVE ShardsWithinBudget'
  BY <1>12 DEF Wake
<1>13. ASSUME NEW t \in Threads, Fail(t) PROVE ShardsWithinBudget'
  BY <1>13 DEF Fail
<1>14. ASSUME NEW t \in Threads, Succeed(t) PROVE ShardsWithinBudget'
  BY <1>14 DEF Succeed
<1>15. ASSUME NEW t \in Threads, Add(t) PROVE ShardsWithinBudget'
  BY <1>15 DEF Add
<1>16. ASSUME NEW t \in Threads, InsertRefused(t) PROVE ShardsWithinBudget'
  BY <1>16 DEF InsertRefused
<1>17. ASSUME NEW t \in Threads, InsertNew(t) PROVE ShardsWithinBudget'
  BY <1>17 DEF InsertNew
<1>18. ASSUME NEW t \in Threads, InsertReplace(t) PROVE ShardsWithinBudget'
  <2>1. ReplaceEffect(t)
    BY <1>18, InsertReplaceEffect
  <2>2. QED
    BY <2>1 DEF ReplaceEffect
<1>19. ASSUME NEW t \in Threads, Evict(t) PROVE ShardsWithinBudget'
  BY <1>19 DEF Evict
<1>20. ASSUME NEW t \in Threads, Unlock(t) PROVE ShardsWithinBudget'
  BY <1>20 DEF Unlock
<1>21. ASSUME NEW t \in Threads, ReleaseFlight(t) PROVE ShardsWithinBudget'
  BY <1>21 DEF ReleaseFlight
<1>22. ASSUME NEW t \in Threads, ReleaseNothing(t) PROVE ShardsWithinBudget'
  BY <1>22 DEF ReleaseNothing
<1>23. ASSUME NEW t \in Threads, NEW k \in Keys, Request(t, k) PROVE ShardsWithinBudget'
  BY <1>23 DEF Request
<1>24. ASSUME Enable PROVE ShardsWithinBudget'
  BY <1>24 DEF Enable
<1>25. ASSUME Disable PROVE ShardsWithinBudget'
  BY <1>25 DEF Disable
<1>26. ASSUME ClearShard PROVE ShardsWithinBudget'
  BY <1>26, ShardBudgetNat DEF ClearShard
<1>27. CASE UNCHANGED vars
  BY <1>27 DEF vars
<1> QED
  BY <1>1, <1>2, <1>3, <1>4, <1>5, <1>6, <1>7, <1>8, <1>9, <1>10, <1>11, <1>12, <1>13, <1>14, <1>15, <1>16, <1>17, <1>18, <1>19, <1>20, <1>21, <1>22, <1>23, <1>24, <1>25, <1>26, <1>27
  DEF Next, Step, Get

\* Every step keeps what a never disabled cache promises to its leaders.
LEMMA UndisturbedStep == TypeOK /\ LocksInv /\ FlightsInv /\ UndisturbedInv /\ [Next]_vars => UndisturbedInv'
<1> SUFFICES ASSUME TypeOK, LocksInv, FlightsInv, UndisturbedInv, [Next]_vars PROVE UndisturbedInv'
  OBVIOUS
<1> USE ConstantsAssumption
       DEF TypeOK, LocksInv, FlightsInv, UndisturbedInv, Producing, Acquiring, InFlightSection, LeaderOf, Goto, Shard, switchVars, cacheVars, flightVars, callVars
<1>1. ASSUME NEW t \in Threads, Enter(t) PROVE UndisturbedInv'
  BY <1>1 DEF Enter, Cached
<1>2. ASSUME NEW t \in Threads, GetLoad(t, "get", "getShard", "lock") PROVE UndisturbedInv'
  BY <1>2 DEF GetLoad, Cached
<1>3. ASSUME NEW t \in Threads, GetHit(t, "getShard") PROVE UndisturbedInv'
  <2>1. HitEffect(t, "getShard")
    BY <1>3, GetHitEffect
  <2>2. QED
    BY <2>1, SMTT(20) DEF HitEffect
<1>4. ASSUME NEW t \in Threads, GetMiss(t, "getShard", "lock") PROVE UndisturbedInv'
  BY <1>4 DEF GetMiss, Cached
<1>5. ASSUME NEW t \in Threads, LockFlights(t) PROVE UndisturbedInv'
  BY <1>5 DEF LockFlights, Cached
<1>6. ASSUME NEW t \in Threads, Recheck(t) PROVE UndisturbedInv'
  BY <1>6 DEF Recheck, Cached
<1>7. ASSUME NEW t \in Threads, GetLoad(t, "reget", "regetShard", "join") PROVE UndisturbedInv'
  BY <1>7 DEF GetLoad, Cached
<1>8. ASSUME NEW t \in Threads, GetHit(t, "regetShard") PROVE UndisturbedInv'
  <2>1. HitEffect(t, "regetShard")
    BY <1>8, GetHitEffect
  <2>2. QED
    BY <2>1, SMTT(20) DEF HitEffect
<1>9. ASSUME NEW t \in Threads, GetMiss(t, "regetShard", "join") PROVE UndisturbedInv'
  BY <1>9 DEF GetMiss, Cached
<1>10. ASSUME NEW t \in Threads, Lead(t) PROVE UndisturbedInv'
  BY <1>10 DEF Lead, Cached
<1>11. ASSUME NEW t \in Threads, Follow(t) PROVE UndisturbedInv'
  BY <1>11 DEF Follow, Cached
<1>12. ASSUME NEW t \in Threads, Wake(t) PROVE UndisturbedInv'
  BY <1>12 DEF Wake, Cached
<1>13. ASSUME NEW t \in Threads, Fail(t) PROVE UndisturbedInv'
  BY <1>13 DEF Fail, Cached
<1>14. ASSUME NEW t \in Threads, Succeed(t) PROVE UndisturbedInv'
  BY <1>14 DEF Succeed, Cached
<1>15. ASSUME NEW t \in Threads, Add(t) PROVE UndisturbedInv'
  BY <1>15 DEF Add, Cached
<1>16. ASSUME NEW t \in Threads, InsertRefused(t) PROVE UndisturbedInv'
  BY <1>16 DEF InsertRefused, Cached
<1>17. ASSUME NEW t \in Threads, InsertNew(t) PROVE UndisturbedInv'
  BY <1>17, ToFrontProperties, SMTT(20) DEF InsertNew, Cached
<1>18. ASSUME NEW t \in Threads, InsertReplace(t) PROVE UndisturbedInv'
  <2>1. ReplaceEffect(t)
    BY <1>18, InsertReplaceEffect
  <2>2. QED
    BY <2>1, SMTT(20) DEF ReplaceEffect
<1>19. ASSUME NEW t \in Threads, Evict(t) PROVE UndisturbedInv'
  BY <1>19, EvictEffect DEF Evict, Cached
<1>20. ASSUME NEW t \in Threads, Unlock(t) PROVE UndisturbedInv'
  BY <1>20 DEF Unlock, Cached
<1>21. ASSUME NEW t \in Threads, ReleaseFlight(t) PROVE UndisturbedInv'
  BY <1>21 DEF ReleaseFlight, Cached
<1>22. ASSUME NEW t \in Threads, ReleaseNothing(t) PROVE UndisturbedInv'
  BY <1>22 DEF ReleaseNothing, Cached
<1>23. ASSUME NEW t \in Threads, NEW k \in Keys, Request(t, k) PROVE UndisturbedInv'
  BY <1>23, SMTT(20) DEF Request, Cached
<1>24. ASSUME Enable PROVE UndisturbedInv'
  BY <1>24 DEF Enable, Cached
<1>25. ASSUME Disable PROVE UndisturbedInv'
  BY <1>25 DEF Disable, Cached
<1>26. ASSUME ClearShard PROVE UndisturbedInv'
  BY <1>26, EmptyToSet DEF ClearShard, Cached
<1>27. CASE UNCHANGED vars
  BY <1>27 DEF vars, Cached
<1> QED
  BY <1>1, <1>2, <1>3, <1>4, <1>5, <1>6, <1>7, <1>8, <1>9, <1>10, <1>11, <1>12, <1>13, <1>14, <1>15, <1>16, <1>17, <1>18, <1>19, <1>20, <1>21, <1>22, <1>23, <1>24, <1>25, <1>26, <1>27
  DEF Next, Step, Get

\* Only Lead turns a thread into a leader, and it does so on what the second
\* Get saw: a key that is still not cached.
LEMMA LeadStep ==
  TypeOK /\ FlightsInv /\ UndisturbedInv /\ [Next]_vars =>
    (disables = 0 => \A t \in Threads :
       LeaderOf(t, key[t])' /\ ~ Producing(t) => ~ Cached(key[t]))
<1> SUFFICES ASSUME TypeOK, FlightsInv, UndisturbedInv, [Next]_vars,
                    disables = 0, NEW u \in Threads,
                    LeaderOf(u, key[u])', ~ Producing(u)
             PROVE  ~ Cached(key[u])
  OBVIOUS
<1> DEFINE Goal == ~ Cached(key[u])
<1> USE DEF TypeOK, FlightsInv, UndisturbedInv, LeaderOf, Producing, Acquiring,
            Goto, callVars, flightVars
<1>1. ASSUME NEW t \in Threads, Enter(t) PROVE Goal
  BY <1>1 DEF Enter
<1>2. ASSUME NEW t \in Threads, GetLoad(t, "get", "getShard", "lock") PROVE Goal
  BY <1>2 DEF GetLoad
<1>3. ASSUME NEW t \in Threads, GetHit(t, "getShard") PROVE Goal
  BY <1>3 DEF GetHit
<1>4. ASSUME NEW t \in Threads, GetMiss(t, "getShard", "lock") PROVE Goal
  BY <1>4 DEF GetMiss
<1>5. ASSUME NEW t \in Threads, LockFlights(t) PROVE Goal
  BY <1>5 DEF LockFlights
<1>6. ASSUME NEW t \in Threads, Recheck(t) PROVE Goal
  BY <1>6 DEF Recheck
<1>7. ASSUME NEW t \in Threads, GetLoad(t, "reget", "regetShard", "join") PROVE Goal
  BY <1>7 DEF GetLoad
<1>8. ASSUME NEW t \in Threads, GetHit(t, "regetShard") PROVE Goal
  BY <1>8 DEF GetHit
<1>9. ASSUME NEW t \in Threads, GetMiss(t, "regetShard", "join") PROVE Goal
  BY <1>9 DEF GetMiss
<1>10. ASSUME NEW t \in Threads, Lead(t) PROVE Goal
  BY <1>10 DEF Lead
<1>11. ASSUME NEW t \in Threads, Follow(t) PROVE Goal
  BY <1>11 DEF Follow
<1>12. ASSUME NEW t \in Threads, Wake(t) PROVE Goal
  BY <1>12 DEF Wake
<1>13. ASSUME NEW t \in Threads, Fail(t) PROVE Goal
  BY <1>13 DEF Fail
<1>14. ASSUME NEW t \in Threads, Succeed(t) PROVE Goal
  BY <1>14 DEF Succeed
<1>15. ASSUME NEW t \in Threads, Add(t) PROVE Goal
  BY <1>15 DEF Add
<1>16. ASSUME NEW t \in Threads, InsertRefused(t) PROVE Goal
  BY <1>16 DEF InsertRefused
<1>17. ASSUME NEW t \in Threads, InsertNew(t) PROVE Goal
  BY <1>17 DEF InsertNew
<1>18. ASSUME NEW t \in Threads, InsertReplace(t) PROVE Goal
  BY <1>18 DEF InsertReplace
<1>19. ASSUME NEW t \in Threads, Evict(t) PROVE Goal
  BY <1>19 DEF Evict
<1>20. ASSUME NEW t \in Threads, Unlock(t) PROVE Goal
  BY <1>20 DEF Unlock
<1>21. ASSUME NEW t \in Threads, ReleaseFlight(t) PROVE Goal
  BY <1>21 DEF ReleaseFlight
<1>22. ASSUME NEW t \in Threads, ReleaseNothing(t) PROVE Goal
  BY <1>22 DEF ReleaseNothing
<1>23. ASSUME NEW t \in Threads, NEW k \in Keys, Request(t, k) PROVE Goal
  BY <1>23 DEF Request
<1>24. ASSUME Enable PROVE Goal
  BY <1>24 DEF Enable
<1>25. ASSUME Disable PROVE Goal
  BY <1>25 DEF Disable
<1>26. ASSUME ClearShard PROVE Goal
  BY <1>26 DEF ClearShard
<1>27. CASE UNCHANGED vars
  BY <1>27 DEF vars
<1> QED
  BY <1>1, <1>2, <1>3, <1>4, <1>5, <1>6, <1>7, <1>8, <1>9, <1>10, <1>11, <1>12, <1>13, <1>14, <1>15, <1>16, <1>17, <1>18, <1>19, <1>20, <1>21, <1>22, <1>23, <1>24, <1>25, <1>26, <1>27 DEF Next, Step, Get

-----------------------------------------------------------------------------
\* The inductive invariant holds initially.
LEMMA InitInv == Init => IInv
<1> SUFFICES ASSUME Init PROVE IInv
  OBVIOUS
<1> USE ConstantsAssumption DEF Init
<1>1. TypeOK
  BY DEF TypeOK, OwnShards, Labels, Roles
<1>2. LocksInv /\ FlightsInv /\ WaitersInv /\ DisabledInv
  BY DEF LocksInv, FlightsInv, WaitersInv, DisabledInv, InFlightSection,
         Producing, LeaderOf, Acquiring
<1>3. ShardsWithinBudget
  BY ShardBudgetNat DEF ShardsWithinBudget
<1>4. UndisturbedInv
  BY DEF UndisturbedInv, Producing
<1>5. QED
  BY <1>1, <1>2, <1>3, <1>4 DEF IInv

\* The inductive invariant holds in every reachable state.
THEOREM Invariance == Spec => []IInv
<1>1. IInv /\ [Next]_vars => IInv'
  BY TypeStep, LocksStep, FlightsStep, WaitersStep, DisabledStep, BudgetStep,
     UndisturbedStep DEF IInv
<1>2. QED
  BY InitInv, <1>1, PTL DEF Spec

\* Type correctness of the cache, its flight table and its callers.
THEOREM TypeCorrectness == Spec => []TypeOK
<1>1. IInv => TypeOK
  BY DEF IInv
<1>2. QED
  BY Invariance, <1>1, PTL

\* compact_cache.go Acquire: at most one leader computes the response of a key.
THEOREM OneProducerPerKey == Spec => []SingleProducer
<1>1. IInv => SingleProducer
  BY DEF IInv, FlightsInv, SingleProducer, LeaderOf
<1>2. QED
  BY Invariance, <1>1, PTL

\* compact_cache.go Acquire: whoever waits on a flight waits on one whose leader
\* is still producing that very key.
THEOREM WaitersAreFollowers == Spec => []WaitersHaveLeader
<1>1. IInv => WaitersHaveLeader
  BY ConstantsAssumption
     DEF IInv, TypeOK, FlightsInv, WaitersInv, WaitersHaveLeader, LeaderOf
<1>2. QED
  BY Invariance, <1>1, PTL

\* compact_cache.go DisableAndClear: no producer repopulates a cleared shard.
THEOREM NoRepopulation == Spec => []DisabledStaysEmpty
<1>1. IInv => DisabledStaysEmpty
  BY DEF IInv, DisabledInv, DisabledStaysEmpty
<1>2. QED
  BY Invariance, <1>1, PTL

\* compact_cache.go Add: the eviction loop restores the budget of the shard
\* before the shard lock is released.
THEOREM BudgetRespected == Spec => []ShardsWithinBudget
<1>1. IInv => ShardsWithinBudget
  BY DEF IInv
<1>2. QED
  BY Invariance, <1>1, PTL

\* compact_cache.go Acquire: the second Get under flightsM keeps a late arrival
\* from computing again what a finished leader has cached.
THEOREM LateArrivals ==
  Spec => [][disables = 0 => \A t \in Threads :
               LeaderOf(t, key[t])' /\ ~ Producing(t) => ~ Cached(key[t])]_vars
<1>1. IInv /\ [Next]_vars =>
        [disables = 0 => \A t \in Threads :
           LeaderOf(t, key[t])' /\ ~ Producing(t) => ~ Cached(key[t])]_vars
  BY LeadStep DEF IInv
<1>2. QED
  BY Invariance, <1>1, PTL DEF Spec

-----------------------------------------------------------------------------
(* The accounts of the shards, and with them that the cache implements      *)
(* SingleFlight.                                                            *)

\* The partial sums of the sizes in a list, however they were found.
SizesOf(q) == [i \in 1 .. Len(q) |-> EntrySize[q[i]]]
Sums(q, sum) == PartialSums(Len(q), SizesOf(q), sum)

\* Sums without the function of the sizes.
LEMMA SumsDef ==
  ASSUME NEW q \in Seq(Keys), NEW sum
  PROVE  Sums(q, sum) <=> /\ sum \in [0 .. Len(q) -> Int]
                          /\ sum[0] = 0
                          /\ \A i \in 1 .. Len(q) :
                               sum[i] = sum[i - 1] + EntrySize[q[i]]
BY DEF Sums, SizesOf, PartialSums

\* Bytes adds the sizes up.
LEMMA BytesProperties ==
  ASSUME NEW q \in Seq(Keys)
  PROVE  /\ \E sum : Sums(q, sum)
         /\ \A sum : Sums(q, sum) => Bytes(q) = sum[Len(q)]
<1>1. Len(q) \in Nat /\ SizesOf(q) \in [1 .. Len(q) -> Int]
  BY ConstantsAssumption DEF SizesOf
<1>2. \E sum : Sums(q, sum)
  BY <1>1, PartialSumsExist DEF Sums
<1> DEFINE Def(f) == [i \in 0 .. Len(q) |->
                        IF i = 0 THEN 0 ELSE f[i - 1] + EntrySize[q[i]]]
           f0 == CHOOSE f : f = Def(f)
<1>3. PICK sum0 : Sums(q, sum0)
  BY <1>2
<1>4. sum0 = Def(sum0)
  BY <1>3, <1>1, SumsDef
<1>5. f0 = Def(f0)
  BY <1>4
<1>6. Bytes(q) = f0[Len(q)]
  BY DEF Bytes
<1> HIDE DEF f0
<1>7. ASSUME NEW sum, Sums(q, sum) PROVE Bytes(q) = sum[Len(q)]
  <2>1. f0 = [i \in 0 .. Len(q) |->
                IF i = 0 THEN 0 ELSE f0[i - 1] + SizesOf(q)[i]]
    BY <1>5, <1>1 DEF SizesOf
  <2>2. sum = f0
    BY <1>1, <1>7, <2>1, PartialSumsUnique, SMTT(30), ZenonT(30) DEF Sums
  <2>3. QED
    BY <1>6, <2>2
<1>8. QED
  BY <1>2, <1>7
-----------------------------------------------------------------------------
(* What the operations on a list do to its bytes *)

\* An empty list holds no bytes.
LEMMA BytesEmpty == Bytes(<< >>) = 0
<1> DEFINE zero == [i \in 0 .. 0 |-> 0]
<1>1. << >> \in Seq(Keys) /\ Len(<< >>) = 0
  OBVIOUS
<1>2. Sums(<< >>, zero) /\ zero[0] = 0
  BY <1>1, SumsDef
<1> HIDE DEF zero
<1>3. QED
  BY <1>1, <1>2, BytesProperties

\* A new entry in front adds its size.
LEMMA BytesToFront ==
  ASSUME NEW q \in Seq(Keys), NEW k \in Keys
  PROVE  Bytes(<<k>> \o q) = Bytes(q) + EntrySize[k]
<1> DEFINE r == <<k>> \o q
<1>1. /\ r \in Seq(Keys) /\ Len(r) = Len(q) + 1 /\ Len(q) \in Nat
      /\ r[1] = k
      /\ \A j \in 2 .. Len(q) + 1 : r[j] = q[j - 1]
  OBVIOUS
<1> HIDE DEF r
<1>2. PICK sum : Sums(q, sum)
  BY BytesProperties
<1>3. /\ sum \in [0 .. Len(q) -> Int] /\ sum[0] = 0
      /\ \A i \in 1 .. Len(q) : sum[i] = sum[i - 1] + EntrySize[q[i]]
  BY <1>2, SumsDef
<1>ints. /\ \A j \in 0 .. Len(q) : sum[j] \in Int
       /\ \A j \in 1 .. Len(q) : EntrySize[q[j]] \in Int
  <2>1. \A j \in 0 .. Len(q) : sum[j] \in Int
    BY <1>3
  <2>2. \A j \in 1 .. Len(q) : q[j] \in Keys
    OBVIOUS
  <2>3. QED
    BY <2>1, <2>2, ConstantsAssumption
<1>4. EntrySize[k] \in Int
  BY ConstantsAssumption
<1> DEFINE more == [i \in 0 .. Len(r) |->
                      IF i = 0 THEN 0 ELSE sum[i - 1] + EntrySize[k]]
<1>5. more \in [0 .. Len(r) -> Int] /\ more[0] = 0
  BY <1>1, <1>3, <1>4
<1>6. ASSUME NEW i \in 1 .. Len(r)
      PROVE  more[i] = more[i - 1] + EntrySize[r[i]]
  <2>1. CASE i = 1
    BY <1>1, <1>3, <1>4, <2>1
  <2>2. CASE i # 1
    <3>1. /\ i - 1 \in 1 .. Len(q) /\ r[i] = q[i - 1]
          /\ (i - 1) - 1 \in 0 .. Len(q)
      BY <1>1, <2>2
    <3>2. sum[i - 1] = sum[(i - 1) - 1] + EntrySize[q[i - 1]]
      BY <1>3, <3>1
    <3>3. /\ more[i] = sum[i - 1] + EntrySize[k]
          /\ more[i - 1] = sum[(i - 1) - 1] + EntrySize[k]
      BY <1>1, <2>2
    <3>4. EntrySize[q[i - 1]] \in Int /\ sum[(i - 1) - 1] \in Int
      BY <1>ints, <3>1
    <3>5. QED
      BY <1>4, <3>1, <3>2, <3>3, <3>4
  <2>3. QED
    BY <2>1, <2>2
<1>7. Sums(r, more) /\ more[Len(r)] = sum[Len(q)] + EntrySize[k]
  <2>1. Sums(r, more)
    BY <1>1, <1>5, <1>6, SumsDef
  <2>2. more[Len(r)] = sum[Len(q)] + EntrySize[k]
    BY <1>1
  <2>3. QED
    BY <2>1, <2>2
<1> HIDE DEF more
<1>8. Bytes(q) = sum[Len(q)] /\ Bytes(r) = more[Len(r)]
  BY <1>1, <1>2, <1>7, BytesProperties
<1>9. QED
  BY <1>7, <1>8 DEF r

\* Where the elements of a list are after one is removed.
LEMMA RemoveAtShape ==
  ASSUME NEW S, NEW q \in Seq(S), NEW i \in 1 .. Len(q)
  PROVE  /\ RemoveAt(q, i) \in Seq(S)
         /\ Len(RemoveAt(q, i)) = Len(q) - 1
         /\ \A j \in 1 .. Len(q) - 1 :
              RemoveAt(q, i)[j] = IF j < i THEN q[j] ELSE q[j + 1]
<1> DEFINE a == SubSeq(q, 1, i - 1)
           b == SubSeq(q, i + 1, Len(q))
<1>1. a \in Seq(S) /\ Len(a) = i - 1 /\ \A j \in 1 .. i - 1 : a[j] = q[j]
  BY SubSeqProperties
<1>2. b \in Seq(S) /\ Len(b) = Len(q) - i /\ \A j \in 1 .. Len(q) - i : b[j] = q[i + j]
  BY SubSeqProperties
<1>3. RemoveAt(q, i) = a \o b
  BY DEF RemoveAt
<1> HIDE DEF a, b
<1>4. /\ a \o b \in Seq(S)
      /\ Len(a \o b) = Len(a) + Len(b)
      /\ \A j \in 1 .. Len(a) + Len(b) :
           (a \o b)[j] = IF j <= Len(a) THEN a[j] ELSE b[j - Len(a)]
  BY <1>1, <1>2, ConcatProperties
<1>5. Len(q) \in Nat /\ Len(a) + Len(b) = Len(q) - 1
  BY <1>1, <1>2
<1>6. ASSUME NEW j \in 1 .. Len(q) - 1
      PROVE  (a \o b)[j] = IF j < i THEN q[j] ELSE q[j + 1]
  <2>1. CASE j < i
    BY <1>1, <1>4, <1>5, <2>1
  <2>2. CASE ~ (j < i)
    <3>1. (a \o b)[j] = b[j - Len(a)] /\ j - Len(a) \in 1 .. Len(q) - i
      BY <1>1, <1>4, <1>5, <2>2
    <3>2. i + (j - Len(a)) = j + 1
      BY <1>1
    <3>3. QED
      BY <1>2, <2>2, <3>1, <3>2
  <2>3. QED
    BY <2>1, <2>2
<1>7. QED
  BY <1>3, <1>4, <1>5, <1>6

\* A removed entry takes its size along.
LEMMA BytesRemoveAt ==
  ASSUME NEW q \in Seq(Keys), NEW i \in 1 .. Len(q)
  PROVE  Bytes(RemoveAt(q, i)) = Bytes(q) - EntrySize[q[i]]
<1> DEFINE r == RemoveAt(q, i)
           e == EntrySize[q[i]]
<1>1. /\ r \in Seq(Keys) /\ Len(r) = Len(q) - 1 /\ Len(q) \in Nat \ {0}
      /\ \A j \in 1 .. Len(q) - 1 : r[j] = IF j < i THEN q[j] ELSE q[j + 1]
  BY RemoveAtShape
<1>2. PICK sum : Sums(q, sum)
  BY BytesProperties
<1>3. /\ sum \in [0 .. Len(q) -> Int] /\ sum[0] = 0
      /\ \A j \in 1 .. Len(q) : sum[j] = sum[j - 1] + EntrySize[q[j]]
  BY <1>2, SumsDef
<1>ints. /\ \A j \in 0 .. Len(q) : sum[j] \in Int
       /\ \A j \in 1 .. Len(q) : EntrySize[q[j]] \in Int
  <2>1. \A j \in 0 .. Len(q) : sum[j] \in Int
    BY <1>3
  <2>2. \A j \in 1 .. Len(q) : q[j] \in Keys
    OBVIOUS
  <2>3. QED
    BY <2>1, <2>2, ConstantsAssumption
<1>4. e \in Int
  BY ConstantsAssumption
<1> HIDE DEF r
<1> DEFINE less == [j \in 0 .. Len(r) |->
                      IF j < i THEN sum[j] ELSE sum[j + 1] - e]
<1>5. less \in [0 .. Len(r) -> Int] /\ less[0] = 0
  <2> HIDE DEF e
  <2>1. QED
    BY <1>1, <1>3, <1>4
<1>6. ASSUME NEW j \in 1 .. Len(r)
      PROVE  less[j] = less[j - 1] + EntrySize[r[j]]
  <2>1. CASE j < i
    <3>1. r[j] = q[j] /\ j \in 1 .. Len(q) /\ j - 1 \in 0 .. Len(r)
      BY <1>1, <2>1
    <3>2. less[j] = sum[j] /\ less[j - 1] = sum[j - 1]
      BY <2>1, <3>1
    <3>3. QED
      BY <1>3, <3>1, <3>2
  <2>2. CASE j = i
    <3>1. r[j] = q[j + 1] /\ j + 1 \in 1 .. Len(q) /\ j - 1 \in 0 .. Len(r)
      BY <1>1, <2>2
    <3>2. less[j] = sum[j + 1] - e /\ less[j - 1] = sum[j - 1]
      BY <2>2, <3>1
    <3>3. sum[j + 1] = sum[j] + EntrySize[q[j + 1]] /\ sum[j] = sum[j - 1] + e
      BY <1>1, <1>3, <2>2, <3>1
    <3>4. EntrySize[q[j + 1]] \in Int /\ sum[j - 1] \in Int
      BY <1>1, <1>ints, <3>1
    <3>5. QED
      BY <1>4, <3>1, <3>2, <3>3, <3>4
  <2>3. CASE j > i
    <3>1. /\ r[j] = q[j + 1] /\ j + 1 \in 1 .. Len(q) /\ j - 1 \in 0 .. Len(r)
          /\ ~ (j - 1 < i) /\ (j - 1) + 1 = j
      BY <1>1, <2>3
    <3>2. less[j] = sum[j + 1] - e /\ less[j - 1] = sum[j] - e
      BY <2>3, <3>1
    <3>3. sum[j + 1] = sum[j] + EntrySize[q[j + 1]]
      BY <1>3, <3>1
    <3>4. EntrySize[q[j + 1]] \in Int /\ sum[j] \in Int
      BY <1>1, <1>ints, <3>1
    <3>5. QED
      BY <1>4, <3>1, <3>2, <3>3, <3>4
  <2>4. QED
    BY <2>1, <2>2, <2>3
<1>7. Sums(r, less)
  BY <1>1, <1>5, <1>6, SumsDef
<1>8. less[Len(r)] = sum[Len(q)] - e
  <2>1. CASE i = Len(q)
    <3>1. less[Len(r)] = sum[Len(q) - 1] /\ sum[Len(q)] = sum[Len(q) - 1] + e
      BY <1>1, <1>3, <2>1
    <3>2. Len(q) - 1 \in 0 .. Len(q) /\ sum[Len(q) - 1] \in Int
      BY <1>1, <1>ints
    <3>3. QED
      BY <1>4, <3>1, <3>2
  <2>2. CASE i # Len(q)
    BY <1>1, <2>2
  <2>3. QED
    BY <2>1, <2>2
<1> HIDE DEF less
<1>9. Bytes(q) = sum[Len(q)] /\ Bytes(r) = less[Len(r)]
  BY <1>1, <1>2, <1>7, BytesProperties
<1>10. QED
  BY <1>8, <1>9 DEF r

\* The tail of a list is removed like any other entry.
LEMMA FrontRemoves ==
  ASSUME NEW S, NEW q \in Seq(S), q # << >>
  PROVE  Len(q) \in 1 .. Len(q) /\ Front(q) = RemoveAt(q, Len(q))
<1>1. Len(q) \in 1 .. Len(q)
  OBVIOUS
<1>2. /\ Front(q) \in Seq(S) /\ Len(Front(q)) = Len(q) - 1
      /\ \A j \in 1 .. Len(q) - 1 : Front(q)[j] = q[j]
  BY FrontProperties
<1>3. /\ RemoveAt(q, Len(q)) \in Seq(S) /\ Len(RemoveAt(q, Len(q))) = Len(q) - 1
      /\ \A j \in 1 .. Len(q) - 1 : RemoveAt(q, Len(q))[j] = q[j]
  BY <1>1, RemoveAtShape
<1>4. QED
  BY <1>1, <1>2, <1>3, SeqEqual

\* Removing one position of a list without repetitions removes its key.
LEMMA RemoveAtKeys ==
  ASSUME NEW q \in Seq(Keys), NEW i \in 1 .. Len(q)
  PROVE  IsInjective(q) => /\ IsInjective(RemoveAt(q, i))
                           /\ ToSet(RemoveAt(q, i)) = ToSet(q) \ {q[i]}
<1> DEFINE r == RemoveAt(q, i)
<1>1. /\ r \in Seq(Keys) /\ Len(r) = Len(q) - 1 /\ Len(q) \in Nat
      /\ \A j \in 1 .. Len(q) - 1 : r[j] = IF j < i THEN q[j] ELSE q[j + 1]
  BY RemoveAtShape
<1> HIDE DEF r
<1>2. DOMAIN r = 1 .. Len(q) - 1 /\ DOMAIN q = 1 .. Len(q)
  BY <1>1
<1> SUFFICES ASSUME IsInjective(q)
             PROVE  IsInjective(r) /\ ToSet(r) = ToSet(q) \ {q[i]}
  BY DEF r
<1>3. \A a, b \in 1 .. Len(q) : q[a] = q[b] => a = b
  BY <1>2 DEF IsInjective
<1>4. IsInjective(r)
  <2> SUFFICES ASSUME NEW a \in 1 .. Len(q) - 1, NEW b \in 1 .. Len(q) - 1,
                      r[a] = r[b]
               PROVE  a = b
    BY <1>2 DEF IsInjective
  <2>1. /\ a \in 1 .. Len(q) /\ a + 1 \in 1 .. Len(q)
        /\ b \in 1 .. Len(q) /\ b + 1 \in 1 .. Len(q)
    BY <1>1
  <2>2. /\ r[a] = IF a < i THEN q[a] ELSE q[a + 1]
        /\ r[b] = IF b < i THEN q[b] ELSE q[b + 1]
    BY <1>1
  <2>3. CASE a < i /\ b < i
    BY <1>3, <2>1, <2>2, <2>3
  <2>4. CASE a < i /\ ~ (b < i)
    <3>1. q[a] = q[b + 1]
      BY <2>2, <2>4
    <3>2. a = b + 1
      BY <1>3, <2>1, <3>1
    <3>3. QED
      BY <2>4, <3>2
  <2>5. CASE ~ (a < i) /\ b < i
    <3>1. q[a + 1] = q[b]
      BY <2>2, <2>5
    <3>2. a + 1 = b
      BY <1>3, <2>1, <3>1
    <3>3. QED
      BY <2>5, <3>2
  <2>6. CASE ~ (a < i) /\ ~ (b < i)
    <3>1. q[a + 1] = q[b + 1]
      BY <2>2, <2>6
    <3>2. a + 1 = b + 1
      BY <1>3, <2>1, <3>1
    <3>3. QED
      BY <3>2
  <2>7. QED
    BY <2>3, <2>4, <2>5, <2>6
<1>5. ASSUME NEW j \in 1 .. Len(q) - 1
      PROVE  \E m \in 1 .. Len(q) : m # i /\ r[j] = q[m]
  <2>1. CASE j < i
    BY <1>1, <2>1
  <2>2. CASE ~ (j < i)
    <3>1. j + 1 \in 1 .. Len(q) /\ j + 1 # i /\ r[j] = q[j + 1]
      BY <1>1, <2>2
    <3>2. QED
      BY <3>1
  <2>3. QED
    BY <2>1, <2>2
<1>6. ASSUME NEW m \in 1 .. Len(q), m # i
      PROVE  \E j \in 1 .. Len(q) - 1 : r[j] = q[m]
  <2>1. CASE m < i
    <3>1. m \in 1 .. Len(q) - 1 /\ r[m] = q[m]
      BY <1>1, <2>1
    <3>2. QED
      BY <3>1
  <2>2. CASE m > i
    <3>1. m - 1 \in 1 .. Len(q) - 1 /\ ~ (m - 1 < i) /\ (m - 1) + 1 = m
      BY <1>1, <2>2
    <3>2. r[m - 1] = q[m]
      BY <1>1, <3>1
    <3>3. QED
      BY <3>1, <3>2
  <2>3. QED
    BY <1>6, <2>1, <2>2
<1>7. ToSet(r) = {r[j] : j \in 1 .. Len(q) - 1} /\ ToSet(q) = {q[m] : m \in 1 .. Len(q)}
  BY <1>2 DEF ToSet
<1>8. ToSet(r) = ToSet(q) \ {q[i]}
  <2>1. ASSUME NEW j \in 1 .. Len(q) - 1 PROVE r[j] \in ToSet(q) \ {q[i]}
    <3>1. PICK m \in 1 .. Len(q) : m # i /\ r[j] = q[m]
      BY <1>5
    <3>2. q[m] # q[i]
      BY <1>3, <3>1
    <3>3. QED
      BY <1>7, <3>1, <3>2
  <2>2. ASSUME NEW m \in 1 .. Len(q), q[m] # q[i] PROVE q[m] \in ToSet(r)
    BY <1>6, <1>7, <2>2
  <2>3. QED
    BY <1>7, <2>1, <2>2
<1>9. QED
  BY <1>4, <1>8

\* A new key in front of a list.
LEMMA ToFrontKeys ==
  ASSUME NEW q \in Seq(Keys), NEW k \in Keys
  PROVE  /\ <<k>> \o q # << >>
         /\ (<<k>> \o q)[1] = k
         /\ ToSet(<<k>> \o q) = ToSet(q) \cup {k}
         /\ IsInjective(q) /\ k \notin ToSet(q) => IsInjective(<<k>> \o q)
<1> DEFINE r == <<k>> \o q
<1>1. /\ r \in Seq(Keys) /\ Len(r) = Len(q) + 1 /\ Len(q) \in Nat
      /\ r[1] = k
      /\ \A j \in 2 .. Len(q) + 1 : r[j] = q[j - 1]
  OBVIOUS
<1> HIDE DEF r
<1>2. DOMAIN r = 1 .. Len(q) + 1 /\ DOMAIN q = 1 .. Len(q)
  BY <1>1
<1>3. r # << >>
  BY <1>1
<1>4. ToSet(r) = {r[j] : j \in 1 .. Len(q) + 1} /\ ToSet(q) = {q[j] : j \in 1 .. Len(q)}
  BY <1>2 DEF ToSet
<1>5. \A j \in 1 .. Len(q) : j + 1 \in 2 .. Len(q) + 1 /\ r[j + 1] = q[j]
  BY <1>1
<1>6. \A j \in 1 .. Len(q) + 1 :
        \/ j = 1
        \/ j \in 2 .. Len(q) + 1 /\ j - 1 \in 1 .. Len(q) /\ r[j] = q[j - 1]
  BY <1>1
<1>7. ToSet(r) = ToSet(q) \cup {k}
  <2>1. ASSUME NEW j \in 1 .. Len(q) + 1 PROVE r[j] \in ToSet(q) \cup {k}
    BY <1>1, <1>4, <1>6
  <2>2. ASSUME NEW j \in 1 .. Len(q) PROVE q[j] \in ToSet(r)
    <3>1. j + 1 \in 1 .. Len(q) + 1 /\ r[j + 1] = q[j]
      BY <1>1, <1>5
    <3>2. QED
      BY <1>4, <3>1
  <2>3. k \in ToSet(r)
    BY <1>1, <1>4
  <2>4. QED
    BY <1>4, <2>1, <2>2, <2>3
<1>8. ASSUME IsInjective(q), k \notin ToSet(q) PROVE IsInjective(r)
  <2> SUFFICES ASSUME NEW a \in 1 .. Len(q) + 1, NEW b \in 1 .. Len(q) + 1,
                      r[a] = r[b]
               PROVE  a = b
    BY <1>2 DEF IsInjective
  <2>1. \A x, y \in 1 .. Len(q) : q[x] = q[y] => x = y
    BY <1>2, <1>8 DEF IsInjective
  <2>2. \A x \in 1 .. Len(q) : q[x] # k
    BY <1>4, <1>8
  <2>3. CASE a = 1 \/ b = 1
    BY <1>1, <1>6, <2>2, <2>3
  <2>4. CASE a # 1 /\ b # 1
    <3>1. a - 1 \in 1 .. Len(q) /\ r[a] = q[a - 1]
      BY <1>6, <2>4
    <3>2. b - 1 \in 1 .. Len(q) /\ r[b] = q[b - 1]
      BY <1>6, <2>4
    <3>3. a - 1 = b - 1
      BY <2>1, <3>1, <3>2
    <3>4. a \in Nat /\ b \in Nat
      BY <1>1
    <3>5. QED
      BY <3>3, <3>4
  <2>5. QED
    BY <2>3, <2>4
<1>9. QED
  BY <1>1, <1>3, <1>7, <1>8 DEF r

\* What Get and Add do with an entry they find.
LEMMA MoveToFront ==
  ASSUME NEW q \in Seq(Keys), NEW i \in 1 .. Len(q), IsInjective(q)
  PROVE  LET r == <<q[i]>> \o RemoveAt(q, i)
         IN  /\ r \in Seq(Keys) /\ r # << >> /\ r[1] = q[i]
             /\ Bytes(r) = Bytes(q)
             /\ IsInjective(r)
             /\ ToSet(r) = ToSet(q)
<1> DEFINE k == q[i]
           rest == RemoveAt(q, i)
<1>1. k \in Keys /\ k \in ToSet(q)
  BY DEF ToSet
<1>2. rest \in Seq(Keys)
  BY RemoveAtShape
<1>3. IsInjective(rest) /\ ToSet(rest) = ToSet(q) \ {k}
  BY RemoveAtKeys
<1>4. Bytes(rest) = Bytes(q) - EntrySize[k]
  BY BytesRemoveAt
<1>5. Bytes(q) \in Int /\ EntrySize[k] \in Int
  <2>1. PICK sum : Sums(q, sum)
    BY BytesProperties
  <2>2. Len(q) \in Nat /\ sum \in [0 .. Len(q) -> Int]
    BY <2>1, SumsDef
  <2>3. Bytes(q) = sum[Len(q)]
    BY <2>1, BytesProperties
  <2>4. QED
    BY <1>1, <2>2, <2>3, ConstantsAssumption
<1> HIDE DEF k, rest
<1>6. <<k>> \o rest \in Seq(Keys)
  BY <1>1, <1>2
<1>7. Bytes(<<k>> \o rest) = Bytes(q)
  BY <1>1, <1>2, <1>4, <1>5, BytesToFront
<1>8. /\ <<k>> \o rest # << >> /\ (<<k>> \o rest)[1] = k
      /\ ToSet(<<k>> \o rest) = ToSet(q)
      /\ IsInjective(<<k>> \o rest)
  <2>1. k \notin ToSet(rest) /\ ToSet(rest) \cup {k} = ToSet(q)
    BY <1>1, <1>3
  <2>2. /\ <<k>> \o rest # << >> /\ (<<k>> \o rest)[1] = k
        /\ ToSet(<<k>> \o rest) = ToSet(rest) \cup {k}
        /\ IsInjective(rest) /\ k \notin ToSet(rest) => IsInjective(<<k>> \o rest)
    BY <1>1, <1>2, ToFrontKeys
  <2>3. QED
    BY <1>3, <2>1, <2>2
<1>9. QED
  BY <1>6, <1>7, <1>8 DEF k, rest

\* What one turn of the eviction loop does to a list.
LEMMA DropTail ==
  ASSUME NEW q \in Seq(Keys), q # << >>, IsInjective(q)
  PROVE  /\ Last(q) \in ToSet(q)
         /\ Front(q) \in Seq(Keys)
         /\ Bytes(Front(q)) = Bytes(q) - EntrySize[Last(q)]
         /\ IsInjective(Front(q))
         /\ ToSet(Front(q)) = ToSet(q) \ {Last(q)}
         /\ \/ Bytes(q) = EntrySize[q[1]]
            \/ Front(q) # << >> /\ Front(q)[1] = q[1] /\ Last(q) # q[1]
<1>1. Len(q) \in 1 .. Len(q) /\ Front(q) = RemoveAt(q, Len(q))
  BY FrontRemoves
<1>2. Last(q) = q[Len(q)]
  BY DEF Last
<1>3. /\ IsInjective(Front(q)) /\ ToSet(Front(q)) = ToSet(q) \ {Last(q)}
      /\ Bytes(Front(q)) = Bytes(q) - EntrySize[Last(q)]
  BY <1>1, <1>2, RemoveAtKeys, BytesRemoveAt
<1>4. /\ Front(q) \in Seq(Keys) /\ Len(Front(q)) = Len(q) - 1
      /\ \A j \in 1 .. Len(q) - 1 : Front(q)[j] = q[j]
  BY FrontProperties
<1>7. Last(q) \in ToSet(q)
  BY <1>1, <1>2 DEF ToSet
<1>5. CASE Len(q) = 1
  <2>1. Front(q) = << >>
    BY <1>4, <1>5
  <2>2. Bytes(q) \in Int /\ EntrySize[q[1]] \in Int
    <3>1. PICK sum : Sums(q, sum)
      BY BytesProperties
    <3>2. Len(q) \in Nat /\ sum \in [0 .. Len(q) -> Int]
      BY <3>1, SumsDef
    <3>3. Bytes(q) = sum[Len(q)]
      BY <3>1, BytesProperties
    <3>4. q[1] \in Keys
      BY <1>5
    <3>5. QED
      BY <3>2, <3>3, <3>4, ConstantsAssumption
  <2>3. Bytes(q) = EntrySize[q[1]]
    BY <1>2, <1>3, <1>5, <2>1, <2>2, BytesEmpty
  <2>4. QED
    BY <1>3, <1>4, <1>7, <2>3
<1>6. CASE Len(q) # 1
  <2>1. Front(q) # << >> /\ Front(q)[1] = q[1]
    BY <1>1, <1>4, <1>6
  <2>2. Last(q) # q[1]
    BY <1>1, <1>2, <1>6 DEF IsInjective
  <2>3. QED
    BY <1>3, <1>4, <1>7, <2>1, <2>2
<1>8. QED
  BY <1>5, <1>6

-----------------------------------------------------------------------------
(* The accounts *)

\* The entry of a thread is the first of its shard.
AtFront(t) == lru[Shard(t)] # << >> /\ lru[Shard(t)][1] = key[t]

\* What the unlocked checks of Add found stays true of an entry that is being
\* inserted, and the eviction loop has it in front of its list.
StoringInv ==
  \A t \in Threads :
    /\ pc[t] \in {"insert", "evict"} =>
         key[t] \notin Oversized /\ EntrySize[key[t]] <= ShardBudget(Shard(t))
    /\ pc[t] = "evict" => AtFront(t)

\* Moving an entry to the front changes no account and no set of keys.
MovedToFront(t) ==
  /\ Cached(key[t])
  /\ \A s \in Shards : s # Shard(t) => lru'[s] = lru[s]
  /\ \A s \in Shards : /\ Bytes(lru'[s]) = Bytes(lru[s])
                       /\ IsInjective(lru'[s])
                       /\ ToSet(lru'[s]) = ToSet(lru[s])
  /\ AtFront(t)'

\* Get and Add move an entry they find; this is all that happens to the lists.
LEMMA MoveEffect ==
  ASSUME TypeOK, UsedMatchesEntries, NEW t \in Threads, key' = key,
         NEW i \in 1 .. Len(lru[Shard(t)]), lru[Shard(t)][i] = key[t],
         lru' = [lru EXCEPT ![Shard(t)] = <<key[t]>> \o RemoveAt(@, i)]
  PROVE  MovedToFront(t)
<1> DEFINE s == Shard(t)
           q == lru[s]
<1>1. s \in Shards /\ q \in Seq(Keys) /\ key[t] \in Keys /\ s = ShardOf[key[t]]
  BY ConstantsAssumption DEF TypeOK, Shard
<1>2. IsInjective(q)
  BY <1>1 DEF UsedMatchesEntries
<1>3. lru' = [lru EXCEPT ![s] = <<q[i]>> \o RemoveAt(q, i)] /\ DOMAIN lru = Shards
  BY DEF TypeOK
<1>4. key[t] \in ToSet(q) /\ q[i] = key[t]
  <2>1. q[i] = key[t] /\ i \in 1 .. Len(q)
    OBVIOUS
  <2>2. DOMAIN q = 1 .. Len(q)
    BY <1>1
  <2>3. QED
    BY <2>1, <2>2 DEF ToSet
<1>5. s' = s
  BY DEF Shard
<1>6. i \in 1 .. Len(q)
  OBVIOUS
<1> HIDE DEF s, q
<1> DEFINE r == <<q[i]>> \o RemoveAt(q, i)
<1>7. /\ r \in Seq(Keys) /\ r # << >> /\ r[1] = q[i] /\ Bytes(r) = Bytes(q)
      /\ IsInjective(r) /\ ToSet(r) = ToSet(q)
  BY <1>1, <1>2, <1>6, MoveToFront
<1> HIDE DEF r
<1>8. lru' = [lru EXCEPT ![s] = r] /\ DOMAIN lru = Shards /\ q = lru[s]
  BY <1>3 DEF r, q
<1>9. lru'[s] = r /\ \A u \in Shards : u # s => lru'[u] = lru[u]
  BY <1>1, <1>8
<1>10. AtFront(t)'
  BY <1>4, <1>5, <1>7, <1>9 DEF AtFront, s
<1>11. Cached(key[t])
  BY <1>1, <1>4 DEF Cached, q
<1>12. \A u \in Shards : IsInjective(lru[u])
  BY DEF UsedMatchesEntries
<1>13. QED
  BY <1>7, <1>8, <1>9, <1>10, <1>11, <1>12 DEF MovedToFront, s

\* A hit of Get moves the entry of its key to the front.
LEMMA GetHitMoves ==
  ASSUME TypeOK, UsedMatchesEntries, NEW t \in Threads, NEW here, GetHit(t, here)
  PROVE  MovedToFront(t)
<1>1. PICK i \in 1 .. Len(lru[Shard(t)]) :
        /\ lru[Shard(t)][i] = key[t]
        /\ lru' = [lru EXCEPT ![Shard(t)] = <<key[t]>> \o RemoveAt(@, i)]
  BY DEF GetHit
<1>2. key' = key
  BY DEF GetHit, callVars
<1>3. QED
  BY <1>1, <1>2, MoveEffect

\* So does an Add that finds its key listed.
LEMMA InsertReplaceMoves ==
  ASSUME TypeOK, UsedMatchesEntries, NEW t \in Threads, InsertReplace(t)
  PROVE  MovedToFront(t)
<1>1. PICK i \in 1 .. Len(lru[Shard(t)]) :
        /\ lru[Shard(t)][i] = key[t]
        /\ lru' = [lru EXCEPT ![Shard(t)] = <<key[t]>> \o RemoveAt(@, i)]
  BY DEF InsertReplace
<1>2. key' = key
  BY DEF InsertReplace, callVars
<1>3. QED
  BY <1>1, <1>2, MoveEffect

\* A new entry is charged to its shard and is its first.
Inserted(t) ==
  /\ \A s \in Shards : s # Shard(t) => lru'[s] = lru[s] /\ used'[s] = used[s]
  /\ Bytes(lru'[Shard(t)]) = Bytes(lru[Shard(t)]) + EntrySize[key[t]]
  /\ used'[Shard(t)] = used[Shard(t)] + EntrySize[key[t]]
  /\ IsInjective(lru'[Shard(t)])
  /\ ToSet(lru'[Shard(t)]) = ToSet(lru[Shard(t)]) \cup {key[t]}
  /\ AtFront(t)'

\* An Add of a key that is not listed.
LEMMA InsertNewEffect ==
  ASSUME TypeOK, UsedMatchesEntries, NEW t \in Threads, InsertNew(t)
  PROVE  Inserted(t)
<1> DEFINE s == Shard(t)
           q == lru[s]
           r == <<key[t]>> \o q
<1>1. s \in Shards /\ q \in Seq(Keys) /\ key[t] \in Keys /\ s = ShardOf[key[t]]
  BY ConstantsAssumption DEF TypeOK, Shard
<1>2. IsInjective(q)
  BY <1>1 DEF UsedMatchesEntries
<1>3. key[t] \notin ToSet(q)
  BY <1>1 DEF InsertNew, Cached
<1>4. lru' = [lru EXCEPT ![s] = r] /\ DOMAIN lru = Shards
  BY DEF TypeOK, InsertNew
<1>5. used' = [used EXCEPT ![s] = @ + EntrySize[key[t]]] /\ DOMAIN used = Shards
  BY DEF TypeOK, InsertNew
<1>6. s' = s /\ key' = key
  BY DEF Shard, InsertNew, callVars
<1> HIDE DEF s
<1>7. /\ r # << >> /\ r[1] = key[t] /\ ToSet(r) = ToSet(q) \cup {key[t]}
      /\ IsInjective(r) /\ Bytes(r) = Bytes(q) + EntrySize[key[t]]
  <2> HIDE DEF q
  <2>1. QED
    BY <1>1, <1>2, <1>3, ToFrontKeys, BytesToFront
<1> HIDE DEF r
<1>8. lru'[s] = r /\ \A u \in Shards : u # s => lru'[u] = lru[u]
  BY <1>1, <1>4
<1>9. /\ used'[s] = used[s] + EntrySize[key[t]]
      /\ \A u \in Shards : u # s => used'[u] = used[u]
  BY <1>1, <1>5
<1>10. AtFront(t)'
  BY <1>6, <1>7, <1>8 DEF AtFront, s
<1>11. QED
  BY <1>7, <1>8, <1>9, <1>10 DEF Inserted, s

\* An eviction takes an entry that is not the one being stored, and its bytes.
Evicted(t) ==
  /\ \A s \in Shards : s # Shard(t) => lru'[s] = lru[s] /\ used'[s] = used[s]
  /\ \E k \in ToSet(lru[Shard(t)]) \ {key[t]} :
       /\ Bytes(lru'[Shard(t)]) = Bytes(lru[Shard(t)]) - EntrySize[k]
       /\ used'[Shard(t)] = used[Shard(t)] - EntrySize[k]
       /\ IsInjective(lru'[Shard(t)])
       /\ ToSet(lru'[Shard(t)]) = ToSet(lru[Shard(t)]) \ {k}
  /\ AtFront(t)'

\* The loop runs only while the entry in front is not alone in its shard: alone
\* it fits, as Add has checked, and the account says so.
LEMMA EvictNotOwn ==
  ASSUME TypeOK, UsedMatchesEntries, StoringInv, NEW t \in Threads, Evict(t)
  PROVE  Evicted(t)
<1> DEFINE s == Shard(t)
           q == lru[s]
<1>1. s \in Shards /\ q \in Seq(Keys) /\ key[t] \in Keys /\ s = ShardOf[key[t]]
  BY ConstantsAssumption DEF TypeOK, Shard
<1>2. IsInjective(q) /\ used[s] = Bytes(q)
  BY <1>1 DEF UsedMatchesEntries, BytesOf
<1>3. /\ lru' = [lru EXCEPT ![s] = Front(q)] /\ DOMAIN lru = Shards
      /\ used' = [used EXCEPT ![s] = @ - EntrySize[Last(q)]] /\ DOMAIN used = Shards
  BY DEF TypeOK, Evict
<1>4. s' = s /\ key' = key
  BY DEF Shard, Evict, callVars
<1>5. q # << >> /\ q[1] = key[t] /\ EntrySize[key[t]] <= ShardBudget(s)
  BY DEF StoringInv, AtFront, Evict
<1>6. used[s] > ShardBudget(s)
  BY DEF Evict
<1>7. EntrySize[key[t]] \in Int /\ ShardBudget(s) \in Int
  BY <1>1, ShardBudgetNat, ConstantsAssumption
<1> HIDE DEF s, q
<1>8. Bytes(q) # EntrySize[q[1]]
  BY <1>2, <1>5, <1>6, <1>7
<1>9. /\ Last(q) \in ToSet(q)
      /\ Bytes(Front(q)) = Bytes(q) - EntrySize[Last(q)]
      /\ IsInjective(Front(q))
      /\ ToSet(Front(q)) = ToSet(q) \ {Last(q)}
      /\ Front(q) # << >> /\ Front(q)[1] = q[1] /\ Last(q) # q[1]
  BY <1>1, <1>2, <1>5, <1>8, DropTail
<1>10. lru'[s] = Front(q) /\ \A u \in Shards : u # s => lru'[u] = lru[u]
  BY <1>1, <1>3
<1>11. /\ used'[s] = used[s] - EntrySize[Last(q)]
       /\ \A u \in Shards : u # s => used'[u] = used[u]
  BY <1>1, <1>3
<1>12. AtFront(t)'
  BY <1>4, <1>5, <1>9, <1>10 DEF AtFront, s
<1>13. q = lru[s]
  BY DEF q
<1>14. Last(q) \in ToSet(lru[s]) \ {key[t]}
  BY <1>5, <1>9, <1>13
<1>15. QED
  BY <1>9, <1>10, <1>11, <1>12, <1>13, <1>14 DEF Evicted, s

\* The actions that touch the cache; every other step leaves it alone.
LEMMA CacheSteps ==
  ASSUME [Next]_vars
  PROVE  \/ UNCHANGED cacheVars
         \/ \E t \in Threads : \/ GetHit(t, "getShard")
                               \/ GetHit(t, "regetShard")
                               \/ InsertNew(t)
                               \/ InsertReplace(t)
                               \/ Evict(t)
         \/ ClearShard
BY DEF Next, Step, Get, vars, Enter, GetLoad, GetMiss, LockFlights, Recheck,
       Lead, Follow, Wake, Fail, Succeed, Add, InsertRefused, Unlock,
       ReleaseFlight, ReleaseNothing, Request, Enable, Disable

\* Every step keeps the accounts of the shards.
LEMMA AccountStep ==
  ASSUME TypeOK, UsedMatchesEntries, StoringInv, [Next]_vars
  PROVE  UsedMatchesEntries'
<1> USE DEF UsedMatchesEntries, BytesOf
<1>1. CASE UNCHANGED cacheVars
  BY <1>1 DEF cacheVars
<1>2. ASSUME NEW t \in Threads, NEW here, GetHit(t, here)
      PROVE  UsedMatchesEntries'
  <2>1. MovedToFront(t) /\ used' = used
    BY <1>2, GetHitMoves DEF GetHit
  <2>2. QED
    BY <2>1 DEF MovedToFront
<1>3. ASSUME NEW t \in Threads, InsertReplace(t)
      PROVE  UsedMatchesEntries'
  <2>1. MovedToFront(t) /\ used' = used
    BY <1>3, InsertReplaceMoves, InsertReplaceEffect DEF ReplaceEffect, TypeOK
  <2>2. QED
    BY <2>1 DEF MovedToFront
<1>4. ASSUME NEW t \in Threads, InsertNew(t)
      PROVE  UsedMatchesEntries'
  <2>1. Inserted(t) /\ key[t] \notin Oversized /\ Shard(t) = ShardOf[key[t]]
    BY <1>4, InsertNewEffect DEF StoringInv, InsertNew, Shard
  <2>2. \A s \in Shards :
          /\ used'[s] = Bytes(lru'[s]) /\ IsInjective(lru'[s])
          /\ ToSet(lru'[s]) \subseteq ToSet(lru[s]) \cup {k \in {key[t]} : s = ShardOf[k]}
    BY <2>1 DEF Inserted
  <2>3. QED
    BY <2>1, <2>2
<1>5. ASSUME NEW t \in Threads, Evict(t)
      PROVE  UsedMatchesEntries'
  <2>1. Evicted(t)
    BY <1>5, EvictNotOwn
  <2>2. \A s \in Shards :
          /\ used'[s] = Bytes(lru'[s]) /\ IsInjective(lru'[s])
          /\ ToSet(lru'[s]) \subseteq ToSet(lru[s])
    BY <2>1 DEF Evicted
  <2>3. QED
    BY <2>2
<1>6. CASE ClearShard
  <2>1. \A s \in Shards : \/ lru'[s] = << >> /\ used'[s] = 0
                          \/ lru'[s] = lru[s] /\ used'[s] = used[s]
    BY <1>6 DEF ClearShard, TypeOK
  <2>2. IsInjective(<< >>) /\ ToSet(<< >>) = {} /\ Bytes(<< >>) = 0
    BY BytesEmpty, EmptyToSet DEF IsInjective
  <2>3. QED
    BY <2>1, <2>2
<1>7. QED
  BY <1>1, <1>2, <1>3, <1>4, <1>5, <1>6, CacheSteps

\* A thread that stores has its shard to itself.
LEMMA AloneInShard ==
  ASSUME TypeOK, LocksInv, NEW t \in Threads
  PROVE  /\ \A u \in Threads : Shard(u) \in Shards
         /\ holder[Shard(t)] = NoThread =>
              \A u \in Threads : pc[u] = "evict" => Shard(u) # Shard(t)
         /\ pc[t] = "evict" =>
              \A u \in Threads : u # t /\ pc[u] = "evict" => Shard(u) # Shard(t)
<1>1. \A u \in Threads : Shard(u) \in Shards
  BY ConstantsAssumption DEF TypeOK, Shard
<1>2. \A u \in Threads : pc[u] = "evict" => holder[Shard(u)] = u
  BY <1>1 DEF LocksInv
<1>3. QED
  BY <1>1, <1>2, ConstantsAssumption

\* Every step keeps what the eviction loop relies on.
LEMMA StoringStep ==
  ASSUME TypeOK, LocksInv, UsedMatchesEntries, StoringInv, [Next]_vars
  PROVE  StoringInv'
<1> USE DEF StoringInv, AtFront, Shard, Goto, switchVars, cacheVars,
            flightVars, callVars
<1>t. pc \in [Threads -> Labels] /\ DOMAIN pc = Threads
  BY DEF TypeOK
<1>1. ASSUME NEW t \in Threads, Enter(t) PROVE StoringInv'
  BY <1>1, <1>t DEF Enter
<1>2. ASSUME NEW t \in Threads, GetLoad(t, "get", "getShard", "lock") PROVE StoringInv'
  BY <1>2, <1>t DEF GetLoad
<1>3. ASSUME NEW t \in Threads, GetHit(t, "getShard") PROVE StoringInv'
  <2>1. MovedToFront(t)
    BY <1>3, GetHitMoves
  <2>2. /\ \A u \in Threads : pc[u] = "evict" => Shard(u) # Shard(t)
        /\ \A u \in Threads : Shard(u) \in Shards
    BY <1>3, AloneInShard DEF GetHit
  <2>3. QED
    BY <1>3, <1>t, <2>1, <2>2 DEF GetHit, MovedToFront
<1>4. ASSUME NEW t \in Threads, GetMiss(t, "getShard", "lock") PROVE StoringInv'
  BY <1>4, <1>t DEF GetMiss
<1>5. ASSUME NEW t \in Threads, LockFlights(t) PROVE StoringInv'
  BY <1>5, <1>t DEF LockFlights
<1>6. ASSUME NEW t \in Threads, Recheck(t) PROVE StoringInv'
  BY <1>6, <1>t DEF Recheck
<1>7. ASSUME NEW t \in Threads, GetLoad(t, "reget", "regetShard", "join")
      PROVE  StoringInv'
  BY <1>7, <1>t DEF GetLoad
<1>8. ASSUME NEW t \in Threads, GetHit(t, "regetShard") PROVE StoringInv'
  <2>1. MovedToFront(t)
    BY <1>8, GetHitMoves
  <2>2. /\ \A u \in Threads : pc[u] = "evict" => Shard(u) # Shard(t)
        /\ \A u \in Threads : Shard(u) \in Shards
    BY <1>8, AloneInShard DEF GetHit
  <2>3. QED
    BY <1>8, <1>t, <2>1, <2>2 DEF GetHit, MovedToFront
<1>9. ASSUME NEW t \in Threads, GetMiss(t, "regetShard", "join") PROVE StoringInv'
  BY <1>9, <1>t DEF GetMiss
<1>10. ASSUME NEW t \in Threads, Lead(t) PROVE StoringInv'
  BY <1>10, <1>t DEF Lead
<1>11. ASSUME NEW t \in Threads, Follow(t) PROVE StoringInv'
  BY <1>11, <1>t DEF Follow
<1>12. ASSUME NEW t \in Threads, Wake(t) PROVE StoringInv'
  BY <1>12, <1>t DEF Wake
<1>13. ASSUME NEW t \in Threads, Fail(t) PROVE StoringInv'
  BY <1>13, <1>t DEF Fail
<1>14. ASSUME NEW t \in Threads, Succeed(t) PROVE StoringInv'
  BY <1>14, <1>t DEF Succeed
<1>15. ASSUME NEW t \in Threads, Add(t) PROVE StoringInv'
  BY <1>15, <1>t DEF Add
<1>16. ASSUME NEW t \in Threads, InsertRefused(t) PROVE StoringInv'
  BY <1>16, <1>t DEF InsertRefused
<1>17. ASSUME NEW t \in Threads, InsertNew(t) PROVE StoringInv'
  <2>1. Inserted(t)
    BY <1>17, InsertNewEffect
  <2>2. /\ \A u \in Threads : u # t /\ pc[u] = "evict" => Shard(u) # Shard(t)
        /\ \A u \in Threads : Shard(u) \in Shards
    BY <1>17, AloneInShard DEF InsertNew
  <2>3. pc[t] = "insert"
    BY <1>17 DEF InsertNew
  <2>4. QED
    BY <1>17, <1>t, <2>1, <2>2, <2>3 DEF InsertNew, Inserted
<1>18. ASSUME NEW t \in Threads, InsertReplace(t) PROVE StoringInv'
  <2>1. MovedToFront(t)
    BY <1>18, InsertReplaceMoves
  <2>2. /\ \A u \in Threads : u # t /\ pc[u] = "evict" => Shard(u) # Shard(t)
        /\ \A u \in Threads : Shard(u) \in Shards
    BY <1>18, AloneInShard DEF InsertReplace
  <2>3. pc[t] = "insert"
    BY <1>18 DEF InsertReplace
  <2>4. QED
    BY <1>18, <1>t, <2>1, <2>2, <2>3 DEF InsertReplace, MovedToFront
<1>19. ASSUME NEW t \in Threads, Evict(t) PROVE StoringInv'
  <2>1. Evicted(t)
    BY <1>19, EvictNotOwn
  <2>2. /\ \A u \in Threads : u # t /\ pc[u] = "evict" => Shard(u) # Shard(t)
        /\ \A u \in Threads : Shard(u) \in Shards
    BY <1>19, AloneInShard DEF Evict
  <2>3. pc[t] = "evict"
    BY <1>19 DEF Evict
  <2>4. QED
    BY <1>19, <1>t, <2>1, <2>2, <2>3 DEF Evict, Evicted
<1>20. ASSUME NEW t \in Threads, Unlock(t) PROVE StoringInv'
  BY <1>20, <1>t DEF Unlock
<1>21. ASSUME NEW t \in Threads, ReleaseFlight(t) PROVE StoringInv'
  BY <1>21, <1>t DEF ReleaseFlight
<1>22. ASSUME NEW t \in Threads, ReleaseNothing(t) PROVE StoringInv'
  BY <1>22, <1>t DEF ReleaseNothing
<1>23. ASSUME NEW t \in Threads, NEW k \in Keys, Request(t, k) PROVE StoringInv'
  BY <1>23, <1>t DEF Request, TypeOK
<1>24. ASSUME Enable PROVE StoringInv'
  BY <1>24, <1>t DEF Enable
<1>25. ASSUME Disable PROVE StoringInv'
  BY <1>25, <1>t DEF Disable
<1>26. ASSUME ClearShard PROVE StoringInv'
  <2>1. \A u \in Threads : pc[u] = "evict" => Shard(u) # clearNext
    BY <1>26, ConstantsAssumption DEF ClearShard, TypeOK, LocksInv
  <2>2. QED
    BY <1>26, <1>t, <2>1 DEF ClearShard, TypeOK
<1>27. CASE UNCHANGED vars
  BY <1>27 DEF vars
<1> QED
  BY <1>1, <1>2, <1>3, <1>4, <1>5, <1>6, <1>7, <1>8, <1>9, <1>10, <1>11,
     <1>12, <1>13, <1>14, <1>15, <1>16, <1>17, <1>18, <1>19, <1>20, <1>21,
     <1>22, <1>23, <1>24, <1>25, <1>26, <1>27
  DEF Next, Step, Get

-----------------------------------------------------------------------------
\* Only a cache that is switched off is being cleared.
ClearingInv == Clearing => ~ enabled

AInv == IInv /\ UsedMatchesEntries /\ StoringInv /\ ClearingInv

\* Enable waits for the end of a DisableAndClear.
LEMMA ClearingStep ==
  ASSUME ClearingInv, [Next]_vars
  PROVE  ClearingInv'
BY ZenonT(60) DEF ClearingInv, Clearing, switchVars, Next, Step, Get, vars, Enter,
       GetLoad, GetHit, GetMiss, LockFlights, Recheck, Lead, Follow, Wake,
       Fail, Succeed, Add, InsertRefused, InsertNew, InsertReplace, Evict,
       Unlock, ReleaseFlight, ReleaseNothing, Request, Enable, Disable,
       ClearShard

\* The strengthened invariant holds initially.
LEMMA AccountsInit == Init => AInv
<1> SUFFICES ASSUME Init PROVE AInv
  OBVIOUS
<1>1. IInv
  BY InitInv
<1>2. IsInjective(<< >>) /\ ToSet(<< >>) = {} /\ Bytes(<< >>) = 0
  BY BytesEmpty, EmptyToSet DEF IsInjective
<1>3. UsedMatchesEntries
  BY <1>2 DEF Init, UsedMatchesEntries, BytesOf
<1>4. StoringInv /\ ClearingInv
  BY DEF Init, StoringInv, ClearingInv, Clearing
<1>5. QED
  BY <1>1, <1>3, <1>4 DEF AInv

\* Every step keeps the strengthened invariant.
LEMMA AccountsInductive == AInv /\ [Next]_vars => AInv'
<1> SUFFICES ASSUME AInv, [Next]_vars PROVE AInv'
  OBVIOUS
<1>1. IInv'
  BY TypeStep, LocksStep, FlightsStep, WaitersStep, DisabledStep, BudgetStep,
     UndisturbedStep DEF AInv, IInv
<1>2. UsedMatchesEntries' /\ StoringInv' /\ ClearingInv'
  BY AccountStep, StoringStep, ClearingStep DEF AInv, IInv
<1>3. QED
  BY <1>1, <1>2 DEF AInv

\* The inductive invariant with the accounts holds in every reachable state.
THEOREM AccountsInvariance == Spec => []AInv
BY AccountsInit, AccountsInductive, PTL DEF Spec

\* compact_cache.go Add and Get: the byte counter of a shard is the sum of its
\* entries, whatever insertions, replacements, evictions and clears did, and
\* no entry is listed twice, in another shard or over the entry limit.
THEOREM AccountsMatch == Spec => []UsedMatchesEntries
<1>1. AInv => UsedMatchesEntries
  BY DEF AInv
<1>2. QED
  BY AccountsInvariance, <1>1, PTL

-----------------------------------------------------------------------------
(* The cache implements SingleFlight *)

ProducingLabels == {"produce", "add", "insert", "evict", "release"}
AskingLabels == {"enter", "get", "getShard", "lock", "recheck", "reget",
                 "regetShard", "join", "wait"}

\* What a caller sees of each label.
LEMMA PhaseValues ==
  /\ PhaseOf("idle") = "idle"
  /\ \A l \in AskingLabels : PhaseOf(l) = "asking"
  /\ \A l \in {"produce", "add", "insert"} : PhaseOf(l) = "producing"
  /\ PhaseOf("evict") = "storing"
  /\ PhaseOf("release") = "done"
BY DEF PhaseOf, AskingLabels

\* A thread that moves on changes its own phase only.
LEMMA PhaseStep ==
  ASSUME TypeOK, NEW t \in Threads, NEW l, Goto(t, l)
  PROVE  /\ Phase[t] = PhaseOf(pc[t])
         /\ Phase' = [Phase EXCEPT ![t] = PhaseOf(l)]
         /\ PhaseOf(l) = PhaseOf(pc[t]) => Phase' = Phase
BY DEF TypeOK, Goto, Phase

\* Who leads after a thread has moved on and kept its role.
LEMMA LeadingStep ==
  ASSUME TypeOK, NEW t \in Threads, NEW l, Goto(t, l), role' = role
  PROVE  /\ (l \in ProducingLabels <=> pc[t] \in ProducingLabels)
              => Leading' = Leading
         /\ role[t] # "leader" => Leading' = Leading
         /\ l \notin ProducingLabels => Leading' = Leading \ {t}
BY DEF TypeOK, Goto, Leading, Producing, ProducingLabels

\* What is stored depends on the sets of listed keys only.
LEMMA StoredStep ==
  ASSUME TypeOK,
         \/ lru' = lru
         \/ \A s \in Shards : ToSet(lru'[s]) = ToSet(lru[s])
  PROVE  Stored' = Stored
BY ConstantsAssumption DEF TypeOK, Stored, Cached

\* A step that a caller cannot tell from no step.
LEMMA Invisible ==
  ASSUME TypeOK, NEW t \in Threads, NEW l, Goto(t, l),
         UNCHANGED <<switchVars, cacheVars, key, role>>,
         \/ pc[t] \in AskingLabels /\ l \in AskingLabels
         \/ pc[t] \in {"produce", "add", "insert"} /\ l \in {"produce", "add", "insert"}
  PROVE  UNCHANGED Abstract!vars
<1>1. Phase' = Phase
  BY PhaseStep, PhaseValues
<1>2. Leading' = Leading
  BY LeadingStep DEF ProducingLabels, AskingLabels
<1>3. Stored' = Stored
  BY StoredStep DEF cacheVars
<1>4. QED
  BY <1>1, <1>2, <1>3 DEF Abstract!vars, switchVars

\* Each step of a thread is what its caller sees of it.
LEMMA AskStep ==
  ASSUME AInv, NEW t \in Threads, NEW k \in Keys, Request(t, k)
  PROVE  Abstract!Ask(t, k)
<1> USE DEF Request
<1>1. TypeOK /\ Goto(t, "enter") /\ pc[t] = "idle"
  BY DEF AInv, IInv
<1>2. Phase[t] = "idle" /\ Phase' = [Phase EXCEPT ![t] = "asking"]
  BY <1>1, PhaseStep, PhaseValues DEF AskingLabels
<1>3. Stored' = Stored
  BY <1>1, StoredStep DEF cacheVars
<1>4. Leading' = Leading
  BY <1>1 DEF TypeOK, Goto, Leading, Producing
<1>5. key' = [key EXCEPT ![t] = k] /\ enabled' = enabled /\ disables' = disables
  BY DEF switchVars
<1>6. QED
  BY <1>2, <1>3, <1>4, <1>5 DEF Abstract!Ask, Abstract!Moves

\* Only a disabled cache is bypassed.
LEMMA BypassStep ==
  ASSUME AInv, NEW t \in Threads, pc[t] \in {"enter", "recheck"}, ~ enabled,
         Goto(t, "produce"), UNCHANGED <<switchVars, cacheVars, callVars>>
  PROVE  Abstract!Bypass(t)
<1>1. TypeOK /\ role[t] # "leader"
  BY DEF AInv, IInv, FlightsInv, Acquiring
<1>2. Phase[t] = "asking" /\ Phase' = [Phase EXCEPT ![t] = "producing"]
  BY <1>1, PhaseStep, PhaseValues DEF AskingLabels
<1>3. Stored' = Stored /\ Leading' = Leading
  BY <1>1, StoredStep, LeadingStep DEF cacheVars, callVars
<1>4. QED
  BY <1>2, <1>3 DEF Abstract!Bypass, Abstract!Moves, switchVars, callVars

\* A request that is answered from the cache.
LEMMA HitStep ==
  ASSUME AInv, NEW t \in Threads, NEW here \in {"getShard", "regetShard"},
         GetHit(t, here)
  PROVE  Abstract!Hit(t)
<1>1. TypeOK /\ Goto(t, "idle") /\ pc[t] = here
  BY DEF AInv, IInv, GetHit
<1>2. Phase[t] = "asking" /\ Phase' = [Phase EXCEPT ![t] = "idle"]
  BY <1>1, PhaseStep, PhaseValues DEF AskingLabels
<1>3. MovedToFront(t)
  BY GetHitMoves DEF AInv, IInv
<1>4. Stored' = Stored /\ key[t] \in Stored
  BY <1>1, <1>3, StoredStep DEF MovedToFront, Stored, TypeOK
<1>5. Leading' = Leading
  BY <1>1, LeadingStep DEF GetHit, callVars, ProducingLabels
<1>6. UNCHANGED <<switchVars, key>>
  BY DEF GetHit, callVars
<1>7. QED
  BY <1>2, <1>4, <1>5, <1>6 DEF Abstract!Hit, Abstract!Moves, switchVars

\* "the single producer for key", and not for a key that has been stored.
LEMMA LeaderStep ==
  ASSUME AInv, NEW t \in Threads, Lead(t)
  PROVE  Abstract!Lead(t)
<1> USE DEF Lead
<1>1. TypeOK /\ Goto(t, "produce") /\ pc[t] = "join" /\ key[t] \in Keys
  BY DEF AInv, IInv, TypeOK
<1>2. Phase[t] = "asking" /\ Phase' = [Phase EXCEPT ![t] = "producing"]
  BY <1>1, PhaseStep, PhaseValues DEF AskingLabels
<1>3. Stored' = Stored
  BY <1>1, StoredStep DEF cacheVars
<1>4. Leading' = Leading \cup {t}
  BY <1>1 DEF TypeOK, Goto, Leading, Producing
<1>5. \A u \in Leading : key[u] # key[t]
  BY <1>1, ConstantsAssumption
     DEF AInv, IInv, FlightsInv, TypeOK, Leading
<1>6. disables = 0 => key[t] \notin Stored
  BY <1>1 DEF AInv, IInv, UndisturbedInv, Stored
<1>7. UNCHANGED <<switchVars, key>>
  OBVIOUS
<1>8. QED
  BY <1>2, <1>3, <1>4, <1>5, <1>6, <1>7 DEF Abstract!Lead, Abstract!Moves, switchVars

\* "it cannot repopulate a disabled cache"
LEMMA StoreStep ==
  ASSUME AInv, NEW t \in Threads, InsertNew(t) \/ InsertReplace(t)
  PROVE  Abstract!Store(t)
<1>1. /\ TypeOK /\ Goto(t, "evict") /\ pc[t] = "insert" /\ enabled
      /\ UNCHANGED <<switchVars, callVars>>
  BY DEF AInv, IInv, InsertNew, InsertReplace
<1>2. Phase[t] = "producing" /\ Phase' = [Phase EXCEPT ![t] = "storing"]
  BY <1>1, PhaseStep, PhaseValues
<1>3. Leading' = Leading
  BY <1>1, LeadingStep DEF callVars, ProducingLabels
<1>4. Stored' = Stored \cup {key[t]}
  <2>1. CASE InsertNew(t)
    <3>1. Inserted(t)
      BY <2>1, InsertNewEffect DEF AInv, IInv
    <3>2. \A k \in Keys : ShardOf[k] \in Shards
      BY ConstantsAssumption
    <3>3. key[t] \in Keys /\ Shard(t) = ShardOf[key[t]]
      BY <1>1 DEF TypeOK, Shard
    <3>4. \A k \in Keys : Cached(k)' <=> Cached(k) \/ k = key[t]
      BY <3>1, <3>2, <3>3 DEF Inserted, Cached
    <3>5. QED
      BY <3>3, <3>4 DEF Stored
  <2>2. CASE InsertReplace(t)
    <3>1. MovedToFront(t)
      BY <2>2, InsertReplaceMoves DEF AInv, IInv
    <3>2. Stored' = Stored /\ key[t] \in Stored
      BY <1>1, <3>1, StoredStep DEF MovedToFront, Stored, TypeOK
    <3>3. QED
      BY <3>2
  <2>3. QED
    BY <2>1, <2>2
<1>5. QED
  BY <1>1, <1>2, <1>3, <1>4 DEF Abstract!Store, Abstract!Moves, switchVars, callVars

\* Whose entries are arriving.
LEMMA ArrivingProperties ==
  ASSUME TypeOK
  PROVE  Abstract!Arriving = {key[t] : t \in {u \in Threads : pc[u] = "evict"}}
<1>1. \A u \in Threads : Phase[u] = "storing" <=> pc[u] = "evict"
  BY PhaseValues DEF TypeOK, Labels, Phase, AskingLabels
<1>2. QED
  BY <1>1 DEF Abstract!Arriving

\* An entry is not thrown out to make room for itself.
LEMMA MakeRoomStep ==
  ASSUME AInv, NEW t \in Threads, Evict(t)
  PROVE  Abstract!MakeRoom
<1>1. /\ TypeOK /\ pc[t] = "evict" /\ UNCHANGED <<switchVars, pc, callVars>>
      /\ key \in [Threads -> Keys]
  BY DEF AInv, IInv, TypeOK, Evict
<1>2. PICK k \in ToSet(lru[Shard(t)]) \ {key[t]} :
        ToSet(lru'[Shard(t)]) = ToSet(lru[Shard(t)]) \ {k}
  BY EvictNotOwn DEF AInv, IInv, Evicted
<1>3. \A s \in Shards : s # Shard(t) => lru'[s] = lru[s]
  BY EvictNotOwn DEF AInv, IInv, Evicted
<1>4. Shard(t) \in Shards /\ \A j \in Keys : ShardOf[j] \in Shards
  BY <1>1, ConstantsAssumption DEF Shard
<1>5. k \in Keys /\ ShardOf[k] = Shard(t)
  <2>1. ShardOf[k] = Shard(t)
    BY <1>2, <1>4 DEF AInv, UsedMatchesEntries
  <2>2. lru[Shard(t)] \in Seq(Keys)
    BY <1>1, <1>4 DEF TypeOK
  <2>3. ToSet(lru[Shard(t)]) \subseteq Keys
    BY <2>2 DEF ToSet
  <2>4. QED
    BY <1>2, <2>1, <2>3
<1>6. \A j \in Keys : Cached(j)' <=> Cached(j) /\ j # k
  BY <1>2, <1>3, <1>4, <1>5 DEF Cached
<1>7. Stored' = Stored \ {k} /\ k \in Stored
  BY <1>2, <1>5, <1>6 DEF Stored, Cached
<1>8. \A u \in Threads : pc[u] = "evict" => key[u] # k
  <2>1. \A u \in Threads : u # t /\ pc[u] = "evict" => Shard(u) # Shard(t)
    BY <1>1, AloneInShard DEF AInv, IInv
  <2>2. QED
    BY <1>2, <1>5, <2>1 DEF Shard
<1>9. key[t] \in Abstract!Arriving /\ k \notin Abstract!Arriving
  BY <1>1, <1>8, ArrivingProperties
<1>10. Phase' = Phase /\ Leading' = Leading
  BY <1>1 DEF Phase, Leading, Producing, callVars
<1>11. QED
  BY <1>1, <1>7, <1>9, <1>10 DEF Abstract!MakeRoom, switchVars, callVars

\* The eviction loop has ended and the shard lock is given back.
LEMMA StoredDone ==
  ASSUME AInv, NEW t \in Threads, Unlock(t)
  PROVE  Abstract!Stored(t)
<1> USE DEF Unlock
<1>1. TypeOK /\ Goto(t, "release") /\ pc[t] = "evict"
  BY DEF AInv, IInv
<1>2. Phase[t] = "storing" /\ Phase' = [Phase EXCEPT ![t] = "done"]
  BY <1>1, PhaseStep, PhaseValues
<1>3. Stored' = Stored /\ Leading' = Leading
  BY <1>1, StoredStep, LeadingStep DEF cacheVars, callVars, ProducingLabels
<1>4. QED
  BY <1>2, <1>3 DEF Abstract!Stored, Abstract!Moves, switchVars, callVars

\* A producer that has nothing to add, or is refused.
LEMMA StoreNothingStep ==
  ASSUME AInv, NEW t \in Threads, pc[t] \in {"produce", "add", "insert"},
         Goto(t, "release"), UNCHANGED <<switchVars, cacheVars, callVars>>
  PROVE  Abstract!StoreNothing(t)
<1>1. TypeOK
  BY DEF AInv, IInv
<1>2. Phase[t] = "producing" /\ Phase' = [Phase EXCEPT ![t] = "done"]
  BY <1>1, PhaseStep, PhaseValues
<1>3. Stored' = Stored /\ Leading' = Leading
  BY <1>1, StoredStep, LeadingStep DEF cacheVars, callVars, ProducingLabels
<1>4. QED
  BY <1>2, <1>3 DEF Abstract!StoreNothing, Abstract!Moves, switchVars, callVars

\* The deferred release.
LEMMA FinishStep ==
  ASSUME AInv, NEW t \in Threads, pc[t] = "release",
         Goto(t, "idle"), UNCHANGED <<switchVars, cacheVars, callVars>>
  PROVE  Abstract!Finish(t)
<1>1. TypeOK
  BY DEF AInv, IInv
<1>2. Phase[t] = "done" /\ Phase' = [Phase EXCEPT ![t] = "idle"]
  BY <1>1, PhaseStep, PhaseValues
<1>3. Stored' = Stored /\ Leading' = Leading \ {t}
  BY <1>1, StoredStep, LeadingStep DEF cacheVars, callVars, ProducingLabels
<1>4. QED
  BY <1>2, <1>3 DEF Abstract!Finish, Abstract!Moves, switchVars, callVars

\* A cache is emptied while it is off, around the entries being stored.
LEMMA DiscardStep ==
  ASSUME AInv, ClearShard
  PROVE  Abstract!Discard
<1>1. /\ TypeOK /\ ~ enabled /\ UNCHANGED <<enabled, disables, pc, callVars>>
      /\ key \in [Threads -> Keys]
  BY DEF AInv, IInv, TypeOK, ClearingInv, ClearShard
<1>2. /\ \A s \in Shards : lru'[s] = << >> \/ lru'[s] = lru[s]
      /\ \A s \in Shards : holder[s] # NoThread => lru'[s] = lru[s]
  BY <1>1 DEF ClearShard, TypeOK
<1>3. \A k \in Keys : ShardOf[k] \in Shards
  BY ConstantsAssumption
<1>4. \A k \in Keys : Cached(k)' => Cached(k)
  BY <1>2, <1>3, EmptyToSet DEF Cached
<1>5. Stored' \in SUBSET Stored
  BY <1>4 DEF Stored
<1>6. ASSUME NEW u \in Threads, pc[u] = "evict", key[u] \in Stored
      PROVE  key[u] \in Stored'
  <2>1. Shard(u) \in Shards /\ key[u] \in Keys /\ Shard(u) = ShardOf[key[u]]
    BY <1>1, <1>3 DEF Shard
  <2>2. holder[Shard(u)] # NoThread
    BY <1>6, <2>1, ConstantsAssumption DEF AInv, IInv, LocksInv
  <2>3. QED
    BY <1>2, <1>6, <2>1, <2>2 DEF Stored, Cached
<1>7. Abstract!Arriving \cap Stored \subseteq Stored'
  BY <1>1, <1>6, ArrivingProperties
<1>8. Phase' = Phase /\ Leading' = Leading
  BY <1>1 DEF Phase, Leading, Producing, callVars
<1>9. QED
  BY <1>1, <1>5, <1>7, <1>8 DEF Abstract!Discard, callVars

\* The two signals.
LEMMA SwitchStep ==
  ASSUME AInv
  PROVE  /\ Enable => Abstract!SwitchOn
         /\ Disable => Abstract!SwitchOff
<1>1. ASSUME Enable \/ Disable
      PROVE  Phase' = Phase /\ Leading' = Leading /\ Stored' = Stored
  BY <1>1, StoredStep
     DEF AInv, IInv, Enable, Disable, cacheVars, callVars, Phase, Leading, Producing
<1>2. Enable => Abstract!SwitchOn
  BY <1>1 DEF Enable, Abstract!SwitchOn, callVars
<1>3. ASSUME Disable PROVE Abstract!SwitchOff
  <2>1. disables' # 0
    BY <1>3 DEF AInv, IInv, TypeOK, Disable
  <2>2. disables # 0 => disables' # 0
    BY <2>1
  <2>3. QED
    BY <1>1, <1>3, <2>1 DEF Disable, Abstract!SwitchOff, callVars
<1>4. QED
  BY <1>2, <1>3

\* Every step of the cache is a step of SingleFlight or changes nothing its
\* callers can see.
LEMMA SingleFlightStep ==
  ASSUME AInv, [Next]_vars
  PROVE  [Abstract!Next]_(Abstract!vars)
<1> DEFINE Goal == [Abstract!Next]_(Abstract!vars)
<1>type. TypeOK
  BY DEF AInv, IInv
<1>same. ASSUME UNCHANGED Abstract!vars PROVE Goal
  BY <1>same
<1>call. ASSUME NEW t \in Threads, Abstract!Caller(t) PROVE Goal
  BY <1>call DEF Abstract!Next
<1>1. ASSUME NEW t \in Threads, Enter(t) PROVE Goal
  <2>1. CASE enabled
    <3>1. Goto(t, "get") /\ UNCHANGED <<switchVars, cacheVars, key, role>>
      BY <1>1, <2>1 DEF Enter, callVars
    <3>2. UNCHANGED Abstract!vars
      BY <1>1, <1>type, <3>1, Invisible DEF Enter, AskingLabels
    <3>3. QED
      BY <3>2, <1>same
  <2>2. CASE ~ enabled
    <3>1. Abstract!Bypass(t)
      BY <1>1, <2>2, BypassStep DEF Enter
    <3>2. QED
      BY <3>1, <1>call DEF Abstract!Caller
  <2>3. QED
    BY <2>1, <2>2
<1>2. ASSUME NEW t \in Threads, GetLoad(t, "get", "getShard", "lock") PROVE Goal
  <2>1. /\ Goto(t, IF enabled THEN "getShard" ELSE "lock")
        /\ UNCHANGED <<switchVars, cacheVars, key, role>>
    BY <1>2 DEF GetLoad, callVars
  <2>2. UNCHANGED Abstract!vars
    BY <1>2, <1>type, <2>1, Invisible DEF GetLoad, AskingLabels
  <2>3. QED
    BY <2>2, <1>same
<1>3. ASSUME NEW t \in Threads, GetHit(t, "getShard") PROVE Goal
  <2>1. Abstract!Hit(t)
    BY <1>3, HitStep
  <2>2. QED
    BY <2>1, <1>call DEF Abstract!Caller
<1>4. ASSUME NEW t \in Threads, GetMiss(t, "getShard", "lock") PROVE Goal
  <2>1. Goto(t, "lock") /\ UNCHANGED <<switchVars, cacheVars, key, role>>
    BY <1>4 DEF GetMiss, callVars
  <2>2. UNCHANGED Abstract!vars
    BY <1>4, <1>type, <2>1, Invisible DEF GetMiss, AskingLabels
  <2>3. QED
    BY <2>2, <1>same
<1>5. ASSUME NEW t \in Threads, LockFlights(t) PROVE Goal
  <2>1. Goto(t, "recheck") /\ UNCHANGED <<switchVars, cacheVars, key, role>>
    BY <1>5 DEF LockFlights, callVars
  <2>2. UNCHANGED Abstract!vars
    BY <1>5, <1>type, <2>1, Invisible DEF LockFlights, AskingLabels
  <2>3. QED
    BY <2>2, <1>same
<1>6. ASSUME NEW t \in Threads, Recheck(t) PROVE Goal
  <2>1. CASE enabled
    <3>1. Goto(t, "reget") /\ UNCHANGED <<switchVars, cacheVars, key, role>>
      BY <1>6, <2>1 DEF Recheck, callVars
    <3>2. UNCHANGED Abstract!vars
      BY <1>6, <1>type, <3>1, Invisible DEF Recheck, AskingLabels
    <3>3. QED
      BY <3>2, <1>same
  <2>2. CASE ~ enabled
    <3>1. Abstract!Bypass(t)
      BY <1>6, <2>2, BypassStep DEF Recheck
    <3>2. QED
      BY <3>1, <1>call DEF Abstract!Caller
  <2>3. QED
    BY <2>1, <2>2
<1>7. ASSUME NEW t \in Threads, GetLoad(t, "reget", "regetShard", "join") PROVE Goal
  <2>1. /\ Goto(t, IF enabled THEN "regetShard" ELSE "join")
        /\ UNCHANGED <<switchVars, cacheVars, key, role>>
    BY <1>7 DEF GetLoad, callVars
  <2>2. UNCHANGED Abstract!vars
    BY <1>7, <1>type, <2>1, Invisible DEF GetLoad, AskingLabels
  <2>3. QED
    BY <2>2, <1>same
<1>8. ASSUME NEW t \in Threads, GetHit(t, "regetShard") PROVE Goal
  <2>1. Abstract!Hit(t)
    BY <1>8, HitStep
  <2>2. QED
    BY <2>1, <1>call DEF Abstract!Caller
<1>9. ASSUME NEW t \in Threads, GetMiss(t, "regetShard", "join") PROVE Goal
  <2>1. Goto(t, "join") /\ UNCHANGED <<switchVars, cacheVars, key, role>>
    BY <1>9 DEF GetMiss, callVars
  <2>2. UNCHANGED Abstract!vars
    BY <1>9, <1>type, <2>1, Invisible DEF GetMiss, AskingLabels
  <2>3. QED
    BY <2>2, <1>same
<1>10. ASSUME NEW t \in Threads, Lead(t) PROVE Goal
  <2>1. Abstract!Lead(t)
    BY <1>10, LeaderStep
  <2>2. QED
    BY <2>1, <1>call DEF Abstract!Caller
<1>11. ASSUME NEW t \in Threads, Follow(t) PROVE Goal
  <2>1. Goto(t, "wait") /\ UNCHANGED <<switchVars, cacheVars, key, role>>
    BY <1>11 DEF Follow, callVars
  <2>2. UNCHANGED Abstract!vars
    BY <1>11, <1>type, <2>1, Invisible DEF Follow, AskingLabels
  <2>3. QED
    BY <2>2, <1>same
<1>12. ASSUME NEW t \in Threads, Wake(t) PROVE Goal
  <2>1. Goto(t, "enter") /\ UNCHANGED <<switchVars, cacheVars, key, role>>
    BY <1>12 DEF Wake, callVars
  <2>2. UNCHANGED Abstract!vars
    BY <1>12, <1>type, <2>1, Invisible DEF Wake, AskingLabels
  <2>3. QED
    BY <2>2, <1>same
<1>13. ASSUME NEW t \in Threads, Fail(t) PROVE Goal
  <2>1. Abstract!StoreNothing(t)
    BY <1>13, StoreNothingStep DEF Fail
  <2>2. QED
    BY <2>1, <1>call DEF Abstract!Caller
<1>14. ASSUME NEW t \in Threads, Succeed(t) PROVE Goal
  <2>1. Goto(t, "add") /\ UNCHANGED <<switchVars, cacheVars, key, role>>
    BY <1>14 DEF Succeed, callVars
  <2>2. UNCHANGED Abstract!vars
    BY <1>14, <1>type, <2>1, Invisible DEF Succeed, AskingLabels
  <2>3. QED
    BY <2>2, <1>same
<1>15. ASSUME NEW t \in Threads, Add(t) PROVE Goal
  <2>1. CASE Goto(t, "insert")
    <3>1. UNCHANGED <<switchVars, cacheVars, key, role>> /\ pc[t] = "add"
      BY <1>15 DEF Add, callVars
    <3>2. UNCHANGED Abstract!vars
      BY <1>type, <2>1, <3>1, Invisible
    <3>3. QED
      BY <3>2, <1>same
  <2>2. CASE Goto(t, "release")
    <3>1. Abstract!StoreNothing(t)
      BY <1>15, <2>2, StoreNothingStep DEF Add
    <3>2. QED
      BY <3>1, <1>call DEF Abstract!Caller
  <2>3. QED
    BY <1>15, <2>1, <2>2 DEF Add
<1>16. ASSUME NEW t \in Threads, InsertRefused(t) PROVE Goal
  <2>1. Abstract!StoreNothing(t)
    BY <1>16, StoreNothingStep DEF InsertRefused
  <2>2. QED
    BY <2>1, <1>call DEF Abstract!Caller
<1>17. ASSUME NEW t \in Threads, InsertNew(t) PROVE Goal
  <2>1. Abstract!Store(t)
    BY <1>17, StoreStep
  <2>2. QED
    BY <2>1, <1>call DEF Abstract!Caller
<1>18. ASSUME NEW t \in Threads, InsertReplace(t) PROVE Goal
  <2>1. Abstract!Store(t)
    BY <1>18, StoreStep
  <2>2. QED
    BY <2>1, <1>call DEF Abstract!Caller
<1>19. ASSUME NEW t \in Threads, Evict(t) PROVE Goal
  BY <1>19, MakeRoomStep DEF Abstract!Next
<1>20. ASSUME NEW t \in Threads, Unlock(t) PROVE Goal
  <2>1. Abstract!Stored(t)
    BY <1>20, StoredDone
  <2>2. QED
    BY <2>1, <1>call DEF Abstract!Caller
<1>21. ASSUME NEW t \in Threads, ReleaseFlight(t) PROVE Goal
  <2>1. Abstract!Finish(t)
    BY <1>21, FinishStep DEF ReleaseFlight
  <2>2. QED
    BY <2>1, <1>call DEF Abstract!Caller
<1>22. ASSUME NEW t \in Threads, ReleaseNothing(t) PROVE Goal
  <2>1. Abstract!Finish(t)
    BY <1>22, FinishStep DEF ReleaseNothing
  <2>2. QED
    BY <2>1, <1>call DEF Abstract!Caller
<1>23. ASSUME NEW t \in Threads, NEW k \in Keys, Request(t, k) PROVE Goal
  <2>1. Abstract!Ask(t, k)
    BY <1>23, AskStep
  <2>2. QED
    BY <2>1, <1>call DEF Abstract!Caller
<1>24. ASSUME Enable PROVE Goal
  BY <1>24, SwitchStep DEF Abstract!Next
<1>25. ASSUME Disable PROVE Goal
  BY <1>25, SwitchStep DEF Abstract!Next
<1>26. ASSUME ClearShard PROVE Goal
  BY <1>26, DiscardStep DEF Abstract!Next
<1>27. ASSUME UNCHANGED vars PROVE Goal
  BY <1>27, StoredStep, <1>type
     DEF vars, switchVars, cacheVars, callVars, Abstract!vars, Phase, Leading,
         Producing
<1> QED
  BY <1>1, <1>2, <1>3, <1>4, <1>5, <1>6, <1>7, <1>8, <1>9, <1>10, <1>11,
     <1>12, <1>13, <1>14, <1>15, <1>16, <1>17, <1>18, <1>19, <1>20, <1>21,
     <1>22, <1>23, <1>24, <1>25, <1>26, <1>27
  DEF Next, Step, Get

\* compact_cache.go as a whole: shards, locks, the flight table and the switch
\* are one cache with one producer per key.
THEOREM CacheIsSingleFlight == Spec => ImplementsSingleFlight
<1>1. Init => Abstract!Init
  <2> SUFFICES ASSUME Init PROVE Abstract!Init
    OBVIOUS
  <2>1. Phase = [t \in Threads |-> "idle"] /\ Leading = {}
    BY PhaseValues DEF Init, Phase, Leading, Producing
  <2>2. Stored = {}
    BY EmptyToSet, ConstantsAssumption DEF Init, Stored, Cached
  <2>3. QED
    BY <2>1, <2>2 DEF Init, Abstract!Init
<1>2. AInv /\ [Next]_vars => [Abstract!Next]_(Abstract!vars)
  BY SingleFlightStep, SMTT(30), ZenonT(30)
<1>3. QED
  BY <1>1, <1>2, AccountsInvariance, PTL DEF Spec, ImplementsSingleFlight, Abstract!Spec

-----------------------------------------------------------------------------
(* Requests: they keep every promise of the cache, and the slots bound the   *)
(* scans.                                                                    *)

RequestsTypeOK ==
  /\ slots \in Nat
  /\ at \in [Threads -> Places]
  /\ gone \in [Threads -> BOOLEAN]
  /\ life \in {"serving", "draining", "closing", "exited"}

\* A lookup holds a slot or a transaction only while its thread produces, and
\* has a response to write only until it has released its flight.
PlacesInv ==
  \A t \in Threads :
    /\ at[t] \in {"slot", "view"} => pc[t] = "produce"
    /\ at[t] = "answer" => pc[t] \in {"add", "insert", "evict", "release"}
    /\ at[t] = "slot" => Scans(t)

\* The tokens in the channel are those of the lookups inside it.
Holders == {t \in Threads : Scans(t) /\ at[t] \in {"slot", "view"}}

SlotsInv ==
  /\ IsFiniteSet(Holders)
  /\ slots = Cardinality(Holders)
  /\ slots <= OverlapSlots

RInv == RequestsTypeOK /\ PlacesInv /\ SlotsInv

-----------------------------------------------------------------------------
\* What a step inside the cache does to where its thread is.
LEMMA InCacheEffect ==
  ASSUME TypeOK, NEW t \in Threads, pc[t] # "produce", Step(t)
  PROVE  /\ key' = key
         /\ \A u \in Threads : u # t => pc'[u] = pc[u]
         /\ pc'[t] \in Labels
         /\ pc[t] \in {"add", "insert", "evict"} =>
              pc'[t] \in {"insert", "evict", "release"}
<1> USE DEF TypeOK, Labels, Goto, callVars
<1>1. CASE Enter(t)
  BY <1>1 DEF Enter
<1>2. ASSUME NEW a, NEW b \in Labels, NEW c \in Labels, GetLoad(t, a, b, c),
             a \in {"get", "reget"}
      PROVE  /\ key' = key /\ \A u \in Threads : u # t => pc'[u] = pc[u]
             /\ pc'[t] \in Labels /\ pc[t] \notin {"add", "insert", "evict"}
  BY <1>2 DEF GetLoad
<1>3. ASSUME NEW a \in {"getShard", "regetShard"}, GetHit(t, a)
      PROVE  /\ key' = key /\ \A u \in Threads : u # t => pc'[u] = pc[u]
             /\ pc'[t] \in Labels /\ pc[t] \notin {"add", "insert", "evict"}
  BY <1>3 DEF GetHit
<1>4. ASSUME NEW a \in {"getShard", "regetShard"}, NEW b \in Labels, GetMiss(t, a, b)
      PROVE  /\ key' = key /\ \A u \in Threads : u # t => pc'[u] = pc[u]
             /\ pc'[t] \in Labels /\ pc[t] \notin {"add", "insert", "evict"}
  BY <1>4 DEF GetMiss
<1>5. CASE LockFlights(t) \/ Recheck(t) \/ Lead(t) \/ Follow(t) \/ Wake(t)
  BY <1>5 DEF LockFlights, Recheck, Lead, Follow, Wake
<1>6. CASE Fail(t) \/ Succeed(t)
  BY <1>6 DEF Fail, Succeed
<1>7. CASE Add(t) \/ InsertRefused(t)
  BY <1>7 DEF Add, InsertRefused
<1>8. CASE InsertNew(t)
  BY <1>8 DEF InsertNew
<1>9. CASE InsertReplace(t)
  BY <1>9 DEF InsertReplace
<1>10. CASE Evict(t) \/ Unlock(t)
  BY <1>10 DEF Evict, Unlock
<1>11. CASE ReleaseFlight(t) \/ ReleaseNothing(t)
  BY <1>11 DEF ReleaseFlight, ReleaseNothing
<1>12. QED
  BY <1>1, <1>2, <1>3, <1>4, <1>5, <1>6, <1>7, <1>8, <1>9, <1>10, <1>11
     DEF Step, Get

\* Every step is one of the cache, or leaves the cache alone.
LEMMA RequestsStep == [RequestsNext]_allVars => [Next]_vars
<1> SUFFICES ASSUME [RequestsNext]_allVars PROVE [Next]_vars
  OBVIOUS
<1>1. ASSUME NEW t \in Threads, Handle(t) PROVE [Next]_vars
  <2>1. Step(t) \/ UNCHANGED vars
    BY <1>1 DEF Handle, InCache, TakeSlot, GiveUp, BeginView, EndViewFailed,
                EndViewFound, Step
  <2>2. QED
    BY <2>1 DEF Next
<1>2. ASSUME NEW t \in Threads, Write(t) \/ HangUp(t) PROVE [Next]_vars
  BY <1>2 DEF Write, HangUp
<1>3. ASSUME NEW t \in Threads, NEW k \in Keys, Arrive(t, k) PROVE [Next]_vars
  BY <1>3 DEF Arrive, Next
<1>4. CASE Signal \/ Clear
  BY <1>4 DEF Signal, Clear, Next
<1>5. CASE BeginShutdown \/ ShutdownReturns \/ CloseStore
  BY <1>5 DEF BeginShutdown, ShutdownReturns, CloseStore
<1>6. CASE UNCHANGED allVars
  BY <1>6 DEF allVars
<1>7. QED
  BY <1>1, <1>2, <1>3, <1>4, <1>5, <1>6 DEF RequestsNext

\* A step of one thread that keeps every other thread where it is keeps the
\* tokens of the others: what happens to Holders is what happens to t.
LEMMA HoldersOf ==
  ASSUME NEW t \in Threads, RequestsTypeOK, SlotsInv,
         key' = key, at' \in [Threads -> Places],
         \A u \in Threads : u # t => at'[u] = at[u]
  PROVE  /\ (t \in Holders <=> t \in Holders') /\ slots' = slots => SlotsInv'
         /\ t \notin Holders /\ t \in Holders' /\ slots < OverlapSlots
              /\ slots' = slots + 1 => SlotsInv'
         /\ t \in Holders /\ t \notin Holders' /\ slots' = slots - 1 => SlotsInv'
<1> USE DEF SlotsInv, RequestsTypeOK
<1>1. \A u \in Threads : u # t => (u \in Holders <=> u \in Holders')
  BY DEF Holders, Scans
<1>2. Holders \subseteq Threads /\ Holders' \subseteq Threads
  BY DEF Holders
<1>ints. OverlapSlots \in Nat /\ slots \in Nat
  BY RequestsAssumption
<1> HIDE DEF Holders
<1>3. ASSUME t \in Holders <=> t \in Holders', slots' = slots PROVE SlotsInv'
  <2>1. Holders' = Holders
    BY <1>1, <1>2, <1>3
  <2>2. QED
    BY <2>1, <1>3
<1>4. ASSUME t \notin Holders, t \in Holders', slots < OverlapSlots,
             slots' = slots + 1
      PROVE  SlotsInv'
  <2>1. Holders' = Holders \cup {t}
    BY <1>1, <1>2, <1>4
  <2>2. IsFiniteSet(Holders') /\ Cardinality(Holders') = Cardinality(Holders) + 1
    BY <2>1, <1>4, FS_AddElement
  <2>3. slots' <= OverlapSlots
    BY <1>4, <1>ints
  <2>4. QED
    BY <2>2, <2>3, <1>4
<1>5. ASSUME t \in Holders, t \notin Holders', slots' = slots - 1 PROVE SlotsInv'
  <2>1. Holders' = Holders \ {t}
    BY <1>1, <1>2, <1>5
  <2>2. IsFiniteSet(Holders') /\ Cardinality(Holders') = Cardinality(Holders) - 1
    BY <2>1, <1>5, FS_RemoveElement
  <2>3. slots' <= OverlapSlots
    BY <1>5, <1>ints
  <2>4. QED
    BY <2>2, <2>3, <1>5
<1>6. QED
  BY <1>3, <1>4, <1>5

\* A token is in the channel whenever a lookup is to give one back, so the
\* receive in the deferred release never blocks.
LEMMA TokenToGive ==
  ASSUME RInv, NEW t \in Threads, Scans(t), at[t] \in {"slot", "view"}
  PROVE  slots > 0
<1>1. t \in Holders
  BY DEF Holders
<1>2. Cardinality(Holders) # 0 /\ Cardinality(Holders) \in Nat
  BY <1>1, FS_EmptySet, FS_CardinalityType DEF RInv, SlotsInv
<1>3. QED
  BY <1>2 DEF RInv, SlotsInv

\* One step keeps types, places, tokens and store, given that the cache keeps
\* its own types.
LEMMA RequestsInductive ==
  ASSUME TypeOK, TypeOK', RInv, [RequestsNext]_allVars
  PROVE  RInv'
<1> USE DEF RInv
<1>ints. OverlapSlots \in Nat /\ slots \in Nat
  BY RequestsAssumption DEF RequestsTypeOK
<1>typ. pc \in [Threads -> Labels] /\ key \in [Threads -> Keys]
  BY DEF TypeOK
<1>1. ASSUME NEW t \in Threads, InCache(t) PROVE RInv'
  <2>1. /\ key' = key
        /\ \A u \in Threads : u # t => pc'[u] = pc[u]
        /\ pc[t] \in {"add", "insert", "evict"} =>
             pc'[t] \in {"insert", "evict", "release"}
        /\ pc[t] # "produce" /\ (pc[t] = "release" => at[t] = "none")
        /\ at' = at /\ slots' = slots /\ life' = life
    BY <1>1, InCacheEffect DEF InCache
  <2>2. RequestsTypeOK'
    BY <1>1, <2>1 DEF InCache, RequestsTypeOK
  <2>3. PlacesInv'
    BY <2>1 DEF PlacesInv, Scans, RequestsTypeOK, Places
  <2>4. SlotsInv'
    BY <2>1, HoldersOf DEF RequestsTypeOK, Holders, Scans
  <2>5. QED
    BY <2>1, <2>2, <2>3, <2>4
<1>2. ASSUME NEW t \in Threads, TakeSlot(t) PROVE RInv'
  <2>1. /\ at' = [at EXCEPT ![t] = "slot"] /\ at[t] = "none" /\ Scans(t)
        /\ slots' = slots + 1 /\ slots < OverlapSlots
        /\ gone' = gone /\ life' = life /\ life # "exited"
        /\ pc' = pc /\ key' = key /\ pc[t] = "produce"
    BY <1>2 DEF TakeSlot, At, vars, callVars, Alive
  <2>2. RequestsTypeOK'
    BY <2>1, <1>ints DEF RequestsTypeOK, Places
  <2>3. PlacesInv'
    BY <2>1 DEF PlacesInv, Scans, RequestsTypeOK
  <2>4. SlotsInv'
    BY <2>1, <2>2, HoldersOf DEF RequestsTypeOK, Holders, Scans
  <2>5. QED
    BY <2>1, <2>2, <2>3, <2>4
<1>3. ASSUME NEW t \in Threads, GiveUp(t) PROVE RInv'
  <2>1. /\ UNCHANGED requestVars /\ key' = key
        /\ pc' = [pc EXCEPT ![t] = "release"] /\ at[t] = "none"
    BY <1>3 DEF GiveUp, Fail, Goto, callVars
  <2>2. RequestsTypeOK'
    BY <2>1 DEF RequestsTypeOK, requestVars
  <2>3. PlacesInv'
    BY <2>1, <1>typ DEF PlacesInv, Scans, requestVars
  <2>4. SlotsInv'
    BY <2>1 DEF SlotsInv, Holders, Scans, requestVars
  <2>5. QED
    BY <2>2, <2>3, <2>4
<1>4. ASSUME NEW t \in Threads, BeginView(t) PROVE RInv'
  <2>1. /\ at' = [at EXCEPT ![t] = "view"]
        /\ at[t] = (IF Scans(t) THEN "slot" ELSE "none")
        /\ slots' = slots /\ gone' = gone /\ life' = life /\ life # "exited"
        /\ pc' = pc /\ key' = key /\ pc[t] = "produce"
    BY <1>4 DEF BeginView, At, vars, callVars
  <2>2. RequestsTypeOK'
    BY <2>1 DEF RequestsTypeOK, Places
  <2>3. PlacesInv'
    BY <2>1 DEF PlacesInv, Scans, RequestsTypeOK
  <2>4. SlotsInv'
    <3>1. t \in Holders <=> t \in Holders'
      BY <2>1 DEF RequestsTypeOK, Holders, Scans
    <3>2. QED
      BY <3>1, <2>1, <2>2, HoldersOf DEF RequestsTypeOK
  <2>5. QED
    BY <2>2, <2>3, <2>4
<1>5. ASSUME NEW t \in Threads, EndViewFailed(t) \/ EndViewFound(t) PROVE RInv'
  <2>1. PICK place \in {"none", "answer"} :
          /\ at' = [at EXCEPT ![t] = place] /\ at[t] = "view"
          /\ key' = key /\ life' = life /\ gone' = gone
          /\ pc' = [pc EXCEPT ![t] = IF place = "none" THEN "release" ELSE "add"]
    BY <1>5 DEF EndViewFailed, EndViewFound, At, Fail, Succeed, Goto, callVars
  <2>2. slots' = IF Scans(t) THEN slots - 1 ELSE slots
    BY <1>5 DEF EndViewFailed, EndViewFound, ReleaseSlot
  <2>3. Scans(t) => slots > 0
    BY <2>1, TokenToGive
  <2>4. RequestsTypeOK'
    BY <2>1, <2>2, <2>3, <1>ints DEF RequestsTypeOK, Places
  <2>5. PlacesInv'
    BY <2>1, <1>typ DEF PlacesInv, Scans, RequestsTypeOK
  <2>6. SlotsInv'
    <3>1. t \in Holders <=> Scans(t)
      BY <2>1 DEF Holders
    <3>2. t \notin Holders'
      BY <2>1 DEF Holders, RequestsTypeOK
    <3>3. QED
      BY <3>1, <3>2, <2>1, <2>2, <2>4, HoldersOf DEF RequestsTypeOK
  <2>7. QED
    BY <2>4, <2>5, <2>6
<1>6. ASSUME NEW t \in Threads, Write(t) PROVE RInv'
  <2>1. /\ at' = [at EXCEPT ![t] = "none"] /\ at[t] = "answer"
        /\ slots' = slots /\ gone' = gone /\ life' = life
        /\ pc' = pc /\ key' = key
    BY <1>6 DEF Write, At, vars, callVars
  <2>2. RequestsTypeOK'
    BY <2>1 DEF RequestsTypeOK, Places
  <2>3. PlacesInv'
    BY <2>1 DEF PlacesInv, Scans, RequestsTypeOK
  <2>4. SlotsInv'
    <3>1. t \in Holders <=> t \in Holders'
      BY <2>1 DEF RequestsTypeOK, Holders, Scans
    <3>2. QED
      BY <3>1, <2>1, <2>2, HoldersOf DEF RequestsTypeOK
  <2>5. QED
    BY <2>2, <2>3, <2>4
<1>7. ASSUME NEW t \in Threads, HangUp(t) PROVE RInv'
  <2>1. /\ UNCHANGED <<slots, at, life, pc, key>>
        /\ gone' = [gone EXCEPT ![t] = TRUE]
    BY <1>7 DEF HangUp, vars, callVars
  <2>2. QED
    BY <2>1 DEF RequestsTypeOK, PlacesInv, SlotsInv, Holders, Scans
<1>8. ASSUME NEW t \in Threads, NEW k \in Keys, Arrive(t, k) PROVE RInv'
  <2>1. /\ UNCHANGED requestVars /\ pc[t] = "idle"
        /\ pc' = [pc EXCEPT ![t] = "enter"] /\ key' = [key EXCEPT ![t] = k]
    BY <1>8 DEF Arrive, Request, Goto
  <2>2. at[t] = "none"
    BY <2>1 DEF PlacesInv, RequestsTypeOK, Places
  <2>3. RequestsTypeOK'
    BY <2>1 DEF RequestsTypeOK, requestVars
  <2>4. PlacesInv'
    BY <2>1, <2>2, <1>typ DEF PlacesInv, Scans, requestVars
  <2>5. Holders' = Holders
    BY <2>1, <2>2, <1>typ DEF Holders, Scans, requestVars
  <2>6. QED
    BY <2>1, <2>3, <2>4, <2>5 DEF SlotsInv, requestVars
<1>9. ASSUME UNCHANGED <<pc, key, slots, at, gone>>,
             life' \in {"draining", "closing", "exited"}
      PROVE  RInv'
  BY <1>9 DEF RequestsTypeOK, PlacesInv, SlotsInv, Holders, Scans
<1>10. ASSUME UNCHANGED <<pc, key, requestVars>> PROVE RInv'
  BY <1>10 DEF RequestsTypeOK, PlacesInv, SlotsInv, Holders, Scans,
               requestVars
<1>11. CASE Signal
  BY <1>11, <1>10 DEF Signal, Enable, Disable, callVars
<1>12. CASE Clear
  BY <1>12, <1>10 DEF Clear, ClearShard, callVars
<1>13. CASE BeginShutdown \/ ShutdownReturns \/ CloseStore
  BY <1>13, <1>9 DEF BeginShutdown, ShutdownReturns, CloseStore, vars, callVars
<1>14. CASE UNCHANGED allVars
  BY <1>14, <1>10 DEF allVars, vars, callVars
<1>15. QED
  BY <1>1, <1>2, <1>3, <1>4, <1>5, <1>6, <1>7, <1>8, <1>11, <1>12, <1>13, <1>14
     DEF RequestsNext, Handle

\* The slots, the transactions, the clients and the shutdown around the cache
\* do not weaken it: whatever is proved of ResponseCache holds of Requests.
THEOREM RequestsKeepTheCache == RequestsSpec => Spec
<1>1. RequestsInit => Init
  BY DEF RequestsInit
<1>2. [RequestsNext]_allVars => [Next]_vars
  BY RequestsStep
<1>3. QED
  BY <1>1, <1>2, PTL DEF RequestsSpec, Spec

\* Types, places and tokens of the whole, in every reachable state.
THEOREM RequestsInvariance == RequestsSpec => []RInv
<1>1. RequestsInit => RInv
  <2> SUFFICES ASSUME RequestsInit PROVE RInv
    OBVIOUS
  <2>1. RequestsTypeOK /\ PlacesInv
    BY DEF RequestsInit, RequestsTypeOK, PlacesInv, Places
  <2>2. Holders = {}
    BY DEF RequestsInit, Holders
  <2>3. SlotsInv
    BY <2>2, FS_EmptySet, RequestsAssumption DEF RequestsInit, SlotsInv
  <2>4. QED
    BY <2>1, <2>3 DEF RInv
<1>2. TypeOK /\ TypeOK' /\ RInv /\ [RequestsNext]_allVars => RInv'
  BY RequestsInductive
<1>3. QED
  BY <1>1, <1>2, RequestsKeepTheCache, TypeCorrectness, PTL DEF RequestsSpec

\* bbolt.go acquireOverlapSlot: at most overlapSlots lookups scan an index,
\* whichever clients hang up while they wait for a slot or hold one.
THEOREM ScansStayBounded == RequestsSpec => []ScansBounded
<1>1. RInv => ScansBounded
  <2> SUFFICES ASSUME RInv PROVE ScansBounded
    OBVIOUS
  <2> DEFINE scans == {t \in Threads : Scans(t) /\ at[t] = "view"}
  <2>1. scans \subseteq Holders
    BY DEF Holders
  <2>2. /\ Cardinality(scans) <= Cardinality(Holders)
        /\ Cardinality(scans) \in Nat /\ Cardinality(Holders) \in Nat
    BY <2>1, FS_Subset, FS_CardinalityType DEF RInv, SlotsInv
  <2>3. Cardinality(Holders) <= OverlapSlots /\ OverlapSlots \in Nat
    BY RequestsAssumption DEF RInv, SlotsInv
  <2>4. QED
    BY <2>2, <2>3 DEF ScansBounded
<1>2. QED
  BY <1>1, RequestsInvariance, PTL

\* Blocking writes, clients that leave and the shutdown do not change what the
\* cache promises: one producer per key, no stale repopulation, correct
\* accounts, and all the steps of SingleFlight.
THEOREM RequestsKeepThePromises ==
  RequestsSpec => /\ []SingleProducer
                  /\ []WaitersHaveLeader
                  /\ []DisabledStaysEmpty
                  /\ []ShardsWithinBudget
                  /\ []UsedMatchesEntries
                  /\ ImplementsSingleFlight
BY RequestsKeepTheCache, OneProducerPerKey, WaitersAreFollowers, NoRepopulation,
   BudgetRespected, AccountsMatch, CacheIsSingleFlight, PTL
=============================================================================
