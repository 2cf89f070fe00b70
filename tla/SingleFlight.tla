----------------------------- MODULE SingleFlight -----------------------------
(***************************************************************************)
(* What the response cache promises its callers, without shards, locks,    *)
(* flights or channels (the comments of Acquire and DisableAndClear in     *)
(* internal/api/compact_cache.go): a request is answered from the cache,   *)
(* or its caller produces the response, alone for its key unless the cache *)
(* is switched off; what is stored is what callers added while the cache   *)
(* was on, and an entry that is being stored is not thrown out to make     *)
(* room for itself.  ResponseCache implements this specification.          *)
(***************************************************************************)
CONSTANTS Threads, Keys

VARIABLES
  enabled,    \* whether the cache is switched on
  untouched,  \* it has never been switched off
  stored,     \* the keys that have an entry
  phase,      \* [Threads -> Phases]
  leaders,    \* the threads that produce for everybody who wants their key
  wants       \* [Threads -> Keys], the key of the request

vars == <<enabled, untouched, stored, phase, leaders, wants>>

Phases == {"idle", "asking", "producing", "storing", "done"}

\* The entries somebody is about to make room for.
Arriving == {wants[t] : t \in {u \in Threads : phase[u] = "storing"}}

Init ==
  /\ enabled = TRUE /\ untouched = TRUE
  /\ stored = {}
  /\ phase = [t \in Threads |-> "idle"]
  /\ leaders = {}
  /\ wants \in [Threads -> Keys]

Moves(t, from, to) == phase[t] = from /\ phase' = [phase EXCEPT ![t] = to]

Ask(t, k) ==
  /\ Moves(t, "idle", "asking")
  /\ wants' = [wants EXCEPT ![t] = k]
  /\ UNCHANGED <<enabled, untouched, stored, leaders>>

Hit(t) ==
  /\ Moves(t, "asking", "idle")
  /\ wants[t] \in stored
  /\ UNCHANGED <<enabled, untouched, stored, leaders, wants>>

\* "makes the caller the single producer for key": nobody else leads for it,
\* and a late arrival does not lead for a key that has been stored already.
Lead(t) ==
  /\ Moves(t, "asking", "producing")
  /\ \A u \in leaders : wants[u] # wants[t]
  /\ untouched => wants[t] \notin stored
  /\ leaders' = leaders \cup {t}
  /\ UNCHANGED <<enabled, untouched, stored, wants>>

\* Only a disabled cache is bypassed.
Bypass(t) ==
  /\ Moves(t, "asking", "producing")
  /\ ~ enabled
  /\ UNCHANGED <<enabled, untouched, stored, leaders, wants>>

\* "it cannot repopulate a disabled cache"
Store(t) ==
  /\ Moves(t, "producing", "storing")
  /\ enabled
  /\ stored' = stored \cup {wants[t]}
  /\ UNCHANGED <<enabled, untouched, leaders, wants>>

MakeRoom ==
  /\ Arriving # {}
  /\ \E k \in stored \ Arriving : stored' = stored \ {k}
  /\ UNCHANGED <<enabled, untouched, phase, leaders, wants>>

Stored(t) ==
  /\ Moves(t, "storing", "done")
  /\ UNCHANGED <<enabled, untouched, stored, leaders, wants>>

\* The lookup failed, or its response is not worth an entry.
StoreNothing(t) ==
  /\ Moves(t, "producing", "done")
  /\ UNCHANGED <<enabled, untouched, stored, leaders, wants>>

Finish(t) ==
  /\ Moves(t, "done", "idle")
  /\ leaders' = leaders \ {t}
  /\ UNCHANGED <<enabled, untouched, stored, wants>>

SwitchOn ==
  /\ enabled' = TRUE
  /\ UNCHANGED <<untouched, stored, phase, leaders, wants>>

SwitchOff ==
  /\ enabled' = FALSE /\ untouched' = FALSE
  /\ UNCHANGED <<stored, phase, leaders, wants>>

\* A disabled cache is emptied, bit by bit.
Discard ==
  /\ ~ enabled
  /\ stored' \in SUBSET stored
  /\ Arriving \cap stored \subseteq stored'
  /\ UNCHANGED <<enabled, untouched, phase, leaders, wants>>

Caller(t) ==
  \/ \E k \in Keys : Ask(t, k)
  \/ Hit(t) \/ Lead(t) \/ Bypass(t)
  \/ Store(t) \/ Stored(t) \/ StoreNothing(t) \/ Finish(t)

Next ==
  \/ \E t \in Threads : Caller(t)
  \/ MakeRoom \/ SwitchOn \/ SwitchOff \/ Discard

Spec == Init /\ [][Next]_vars
===============================================================================
