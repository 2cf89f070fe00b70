------------------------------- MODULE Requests -------------------------------
(***************************************************************************)
(* A request from its arrival to its answer: the response cache            *)
(* (ResponseCache) composed with what its producers do in between - the    *)
(* overlap slots and the read transaction of internal/api/bbolt.go, the    *)
(* client that may hang up or stop reading - and with the graceful         *)
(* shutdown of cmd/bgp-api/main.go.                                        *)
(*                                                                         *)
(* ResponseCache leaves the producer one step, Fail or Succeed; here it is *)
(* cut at the slot channel, the transaction and the write to the client,   *)
(* the three places where it can block.                                    *)
(***************************************************************************)
EXTENDS ResponseCache, FiniteSets

CONSTANTS Scanning,      \* keys of prefix and range lookups, which take a slot
          OverlapSlots   \* capacity of overlapSlots (2 in the code)

ASSUME RequestsAssumption == /\ Scanning \subseteq Keys
                             /\ OverlapSlots \in Nat \ {0}

VARIABLES
  slots,    \* tokens in the channel overlapSlots
  at,       \* [Threads -> Places], where a producer is in its lookup
  gone,     \* [Threads -> BOOLEAN], the context of the request is done
  life      \* the process: serving, draining (server.Shutdown), closing
            \* (store.Close) or exited

requestVars == <<slots, at, gone, life>>
allVars == <<vars, requestVars>>

\* outside; holding a slot; in a read transaction; with a response to write
Places == {"none", "slot", "view", "answer"}

RequestsInit ==
  /\ Init
  /\ slots = 0
  /\ at = [t \in Threads |-> "none"]
  /\ gone = [t \in Threads |-> FALSE]
  /\ life = "serving"

Scans(t) == key[t] \in Scanning
Alive == life # "exited"
At(t, place) == at' = [at EXCEPT ![t] = place]

-----------------------------------------------------------------------------
(* Handlers *)

\* The listener is closed as soon as the shutdown begins.
Arrive(t, k) ==
  /\ life = "serving"
  /\ Request(t, k)
  /\ UNCHANGED requestVars

\* The client hangs up: net/http cancels the context of its request.
HangUp(t) ==
  /\ Alive
  /\ pc[t] # "idle" /\ ~ gone[t]
  /\ gone' = [gone EXCEPT ![t] = TRUE]
  /\ UNCHANGED <<vars, slots, at, life>>

\* The steps inside the cache.  Acquire does not look at the context; the
\* deferred release comes after the response has been written.
InCache(t) ==
  /\ Alive
  /\ pc[t] # "produce"
  /\ pc[t] = "release" => at[t] = "none"
  /\ Step(t)
  /\ gone' = [gone EXCEPT ![t] = @ /\ pc'[t] # "idle"]
  /\ UNCHANGED <<slots, at, life>>

\* The first case of the select in acquireOverlapSlot.
TakeSlot(t) ==
  /\ Alive
  /\ pc[t] = "produce" /\ at[t] = "none" /\ Scans(t)
  /\ slots < OverlapSlots
  /\ slots' = slots + 1
  /\ At(t, "slot")
  /\ UNCHANGED <<vars, gone, life>>

\* Mutant: the release is deferred before the slot is taken, so that a lookup
\* that gave up receives somebody else's token.
GiveUpReleasing(t) ==
  /\ Alive
  /\ pc[t] = "produce" /\ at[t] = "none" /\ Scans(t)
  /\ gone[t]
  /\ slots > 0
  /\ slots' = slots - 1
  /\ Fail(t)
  /\ UNCHANGED <<at, gone, life>>

\* The other case: the client left while the lookup waited.  When both are
\* ready the select picks either.
GiveUp(t) ==
  /\ Alive
  /\ pc[t] = "produce" /\ at[t] = "none" /\ Scans(t)
  /\ gone[t]
  /\ Fail(t)
  /\ UNCHANGED requestVars

\* bbolt begins no transaction once Close has its locks.
BeginView(t) ==
  /\ life \in {"serving", "draining"}
  /\ pc[t] = "produce" /\ at[t] = (IF Scans(t) THEN "slot" ELSE "none")
  /\ At(t, "view")
  /\ UNCHANGED <<vars, slots, gone, life>>

\* The deferred release of a lookup that took a slot.
ReleaseSlot(t) ==
  IF Scans(t) THEN slots > 0 /\ slots' = slots - 1 ELSE UNCHANGED slots

\* Mutant: the error path of the transaction does not end it.
EndViewFailedOpen(t) ==
  /\ Alive
  /\ pc[t] = "produce" /\ at[t] = "view"
  /\ Fail(t)
  /\ ReleaseSlot(t)
  /\ UNCHANGED <<at, gone, life>>

\* The lookup fails, is too broad, finds nothing or is cancelled: the
\* transaction ends, then the slot is given back.  The error that is answered
\* fits the buffer of the connection.
EndViewFailed(t) ==
  /\ Alive
  /\ pc[t] = "produce" /\ at[t] = "view"
  /\ Fail(t)
  /\ ReleaseSlot(t)
  /\ At(t, "none")
  /\ UNCHANGED <<gone, life>>

\* A scan checks its context as it goes and does not return a result to a
\* client that has left; a compact lookup does not check.
EndViewFound(t) ==
  /\ Alive
  /\ pc[t] = "produce" /\ at[t] = "view"
  /\ Scans(t) => ~ gone[t]
  /\ Succeed(t)
  /\ ReleaseSlot(t)
  /\ At(t, "answer")
  /\ UNCHANGED <<gone, life>>

\* After Add, the body is written before the deferred release runs.  The
\* server has no WriteTimeout: the write ends when the client has read enough
\* or has gone.
Write(t) ==
  /\ Alive
  /\ pc[t] = "release" /\ at[t] = "answer"
  /\ At(t, "none")
  /\ UNCHANGED <<vars, slots, gone, life>>

-----------------------------------------------------------------------------
(* The signal loop and the end of main *)

Signal ==
  /\ life = "serving"
  /\ Enable \/ Disable
  /\ UNCHANGED requestVars

Clear ==
  /\ ClearShard
  /\ UNCHANGED requestVars

\* SIGINT or SIGTERM ends the loop that also runs DisableAndClear.
BeginShutdown ==
  /\ life = "serving" /\ ~ Clearing
  /\ life' = "draining"
  /\ UNCHANGED <<vars, slots, at, gone>>

\* Mutant: the shutdown has no timeout.
ShutdownWhenIdle ==
  /\ life = "draining"
  /\ \A t \in Threads : pc[t] = "idle"
  /\ life' = "closing"
  /\ UNCHANGED <<vars, slots, at, gone>>

\* server.Shutdown returns when no request is left, or after 15 seconds
\* whatever is left.
ShutdownReturns ==
  /\ life = "draining"
  /\ life' = "closing"
  /\ UNCHANGED <<vars, slots, at, gone>>

\* store.Close waits for the open transactions; then main returns, and with
\* it whatever still runs.
CloseStore ==
  /\ life = "closing"
  /\ \A t \in Threads : at[t] # "view"
  /\ life' = "exited"
  /\ UNCHANGED <<vars, slots, at, gone>>

-----------------------------------------------------------------------------
Handle(t) ==
  \/ InCache(t)
  \/ TakeSlot(t)
  \/ GiveUp(t)
  \/ BeginView(t)
  \/ EndViewFailed(t)
  \/ EndViewFound(t)

RequestsNext ==
  \/ \E t \in Threads : \/ Handle(t) \/ Write(t) \/ HangUp(t)
                        \/ \E k \in Keys : Arrive(t, k)
  \/ Signal
  \/ Clear
  \/ BeginShutdown
  \/ ShutdownReturns
  \/ CloseStore

\* Goroutines keep being scheduled and time passes.  A write has to end only
\* for a client that has gone: one that stays and never reads blocks it.
RequestsSpec ==
  /\ RequestsInit /\ [][RequestsNext]_allVars
  /\ \A t \in Threads : /\ WF_allVars(Handle(t))
                        /\ WF_allVars(gone[t] /\ Write(t))
  /\ WF_allVars(Clear)
  /\ WF_allVars(ShutdownReturns)
  /\ WF_allVars(CloseStore)

-----------------------------------------------------------------------------
(* Properties *)

\* At most OverlapSlots lookups scan an index at any time, whatever clients
\* hang up while they wait for a slot or hold one.
ScansBounded ==
  Cardinality({t \in Threads : Scans(t) /\ at[t] = "view"}) <= OverlapSlots

\* No client that has something to read stays for ever without reading it.
ClientsRead == \A t \in Threads : []<> ~ (pc[t] = "release" /\ at[t] = "answer")

\* If clients read, every request is answered unless the process exits: no
\* lost wake-up, no cycle between flights, shard locks and slots, no follower
\* that retries for ever after producers that failed or whose clients left.
RequestsAnswered ==
  ClientsRead => \A t \in Threads :
                   pc[t] # "idle" ~> pc[t] = "idle" \/ ~ Alive

\* DisableAndClear finishes, so the signal loop gets to its next signal.
ClearCompletes == Clearing ~> ~ Clearing

\* A process that is told to stop does, also when a client never reads and
\* others wait for its flight: nothing is written inside a transaction.
ShutdownEnds == life = "draining" ~> life = "exited"
=============================================================================
