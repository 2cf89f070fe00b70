---------------------------- MODULE RuntimeCaches ----------------------------
(***************************************************************************)
(* The optional caches in the life of an API process: main and the warmer  *)
(* of cmd/bgp-api/main.go, PreloadCompactSelectors, DropCompactSelectors   *)
(* and WarmDataset of internal/api/bbolt.go, one process per slot.  The    *)
(* env file is read at start; main warms up before it listens, after, or    *)
(* only on SIGUSR1; SIGUSR2 releases what the warmup loaded and switches   *)
(* response caching off.  A warmup and the signal loop are goroutines.     *)
(***************************************************************************)
EXTENDS Integers, Sequences

CONSTANTS Slots,
          Strategies,   \* the cache plans of this instance
          QueueSize     \* capacity of the channel given to signal.Notify

ASSUME ProcessAssumption ==
  /\ Strategies \subseteq {"minimal", "balanced", "full"}
  /\ QueueSize \in Nat \ {0}

VARIABLES
  proc,       \* [Slots -> the process of the slot]
  env,        \* [Slots -> the settings in the slot's env file]
  strategy    \* the cache plan, a function of dataset size and host memory

procVars == <<proc, env, strategy>>

Settings == [defer : BOOLEAN, block : BOOLEAN, control : BOOLEAN]

\* A process that has loaded nothing and serves nobody.
Fresh(life) == [life |-> life, open |-> FALSE,
                defer |-> FALSE, block |-> FALSE, control |-> FALSE,
                selectors |-> FALSE, dataset |-> FALSE, caching |-> TRUE,
                warmer |-> "idle", queue |-> << >>, loop |-> "wait"]

\* systemd reads the env file when it starts the service.
Launched(s) == [Fresh("exec") EXCEPT !.defer = env[s].defer, !.block = env[s].block,
                                     !.control = env[s].control]

Running(s) == proc[s].life \notin {"down", "failing"}
Warm(s) == /\ strategy = "balanced" => proc[s].selectors
           /\ strategy = "full" => proc[s].dataset

Becomes(s, p) == proc' = [proc EXCEPT ![s] = p] /\ UNCHANGED <<env, strategy>>

-----------------------------------------------------------------------------
(* main *)

\* Mutant: the listener is started before the blocking warmup.
ExecListensFirst(s) ==
  /\ proc[s].life = "exec"
  /\ LET p == proc[s] IN
     Becomes(s, IF p.defer /\ p.block THEN Fresh("failing")
                ELSE [p EXCEPT !.life = "notify",
                               !.warmer = IF p.block THEN "begun" ELSE "idle"])

\* Deferred and blocking warmup together are refused.
Exec(s) ==
  /\ proc[s].life = "exec"
  /\ LET p == proc[s] IN
     Becomes(s, IF p.defer /\ p.block THEN Fresh("failing")
                ELSE [p EXCEPT !.life = IF p.block THEN "warming" ELSE "announce",
                               !.warmer = IF p.block THEN "begun" ELSE "idle"])

\* The listener's goroutine is started, and the warmer unless it has run
\* already or is deferred.
Announce(s) ==
  /\ proc[s].life = "announce"
  /\ Becomes(s, [proc[s] EXCEPT
       !.life = "notify",
       !.warmer = IF proc[s].defer \/ proc[s].block THEN @ ELSE "begun"])

\* Mutant: the listener does not wait for the blocking warmup.
OpenWhileWarming(s) ==
  /\ proc[s].life \in {"warming", "notify", "up"}
  /\ ~ proc[s].open
  /\ Becomes(s, [proc[s] EXCEPT !.open = TRUE])

Open(s) ==
  /\ proc[s].life \in {"notify", "up"}
  /\ ~ proc[s].open
  /\ Becomes(s, [proc[s] EXCEPT !.open = TRUE])

Notify(s) ==
  /\ proc[s].life = "notify"
  /\ Becomes(s, [proc[s] EXCEPT !.life = "up"])

-----------------------------------------------------------------------------
(* The warmer: at most one warmup at a time *)

\* PreloadCompactSelectors and WarmDataset return at once if their work is
\* done; the preload holds selectorPreloadMu while it copies.
WarmStart(s) ==
  /\ proc[s].warmer = "begun"
  /\ Becomes(s, [proc[s] EXCEPT !.warmer =
       IF strategy = "balanced" /\ ~ proc[s].selectors THEN "copying"
       ELSE IF strategy = "full" /\ ~ proc[s].dataset THEN "reading"
       ELSE "finishing"])

WarmWork(s) ==
  \/ /\ proc[s].warmer = "copying"
     /\ Becomes(s, [proc[s] EXCEPT !.selectors = TRUE, !.warmer = "finishing"])
  \/ /\ proc[s].warmer = "reading"
     /\ Becomes(s, [proc[s] EXCEPT !.dataset = TRUE, !.warmer = "finishing"])

\* A failed warmup ends a process that blocks on it, and is only logged by
\* one that does not.
WarmError(s) ==
  /\ proc[s].warmer \in {"copying", "reading"}
  /\ Becomes(s, IF proc[s].life = "warming" THEN Fresh("failing")
                ELSE [proc[s] EXCEPT !.warmer = "finishing"])

WarmFinish(s) ==
  /\ proc[s].warmer = "finishing"
  /\ Becomes(s, [proc[s] EXCEPT
       !.warmer = "idle", !.life = IF @ = "warming" THEN "announce" ELSE @])

-----------------------------------------------------------------------------
(* Signals *)

\* Before signal.Notify the runtime ignores SIGUSR1 and SIGUSR2; afterwards a
\* signal that finds the channel full is dropped.
Signalled(s, sig) ==
  IF proc[s].life = "up" /\ Len(proc[s].queue) < QueueSize
  THEN [proc[s] EXCEPT !.queue = Append(@, sig)]
  ELSE proc[s]

\* Mutant: SIGUSR1 only starts the warmer.
TakeWithoutEnable(s) ==
  /\ proc[s].loop = "wait"
  /\ proc[s].queue # << >>
  /\ LET p == [proc[s] EXCEPT !.queue = Tail(@)] IN
     Becomes(s, IF Head(proc[s].queue) = "USR1" THEN [p EXCEPT !.loop = "start"]
                ELSE IF p.control THEN [p EXCEPT !.loop = "drop"]
                ELSE p)

Take(s) ==
  /\ proc[s].loop = "wait"
  /\ proc[s].queue # << >>
  /\ LET p == [proc[s] EXCEPT !.queue = Tail(@)] IN
     Becomes(s, IF Head(proc[s].queue) = "USR1" THEN [p EXCEPT !.caching = TRUE, !.loop = "start"]
                ELSE IF p.control THEN [p EXCEPT !.loop = "drop"]
                ELSE p)

\* A warmup that is already running is not started again.
RestartWarmer(s) ==
  /\ proc[s].loop = "start"
  /\ Becomes(s, [proc[s] EXCEPT !.loop = "wait",
                                !.warmer = IF @ = "idle" THEN "begun" ELSE @])

\* Mutant: the preload's mutex is not taken.
DropUnlocked(s) ==
  /\ proc[s].loop = "drop"
  /\ Becomes(s, [proc[s] EXCEPT !.selectors = FALSE, !.loop = "clear"])

\* DropCompactSelectors waits for a preload that is copying.
DropSelectors(s) ==
  /\ proc[s].loop = "drop"
  /\ proc[s].warmer # "copying"
  /\ Becomes(s, [proc[s] EXCEPT !.selectors = FALSE, !.loop = "clear"])

DisableCaches(s) ==
  /\ proc[s].loop = "clear"
  /\ Becomes(s, [proc[s] EXCEPT !.caching = FALSE, !.loop = "wait"])

-----------------------------------------------------------------------------
Main(s) == Exec(s) \/ Announce(s) \/ Open(s) \/ Notify(s)
Warmer(s) == WarmStart(s) \/ WarmWork(s) \/ WarmFinish(s)
SignalLoop(s) == Take(s) \/ RestartWarmer(s) \/ DropSelectors(s) \/ DisableCaches(s)

ProcessType ==
  [life : {"down", "failing", "exec", "warming", "announce", "notify", "up"},
   open : BOOLEAN, defer : BOOLEAN, block : BOOLEAN, control : BOOLEAN,
   selectors : BOOLEAN, dataset : BOOLEAN, caching : BOOLEAN,
   warmer : {"idle", "begun", "copying", "reading", "finishing"},
   queue : UNION {[1 .. n -> {"USR1", "USR2"}] : n \in 0 .. QueueSize},
   loop : {"wait", "start", "drop", "clear"}]
=============================================================================
