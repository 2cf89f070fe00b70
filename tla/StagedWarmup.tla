---------------------------- MODULE StagedWarmup ----------------------------
(***************************************************************************)
(* The staging part of scripts/sync-bbolt.sh together with the processes   *)
(* it signals and starts: under memory pressure the active slot releases   *)
(* its caches, the warmup settings of the idle slot are saved, replaced    *)
(* for one start and put back, and an update that does not activate asks   *)
(* the active slot to reload.  BlueGreenUpdate has the rest of the script; *)
(* here a failed switch or marker is one step, and the drain succeeds.     *)
(***************************************************************************)
EXTENDS RuntimeCaches

CONSTANTS Primary,       \* the slot that serves first
          Operator,      \* the settings an operator may write into an env file
          FaultSets,     \* the sets of faults that may occur together
          MaxFaults,     \* bound
          MaxRuns        \* bound

AllFaults == {"kill", "die", "warm", "refuse", "timeout", "undo"}

ASSUME StagingAssumption ==
  /\ Primary \in Slots
  /\ \E s \in Slots : Slots = {Primary, s} /\ s # Primary
  /\ Operator \subseteq {e \in Settings : ~ (e.defer /\ e.block)}
  /\ FaultSets \subseteq SUBSET AllFaults
  /\ MaxFaults \in Nat /\ MaxRuns \in Nat

VARIABLES
  step,       \* the next command of the script
  active,     \* the slot Caddy routes to
  released,   \* active_caches_released
  before,     \* the saved settings of the idle slot
  runs,       \* runs so far
  faults,     \* faults so far
  kinds,      \* the faults of this behaviour
  operator    \* [Slots -> the operator's settings], for the properties

scriptVars == <<step, active, released, before, runs>>
faultVars  == <<faults, kinds, operator>>
vars == <<procVars, scriptVars, faultVars>>

Target == CHOOSE s \in Slots : s # active

NothingSaved == [defer |-> FALSE, block |-> FALSE]

Init ==
  /\ strategy \in Strategies
  /\ operator \in [Slots -> Operator]
  /\ env = operator
  /\ proc = [s \in Slots |-> IF s = Primary THEN Launched(s) ELSE Fresh("down")]
  /\ step = "idle" /\ active = Primary /\ released = FALSE
  /\ before = NothingSaved
  /\ runs = 0 /\ faults = 0
  /\ kinds \in FaultSets

Fault(kind) == /\ kind \in kinds
               /\ faults < MaxFaults
               /\ faults' = faults + 1
               /\ UNCHANGED <<kinds, operator>>
NoFault == UNCHANGED faultVars

Goto(here, next) == step = here /\ step' = next

-----------------------------------------------------------------------------
(* Staging *)

\* A run downloads and unpacks for minutes before it stages: the active slot
\* is up and has taken the signals of earlier runs.
Settled(s) == /\ proc[s].life = "up" /\ proc[s].open
              /\ proc[s].queue = << >> /\ proc[s].loop = "wait"
              /\ proc[s].warmer # "begun"

Begin ==
  /\ Goto("idle", "release")
  /\ runs < MaxRuns
  /\ Settled(active)
  /\ runs' = runs + 1
  /\ released' = FALSE
  /\ proc' = [proc EXCEPT ![Target] = Fresh("down")]
  /\ NoFault
  /\ UNCHANGED <<env, strategy, active, before>>

\* Memory is below the reserve and the active process reports that it handles
\* SIGUSR2, or nothing is released.
Release ==
  /\ Goto("release", "save")
  /\ \/ /\ proc[active].open /\ proc[active].control
        /\ proc' = [proc EXCEPT ![active] = Signalled(active, "USR2")]
        /\ released' = TRUE
     \/ UNCHANGED <<proc, released>>
  /\ NoFault
  /\ UNCHANGED <<env, strategy, active, before, runs>>

Save ==
  /\ Goto("save", "setDefer")
  /\ before' = [defer |-> env[Target].defer, block |-> env[Target].block]
  /\ env' = [env EXCEPT ![Target].control = TRUE]
  /\ NoFault
  /\ UNCHANGED <<proc, strategy, active, released, runs>>

\* Mutant: the operator's deferred warmup is left in the file.
SetNothing(here, value, next) ==
  /\ Goto(here, next)
  /\ NoFault
  /\ UNCHANGED <<procVars, active, released, before, runs>>

SetDefer(here, value, next) ==
  /\ Goto(here, next)
  /\ env' = [env EXCEPT ![Target].defer = value]
  /\ NoFault
  /\ UNCHANGED <<proc, strategy, active, released, before, runs>>

SetBlock(here, value, next) ==
  /\ Goto(here, next)
  /\ env' = [env EXCEPT ![Target].block = value]
  /\ NoFault
  /\ UNCHANGED <<proc, strategy, active, released, before, runs>>

\* Mutant: the settings of a service that could not start are left behind.
StartLeavesSettings ==
  /\ \/ /\ Goto("start", "resetDefer") /\ NoFault
        /\ proc' = [proc EXCEPT ![Target] = Launched(Target)]
     \/ Goto("start", "giveBack") /\ Fault("refuse") /\ UNCHANGED proc
  /\ UNCHANGED <<env, strategy, active, released, before, runs>>

\* The settings are put back whether the service starts or not.
Start ==
  /\ \/ /\ Goto("start", "resetDefer") /\ NoFault
        /\ proc' = [proc EXCEPT ![Target] = Launched(Target)]
     \/ Goto("start", "undoDefer") /\ Fault("refuse") /\ UNCHANGED proc
  /\ UNCHANGED <<env, strategy, active, released, before, runs>>

\* A slot whose restart is refused for its settings never answers.
NeverAnswers(s) == proc[s].life = "failing" /\ env[s].defer /\ env[s].block

HealthCheck ==
  /\ \/ Goto("health", "switch") /\ proc[Target].open /\ NoFault
     \/ Goto("health", "stopTarget") /\ NeverAnswers(Target) /\ NoFault
     \/ Goto("health", "stopTarget") /\ Fault("timeout")
  /\ UNCHANGED <<procVars, active, released, before, runs>>

\* Caddy moves and the marker follows, or both stay and the update is undone.
Switch ==
  /\ \/ Goto("switch", "drain") /\ active' = Target /\ NoFault
     \/ Goto("switch", "stopTarget") /\ UNCHANGED active /\ Fault("undo")
  /\ UNCHANGED <<procVars, released, before, runs>>

StopTarget(here, next) ==
  /\ Goto(here, next)
  /\ proc' = [proc EXCEPT ![Target] = Fresh("down")]
  /\ NoFault
  /\ UNCHANGED <<env, strategy, active, released, before, runs>>

GiveBack ==
  /\ Goto("giveBack", "idle")
  /\ proc' = IF released THEN [proc EXCEPT ![active] = Signalled(active, "USR1")]
                         ELSE proc
  /\ released' = FALSE
  /\ NoFault
  /\ UNCHANGED <<env, strategy, active, before, runs>>

\* Killed, or ended by errexit: nothing is undone.
Kill ==
  /\ step # "idle"
  /\ step' = "idle"
  /\ Fault("kill")
  /\ UNCHANGED <<procVars, active, released, before, runs>>

Script ==
  \/ Release \/ Save
  \/ SetDefer("setDefer", FALSE, "setBlock") \/ SetBlock("setBlock", TRUE, "start")
  \/ Start
  \/ SetDefer("resetDefer", before.defer, "resetBlock")
  \/ SetBlock("resetBlock", before.block, "health")
  \/ HealthCheck \/ Switch
  \/ StopTarget("drain", "idle")
  \/ SetDefer("undoDefer", before.defer, "undoBlock")
  \/ SetBlock("undoBlock", before.block, "giveBack")
  \/ StopTarget("stopTarget", "giveBack")
  \/ GiveBack

-----------------------------------------------------------------------------
(* The processes *)

Process(s) == /\ Main(s) \/ Warmer(s) \/ SignalLoop(s)
              /\ UNCHANGED <<scriptVars, faultVars>>

WarmFails(s) == WarmError(s) /\ Fault("warm") /\ UNCHANGED scriptVars

Die(s) ==
  /\ Running(s)
  /\ Becomes(s, Fresh("failing"))
  /\ Fault("die")
  /\ UNCHANGED scriptVars

\* Restart=always and Restart=on-failure.
Retry(s) ==
  /\ proc[s].life = "failing"
  /\ Becomes(s, Launched(s))
  /\ UNCHANGED <<scriptVars, faultVars>>

Next ==
  \/ Begin
  \/ Script
  \/ Kill
  \/ \E s \in Slots : Process(s) \/ WarmFails(s) \/ Die(s) \/ Retry(s)

\* A started script goes on, systemd restarts, and goroutines are scheduled.
Fairness ==
  /\ WF_vars(Script)
  /\ \A s \in Slots :
       /\ WF_vars(Main(s) /\ UNCHANGED <<scriptVars, faultVars>>)
       /\ WF_vars(Warmer(s) /\ UNCHANGED <<scriptVars, faultVars>>)
       /\ WF_vars(SignalLoop(s) /\ UNCHANGED <<scriptVars, faultVars>>)
       /\ WF_vars(Retry(s))

Spec == Init /\ [][Next]_vars /\ Fairness

-----------------------------------------------------------------------------
(* Properties *)

Steps == {"idle", "release", "save", "setDefer", "setBlock", "start", "resetDefer",
          "resetBlock", "health", "switch", "drain", "stopTarget", "undoDefer",
          "undoBlock", "giveBack"}

Without(some) == kinds \cap some = {}

\* Types; a process serves only once main has reached its listener.
TypeOK ==
  /\ proc \in [Slots -> ProcessType] /\ env \in [Slots -> Settings]
  /\ \A s \in Slots : proc[s].open => proc[s].life \in {"notify", "up"}
  /\ strategy \in Strategies
  /\ step \in Steps /\ active \in Slots /\ released \in BOOLEAN
  /\ before \in [defer : BOOLEAN, block : BOOLEAN]
  /\ runs \in 0 .. MaxRuns /\ faults \in 0 .. MaxFaults
  /\ kinds \in FaultSets /\ operator \in [Slots -> Operator]

\* README "Fully warm the inactive slot before it opens its listener": the
\* slot that passed its health check, and then serves, has loaded what its
\* cache plan loads.
StagedSlotWarm == /\ step = "switch" => Warm(Target)
                  /\ step = "drain" => Warm(active)

\* It keeps to that if the staged process is the one the script started.
FirstStartWarm == Without({"die", "warm"}) => StagedSlotWarm

\* A start the script asks for is never refused for the settings in the env
\* file, whatever the operator wrote there and wherever a run was killed.
StartAccepted ==
  Without({"die", "warm"}) =>
    \A s \in Slots : proc[s].life = "exec" => ~ (proc[s].defer /\ proc[s].block)

\* "restoring them after start affects only a later process restart": between
\* two runs that nothing killed every slot would restart with the operator's
\* warmup settings, completed or undone, however often they alternate.
SettingsRestored ==
  Without({"kill"}) /\ step = "idle" =>
    \A s \in Slots : /\ env[s].defer = operator[s].defer
                     /\ env[s].block = operator[s].block

\* "This creates room for the staged process": a release that has been carried
\* out is not undone by a warmup that was loading selectors at the time.
ReleaseLasts ==
  LET p == proc[active] IN
  /\ Without({"die", "kill"})
  /\ released /\ step \in {"save", "start", "health", "switch", "stopTarget"}
  /\ p.queue = << >> /\ p.loop = "wait"
  => ~ p.selectors /\ ~ p.caching

\* restore_active_caches_after_failed_stage: unless a run is killed, the slot
\* that is left serving ends up with response caching switched on.
CachesComeBack ==
  <>[](Without({"kill"}) /\ step = "idle" /\ proc[active].open => proc[active].caching)
=============================================================================
