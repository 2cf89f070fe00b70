--------------------------- MODULE BlueGreenUpdate ---------------------------
(***************************************************************************)
(* scripts/sync-bbolt.sh: one host with two API slots behind Caddy and the *)
(* updater that stages a release in the idle slot, moves Caddy to it and   *)
(* removes the old slot, or stops both and replaces the primary.           *)
(*                                                                         *)
(* One action per command that changes the host; between two commands the  *)
(* script can be killed, the host rebooted, a service crash or Caddy stop. *)
(* A release is its number, ordered as published_at orders releases; its   *)
(* dataset and its binary carry the same number.  The flock admits a       *)
(* single run, so the script has one program counter.  Process details     *)
(* (cache release, warmup settings) are not part of this module.           *)
(***************************************************************************)
EXTENDS Integers, FiniteSets

CONSTANTS MaxRelease,   \* bound: releases published
          Scenarios     \* deployments, and what may go wrong on them

Releases == 1 .. MaxRelease
Slots == {"primary", "secondary"}
NoSlot == "none"
Partial == -1   \* a dataset file that is there but cannot be opened
Other(s) == IF s = "primary" THEN "secondary" ELSE "primary"

AllFaults == {"kill", "reboot", "process", "caddy", "start", "timeout",
              "stop", "reload", "marker", "disk"}

\* caddy: a managed Caddy is installed; schema: the dataset schema of each
\* release; modes: the BGP_API_BLUE_GREEN settings runs use; force: runs with
\* BGP_API_FORCE_SYNC=1 occur; kinds and faults: what goes wrong how often.
ScenarioType == [caddy : BOOLEAN, schema : [Releases -> Nat],
                 modes : SUBSET {"auto", "0", "1"}, force : BOOLEAN,
                 kinds : SUBSET AllFaults, faults : Nat]

ASSUME UpdateAssumption ==
  /\ MaxRelease \in Nat \ {0}
  /\ Scenarios \subseteq ScenarioType

VARIABLES
  latest,     \* the newest release on GitHub
  db,         \* [Slots -> release of the dataset at the slot's path, 0 if
              \* none, Partial if its move there was cut short]
  binary,     \* the release of the binary at BINARY_PATH
  enabled,    \* [Slots -> BOOLEAN], systemd starts the slot at boot
  proc,       \* [Slots -> process state and the dataset it has mapped]
  caddyEnv,   \* BGP_API_UPSTREAM in caddy.env; the fallback is the other slot
  caddyConf,  \* the first upstream of the running Caddy, NoSlot when stopped
  marker,     \* ACTIVE_SLOT_FILE
  tag,        \* RELEASE_FILE
  published,  \* PUBLISHED_FILE
  pc,         \* the next command of the script
  run,        \* its shell variables
  faults,     \* faults so far
  scenario    \* the scenario of this behaviour

caddyVars == <<caddyEnv, caddyConf>>
fileVars  == <<db, binary, enabled>>
tagVars   == <<tag, published>>
faultVars == <<faults, scenario>>
vars == <<latest, fileVars, proc, caddyVars, marker, tagVars, pc, run, faultVars>>

NoRun == [rel |-> 0, mode |-> "auto", active |-> NoSlot, target |-> "primary", blueGreen |-> FALSE,
          backup |-> 0, prevEnv |-> NoSlot, undo |-> "none"]

Init ==
  /\ scenario \in Scenarios
  /\ latest = 1
  /\ db = [s \in Slots |-> IF s = "primary" THEN 1 ELSE 0]
  /\ binary = 1
  /\ enabled = [s \in Slots |-> s = "primary"]
  /\ proc = [s \in Slots |-> IF s = "primary" THEN [st |-> "up", db |-> 1]
                                              ELSE [st |-> "down", db |-> 0]]
  /\ caddyEnv = IF scenario.caddy THEN "primary" ELSE NoSlot
  /\ caddyConf = caddyEnv
  /\ marker = "primary"
  /\ tag = 1
  /\ published = 1
  /\ pc = "idle"
  /\ run = NoRun
  /\ faults = 0

-----------------------------------------------------------------------------
(* Helpers *)

Runs(b, d) == b # 0 /\ d \in Releases /\ scenario.schema[b] = scenario.schema[d]

\* caddy_configured: Caddy, its managed configuration and env file exist.
HasCaddy == scenario.caddy

Up == {s \in Slots : proc[s].st = "up"}

\* systemctl is-active: a booting process counts, one waiting for its
\* automatic restart does not.
Active(s) == proc[s].st \in {"boot", "up"}

Fault(kind) == /\ kind \in scenario.kinds
               /\ faults < scenario.faults
               /\ faults' = faults + 1
               /\ UNCHANGED scenario

NoFault == UNCHANGED faultVars

Goto(label) == pc' = label /\ UNCHANGED run
GotoWith(label, r) == pc' = label /\ run' = r
Exit == pc' = "idle" /\ run' = NoRun

\* systemctl stop waits for the job; it also cancels a pending restart.
Stopped(s) == [proc EXCEPT ![s] = [st |-> "down", db |-> 0]]

\* systemctl start forks the process and returns; on a running unit it does
\* nothing.
Started(s) ==
  IF Active(s) THEN proc ELSE [proc EXCEPT ![s] = [st |-> "boot", db |-> 0]]

\* Mutant: the marker file is believed before Caddy's environment.
ReadMarkerFirst ==
  IF marker # NoSlot THEN marker
  ELSE IF caddyEnv # NoSlot /\ Active(caddyEnv) THEN caddyEnv
  ELSE IF Active("primary") THEN "primary"
  ELSE IF Active("secondary") THEN "secondary"
  ELSE IF db["primary"] # 0 THEN "primary" ELSE NoSlot

\* Caddy's environment first, if that slot runs; then the marker; then
\* whatever runs; then a leftover primary dataset.
ReadActiveSlot ==
  CASE caddyEnv # NoSlot /\ Active(caddyEnv) -> caddyEnv
    [] ~ (caddyEnv # NoSlot /\ Active(caddyEnv)) /\ marker # NoSlot -> marker
    [] OTHER -> IF Active("primary") THEN "primary"
                ELSE IF Active("secondary") THEN "secondary"
                ELSE IF db["primary"] # 0 THEN "primary"
                ELSE NoSlot

-----------------------------------------------------------------------------
(* Checking, downloading and planning *)

\* A run that finds the recorded release or nothing newer exits at once,
\* which changes nothing; only the others are steps.
SyncDue == tag # latest /\ latest > published

Check ==
  /\ pc = "idle"
  /\ scenario.force \/ SyncDue
  /\ \E m \in scenario.modes : GotoWith("plan", [NoRun EXCEPT !.rel = latest, !.mode = m])
  /\ NoFault
  /\ UNCHANGED <<latest, fileVars, proc, caddyVars, marker, tagVars>>

\* blue_green_available; mode 1 dies instead of answering no.
CaddyReady == HasCaddy /\ caddyConf # NoSlot
BlueGreen(slot) == run.mode # "0" /\ CaddyReady /\ slot # NoSlot /\ Active(slot)

\* After download, verification and validation, which only touch the work
\* directory.
Plan ==
  /\ pc = "plan"
  /\ \/ /\ run.mode = "1" => CaddyReady
        /\ LET slot == ReadActiveSlot IN
             GotoWith(IF BlueGreen(slot) THEN "drain" ELSE "install",
                      [run EXCEPT !.active = slot, !.blueGreen = BlueGreen(slot),
                                  !.target = IF slot = "primary" THEN "secondary"
                                                                 ELSE "primary"])
     \/ run.mode = "1" /\ ~ CaddyReady /\ Exit
  /\ NoFault
  /\ UNCHANGED <<latest, fileVars, proc, caddyVars, marker, tagVars>>

\* Mutant: the leftover slot is not stopped.
DrainTargetNotStopped ==
  /\ pc = "drain"
  /\ Goto("rmTarget")
  /\ NoFault
  /\ UNCHANGED <<latest, fileVars, proc, caddyVars, marker, tagVars>>

\* A slot left running by an interrupted update is stopped before its
\* database path is reused.
DrainTarget ==
  /\ pc = "drain"
  /\ \/ /\ proc' = IF Active(run.target) THEN Stopped(run.target) ELSE proc
        /\ Goto("rmTarget")
        /\ NoFault
     \/ /\ Active(run.target)
        /\ Fault("stop")
        /\ Exit
        /\ UNCHANGED proc
  /\ UNCHANGED <<latest, fileVars, caddyVars, marker, tagVars>>

\* The disposable dataset goes before the free space is measured; without
\* room for a second dataset the run falls back to stop-and-replace.
RemoveTarget ==
  /\ pc = "rmTarget"
  /\ db' = [db EXCEPT ![run.target] = 0]
  /\ \/ Goto("install") /\ NoFault
     \/ GotoWith("install", [run EXCEPT !.blueGreen = FALSE]) /\ Fault("disk")
  /\ UNCHANGED <<latest, binary, enabled, proc, caddyVars, marker, tagVars>>

InstallBinary ==
  /\ pc = "install"
  /\ binary' = run.rel
  /\ GotoWith(IF run.blueGreen THEN "stage" ELSE "stopBoth",
              [run EXCEPT !.backup = binary])
  /\ NoFault
  /\ UNCHANGED <<latest, db, enabled, proc, caddyVars, marker, tagVars>>

-----------------------------------------------------------------------------
(* Blue-green activation *)

Stage ==
  /\ pc = "stage"
  /\ db' = [db EXCEPT ![run.target] = run.rel]
  /\ Goto("start")
  /\ NoFault
  /\ UNCHANGED <<latest, binary, enabled, proc, caddyVars, marker, tagVars>>

StartTarget ==
  /\ pc = "start"
  /\ \/ proc' = Started(run.target) /\ Goto("health") /\ NoFault
     \/ UNCHANGED proc /\ Exit /\ Fault("start")
  /\ UNCHANGED <<latest, fileVars, caddyVars, marker, tagVars>>

\* Mutant: any answer will do, whatever dataset it is given from.
Answers(s) == proc[s].st = "up"

\* The health endpoint answers with the dataset that was staged.
Healthy(s) == proc[s].st = "up" /\ proc[s].db = run.rel

\* The startup timeout expires: for good when the slot cannot come up with
\* this release, otherwise because it was slow.
TimesOut(s) ==
  \/ /\ \/ proc[s].st = "up" /\ proc[s].db # run.rel
        \/ proc[s].st # "up" /\ ~ Runs(binary, db[s])
     /\ NoFault
  \/ Fault("timeout")

\* Mutant: systemctl is-active instead of a healthy answer.
HealthCheckIsActive ==
  /\ pc = "health"
  /\ \/ Active(run.target) /\ Goto("enable") /\ NoFault
     \/ TimesOut(run.target) /\ GotoWith("undoStop", [run EXCEPT !.undo = "health"])
  /\ UNCHANGED <<latest, fileVars, proc, caddyVars, marker, tagVars>>

HealthCheck ==
  /\ pc = "health"
  /\ \/ Healthy(run.target) /\ Goto("enable") /\ NoFault
     \/ TimesOut(run.target) /\ GotoWith("undoStop", [run EXCEPT !.undo = "health"])
  /\ UNCHANGED <<latest, fileVars, proc, caddyVars, marker, tagVars>>

\* Mutant: the staged slot is not enabled.
EnableTargetForgotten ==
  /\ pc = "enable"
  /\ Goto("switchEnv")
  /\ NoFault
  /\ UNCHANGED <<latest, fileVars, proc, caddyVars, marker, tagVars>>

EnableTarget ==
  /\ pc = "enable"
  /\ enabled' = [enabled EXCEPT ![run.target] = TRUE]
  /\ Goto("switchEnv")
  /\ NoFault
  /\ UNCHANGED <<latest, db, binary, proc, caddyVars, marker, tagVars>>

\* switch_caddy rewrites caddy.env, then reloads the running Caddy, and puts
\* caddy.env back if the reload fails.
SwitchEnv(here, slot, next) ==
  /\ pc = here
  /\ caddyEnv' = slot
  /\ GotoWith(next, [run EXCEPT !.prevEnv = caddyEnv])
  /\ NoFault
  /\ UNCHANGED <<latest, fileVars, proc, caddyConf, marker, tagVars>>

SwitchReload(here, slot, next, failed) ==
  /\ pc = here
  /\ \/ caddyConf # NoSlot /\ caddyConf' = slot /\ Goto(next) /\ NoFault
     \/ caddyConf = NoSlot /\ UNCHANGED caddyConf /\ Goto(failed) /\ NoFault
     \/ caddyConf # NoSlot /\ UNCHANGED caddyConf /\ Goto(failed) /\ Fault("reload")
  /\ UNCHANGED <<latest, fileVars, proc, caddyEnv, marker, tagVars>>

SwitchForward ==
  \/ SwitchEnv("switchEnv", run.target, "switchReload")
  \/ SwitchReload("switchReload", run.target, "mark", "switchRevert")

SwitchRevert ==
  /\ pc = "switchRevert"
  /\ caddyEnv' = run.prevEnv
  /\ GotoWith("undoStop", [run EXCEPT !.undo = "switch"])
  /\ NoFault
  /\ UNCHANGED <<latest, fileVars, proc, caddyConf, marker, tagVars>>

\* Mutant: a failing marker is undone without moving Caddy back.
MarkLeavesCaddy ==
  /\ pc = "mark"
  /\ \/ marker' = run.target /\ Goto("drainActive") /\ NoFault
     \/ /\ UNCHANGED marker
        /\ GotoWith("undoStop", [run EXCEPT !.undo = "mark"])
        /\ Fault("marker")
  /\ UNCHANGED <<latest, fileVars, proc, caddyVars, tagVars>>

Mark ==
  /\ pc = "mark"
  /\ \/ marker' = run.target /\ Goto("drainActive") /\ NoFault
     \/ /\ UNCHANGED marker
        /\ GotoWith("backEnv", [run EXCEPT !.undo = "mark"])
        /\ Fault("marker")
  /\ UNCHANGED <<latest, fileVars, proc, caddyVars, tagVars>>

\* After the grace period the old slot is stopped.
DrainActive ==
  /\ pc = "drainActive"
  /\ \/ proc' = Stopped(run.active) /\ Goto("rmActive") /\ NoFault
     \/ /\ Active(run.active)
        /\ UNCHANGED proc
        /\ GotoWith("backEnv", [run EXCEPT !.undo = "drain"])
        /\ Fault("stop")
  /\ UNCHANGED <<latest, fileVars, caddyVars, marker, tagVars>>

\* Mutant: the wrong slot's dataset is removed.
RemoveTargetInstead ==
  /\ pc = "rmActive"
  /\ db' = [db EXCEPT ![run.target] = 0]
  /\ Goto("disableActive")
  /\ NoFault
  /\ UNCHANGED <<latest, binary, enabled, proc, caddyVars, marker, tagVars>>

RemoveActive ==
  /\ pc = "rmActive"
  /\ db' = [db EXCEPT ![run.active] = 0]
  /\ Goto("disableActive")
  /\ NoFault
  /\ UNCHANGED <<latest, binary, enabled, proc, caddyVars, marker, tagVars>>

DisableActive ==
  /\ pc = "disableActive"
  /\ enabled' = [enabled EXCEPT ![run.active] = FALSE]
  /\ Goto("markAgain")
  /\ NoFault
  /\ UNCHANGED <<latest, db, binary, proc, caddyVars, marker, tagVars>>

MarkAgain ==
  /\ pc = "markAgain"
  /\ \/ marker' = run.target /\ Goto("recordTag") /\ NoFault
     \/ UNCHANGED marker /\ Exit /\ Fault("marker")
  /\ UNCHANGED <<latest, fileVars, proc, caddyVars, tagVars>>

-----------------------------------------------------------------------------
(* Undoing a blue-green activation *)

\* The marker or the drain failed: Caddy goes back to the old slot first.
SwitchBack ==
  \/ SwitchEnv("backEnv", run.active, "backReload")
  \/ SwitchReload("backReload", run.active,
                  IF run.undo = "drain" THEN "backMark" ELSE "undoStop",
                  "backRevert")

\* Caddy refuses: the new slot remains serving and the script dies.
BackRevert ==
  /\ pc = "backRevert"
  /\ caddyEnv' = run.prevEnv
  /\ Exit
  /\ NoFault
  /\ UNCHANGED <<latest, fileVars, proc, caddyConf, marker, tagVars>>

\* The result of write_active_slot is ignored here.
BackMark ==
  /\ pc = "backMark"
  /\ \/ marker' = run.active /\ NoFault
     \/ UNCHANGED marker /\ Fault("marker")
  /\ Goto("undoStop")
  /\ UNCHANGED <<latest, fileVars, proc, caddyVars, tagVars>>

UndoStop ==
  /\ pc = "undoStop"
  /\ \/ /\ proc' = Stopped(run.target)
        /\ Goto(IF run.undo = "health" THEN "undoRemove" ELSE "undoDisable")
        /\ NoFault
        /\ UNCHANGED binary
     \/ /\ Active(run.target)
        /\ UNCHANGED proc
        /\ binary' = run.backup
        /\ Exit
        /\ Fault("stop")
  /\ UNCHANGED <<latest, db, enabled, caddyVars, marker, tagVars>>

UndoDisable ==
  /\ pc = "undoDisable"
  /\ enabled' = [enabled EXCEPT ![run.target] = FALSE]
  /\ Goto("undoRemove")
  /\ NoFault
  /\ UNCHANGED <<latest, db, binary, proc, caddyVars, marker, tagVars>>

UndoRemove ==
  /\ pc = "undoRemove"
  /\ db' = [db EXCEPT ![run.target] = 0]
  /\ Goto("undoBinary")
  /\ NoFault
  /\ UNCHANGED <<latest, binary, enabled, proc, caddyVars, marker, tagVars>>

\* Mutant: the new binary stays installed.
KeepBinary(here) ==
  /\ pc = here
  /\ Exit
  /\ NoFault
  /\ UNCHANGED <<latest, fileVars, proc, caddyVars, marker, tagVars>>

RestoreBinary(here) ==
  /\ pc = here
  /\ binary' = run.backup
  /\ Exit
  /\ NoFault
  /\ UNCHANGED <<latest, db, enabled, proc, caddyVars, marker, tagVars>>

-----------------------------------------------------------------------------
(* Stop-and-replace activation *)

StopBoth ==
  /\ pc = "stopBoth"
  /\ \/ /\ proc' = [s \in Slots |-> [st |-> "down", db |-> 0]]
        /\ Goto("rmBoth")
        /\ NoFault
     \/ \E s \in Slots : /\ Active(s)
                         /\ proc' = Stopped(Other(s))
                         /\ Exit
                         /\ Fault("stop")
  /\ UNCHANGED <<latest, fileVars, caddyVars, marker, tagVars>>

RemoveBoth ==
  /\ pc = "rmBoth"
  /\ db' = [s \in Slots |-> 0]
  /\ Goto("replace")
  /\ NoFault
  /\ UNCHANGED <<latest, binary, enabled, proc, caddyVars, marker, tagVars>>

Replace ==
  /\ pc = "replace"
  /\ db' = [db EXCEPT !["primary"] = run.rel]
  /\ Goto("enablePrimary")
  /\ NoFault
  /\ UNCHANGED <<latest, binary, enabled, proc, caddyVars, marker, tagVars>>

\* Mutant: the secondary unit stays enabled.
EnablePrimaryOnly ==
  /\ pc = "enablePrimary"
  /\ enabled' = [enabled EXCEPT !["primary"] = TRUE]
  /\ Goto("startPrimary")
  /\ NoFault
  /\ UNCHANGED <<latest, db, binary, proc, caddyVars, marker, tagVars>>

EnablePrimary ==
  /\ pc = "enablePrimary"
  /\ enabled' = [s \in Slots |-> s = "primary"]
  /\ Goto("startPrimary")
  /\ NoFault
  /\ UNCHANGED <<latest, db, binary, proc, caddyVars, marker, tagVars>>

StartPrimary ==
  /\ pc = "startPrimary"
  /\ \/ proc' = Started("primary") /\ Goto("healthPrimary") /\ NoFault
     \/ UNCHANGED proc /\ Exit /\ Fault("start")
  /\ UNCHANGED <<latest, fileVars, caddyVars, marker, tagVars>>

\* Mutant: systemctl is-active instead of a healthy answer.
HealthPrimaryIsActive ==
  /\ pc = "healthPrimary"
  /\ \/ Active("primary") /\ Goto("replaceMark") /\ NoFault
     \/ TimesOut("primary") /\ Goto("replaceBinary")
  /\ UNCHANGED <<latest, fileVars, proc, caddyVars, marker, tagVars>>

HealthPrimary ==
  /\ pc = "healthPrimary"
  /\ \/ /\ Healthy("primary")
        /\ Goto(CASE ~ HasCaddy -> "replaceMark"
                  [] HasCaddy /\ caddyConf # NoSlot -> "replaceEnv"
                  [] OTHER -> "replacePersist")
        /\ NoFault
     \/ TimesOut("primary") /\ Goto("replaceBinary")
  /\ UNCHANGED <<latest, fileVars, proc, caddyVars, marker, tagVars>>

\* A Caddy found stopped only gets its next upstream persisted.
ReplaceSwitch ==
  \/ SwitchEnv("replacePersist", "primary", "replaceMark")
  \/ SwitchEnv("replaceEnv", "primary", "replaceReload")
  \/ SwitchReload("replaceReload", "primary", "replaceMark", "backRevert")

ReplaceMark ==
  /\ pc = "replaceMark"
  /\ \/ marker' = "primary" /\ Goto("recordTag") /\ NoFault
     \/ UNCHANGED marker /\ Exit /\ Fault("marker")
  /\ UNCHANGED <<latest, fileVars, proc, caddyVars, tagVars>>

-----------------------------------------------------------------------------
(* Recording the release *)

RecordTag ==
  /\ pc = "recordTag"
  /\ tag' = run.rel
  /\ Goto("recordPublished")
  /\ NoFault
  /\ UNCHANGED <<latest, fileVars, proc, caddyVars, marker, published>>

RecordPublished ==
  /\ pc = "recordPublished"
  /\ published' = run.rel
  /\ Exit
  /\ NoFault
  /\ UNCHANGED <<latest, fileVars, proc, caddyVars, marker, tag>>

-----------------------------------------------------------------------------
(* GitHub, systemd, Caddy and the host *)

Publish ==
  /\ latest < MaxRelease
  /\ latest' = latest + 1
  /\ UNCHANGED <<fileVars, proc, caddyVars, marker, tagVars, pc, run, faultVars>>

\* Mutant: the listener opens whatever the dataset is.
BootUnchecked(s) ==
  /\ proc[s].st = "boot"
  /\ proc' = [proc EXCEPT ![s] = [st |-> "up", db |-> db[s]]]
  /\ UNCHANGED <<latest, fileVars, caddyVars, marker, tagVars, pc, run, faultVars>>

\* main opens the dataset and listens, or exits and waits for systemd.
Boot(s) ==
  /\ proc[s].st = "boot"
  /\ proc' = [proc EXCEPT ![s] = IF Runs(binary, db[s])
                                 THEN [st |-> "up", db |-> db[s]]
                                 ELSE [st |-> "failing", db |-> 0]]
  /\ UNCHANGED <<latest, fileVars, caddyVars, marker, tagVars, pc, run, faultVars>>

\* Mutant: the unit has no Restart=.
NoRetry(s) ==
  /\ proc[s].st = "failing"
  /\ proc' = [proc EXCEPT ![s].st = "down"]
  /\ UNCHANGED <<latest, fileVars, caddyVars, marker, tagVars, pc, run, faultVars>>

\* Restart=always and Restart=on-failure after RestartSec.
Retry(s) ==
  /\ proc[s].st = "failing"
  /\ proc' = [proc EXCEPT ![s].st = "boot"]
  /\ UNCHANGED <<latest, fileVars, caddyVars, marker, tagVars, pc, run, faultVars>>

ProcessCrash(s) ==
  /\ Active(s)
  /\ Fault("process")
  /\ proc' = [proc EXCEPT ![s] = [st |-> "failing", db |-> 0]]
  /\ UNCHANGED <<latest, fileVars, caddyVars, marker, tagVars, pc, run>>

CaddyStop ==
  /\ caddyConf # NoSlot
  /\ Fault("caddy")
  /\ caddyConf' = NoSlot
  /\ UNCHANGED <<latest, fileVars, proc, caddyEnv, marker, tagVars, pc, run>>

\* caddy.service reads caddy.env before exec.
CaddyStart ==
  /\ HasCaddy
  /\ caddyConf = NoSlot
  /\ caddyConf' = caddyEnv
  /\ UNCHANGED <<latest, fileVars, proc, caddyEnv, marker, tagVars, pc, run, faultVars>>

\* mv copies when the work directory is on another file system: ended in
\* between, it leaves part of a dataset at the slot's path.
CutShort ==
  \/ UNCHANGED db
  \/ pc = "stage" /\ db' = [db EXCEPT ![run.target] = Partial]
  \/ pc = "replace" /\ db' = [db EXCEPT !["primary"] = Partial]

\* Killed, or ended by errexit at a command without a handler.
Kill ==
  /\ pc # "idle"
  /\ Fault("kill")
  /\ Exit
  /\ CutShort
  /\ UNCHANGED <<latest, binary, enabled, proc, caddyVars, marker, tagVars>>

Reboot ==
  /\ Fault("reboot")
  /\ Exit
  /\ proc' = [s \in Slots |-> [st |-> IF enabled[s] THEN "boot" ELSE "down",
                               db |-> 0]]
  /\ caddyConf' = caddyEnv
  /\ CutShort
  /\ UNCHANGED <<latest, binary, enabled, caddyEnv, marker, tagVars>>

-----------------------------------------------------------------------------
Script ==
  \/ Plan \/ DrainTarget \/ RemoveTarget \/ InstallBinary
  \/ Stage \/ StartTarget \/ HealthCheck \/ EnableTarget
  \/ SwitchForward \/ SwitchRevert \/ Mark \/ DrainActive \/ RemoveActive
  \/ DisableActive \/ MarkAgain
  \/ SwitchBack \/ BackRevert \/ BackMark
  \/ UndoStop \/ UndoDisable \/ UndoRemove \/ RestoreBinary("undoBinary")
  \/ StopBoth \/ RemoveBoth \/ Replace \/ EnablePrimary \/ StartPrimary
  \/ HealthPrimary \/ RestoreBinary("replaceBinary") \/ ReplaceSwitch
  \/ ReplaceMark
  \/ RecordTag \/ RecordPublished

Systemd == \E s \in Slots : Boot(s) \/ Retry(s)

Next ==
  \/ Publish
  \/ Check
  \/ Script
  \/ Systemd
  \/ \E s \in Slots : ProcessCrash(s)
  \/ CaddyStop
  \/ CaddyStart
  \/ Kill
  \/ Reboot

Spec == Init /\ [][Next]_vars

\* The timer starts a run every day, a started script goes on, systemd starts
\* what it is asked to start, and somebody restarts Caddy.
Fairness ==
  /\ WF_vars(Check)
  /\ WF_vars(Script)
  /\ \A s \in Slots : WF_vars(Boot(s)) /\ WF_vars(Retry(s))
  /\ WF_vars(CaddyStart)

FairSpec == Spec /\ Fairness
-----------------------------------------------------------------------------
(* Properties *)

\* The script's labels, by the phase they belong to.
PlanLabels    == {"plan", "drain", "rmTarget", "install"}
ForwardLabels == {"stage", "start", "health", "enable", "switchEnv", "switchReload",
                  "mark", "drainActive", "rmActive", "disableActive", "markAgain"}
UndoLabels    == {"switchRevert", "backEnv", "backReload", "backRevert", "backMark",
                  "undoStop", "undoDisable", "undoRemove", "undoBinary"}
ReplaceLabels == {"stopBoth", "rmBoth", "replace", "enablePrimary", "startPrimary",
                  "healthPrimary", "replaceEnv", "replacePersist", "replaceReload",
                  "replaceMark", "replaceBinary"}
RecordLabels  == {"recordTag", "recordPublished"}
Labels == {"idle"} \cup PlanLabels \cup ForwardLabels \cup UndoLabels
                   \cup ReplaceLabels \cup RecordLabels

MaybeSlot    == Slots \cup {NoSlot}
MaybeRelease == Releases \cup {0}

RunType == [rel : MaybeRelease, mode : {"auto", "0", "1"}, active : MaybeSlot,
            target : Slots, blueGreen : BOOLEAN, backup : MaybeRelease, prevEnv : MaybeSlot,
            undo : {"none", "health", "switch", "mark", "drain"}]

\* Types of the host's state and of the script's variables; a process has a
\* dataset mapped exactly when it is up.
TypeOK ==
  /\ latest \in Releases
  /\ db \in [Slots -> MaybeRelease \cup {Partial}]
  /\ binary \in MaybeRelease
  /\ enabled \in [Slots -> BOOLEAN]
  /\ proc \in [Slots -> [st : {"down", "boot", "up", "failing"}, db : MaybeRelease]]
  /\ \A s \in Slots : (proc[s].st = "up") <=> (proc[s].db # 0)
  /\ caddyEnv \in MaybeSlot /\ caddyConf \in MaybeSlot /\ marker \in MaybeSlot
  /\ tag \in MaybeRelease /\ published \in MaybeRelease
  /\ pc \in Labels
  /\ run \in RunType
  /\ scenario \in Scenarios /\ faults \in 0 .. scenario.faults

\* The slot Caddy sends a request to: its first upstream, or the fallback
\* while the first one refuses connections (deploy/Caddyfile, lb_policy first).
Routed ==
  IF caddyConf \in Up THEN caddyConf
  ELSE IF caddyConf # NoSlot /\ Other(caddyConf) \in Up THEN Other(caddyConf)
  ELSE NoSlot

\* The dataset behind Caddy, 0 when no slot answers.
ServedRelease == IF Routed = NoSlot THEN 0 ELSE proc[Routed].db

\* What a scenario rules out: faults of these kinds; everything that makes a
\* run choose stop-and-replace; a binary that cannot open an older dataset.
Without(kinds) == scenario.kinds \cap kinds = {}
OnlyBlueGreen == /\ scenario.caddy
                 /\ "0" \notin scenario.modes
                 /\ Without({"process", "caddy", "disk"})
OneSchema == \A r, q \in Releases : scenario.schema[r] = scenario.schema[q]

\* read_active_slot and the undo paths: while a blue-green update runs that
\* nothing killed, the slot that Caddy tries first answers, so no request
\* depends on the fallback.
FirstUpstreamServes ==
  /\ OnlyBlueGreen
  /\ Without({"kill", "reboot"})
  /\ pc \in ForwardLabels \cup UndoLabels
  => caddyConf \in Up

\* rm -f of a slot's dataset comes after its service is stopped: a serving
\* process can be restarted by systemd with the dataset it has mapped.
ServingSlotKeepsItsFile ==
  OneSchema /\ Without({"process", "reboot"}) => \A s \in Up : db[s] = proc[s].db

\* Where releases share one dataset schema, a reboot between any two commands
\* of blue-green updates leaves a slot that systemd starts and that has a
\* dataset to serve.  Across a schema change both slots share the new binary.
BootSafe ==
  OneSchema /\ OnlyBlueGreen => \E s \in Slots : enabled[s] /\ Runs(binary, db[s])

\* What the script has established when it records a release, whatever failed,
\* crashed or was killed before: one slot holds it and is started with it, and
\* is marked and Caddy's first upstream; the other slot is stopped, disabled
\* and without a dataset.  What answers from the slot is the release, never an
\* older dataset that systemd brought back while the slot was staged, and it
\* answers if no process crashed.  A stopped Caddy that starts while its next
\* upstream is persisted may have read the old one.
CleanFinish ==
  pc \in RecordLabels =>
    LET s == marker IN
    /\ s \in Slots
    /\ db[s] = run.rel /\ enabled[s] /\ binary = run.rel
    /\ proc[s].st = "up" => proc[s].db = run.rel
    /\ Without({"process"}) => proc[s].st = "up"
    /\ db[Other(s)] = 0 /\ proc[Other(s)].st = "down" /\ ~ enabled[Other(s)]
    /\ HasCaddy => caddyEnv = s
    /\ HasCaddy /\ (run.blueGreen \/ Without({"caddy"})) => caddyConf \in {s, NoSlot}

\* "release $release_tag is already active": when the recorded tag makes a
\* run exit at once, the release is there and started at boot.
AlreadyActiveIsTrue ==
  ~ scenario.force /\ pc = "idle" /\ tag = latest
    => \E s \in Slots : db[s] = latest /\ enabled[s]

\* When a run ends, completed or undone, the installed binary is the one of
\* the release being served.
BinaryMatchesService ==
  pc = "idle" /\ ServedRelease # 0 => binary = ServedRelease

\* The undo paths after a failed health check, switch, marker or drain of a
\* blue-green run keep to that.
UndoMatchesBinary ==
  OnlyBlueGreen /\ Without({"kill", "start", "reboot"}) => BinaryMatchesService

\* "The active slot was derived from Caddy above, so the other service is
\* safe to drain before its database path is reused."
DrainSparesCaddysSlot == pc = "drain" => run.target # caddyConf

Rollout == INSTANCE Rollout WITH
  promise   <- IF ~ OnlyBlueGreen \/ ~ Without({"reboot"}) THEN "none"
               ELSE IF Without({"kill"}) THEN "seamless" ELSE "available",
  newest    <- latest,
  running   <- {proc[s].db : s \in Up},
  answering <- ServedRelease,
  failed    <- run.undo # "none"

\* README "keeps planned dataset updates available": to clients an update is
\* a rollout.  Where nothing kills it the answering release only goes
\* forward, or back after a failed marker or drain, and the slot that answers
\* is never the one being stopped, so nobody depends on the fallback; where it
\* may be killed at any command there is still no step that leaves Caddy
\* without an answering slot.
ImplementsRollout == Rollout!Spec

\* The timer retries and nothing persisted wedges the updater: whatever a
\* bounded number of failures leaves behind, Caddy ends up routing to the
\* newest release for good.  (A forced stop-and-replace killed after rm leaves
\* the recorded tag equal to the newest release.)
EventuallyCurrent ==
  <>[](~ scenario.force =>
         IF HasCaddy THEN ServedRelease = latest
                     ELSE \E s \in Up : proc[s].db = latest)
=============================================================================
