------------------------ MODULE BlueGreenUpdateProofs ------------------------
(* Safety of scripts/sync-bbolt.sh for any number of releases and faults and *)
(* any deployment: what a run has established on the host at each of its     *)
(* commands, and what is left of it when the run is ended there; and of an   *)
(* installation next to it.                                                  *)
EXTENDS InstallAndUpdate, TLAPS

(* The labels of a run by what it has done *)

AfterStage   == (ForwardLabels \ {"stage"}) \cup
                {"switchRevert", "backEnv", "backReload", "backRevert"}
AfterHealth  == AfterStage \ {"start", "health"}
AfterEnable  == AfterHealth \ {"enable"}
AfterDrain   == {"rmActive", "disableActive", "markAgain"}
BeforeEnd    == (PlanLabels \cup ForwardLabels \cup UndoLabels)
                \ ({"plan"} \cup AfterDrain)
OnTarget     == {"switchReload", "switchRevert", "mark", "backEnv", "drainActive"}
                \cup AfterDrain
AfterReplace == (ReplaceLabels \ {"stopBoth", "rmBoth", "replace"}) \cup {"backRevert"}
AfterStart   == AfterReplace \ {"enablePrimary", "startPrimary"}

\* A run of either mode that has got so far, or to the record of its release.
Blue(labels)  == run.blueGreen /\ pc \in labels \cup RecordLabels
Green(labels) == ~ run.blueGreen /\ pc \in labels \cup RecordLabels

-----------------------------------------------------------------------------
(* The inductive invariant *)

\* The shell variables of a run.
RunInv ==
  /\ pc = "idle" => run = NoRun
  /\ pc # "idle" => run.rel \in Releases /\ run.mode \in scenario.modes
  /\ run.blueGreen =>
       /\ HasCaddy /\ run.active \in Slots /\ run.target = Other(run.active)
       /\ pc \in {"drain", "rmTarget", "install"} \cup ForwardLabels \cup UndoLabels
                 \cup RecordLabels
  /\ pc \in {"drain", "rmTarget"} \cup ForwardLabels \cup (UndoLabels \ {"backRevert"})
       => run.blueGreen
  /\ binary \in Releases
  /\ pc \in ForwardLabels \cup UndoLabels \cup ReplaceLabels \cup RecordLabels
       => run.backup \in Releases /\ binary = run.rel

\* Datasets, units and marker.  None of it depends on processes or Caddy.
DiskInv ==
  /\ Blue(AfterStage) => db[run.target] = run.rel
  /\ Blue(AfterEnable) => enabled[run.target]
  /\ Blue({"disableActive", "markAgain"}) => db[run.active] = 0
  /\ Blue({"markAgain"}) => ~ enabled[run.active]
  /\ Green(AfterReplace) => db["primary"] = run.rel
  /\ Green(AfterReplace \cup {"replace"}) => db["secondary"] = 0
  /\ Green(AfterReplace \ {"enablePrimary"}) => enabled["primary"] /\ ~ enabled["secondary"]
  /\ pc \in RecordLabels => marker = IF run.blueGreen THEN run.target ELSE "primary"

\* The processes, and where Caddy points.  A slot that the script has found
\* healthy may crash and come back, with what it has staged and nothing else;
\* a Caddy that stops comes back with its persisted upstream.
HostInv ==
  /\ HasCaddy => caddyEnv \in Slots
  /\ HasCaddy /\ pc \in {"switchReload", "switchRevert", "backReload", "backRevert",
                         "replaceReload"} => run.prevEnv \in Slots
  /\ Blue(AfterHealth) /\ proc[run.target].st = "up" => proc[run.target].db = run.rel
  /\ Blue(OnTarget) => caddyEnv = run.target
  /\ Blue({"mark", "backEnv", "drainActive"} \cup AfterDrain)
       => caddyConf \in {run.target, NoSlot}
  /\ Blue(AfterDrain) => proc[run.active].st = "down"
  /\ pc \in {"rmBoth", "replace", "enablePrimary", "startPrimary"}
       => proc["primary"].st = "down"
  /\ Green(AfterReplace \cup {"rmBoth", "replace"}) => proc["secondary"].st = "down"
  /\ Green(AfterStart \ {"healthPrimary", "replaceBinary"}) /\ proc["primary"].st = "up"
       => proc["primary"].db = run.rel
  /\ HasCaddy /\ Green({"replaceReload", "replaceMark"}) => caddyEnv = "primary"
  /\ Without({"process"}) =>
       /\ Blue(AfterHealth) => proc[run.target] = [st |-> "up", db |-> run.rel]
       /\ Green(AfterStart \ {"healthPrimary", "replaceBinary"})
            => proc["primary"] = [st |-> "up", db |-> run.rel]
  /\ HasCaddy /\ Without({"caddy"}) =>
       /\ caddyConf \in Slots
       /\ pc # "replacePersist"
       /\ Green({"replaceMark"}) => caddyConf = "primary"

\* Where every binary opens every dataset and nothing but the script stops a
\* process: no process ever fails to open its dataset, and a dataset is not
\* touched while its slot runs.
FileInv ==
  OneSchema /\ Without({"process", "reboot"}) =>
    /\ \A s \in Slots : /\ proc[s].st # "failing"
                        /\ proc[s].st = "boot" => db[s] \in Releases
                        /\ proc[s].st = "up" => db[s] = proc[s].db
    /\ run.blueGreen /\ pc \in {"rmTarget", "install", "stage", "start", "undoDisable",
                                "undoRemove"}
         => proc[run.target].st = "down"
    /\ pc = "rmActive" => proc[run.active].st = "down"
    /\ pc \in {"rmBoth", "replace", "enablePrimary", "startPrimary"}
         => \A s \in Slots : proc[s].st = "down"

\* A slot that serves, or will once it is up; it is up where hosts do not
\* reboot.
Ready(s) == /\ enabled[s]
            /\ db[s] \in Releases
            /\ Active(s)
            /\ Without({"reboot"}) => proc[s].st = "up"

\* The labels at which Caddy is told to use the old slot.
OnActive == {"drain", "rmTarget", "install", "stage", "start", "health", "enable",
             "switchEnv", "backReload", "backRevert", "backMark", "undoStop",
             "undoDisable", "undoRemove", "undoBinary"}

\* Where a run has no reason for stop-and-replace: the slot in caddy.env is
\* ready, so that every run is a blue-green one; the old slot is ready until
\* it is drained.
EnvInv ==
  OnlyBlueGreen /\ (OneSchema \/ Without({"reboot"})) =>
    /\ Ready(caddyEnv)
    /\ pc \notin {"idle", "plan"} => run.blueGreen
    /\ pc \in OnActive => caddyEnv = run.active
    /\ pc \in {"switchReload", "switchRevert", "mark", "backEnv", "drainActive"}
         => Ready(run.active)
    /\ pc \in {"switchReload", "switchRevert"} => run.prevEnv = run.active
    /\ pc \in {"backReload", "backRevert"} => run.prevEnv = run.target

\* Where nothing ends a run either: what Caddy does is what it was told,
\* except between the two halves of a switch.
ConfInv ==
  OnlyBlueGreen /\ Without({"kill", "reboot"}) =>
    caddyConf = CASE pc \in {"switchReload", "switchRevert"} -> run.active
                  [] pc \in {"backReload", "backRevert"} -> run.target
                  [] OTHER -> caddyEnv

\* The binary that an undo restores is the one of the old slot.
BackupInv ==
  OnlyBlueGreen /\ Without({"kill", "reboot", "start"}) =>
    /\ pc \in {"idle"} \cup PlanLabels => binary = proc[caddyEnv].db
    /\ pc \in (ForwardLabels \cup UndoLabels) \ AfterDrain
         => run.backup = proc[run.active].db

\* What the recorded tag says is there, and a run is for a newer release.
TagInv ==
  /\ tag <= latest
  /\ pc # "idle" => run.rel <= latest
  /\ ~ scenario.force =>
       /\ pc \notin {"idle", "recordPublished"} => tag < run.rel
       /\ pc \in {"idle", "recordPublished"} /\ tag = latest
            => \E s \in Slots : db[s] = latest /\ enabled[s]

\* No slot is ahead of what is published; where nothing ends a run, the old
\* slot is not ahead of the run; what moves Caddy back is a failure.
OrderInv ==
  /\ \A s \in Slots : db[s] <= latest /\ proc[s].db <= latest
  /\ pc \in {"backEnv", "backReload"} => run.undo # "none"
  /\ OnlyBlueGreen /\ Without({"kill", "reboot"}) =>
       /\ pc = "plan" => proc[caddyEnv].db <= run.rel
       /\ pc \in BeforeEnd => proc[run.active].db <= run.rel

\* All of it is inductive together: an update starts from what earlier ones,
\* ended anywhere, have left.
BInv == /\ TypeOK
        /\ RunInv
        /\ DiskInv
        /\ HostInv
        /\ FileInv
        /\ EnvInv
        /\ ConfInv
        /\ BackupInv
        /\ TagInv
        /\ OrderInv

-----------------------------------------------------------------------------
(* The scenario and the active slot *)

\* A scenario is one of a deployment, for good.
LEMMA ScenarioFixed ==
  ASSUME TypeOK, [Next]_vars
  PROVE  /\ scenario' = scenario
         /\ scenario \in ScenarioType
         /\ faults' \in 0 .. scenario.faults
<1>1. scenario \in ScenarioType
  BY UpdateAssumption DEF TypeOK
<1>2. ASSUME NEW kind, Fault(kind)
      PROVE  scenario' = scenario /\ faults' \in 0 .. scenario.faults
  <2>1. scenario.faults \in Nat
    BY <1>1 DEF ScenarioType
  <2>2. QED
    BY <1>2, <2>1 DEF Fault, TypeOK
<1>3. CASE UNCHANGED faultVars
  BY <1>1, <1>3 DEF TypeOK, faultVars
<1>4. UNCHANGED faultVars \/ \E kind : Fault(kind)
  BY DEF Next, Script, Systemd, Publish, Check, Plan, DrainTarget, RemoveTarget,
     InstallBinary, Stage, StartTarget, HealthCheck, TimesOut, EnableTarget,
     SwitchForward, SwitchEnv, SwitchReload, SwitchRevert, Mark, DrainActive,
     RemoveActive, DisableActive, MarkAgain, SwitchBack, BackRevert, BackMark,
     UndoStop, UndoDisable, UndoRemove, RestoreBinary, StopBoth, RemoveBoth, Replace,
     EnablePrimary, StartPrimary, HealthPrimary, ReplaceSwitch, ReplaceMark, RecordTag,
     RecordPublished, Boot, Retry, ProcessCrash, CaddyStop, CaddyStart, Kill, Reboot,
     NoFault, vars
<1>5. QED
  BY <1>1, <1>2, <1>3, <1>4

\* read_active_slot names a slot or nothing; a slot that Caddy's environment
\* names and that runs is the one.
LEMMA ActiveSlotRead ==
  ASSUME TypeOK
  PROVE  /\ ReadActiveSlot \in MaybeSlot
         /\ caddyEnv \in Slots /\ Active(caddyEnv) => ReadActiveSlot = caddyEnv
BY DEF TypeOK, ReadActiveSlot, MaybeSlot, Slots, NoSlot

\* Edits of the shell variables.
LEMMA RunEdits ==
  ASSUME TypeOK
  PROVE  /\ NoRun \in RunType
         /\ \A r \in Releases, m \in {"auto", "0", "1"} :
              [NoRun EXCEPT !.rel = r, !.mode = m] \in RunType
         /\ \A a \in MaybeSlot, t \in Slots, b \in BOOLEAN :
              [run EXCEPT !.active = a, !.blueGreen = b, !.target = t] \in RunType
         /\ [run EXCEPT !.blueGreen = FALSE] \in RunType
         /\ \A r \in MaybeRelease : [run EXCEPT !.backup = r] \in RunType
         /\ \A s \in MaybeSlot : [run EXCEPT !.prevEnv = s] \in RunType
         /\ \A u \in {"none", "health", "switch", "mark", "drain"} :
              [run EXCEPT !.undo = u] \in RunType
<1>1. run \in RunType
  BY DEF TypeOK
<1> USE <1>1 DEF RunType, MaybeRelease, MaybeSlot, Slots, NoSlot
<1>2. NoRun \in RunType
  BY DEF NoRun
<1>3. \A r \in Releases, m \in {"auto", "0", "1"} :
        [NoRun EXCEPT !.rel = r, !.mode = m] \in RunType
  BY DEF NoRun
<1>4. \A a \in MaybeSlot, t \in Slots, b \in BOOLEAN :
        [run EXCEPT !.active = a, !.blueGreen = b, !.target = t] \in RunType
  OBVIOUS
<1>5. [run EXCEPT !.blueGreen = FALSE] \in RunType
  OBVIOUS
<1>6. \A r \in MaybeRelease : [run EXCEPT !.backup = r] \in RunType
  OBVIOUS
<1>7. \A s \in MaybeSlot : [run EXCEPT !.prevEnv = s] \in RunType
  OBVIOUS
<1>8. \A u \in {"none", "health", "switch", "mark", "drain"} :
        [run EXCEPT !.undo = u] \in RunType
  OBVIOUS
<1>9. QED
  BY <1>2, <1>3, <1>4, <1>5, <1>6, <1>7, <1>8

\* The script stays inside its labels and its variables keep their types.
LEMMA ScriptTyped ==
  ASSUME TypeOK, [Next]_vars PROVE pc' \in Labels /\ run' \in RunType
<1> DEFINE Typed == pc \in Labels /\ run \in RunType
<1>ok. Typed /\ latest \in Releases /\ caddyEnv \in MaybeSlot /\ binary \in MaybeRelease
  BY DEF TypeOK
<1>modes. scenario.modes \subseteq {"auto", "0", "1"}
  BY ScenarioFixed DEF ScenarioType
<1>slot. ReadActiveSlot \in MaybeSlot
  BY ActiveSlotRead, SMTT(30), ZenonT(30)
<1>edits. UNCHANGED run \/ run' = NoRun \/ run' \in RunType => run' \in RunType
  BY <1>ok, RunEdits
<1> USE <1>ok, <1>edits
    DEF Labels, PlanLabels, ForwardLabels, UndoLabels, ReplaceLabels, RecordLabels,
        Goto, GotoWith, Exit
<1>1. CASE Check
  <2>1. PICK m \in {"auto", "0", "1"} :
          pc' = "plan" /\ run' = [NoRun EXCEPT !.rel = latest, !.mode = m]
    BY <1>1, <1>modes DEF Check
  <2>2. [NoRun EXCEPT !.rel = latest, !.mode = m] \in RunType
    BY <1>ok, RunEdits
  <2>3. QED
    BY <2>1, <2>2
<1>2. CASE Plan
  <2>1. pc' \in Labels
    BY <1>2 DEF Plan
  <2>2. PICK b \in BOOLEAN, t \in Slots :
           run' = NoRun \/ run' = [run EXCEPT !.active = ReadActiveSlot, !.blueGreen = b,
                                              !.target = t]
    BY <1>2 DEF Plan, BlueGreen, Slots
  <2>3. [run EXCEPT !.active = ReadActiveSlot, !.blueGreen = b, !.target = t] \in RunType
    BY <1>slot, RunEdits
  <2>4. NoRun \in RunType
    BY RunEdits
  <2>5. QED
    BY <2>1, <2>2, <2>3, <2>4
<1>3. CASE DrainTarget \/ RemoveTarget \/ InstallBinary \/ Stage \/ StartTarget
  BY <1>3, RunEdits DEF DrainTarget, RemoveTarget, InstallBinary, Stage, StartTarget
<1>4. CASE HealthCheck \/ EnableTarget \/ SwitchForward \/ SwitchRevert \/ Mark
  BY <1>4, RunEdits
     DEF HealthCheck, EnableTarget, SwitchForward, SwitchEnv, SwitchReload, SwitchRevert, Mark
<1>5. CASE DrainActive \/ RemoveActive \/ DisableActive \/ MarkAgain
  BY <1>5, RunEdits DEF DrainActive, RemoveActive, DisableActive, MarkAgain
<1>6. CASE SwitchBack \/ BackRevert \/ BackMark \/ UndoStop \/ UndoDisable \/ UndoRemove
  BY <1>6, RunEdits
     DEF SwitchBack, SwitchEnv, SwitchReload, BackRevert, BackMark, UndoStop, UndoDisable,
         UndoRemove
<1>7. CASE StopBoth \/ RemoveBoth \/ Replace \/ EnablePrimary \/ StartPrimary \/ HealthPrimary
  BY <1>7, RunEdits
     DEF StopBoth, RemoveBoth, Replace, EnablePrimary, StartPrimary, HealthPrimary
<1>8. CASE ReplaceSwitch \/ ReplaceMark \/ RecordTag \/ RecordPublished \/ Kill \/ Reboot
           \/ RestoreBinary("undoBinary") \/ RestoreBinary("replaceBinary")
  BY <1>8, RunEdits
     DEF ReplaceSwitch, SwitchEnv, SwitchReload, ReplaceMark, RecordTag, RecordPublished,
         Kill, Reboot, RestoreBinary
<1>9. ASSUME UNCHANGED <<pc, run>> PROVE Typed'
  BY <1>9
<1>10. QED
  BY <1>1, <1>2, <1>3, <1>4, <1>5, <1>6, <1>7, <1>8, <1>9
     DEF Next, Script, Systemd, Publish, Boot, Retry, ProcessCrash, CaddyStop, CaddyStart, vars

\* Processes keep their types; exactly the one that is up has a dataset.
LEMMA ProcessesTyped ==
  ASSUME TypeOK, [Next]_vars
  PROVE  /\ proc' \in [Slots -> [st : {"down", "boot", "up", "failing"}, db : MaybeRelease]]
         /\ \A s \in Slots : (proc'[s].st = "up") <=> (proc'[s].db # 0)
<1> DEFINE Procs == {p \in [st : {"down", "boot", "up", "failing"}, db : MaybeRelease] :
                       (p.st = "up") <=> (p.db # 0)}
<1>ok. proc \in [Slots -> Procs]
  BY DEF TypeOK
<1>in. /\ [st |-> "down", db |-> 0] \in Procs /\ [st |-> "boot", db |-> 0] \in Procs
       /\ [st |-> "failing", db |-> 0] \in Procs
       /\ \A r \in Releases : [st |-> "up", db |-> r] \in Procs
       /\ \A p \in Procs : p.st = "failing" => [p EXCEPT !.st = "boot"] \in Procs
  BY DEF MaybeRelease, Releases
<1> SUFFICES proc' \in [Slots -> Procs]
  OBVIOUS
<1> HIDE DEF Procs
<1>1. \A s \in Slots, p \in Procs : [proc EXCEPT ![s] = p] \in [Slots -> Procs]
  BY <1>ok
<1>2. CASE proc' = proc
  BY <1>2, <1>ok
<1>3. CASE DrainTarget \/ UndoStop
  <2>1. /\ run.target \in Slots
        /\ [proc EXCEPT ![run.target] = [st |-> "down", db |-> 0]] \in [Slots -> Procs]
    BY <1>1, <1>in DEF TypeOK, RunType
  <2>2. QED
    BY <2>1, <1>2, <1>3 DEF DrainTarget, UndoStop, Stopped
<1>4. CASE DrainActive
  <2>1. [proc EXCEPT ![run.active] = [st |-> "down", db |-> 0]] \in [Slots -> Procs]
    BY <1>ok, <1>in
  <2>2. QED
    BY <2>1, <1>2, <1>4 DEF DrainActive, Stopped
<1>5. CASE StartTarget \/ StartPrimary
  <2>1. ASSUME NEW s \in Slots, proc' = Started(s) PROVE proc' \in [Slots -> Procs]
    <3>1. [proc EXCEPT ![s] = [st |-> "boot", db |-> 0]] \in [Slots -> Procs]
      BY <1>1, <1>in
    <3>2. QED
      BY <2>1, <3>1, <1>ok DEF Started
  <2>2. run.target \in Slots /\ "primary" \in Slots
    BY DEF TypeOK, RunType, Slots
  <2>3. QED
    BY <2>1, <2>2, <1>2, <1>5 DEF StartTarget, StartPrimary
<1>6. CASE StopBoth
  <2>1. \A s \in Slots : Other(s) \in Slots
    BY DEF Other, Slots
  <2>2. CASE proc' = [s \in Slots |-> [st |-> "down", db |-> 0]]
    BY <2>2, <1>in
  <2>3. \A s \in Slots :
          [proc EXCEPT ![Other(s)] = [st |-> "down", db |-> 0]] \in [Slots -> Procs]
    BY <2>1, <1>1, <1>in
  <2>4. QED
    BY <1>6, <2>2, <2>3 DEF StopBoth, Stopped
<1>7. ASSUME NEW s \in Slots, Boot(s) PROVE proc' \in [Slots -> Procs]
  <2>1. PICK p \in Procs : proc' = [proc EXCEPT ![s] = p]
    BY <1>7, <1>in DEF Boot, Runs
  <2>2. QED
    BY <2>1, <1>1
<1>8. ASSUME NEW s \in Slots, Retry(s) PROVE proc' \in [Slots -> Procs]
  <2>1. proc' = [proc EXCEPT ![s] = [proc[s] EXCEPT !.st = "boot"]] /\ proc[s].st = "failing"
    BY <1>8 DEF Retry
  <2>2. [proc[s] EXCEPT !.st = "boot"] \in Procs
    BY <2>1, <1>ok, <1>in
  <2>3. QED
    BY <2>1, <2>2, <1>1
<1>9. ASSUME NEW s \in Slots, ProcessCrash(s) PROVE proc' \in [Slots -> Procs]
  <2>1. proc' = [proc EXCEPT ![s] = [st |-> "failing", db |-> 0]]
    BY <1>9 DEF ProcessCrash
  <2>2. QED
    BY <2>1, <1>1, <1>in
<1>10. CASE Reboot
  <2>1. proc' = [s \in Slots |-> IF enabled[s] THEN [st |-> "boot", db |-> 0]
                                              ELSE [st |-> "down", db |-> 0]]
    BY <1>10 DEF Reboot
  <2>2. QED
    BY <2>1, <1>in
<1>11. QED
  BY <1>2, <1>3, <1>4, <1>5, <1>6, <1>7, <1>8, <1>9, <1>10
     DEF Next, Script, Systemd, Publish, Check, Plan, RemoveTarget, InstallBinary, Stage,
         HealthCheck, EnableTarget, SwitchForward, SwitchEnv, SwitchReload, SwitchRevert,
         Mark, RemoveActive, DisableActive, MarkAgain, SwitchBack, BackRevert, BackMark,
         UndoDisable, UndoRemove, RestoreBinary, RemoveBoth, Replace, EnablePrimary,
         HealthPrimary, ReplaceSwitch, ReplaceMark, RecordTag, RecordPublished, CaddyStop,
         CaddyStart, Kill, vars

\* The files, and where Caddy points.
FilesTyped ==
  /\ latest \in Releases
  /\ db \in [Slots -> MaybeRelease \cup {Partial}]
  /\ binary \in MaybeRelease
  /\ enabled \in [Slots -> BOOLEAN]
  /\ caddyEnv \in MaybeSlot /\ caddyConf \in MaybeSlot /\ marker \in MaybeSlot
  /\ tag \in MaybeRelease /\ published \in MaybeRelease

\* They keep their types.
LEMMA FilesStep ==
  ASSUME TypeOK, [Next]_vars PROVE FilesTyped'
<1>ok. FilesTyped
  BY DEF TypeOK, FilesTyped
<1>run. /\ run.rel \in MaybeRelease /\ run.backup \in MaybeRelease
        /\ run.target \in Slots /\ run.active \in MaybeSlot /\ run.prevEnv \in MaybeSlot
  BY DEF TypeOK, RunType
<1> USE <1>ok, <1>run
    DEF FilesTyped, MaybeRelease, Releases, MaybeSlot, Slots, Partial, fileVars, caddyVars,
        tagVars
<1>1. CASE Publish
  BY <1>1, UpdateAssumption DEF Publish
<1>2. CASE Check
  BY <1>2 DEF Check
<1>3. CASE Plan
  BY <1>3 DEF Plan, BlueGreen, CaddyReady
<1>4. CASE DrainTarget
  BY <1>4 DEF DrainTarget, Stopped
<1>5. CASE RemoveTarget
  BY <1>5 DEF RemoveTarget
<1>6. CASE InstallBinary
  BY <1>6 DEF InstallBinary
<1>7. CASE Stage
  BY <1>7 DEF Stage
<1>8. CASE StartTarget
  BY <1>8 DEF StartTarget, Started
<1>9. CASE HealthCheck
  BY <1>9 DEF HealthCheck, Healthy, TimesOut
<1>10. CASE EnableTarget
  BY <1>10 DEF EnableTarget
<1>11. CASE SwitchForward
  BY <1>11 DEF SwitchForward, SwitchEnv, SwitchReload
<1>12. CASE SwitchRevert
  BY <1>12 DEF SwitchRevert
<1>13. CASE Mark
  BY <1>13 DEF Mark
<1>14. CASE DrainActive
  BY <1>14 DEF DrainActive, Stopped
<1>15. CASE RemoveActive
  BY <1>15 DEF RemoveActive
<1>16. CASE DisableActive
  BY <1>16 DEF DisableActive
<1>17. CASE MarkAgain
  BY <1>17 DEF MarkAgain
<1>18. CASE SwitchBack
  BY <1>18 DEF SwitchBack, SwitchEnv, SwitchReload
<1>19. CASE BackRevert
  BY <1>19 DEF BackRevert
<1>20. CASE BackMark
  BY <1>20 DEF BackMark
<1>21. CASE UndoStop
  BY <1>21 DEF UndoStop, Stopped
<1>22. CASE UndoDisable
  BY <1>22 DEF UndoDisable
<1>23. CASE UndoRemove
  BY <1>23 DEF UndoRemove
<1>24. CASE RestoreBinary("undoBinary")
  BY <1>24 DEF RestoreBinary
<1>25. CASE StopBoth
  BY <1>25 DEF StopBoth, Stopped
<1>26. CASE RemoveBoth
  BY <1>26 DEF RemoveBoth
<1>27. CASE Replace
  BY <1>27 DEF Replace
<1>28. CASE EnablePrimary
  BY <1>28 DEF EnablePrimary
<1>29. CASE StartPrimary
  BY <1>29 DEF StartPrimary, Started
<1>30. CASE HealthPrimary
  BY <1>30 DEF HealthPrimary, Healthy, TimesOut
<1>31. CASE RestoreBinary("replaceBinary")
  BY <1>31 DEF RestoreBinary
<1>32. CASE ReplaceSwitch
  BY <1>32 DEF ReplaceSwitch, SwitchEnv, SwitchReload
<1>33. CASE ReplaceMark
  BY <1>33 DEF ReplaceMark
<1>34. CASE RecordTag
  BY <1>34 DEF RecordTag
<1>35. CASE RecordPublished
  BY <1>35 DEF RecordPublished
<1>36. ASSUME NEW s \in Slots, Boot(s) PROVE FilesTyped'
  BY <1>36 DEF Boot
<1>37. ASSUME NEW s \in Slots, Retry(s) PROVE FilesTyped'
  BY <1>37 DEF Retry
<1>38. ASSUME NEW s \in Slots, ProcessCrash(s) PROVE FilesTyped'
  BY <1>38 DEF ProcessCrash
<1>39. CASE CaddyStop
  BY <1>39 DEF CaddyStop
<1>40. CASE CaddyStart
  BY <1>40 DEF CaddyStart
<1>41. CASE Kill
  BY <1>41 DEF Kill, CutShort
<1>42. CASE Reboot
  BY <1>42 DEF Reboot, CutShort
<1>43. CASE UNCHANGED vars
  BY <1>43 DEF vars
<1>44. QED
  BY <1>1, <1>2, <1>3, <1>4, <1>5, <1>6, <1>7, <1>8, <1>9, <1>10, <1>11, <1>12, <1>13, <1>14,
     <1>15, <1>16, <1>17, <1>18, <1>19, <1>20, <1>21, <1>22, <1>23, <1>24, <1>25,
     <1>26, <1>27, <1>28, <1>29, <1>30, <1>31, <1>32, <1>33, <1>34, <1>35, <1>36,
     <1>37, <1>38, <1>39, <1>40, <1>41, <1>42, <1>43
     DEF Next, Script, Systemd
\* Types are kept.
LEMMA TypeStep ==
  ASSUME TypeOK, [Next]_vars PROVE TypeOK'
<1>1. scenario' \in Scenarios /\ faults' \in 0 .. scenario'.faults
  BY ScenarioFixed, SMTT(30), ZenonT(30) DEF TypeOK
<1>2. QED
  BY <1>1, ScriptTyped, ProcessesTyped, FilesStep DEF TypeOK, FilesTyped

\* The shell variables of a run belong together.
LEMMA RunStep ==
  ASSUME TypeOK, RunInv, [Next]_vars PROVE RunInv'
<1>typ. run \in RunType /\ latest \in Releases
  BY DEF TypeOK
<1>fix. scenario' = scenario
  BY ScenarioFixed
<1>active. ReadActiveSlot \in MaybeSlot
  BY ActiveSlotRead
<1> USE <1>typ, <1>fix
    DEF RunInv, NoRun, RunType, PlanLabels, ForwardLabels, UndoLabels, ReplaceLabels,
        RecordLabels, Goto, GotoWith, Exit, NoFault, Fault, faultVars, fileVars,
        caddyVars, tagVars, HasCaddy, Other
<1>1. CASE Publish
  BY <1>1 DEF Publish
<1>2. CASE Check
  BY <1>2 DEF Check
<1>3. CASE Plan
  <2>1. CASE run.mode = "1" /\ ~ CaddyReady /\ Exit
    BY <1>3, <2>1 DEF Plan
  <2>2. CASE ~ (run.mode = "1" /\ ~ CaddyReady /\ Exit)
    <3> DEFINE slot == ReadActiveSlot
    <3>1. /\ pc = "plan" /\ UNCHANGED binary
          /\ pc' = IF BlueGreen(slot) THEN "drain" ELSE "install"
          /\ run' = [run EXCEPT !.active = slot, !.blueGreen = BlueGreen(slot),
                     !.target = IF slot = "primary" THEN "secondary" ELSE "primary"]
      BY <1>3, <2>2 DEF Plan
    <3>2. BlueGreen(slot) \in BOOLEAN
      BY DEF BlueGreen
    <3>3. BlueGreen(slot) => HasCaddy /\ slot \in Slots
      BY <1>active DEF BlueGreen, CaddyReady, MaybeSlot
    <3> HIDE DEF slot
    <3>4. QED
      BY <3>1, <3>2, <3>3
  <2>3. QED
    BY <2>1, <2>2
<1>4. CASE DrainTarget
  BY <1>4 DEF DrainTarget, Stopped
<1>5. CASE RemoveTarget
  BY <1>5 DEF RemoveTarget
<1>6. CASE InstallBinary
  BY <1>6 DEF InstallBinary
<1>7. CASE Stage
  BY <1>7 DEF Stage
<1>8. CASE StartTarget
  BY <1>8 DEF StartTarget, Started
<1>9. CASE HealthCheck
  BY <1>9 DEF HealthCheck, Healthy, TimesOut
<1>10. CASE EnableTarget
  BY <1>10 DEF EnableTarget
<1>11. CASE SwitchForward
  BY <1>11 DEF SwitchForward, SwitchEnv, SwitchReload
<1>12. CASE SwitchRevert
  BY <1>12 DEF SwitchRevert
<1>13. CASE Mark
  BY <1>13 DEF Mark
<1>14. CASE DrainActive
  BY <1>14 DEF DrainActive, Stopped
<1>15. CASE RemoveActive
  BY <1>15 DEF RemoveActive
<1>16. CASE DisableActive
  BY <1>16 DEF DisableActive
<1>17. CASE MarkAgain
  BY <1>17 DEF MarkAgain
<1>18. CASE SwitchBack
  BY <1>18 DEF SwitchBack, SwitchEnv, SwitchReload
<1>19. CASE BackRevert
  BY <1>19 DEF BackRevert
<1>20. CASE BackMark
  BY <1>20 DEF BackMark
<1>21. CASE UndoStop
  BY <1>21 DEF UndoStop, Stopped
<1>22. CASE UndoDisable
  BY <1>22 DEF UndoDisable
<1>23. CASE UndoRemove
  BY <1>23 DEF UndoRemove
<1>24. CASE RestoreBinary("undoBinary")
  BY <1>24 DEF RestoreBinary
<1>25. CASE StopBoth
  BY <1>25 DEF StopBoth, Stopped
<1>26. CASE RemoveBoth
  BY <1>26 DEF RemoveBoth
<1>27. CASE Replace
  BY <1>27 DEF Replace
<1>28. CASE EnablePrimary
  BY <1>28 DEF EnablePrimary
<1>29. CASE StartPrimary
  BY <1>29 DEF StartPrimary, Started
<1>30. CASE HealthPrimary
  BY <1>30 DEF HealthPrimary, Healthy, TimesOut
<1>31. CASE RestoreBinary("replaceBinary")
  BY <1>31 DEF RestoreBinary
<1>32. CASE ReplaceSwitch
  BY <1>32 DEF ReplaceSwitch, SwitchEnv, SwitchReload
<1>33. CASE ReplaceMark
  BY <1>33 DEF ReplaceMark
<1>34. CASE RecordTag
  BY <1>34 DEF RecordTag
<1>35. CASE RecordPublished
  BY <1>35 DEF RecordPublished
<1>36. ASSUME NEW s \in Slots, Boot(s) PROVE RunInv'
  BY <1>36 DEF Boot
<1>37. ASSUME NEW s \in Slots, Retry(s) PROVE RunInv'
  BY <1>37 DEF Retry
<1>38. ASSUME NEW s \in Slots, ProcessCrash(s) PROVE RunInv'
  BY <1>38 DEF ProcessCrash
<1>39. CASE CaddyStop
  BY <1>39 DEF CaddyStop
<1>40. CASE CaddyStart
  BY <1>40 DEF CaddyStart
<1>41. CASE Kill
  BY <1>41 DEF Kill, CutShort
<1>42. CASE Reboot
  BY <1>42 DEF Reboot, CutShort
<1>43. CASE UNCHANGED vars
  BY <1>43, SMTT(30), ZenonT(30) DEF vars
<1>44. QED
  BY <1>1, <1>2, <1>3, <1>4, <1>5, <1>6, <1>7, <1>8, <1>9, <1>10, <1>11, <1>12, <1>13, <1>14,
     <1>15, <1>16, <1>17, <1>18, <1>19, <1>20, <1>21, <1>22, <1>23, <1>24, <1>25,
     <1>26, <1>27, <1>28, <1>29, <1>30, <1>31, <1>32, <1>33, <1>34, <1>35, <1>36,
     <1>37, <1>38, <1>39, <1>40, <1>41, <1>42, <1>43
     DEF Next, Script, Systemd

\* Datasets, units and marker are what a run has made of them so far.
LEMMA DiskStep ==
  ASSUME TypeOK, RunInv, DiskInv, [Next]_vars PROVE DiskInv'
<1>typ. /\ run \in RunType /\ binary \in Releases
        /\ db \in [Slots -> MaybeRelease \cup {Partial}] /\ enabled \in [Slots -> BOOLEAN]
        /\ run.blueGreen => run.active \in Slots /\ run.target = Other(run.active)
  BY DEF TypeOK, RunInv
<1>pc. /\ pc \in {"drain", "rmTarget"} \cup ForwardLabels \cup (UndoLabels \ {"backRevert"})
            => run.blueGreen
       /\ run.blueGreen =>
            pc \in {"drain", "rmTarget", "install"} \cup ForwardLabels \cup UndoLabels
                 \cup RecordLabels
  BY DEF RunInv
<1> USE <1>typ, <1>pc
    DEF DiskInv, Blue, Green, AfterStage, AfterHealth, AfterEnable, AfterReplace,
        ForwardLabels, UndoLabels, ReplaceLabels, RecordLabels, RunType, NoRun, Slots, Other,
        Goto, GotoWith, Exit, fileVars, caddyVars, tagVars
<1>1. CASE Publish
  BY <1>1 DEF Publish
<1>2. CASE Check
  BY <1>2 DEF Check
<1>3. CASE Plan
  BY <1>3 DEF Plan, BlueGreen, CaddyReady
<1>4. CASE DrainTarget
  BY <1>4 DEF DrainTarget, Stopped
<1>5. CASE RemoveTarget
  BY <1>5 DEF RemoveTarget
<1>6. CASE InstallBinary
  BY <1>6 DEF InstallBinary
<1>7. CASE Stage
  BY <1>7 DEF Stage
<1>8. CASE StartTarget
  BY <1>8 DEF StartTarget, Started
<1>9. CASE HealthCheck
  BY <1>9 DEF HealthCheck, Healthy, TimesOut
<1>10. CASE EnableTarget
  BY <1>10 DEF EnableTarget
<1>11. CASE SwitchForward
  BY <1>11 DEF SwitchForward, SwitchEnv, SwitchReload
<1>12. CASE SwitchRevert
  BY <1>12 DEF SwitchRevert
<1>13. CASE Mark
  BY <1>13 DEF Mark
<1>14. CASE DrainActive
  BY <1>14 DEF DrainActive, Stopped
<1>15. CASE RemoveActive
  BY <1>15 DEF RemoveActive
<1>16. CASE DisableActive
  BY <1>16 DEF DisableActive
<1>17. CASE MarkAgain
  BY <1>17 DEF MarkAgain
<1>18. CASE SwitchBack
  BY <1>18 DEF SwitchBack, SwitchEnv, SwitchReload
<1>19. CASE BackRevert
  BY <1>19 DEF BackRevert
<1>20. CASE BackMark
  BY <1>20 DEF BackMark
<1>21. CASE UndoStop
  BY <1>21 DEF UndoStop, Stopped
<1>22. CASE UndoDisable
  BY <1>22 DEF UndoDisable
<1>23. CASE UndoRemove
  BY <1>23 DEF UndoRemove
<1>24. CASE RestoreBinary("undoBinary")
  BY <1>24 DEF RestoreBinary
<1>25. CASE StopBoth
  BY <1>25 DEF StopBoth, Stopped
<1>26. CASE RemoveBoth
  BY <1>26 DEF RemoveBoth
<1>27. CASE Replace
  BY <1>27 DEF Replace
<1>28. CASE EnablePrimary
  BY <1>28 DEF EnablePrimary
<1>29. CASE StartPrimary
  BY <1>29 DEF StartPrimary, Started
<1>30. CASE HealthPrimary
  BY <1>30 DEF HealthPrimary, Healthy, TimesOut
<1>31. CASE RestoreBinary("replaceBinary")
  BY <1>31 DEF RestoreBinary
<1>32. CASE ReplaceSwitch
  BY <1>32 DEF ReplaceSwitch, SwitchEnv, SwitchReload
<1>33. CASE ReplaceMark
  BY <1>33 DEF ReplaceMark
<1>34. CASE RecordTag
  BY <1>34 DEF RecordTag
<1>35. CASE RecordPublished
  BY <1>35 DEF RecordPublished
<1>36. ASSUME NEW s \in Slots, Boot(s) PROVE DiskInv'
  BY <1>36 DEF Boot
<1>37. ASSUME NEW s \in Slots, Retry(s) PROVE DiskInv'
  BY <1>37 DEF Retry
<1>38. ASSUME NEW s \in Slots, ProcessCrash(s) PROVE DiskInv'
  BY <1>38 DEF ProcessCrash
<1>39. CASE CaddyStop
  BY <1>39 DEF CaddyStop
<1>40. CASE CaddyStart
  BY <1>40 DEF CaddyStart
<1>41. CASE Kill
  BY <1>41 DEF Kill, CutShort
<1>42. CASE Reboot
  BY <1>42 DEF Reboot, CutShort
<1>43. CASE UNCHANGED vars
  BY <1>43, SMTT(30), ZenonT(30) DEF vars
<1>44. QED
  BY <1>1, <1>2, <1>3, <1>4, <1>5, <1>6, <1>7, <1>8, <1>9, <1>10, <1>11, <1>12, <1>13, <1>14,
     <1>15, <1>16, <1>17, <1>18, <1>19, <1>20, <1>21, <1>22, <1>23, <1>24, <1>25,
     <1>26, <1>27, <1>28, <1>29, <1>30, <1>31, <1>32, <1>33, <1>34, <1>35, <1>36,
     <1>37, <1>38, <1>39, <1>40, <1>41, <1>42, <1>43
     DEF Next, Script, Systemd

\* Processes and Caddy are where a run has put them so far.
LEMMA HostStep ==
  ASSUME TypeOK, RunInv, DiskInv, HostInv, [Next]_vars PROVE HostInv'
<1>typ. /\ run \in RunType /\ binary \in Releases
        /\ proc \in [Slots -> [st : {"down", "boot", "up", "failing"}, db : MaybeRelease]]
        /\ run.blueGreen => HasCaddy /\ run.active \in Slots /\ run.target = Other(run.active)
        /\ caddyEnv \in MaybeSlot /\ caddyConf \in MaybeSlot
  BY DEF TypeOK, RunInv
<1>pc. /\ pc \in {"drain", "rmTarget"} \cup ForwardLabels \cup (UndoLabels \ {"backRevert"})
            => run.blueGreen
       /\ run.blueGreen =>
            pc \in {"drain", "rmTarget", "install"} \cup ForwardLabels \cup UndoLabels
                 \cup RecordLabels
  BY DEF RunInv
<1>fix. /\ HasCaddy' = HasCaddy
        /\ \A kinds : Without(kinds)' = Without(kinds)
  BY ScenarioFixed DEF HasCaddy, Without
<1>disk. /\ Blue(AfterHealth) => db[run.target] = run.rel
         /\ Green(AfterStart) => db["primary"] = run.rel
  BY DEF DiskInv, Blue, Green, AfterHealth, AfterStart
<1>ok. HostInv
  OBVIOUS
<1> USE <1>typ, <1>pc, <1>ok, <1>fix
    DEF HostInv, Blue, Green, AfterStage, AfterHealth, AfterEnable, AfterDrain, OnTarget,
        AfterReplace,
        AfterStart,
        ForwardLabels, UndoLabels, ReplaceLabels, RecordLabels, RunType, NoRun, Slots, Other,
        NoSlot, MaybeSlot, Active,
        Goto, GotoWith, Exit, fileVars, caddyVars, tagVars
<1>1. CASE Publish
  BY <1>1 DEF Publish
<1>2. CASE Check
  BY <1>2 DEF Check
<1>3. CASE Plan
  BY <1>3 DEF Plan, BlueGreen, CaddyReady
<1>4. CASE DrainTarget
  BY <1>4 DEF DrainTarget, Stopped
<1>5. CASE RemoveTarget
  BY <1>5 DEF RemoveTarget
<1>6. CASE InstallBinary
  BY <1>6 DEF InstallBinary
<1>7. CASE Stage
  BY <1>7 DEF Stage
<1>8. CASE StartTarget
  BY <1>8 DEF StartTarget, Started
<1>9. CASE HealthCheck
  BY <1>9 DEF HealthCheck, Healthy, TimesOut
<1>10. CASE EnableTarget
  BY <1>10 DEF EnableTarget
<1>11. CASE SwitchForward
  BY <1>11 DEF SwitchForward, SwitchEnv, SwitchReload
<1>12. CASE SwitchRevert
  BY <1>12 DEF SwitchRevert
<1>13. CASE Mark
  BY <1>13 DEF Mark
<1>14. CASE DrainActive
  BY <1>14 DEF DrainActive, Stopped
<1>15. CASE RemoveActive
  BY <1>15 DEF RemoveActive
<1>16. CASE DisableActive
  BY <1>16 DEF DisableActive
<1>17. CASE MarkAgain
  BY <1>17 DEF MarkAgain
<1>18. CASE SwitchBack
  BY <1>18 DEF SwitchBack, SwitchEnv, SwitchReload
<1>19. CASE BackRevert
  BY <1>19 DEF BackRevert
<1>20. CASE BackMark
  BY <1>20 DEF BackMark
<1>21. CASE UndoStop
  BY <1>21 DEF UndoStop, Stopped
<1>22. CASE UndoDisable
  BY <1>22 DEF UndoDisable
<1>23. CASE UndoRemove
  BY <1>23 DEF UndoRemove
<1>24. CASE RestoreBinary("undoBinary")
  BY <1>24 DEF RestoreBinary
<1>25. CASE StopBoth
  BY <1>25 DEF StopBoth, Stopped
<1>26. CASE RemoveBoth
  BY <1>26 DEF RemoveBoth
<1>27. CASE Replace
  BY <1>27 DEF Replace
<1>28. CASE EnablePrimary
  BY <1>28 DEF EnablePrimary
<1>29. CASE StartPrimary
  BY <1>29 DEF StartPrimary, Started
<1>30. CASE HealthPrimary
  BY <1>30 DEF HealthPrimary, Healthy, TimesOut
<1>31. CASE RestoreBinary("replaceBinary")
  BY <1>31 DEF RestoreBinary
<1>32. CASE ReplaceSwitch
  BY <1>32 DEF ReplaceSwitch, SwitchEnv, SwitchReload
<1>33. CASE ReplaceMark
  BY <1>33 DEF ReplaceMark
<1>34. CASE RecordTag
  BY <1>34 DEF RecordTag
<1>35. CASE RecordPublished
  BY <1>35 DEF RecordPublished
<1>36. ASSUME NEW s \in Slots, Boot(s) PROVE HostInv'
  BY <1>36, <1>disk DEF Boot
<1>37. ASSUME NEW s \in Slots, Retry(s) PROVE HostInv'
  BY <1>37 DEF Retry
<1>38. ASSUME NEW s \in Slots, ProcessCrash(s) PROVE HostInv'
  BY <1>38 DEF ProcessCrash, Without, Fault
<1>39. CASE CaddyStop
  BY <1>39 DEF CaddyStop, Without, Fault
<1>40. CASE CaddyStart
  BY <1>40 DEF CaddyStart
<1>41. CASE Kill
  BY <1>41 DEF Kill, CutShort
<1>42. CASE Reboot
  BY <1>42 DEF Reboot, CutShort
<1>43. CASE UNCHANGED vars
  BY <1>43, SMTT(30), ZenonT(30) DEF vars
<1>44. QED
  BY <1>1, <1>2, <1>3, <1>4, <1>5, <1>6, <1>7, <1>8, <1>9, <1>10, <1>11, <1>12, <1>13, <1>14,
     <1>15, <1>16, <1>17, <1>18, <1>19, <1>20, <1>21, <1>22, <1>23, <1>24, <1>25,
     <1>26, <1>27, <1>28, <1>29, <1>30, <1>31, <1>32, <1>33, <1>34, <1>35, <1>36,
     <1>37, <1>38, <1>39, <1>40, <1>41, <1>42, <1>43
     DEF Next, Script, Systemd

\* Datasets are touched while their slots are down.
LEMMA FileStep ==
  ASSUME TypeOK, RunInv, DiskInv, FileInv, [Next]_vars PROVE FileInv'
<1>typ. /\ run \in RunType /\ binary \in Releases /\ run.target \in Slots
        /\ proc \in [Slots -> [st : {"down", "boot", "up", "failing"}, db : MaybeRelease]]
        /\ db \in [Slots -> MaybeRelease \cup {Partial}]
        /\ run.blueGreen => run.active \in Slots /\ run.target = Other(run.active)
  BY DEF TypeOK, RunInv, RunType
<1>pc. /\ pc \in {"drain", "rmTarget"} \cup ForwardLabels \cup (UndoLabels \ {"backRevert"})
            => run.blueGreen
       /\ run.blueGreen =>
            pc \in {"drain", "rmTarget", "install"} \cup ForwardLabels \cup UndoLabels
                 \cup RecordLabels
       /\ pc # "idle" => run.rel \in Releases
       /\ pc = "start" => db[run.target] = run.rel
       /\ pc = "startPrimary" => db["primary"] = run.rel
  BY DEF RunInv, DiskInv, Blue, Green, AfterStage, AfterReplace, ForwardLabels, UndoLabels,
         ReplaceLabels, RecordLabels
<1>fix. scenario' = scenario
  BY ScenarioFixed
<1> SUFFICES ASSUME OneSchema, Without({"process", "reboot"}) PROVE FileInv'
  BY <1>fix DEF FileInv, Without, OneSchema
<1>ok. FileInv /\ Without({"process", "reboot"})'
  BY <1>fix DEF Without
<1>runs. \A d \in Releases : Runs(binary, d)
  BY <1>typ DEF Runs, OneSchema, Releases
<1> USE <1>typ, <1>pc, <1>ok, <1>fix
    DEF FileInv, ForwardLabels, UndoLabels, ReplaceLabels, RecordLabels, RunType, NoRun,
        Slots, Other,
        Active, Goto, GotoWith, Exit, fileVars, caddyVars, tagVars
<1>1. CASE Publish
  BY <1>1 DEF Publish
<1>2. CASE Check
  BY <1>2 DEF Check
<1>3. CASE Plan
  BY <1>3 DEF Plan, BlueGreen, CaddyReady
<1>4. CASE DrainTarget
  BY <1>4 DEF DrainTarget, Stopped
<1>5. CASE RemoveTarget
  BY <1>5 DEF RemoveTarget
<1>6. CASE InstallBinary
  BY <1>6 DEF InstallBinary
<1>7. CASE Stage
  BY <1>7 DEF Stage
<1>8. CASE StartTarget
  BY <1>8 DEF StartTarget, Started
<1>9. CASE HealthCheck
  BY <1>9 DEF HealthCheck, Healthy, TimesOut
<1>10. CASE EnableTarget
  BY <1>10 DEF EnableTarget
<1>11. CASE SwitchForward
  BY <1>11 DEF SwitchForward, SwitchEnv, SwitchReload
<1>12. CASE SwitchRevert
  BY <1>12 DEF SwitchRevert
<1>13. CASE Mark
  BY <1>13 DEF Mark
<1>14. CASE DrainActive
  BY <1>14 DEF DrainActive, Stopped
<1>15. CASE RemoveActive
  BY <1>15 DEF RemoveActive
<1>16. CASE DisableActive
  BY <1>16 DEF DisableActive
<1>17. CASE MarkAgain
  BY <1>17 DEF MarkAgain
<1>18. CASE SwitchBack
  BY <1>18 DEF SwitchBack, SwitchEnv, SwitchReload
<1>19. CASE BackRevert
  BY <1>19 DEF BackRevert
<1>20. CASE BackMark
  BY <1>20 DEF BackMark
<1>21. CASE UndoStop
  BY <1>21 DEF UndoStop, Stopped
<1>22. CASE UndoDisable
  BY <1>22 DEF UndoDisable
<1>23. CASE UndoRemove
  BY <1>23 DEF UndoRemove
<1>24. CASE RestoreBinary("undoBinary")
  BY <1>24 DEF RestoreBinary
<1>25. CASE StopBoth
  BY <1>25 DEF StopBoth, Stopped
<1>26. CASE RemoveBoth
  BY <1>26 DEF RemoveBoth
<1>27. CASE Replace
  BY <1>27 DEF Replace
<1>28. CASE EnablePrimary
  BY <1>28 DEF EnablePrimary
<1>29. CASE StartPrimary
  BY <1>29 DEF StartPrimary, Started
<1>30. CASE HealthPrimary
  BY <1>30 DEF HealthPrimary, Healthy, TimesOut
<1>31. CASE RestoreBinary("replaceBinary")
  BY <1>31 DEF RestoreBinary
<1>32. CASE ReplaceSwitch
  BY <1>32 DEF ReplaceSwitch, SwitchEnv, SwitchReload
<1>33. CASE ReplaceMark
  BY <1>33 DEF ReplaceMark
<1>34. CASE RecordTag
  BY <1>34 DEF RecordTag
<1>35. CASE RecordPublished
  BY <1>35 DEF RecordPublished
<1>36. ASSUME NEW s \in Slots, Boot(s) PROVE FileInv'
  BY <1>36, <1>runs DEF Boot
<1>37. ASSUME NEW s \in Slots, Retry(s) PROVE FileInv'
  BY <1>37 DEF Retry
<1>38. ASSUME NEW s \in Slots, ProcessCrash(s) PROVE FileInv'
  BY <1>38 DEF ProcessCrash, Without, Fault
<1>39. CASE CaddyStop
  BY <1>39 DEF CaddyStop
<1>40. CASE CaddyStart
  BY <1>40 DEF CaddyStart
<1>41. CASE Kill
  BY <1>41 DEF Kill, CutShort
<1>42. CASE Reboot
  BY <1>42 DEF Reboot, Without, Fault
<1>43. CASE UNCHANGED vars
  BY <1>43, SMTT(30), ZenonT(30) DEF vars
<1>44. QED
  BY <1>1, <1>2, <1>3, <1>4, <1>5, <1>6, <1>7, <1>8, <1>9, <1>10, <1>11, <1>12, <1>13, <1>14,
     <1>15, <1>16, <1>17, <1>18, <1>19, <1>20, <1>21, <1>22, <1>23, <1>24, <1>25,
     <1>26, <1>27, <1>28, <1>29, <1>30, <1>31, <1>32, <1>33, <1>34, <1>35, <1>36,
     <1>37, <1>38, <1>39, <1>40, <1>41, <1>42, <1>43
     DEF Next, Script, Systemd

\* The slot in caddy.env is ready, whatever fails.
LEMMA EnvStep ==
  ASSUME TypeOK, RunInv, DiskInv, HostInv, EnvInv, [Next]_vars PROVE EnvInv'
<1>typ. /\ run \in RunType /\ binary \in Releases
        /\ proc \in [Slots -> [st : {"down", "boot", "up", "failing"}, db : MaybeRelease]]
        /\ db \in [Slots -> MaybeRelease \cup {Partial}] /\ enabled \in [Slots -> BOOLEAN]
        /\ run.blueGreen => run.active \in Slots /\ run.target = Other(run.active)
  BY DEF TypeOK, RunInv
<1>pc. /\ pc \in {"drain", "rmTarget"} \cup ForwardLabels \cup (UndoLabels \ {"backRevert"})
            => run.blueGreen
       /\ run.blueGreen =>
            pc \in {"drain", "rmTarget", "install"} \cup ForwardLabels \cup UndoLabels
                 \cup RecordLabels
       /\ pc # "idle" => run.rel \in Releases /\ run.mode \in scenario.modes
  BY DEF RunInv
<1>fix. scenario' = scenario
  BY ScenarioFixed
<1> SUFFICES ASSUME OnlyBlueGreen, OneSchema \/ Without({"reboot"}) PROVE EnvInv'
  BY <1>fix DEF EnvInv, Without, OneSchema, OnlyBlueGreen, HasCaddy
<1>ok. EnvInv /\ Without({"process", "caddy", "disk"}) /\ HasCaddy
  BY DEF OnlyBlueGreen, HasCaddy
<1>host. /\ caddyEnv \in Slots /\ caddyConf \in Slots
         /\ Blue(OnTarget) => caddyEnv = run.target
         /\ Blue(AfterHealth) => proc[run.target] = [st |-> "up", db |-> run.rel]
  BY <1>ok DEF HostInv, Without
<1>target. Blue(AfterEnable) => Ready(run.target)
  BY <1>host, <1>pc DEF DiskInv, Blue, Ready, AfterStage, AfterHealth, AfterEnable, Active,
     ForwardLabels, UndoLabels, RecordLabels
<1>reboot. Reboot => ~ Without({"reboot"}) /\ OneSchema
  BY DEF Reboot, Fault, Without
<1> USE <1>typ, <1>pc, <1>ok, <1>fix, <1>host, <1>target
    DEF EnvInv, OnActive, Ready, Blue, AfterStage, AfterHealth, AfterEnable, AfterDrain,
        OnTarget,
        ForwardLabels, UndoLabels, PlanLabels,
        ReplaceLabels, RecordLabels, RunType, NoRun, Slots, Other, Without,
        Active, Goto, GotoWith, Exit, fileVars, caddyVars, tagVars
<1>1. CASE Publish
  BY <1>1 DEF Publish
<1>2. CASE Check
  BY <1>2 DEF Check
<1>3. CASE Plan
  <2>1. pc = "plan" /\ caddyEnv \in Slots /\ Active(caddyEnv)
    BY <1>3 DEF Plan
  <2>2. ReadActiveSlot = caddyEnv
    BY <2>1, ActiveSlotRead
  <2>3. run.mode # "0" /\ CaddyReady
    BY <2>1 DEF OnlyBlueGreen, CaddyReady, NoSlot
  <2>4. BlueGreen(caddyEnv)
    BY <2>1, <2>3 DEF BlueGreen, NoSlot
  <2>5. run' = [run EXCEPT !.active = caddyEnv, !.blueGreen = TRUE,
                           !.target = Other(caddyEnv)] /\ pc' = "drain"
    BY <1>3, <2>2, <2>3, <2>4 DEF Plan
  <2>6. QED
    BY <1>3, <2>5 DEF Plan
<1>4. CASE DrainTarget
  BY <1>4 DEF DrainTarget, Stopped
<1>5. CASE RemoveTarget
  BY <1>5 DEF RemoveTarget, Fault
<1>6. CASE InstallBinary
  BY <1>6 DEF InstallBinary
<1>7. CASE Stage
  BY <1>7 DEF Stage
<1>8. CASE StartTarget
  BY <1>8 DEF StartTarget, Started
<1>9. CASE HealthCheck
  BY <1>9 DEF HealthCheck, Healthy, TimesOut
<1>10. CASE EnableTarget
  BY <1>10 DEF EnableTarget
<1>11. CASE SwitchForward
  BY <1>11 DEF SwitchForward, SwitchEnv, SwitchReload
<1>12. CASE SwitchRevert
  BY <1>12 DEF SwitchRevert
<1>13. CASE Mark
  BY <1>13 DEF Mark
<1>14. CASE DrainActive
  BY <1>14 DEF DrainActive, Stopped
<1>15. CASE RemoveActive
  BY <1>15 DEF RemoveActive
<1>16. CASE DisableActive
  BY <1>16 DEF DisableActive
<1>17. CASE MarkAgain
  BY <1>17 DEF MarkAgain
<1>18. CASE SwitchBack
  BY <1>18 DEF SwitchBack, SwitchEnv, SwitchReload
<1>19. CASE BackRevert
  BY <1>19 DEF BackRevert
<1>20. CASE BackMark
  BY <1>20 DEF BackMark
<1>21. CASE UndoStop
  BY <1>21 DEF UndoStop, Stopped
<1>22. CASE UndoDisable
  BY <1>22 DEF UndoDisable
<1>23. CASE UndoRemove
  BY <1>23 DEF UndoRemove
<1>24. CASE RestoreBinary("undoBinary")
  BY <1>24 DEF RestoreBinary
<1>25. CASE StopBoth
  BY <1>25 DEF StopBoth, Stopped
<1>26. CASE RemoveBoth
  BY <1>26 DEF RemoveBoth
<1>27. CASE Replace
  BY <1>27 DEF Replace
<1>28. CASE EnablePrimary
  BY <1>28 DEF EnablePrimary
<1>29. CASE StartPrimary
  BY <1>29 DEF StartPrimary, Started
<1>30. CASE HealthPrimary
  BY <1>30 DEF HealthPrimary, Healthy, TimesOut
<1>31. CASE RestoreBinary("replaceBinary")
  BY <1>31 DEF RestoreBinary
<1>32. CASE ReplaceSwitch
  BY <1>32 DEF ReplaceSwitch, SwitchEnv, SwitchReload
<1>33. CASE ReplaceMark
  BY <1>33 DEF ReplaceMark
<1>34. CASE RecordTag
  BY <1>34 DEF RecordTag
<1>35. CASE RecordPublished
  BY <1>35 DEF RecordPublished
<1>36. ASSUME NEW s \in Slots, Boot(s) PROVE EnvInv'
  <2>1. CASE Without({"reboot"})
    BY <1>36, <2>1 DEF Boot
  <2>2. CASE OneSchema
    <3>1. \A d \in Releases : Runs(binary, d)
      BY <2>2 DEF Runs, OneSchema, Releases
    <3>2. QED
      BY <1>36, <3>1 DEF Boot
  <2>3. QED
    BY <2>1, <2>2
<1>37. ASSUME NEW s \in Slots, Retry(s) PROVE EnvInv'
  BY <1>37 DEF Retry
<1>38. ASSUME NEW s \in Slots, ProcessCrash(s) PROVE EnvInv'
  BY <1>38 DEF ProcessCrash, Fault
<1>39. CASE CaddyStop
  BY <1>39 DEF CaddyStop
<1>40. CASE CaddyStart
  BY <1>40 DEF CaddyStart
<1>41. CASE Kill
  BY <1>41 DEF Kill, CutShort
<1>42. CASE Reboot
  BY <1>42, <1>reboot DEF Reboot, CutShort, Partial
<1>43. CASE UNCHANGED vars
  BY <1>43 DEF vars
<1>44. QED
  BY <1>1, <1>2, <1>3, <1>4, <1>5, <1>6, <1>7, <1>8, <1>9, <1>10, <1>11, <1>12, <1>13, <1>14,
     <1>15, <1>16, <1>17, <1>18, <1>19, <1>20, <1>21, <1>22, <1>23, <1>24, <1>25,
     <1>26, <1>27, <1>28, <1>29, <1>30, <1>31, <1>32, <1>33, <1>34, <1>35, <1>36,
     <1>37, <1>38, <1>39, <1>40, <1>41, <1>42, <1>43
     DEF Next, Script, Systemd

\* Caddy does what it was told last.
LEMMA ConfStep ==
  ASSUME TypeOK, RunInv, HostInv, EnvInv, ConfInv, [Next]_vars PROVE ConfInv'
<1>typ. /\ run \in RunType
        /\ run.blueGreen => run.active \in Slots /\ run.target = Other(run.active)
  BY DEF TypeOK, RunInv
<1>fix. scenario' = scenario
  BY ScenarioFixed
<1> SUFFICES ASSUME OnlyBlueGreen, Without({"kill", "reboot"}) PROVE ConfInv'
  BY <1>fix DEF ConfInv, Without, OnlyBlueGreen, HasCaddy
<1>ok. /\ ConfInv /\ HasCaddy /\ Without({"process", "caddy", "disk"})
       /\ Without({"kill", "reboot"}) /\ Without({"reboot"})
  BY DEF OnlyBlueGreen, HasCaddy, Without
<1>host. /\ caddyEnv \in Slots /\ caddyConf \in Slots
         /\ Blue(OnTarget) => caddyEnv = run.target
  BY <1>ok DEF HostInv, Without
<1>env. /\ pc \notin {"idle", "plan"} => run.blueGreen
        /\ pc \in OnActive => caddyEnv = run.active
        /\ pc \in {"switchReload", "switchRevert"} => run.prevEnv = run.active
        /\ pc \in {"backReload", "backRevert"} => run.prevEnv = run.target
  BY <1>ok DEF EnvInv
<1>never. ~ Kill /\ ~ Reboot /\ ~ CaddyStop
  BY <1>ok DEF Kill, Reboot, CaddyStop, Fault, Without
<1>blue. pc \notin ReplaceLabels
  BY <1>env DEF RunInv, ForwardLabels, UndoLabels, RecordLabels, ReplaceLabels
<1> USE <1>typ, <1>ok, <1>fix, <1>host, <1>env, <1>never, <1>blue
    DEF ConfInv, OnActive, Blue, AfterDrain, OnTarget, ForwardLabels, UndoLabels, PlanLabels,
        ReplaceLabels, RecordLabels, RunType, NoRun, Slots, Other, NoSlot,
        Goto, GotoWith, Exit, fileVars, caddyVars, tagVars
<1>1. CASE Publish
  BY <1>1 DEF Publish
<1>2. CASE Check
  BY <1>2 DEF Check
<1>3. CASE Plan
  BY <1>3 DEF Plan, BlueGreen, CaddyReady
<1>4. CASE DrainTarget
  BY <1>4 DEF DrainTarget, Stopped
<1>5. CASE RemoveTarget
  BY <1>5 DEF RemoveTarget
<1>6. CASE InstallBinary
  BY <1>6 DEF InstallBinary
<1>7. CASE Stage
  BY <1>7 DEF Stage
<1>8. CASE StartTarget
  BY <1>8 DEF StartTarget, Started
<1>9. CASE HealthCheck
  BY <1>9 DEF HealthCheck, Healthy, TimesOut
<1>10. CASE EnableTarget
  BY <1>10 DEF EnableTarget
<1>11. CASE SwitchForward
  BY <1>11 DEF SwitchForward, SwitchEnv, SwitchReload
<1>12. CASE SwitchRevert
  BY <1>12 DEF SwitchRevert
<1>13. CASE Mark
  BY <1>13 DEF Mark
<1>14. CASE DrainActive
  BY <1>14 DEF DrainActive, Stopped
<1>15. CASE RemoveActive
  BY <1>15 DEF RemoveActive
<1>16. CASE DisableActive
  BY <1>16 DEF DisableActive
<1>17. CASE MarkAgain
  BY <1>17 DEF MarkAgain
<1>18. CASE SwitchBack
  BY <1>18 DEF SwitchBack, SwitchEnv, SwitchReload
<1>19. CASE BackRevert
  BY <1>19 DEF BackRevert
<1>20. CASE BackMark
  BY <1>20 DEF BackMark
<1>21. CASE UndoStop
  BY <1>21 DEF UndoStop, Stopped
<1>22. CASE UndoDisable
  BY <1>22 DEF UndoDisable
<1>23. CASE UndoRemove
  BY <1>23 DEF UndoRemove
<1>24. CASE RestoreBinary("undoBinary")
  BY <1>24 DEF RestoreBinary
<1>25. CASE StopBoth
  BY <1>25 DEF StopBoth, Stopped
<1>26. CASE RemoveBoth
  BY <1>26 DEF RemoveBoth
<1>27. CASE Replace
  BY <1>27 DEF Replace
<1>28. CASE EnablePrimary
  BY <1>28 DEF EnablePrimary
<1>29. CASE StartPrimary
  BY <1>29 DEF StartPrimary, Started
<1>30. CASE HealthPrimary
  BY <1>30 DEF HealthPrimary, Healthy, TimesOut
<1>31. CASE RestoreBinary("replaceBinary")
  BY <1>31 DEF RestoreBinary
<1>32. CASE ReplaceSwitch
  BY <1>32 DEF ReplaceSwitch, SwitchEnv, SwitchReload
<1>33. CASE ReplaceMark
  BY <1>33 DEF ReplaceMark
<1>34. CASE RecordTag
  BY <1>34 DEF RecordTag
<1>35. CASE RecordPublished
  BY <1>35 DEF RecordPublished
<1>36. ASSUME NEW s \in Slots, Boot(s) PROVE ConfInv'
  BY <1>36 DEF Boot
<1>37. ASSUME NEW s \in Slots, Retry(s) PROVE ConfInv'
  BY <1>37 DEF Retry
<1>38. ASSUME NEW s \in Slots, ProcessCrash(s) PROVE ConfInv'
  BY <1>38 DEF ProcessCrash
<1>39. CASE CaddyStop
  BY <1>39 DEF CaddyStop
<1>40. CASE CaddyStart
  BY <1>40 DEF CaddyStart
<1>41. CASE Kill
  BY <1>41 DEF Kill, CutShort
<1>42. CASE Reboot
  BY <1>42 DEF Reboot, CutShort
<1>43. CASE UNCHANGED vars
  BY <1>43 DEF vars
<1>44. QED
  BY <1>1, <1>2, <1>3, <1>4, <1>5, <1>6, <1>7, <1>8, <1>9, <1>10, <1>11, <1>12, <1>13, <1>14,
     <1>15, <1>16, <1>17, <1>18, <1>19, <1>20, <1>21, <1>22, <1>23, <1>24, <1>25,
     <1>26, <1>27, <1>28, <1>29, <1>30, <1>31, <1>32, <1>33, <1>34, <1>35, <1>36,
     <1>37, <1>38, <1>39, <1>40, <1>41, <1>42, <1>43
     DEF Next, Script, Systemd

\* The binary that is installed, or kept to be restored, is the serving one.
LEMMA BackupStep ==
  ASSUME TypeOK, RunInv, DiskInv, HostInv, EnvInv, ConfInv, BackupInv, [Next]_vars
  PROVE  BackupInv'
<1>typ. /\ run \in RunType /\ binary \in Releases
        /\ proc \in [Slots -> [st : {"down", "boot", "up", "failing"}, db : MaybeRelease]]
        /\ run.blueGreen => run.active \in Slots /\ run.target = Other(run.active)
        /\ pc \in ForwardLabels \cup UndoLabels \cup ReplaceLabels \cup RecordLabels
             => binary = run.rel
  BY DEF TypeOK, RunInv
<1>fix. scenario' = scenario
  BY ScenarioFixed
<1> SUFFICES ASSUME OnlyBlueGreen, Without({"kill", "reboot", "start"}) PROVE BackupInv'
  BY <1>fix DEF BackupInv, Without, OnlyBlueGreen, HasCaddy
<1>ok. /\ BackupInv /\ HasCaddy /\ Without({"process", "caddy", "disk"})
       /\ Without({"kill", "reboot", "start"}) /\ Without({"reboot"})
  BY DEF OnlyBlueGreen, HasCaddy, Without
<1>host. /\ caddyEnv \in Slots
         /\ Blue(OnTarget) => caddyEnv = run.target
         /\ Blue(AfterHealth) => proc[run.target] = [st |-> "up", db |-> run.rel]
  BY <1>ok DEF HostInv, Without
<1>env. /\ proc[caddyEnv].st = "up"
        /\ pc \notin {"idle", "plan"} => run.blueGreen
        /\ pc \in OnActive => caddyEnv = run.active
        /\ pc \in {"switchReload", "switchRevert", "mark", "backEnv", "drainActive"}
             => proc[run.active].st = "up"
        /\ pc \in {"switchReload", "switchRevert"} => run.prevEnv = run.active
        /\ pc \in {"backReload", "backRevert"} => run.prevEnv = run.target
  BY <1>ok DEF EnvInv, Ready
<1>never. ~ Kill /\ ~ Reboot /\ ~ CaddyStop
  BY <1>ok DEF Kill, Reboot, CaddyStop, Fault, Without
<1>crash. \A s \in Slots : ~ ProcessCrash(s)
  BY <1>ok DEF ProcessCrash, Fault, Without
<1>blue. pc \notin ReplaceLabels
  BY <1>env DEF RunInv, ForwardLabels, UndoLabels, RecordLabels, ReplaceLabels
<1> USE <1>typ, <1>ok, <1>fix, <1>host, <1>env, <1>never, <1>crash, <1>blue
    DEF BackupInv, OnActive, Blue, AfterStage, AfterHealth, AfterDrain, OnTarget,
        ForwardLabels,
        UndoLabels, PlanLabels,
        ReplaceLabels, RecordLabels, RunType, NoRun, Slots, Other, NoSlot, Active,
        Goto, GotoWith, Exit, fileVars, caddyVars, tagVars
<1>1. CASE Publish
  BY <1>1 DEF Publish
<1>2. CASE Check
  BY <1>2 DEF Check
<1>3. CASE Plan
  BY <1>3 DEF Plan, BlueGreen, CaddyReady
<1>4. CASE DrainTarget
  BY <1>4 DEF DrainTarget, Stopped
<1>5. CASE RemoveTarget
  BY <1>5 DEF RemoveTarget
<1>6. CASE InstallBinary
  BY <1>6 DEF InstallBinary
<1>7. CASE Stage
  BY <1>7 DEF Stage
<1>8. CASE StartTarget
  BY <1>8 DEF Fault, Without, StartTarget, Started
<1>9. CASE HealthCheck
  BY <1>9 DEF HealthCheck, Healthy, TimesOut
<1>10. CASE EnableTarget
  BY <1>10 DEF EnableTarget
<1>11. CASE SwitchForward
  BY <1>11 DEF SwitchForward, SwitchEnv, SwitchReload
<1>12. CASE SwitchRevert
  BY <1>12 DEF SwitchRevert
<1>13. CASE Mark
  BY <1>13 DEF Mark
<1>14. CASE DrainActive
  BY <1>14 DEF DrainActive, Stopped
<1>15. CASE RemoveActive
  BY <1>15 DEF RemoveActive
<1>16. CASE DisableActive
  BY <1>16 DEF DisableActive
<1>17. CASE MarkAgain
  BY <1>17 DEF MarkAgain
<1>18. CASE SwitchBack
  BY <1>18 DEF SwitchBack, SwitchEnv, SwitchReload
<1>19. CASE BackRevert
  BY <1>19 DEF BackRevert
<1>20. CASE BackMark
  BY <1>20 DEF BackMark
<1>21. CASE UndoStop
  BY <1>21 DEF UndoStop, Stopped
<1>22. CASE UndoDisable
  BY <1>22 DEF UndoDisable
<1>23. CASE UndoRemove
  BY <1>23 DEF UndoRemove
<1>24. CASE RestoreBinary("undoBinary")
  BY <1>24 DEF RestoreBinary
<1>25. CASE StopBoth
  BY <1>25 DEF StopBoth, Stopped
<1>26. CASE RemoveBoth
  BY <1>26 DEF RemoveBoth
<1>27. CASE Replace
  BY <1>27 DEF Replace
<1>28. CASE EnablePrimary
  BY <1>28 DEF EnablePrimary
<1>29. CASE StartPrimary
  BY <1>29 DEF StartPrimary, Started
<1>30. CASE HealthPrimary
  BY <1>30 DEF HealthPrimary, Healthy, TimesOut
<1>31. CASE RestoreBinary("replaceBinary")
  BY <1>31 DEF RestoreBinary
<1>32. CASE ReplaceSwitch
  BY <1>32 DEF ReplaceSwitch, SwitchEnv, SwitchReload
<1>33. CASE ReplaceMark
  BY <1>33 DEF ReplaceMark
<1>34. CASE RecordTag
  BY <1>34 DEF RecordTag
<1>35. CASE RecordPublished
  BY <1>35 DEF RecordPublished
<1>36. ASSUME NEW s \in Slots, Boot(s) PROVE BackupInv'
  BY <1>36 DEF Boot
<1>37. ASSUME NEW s \in Slots, Retry(s) PROVE BackupInv'
  BY <1>37 DEF Retry
<1>38. ASSUME NEW s \in Slots, ProcessCrash(s) PROVE BackupInv'
  BY <1>38 DEF ProcessCrash
<1>39. CASE CaddyStop
  BY <1>39 DEF CaddyStop
<1>40. CASE CaddyStart
  BY <1>40 DEF CaddyStart
<1>41. CASE Kill
  BY <1>41 DEF Kill, CutShort
<1>42. CASE Reboot
  BY <1>42 DEF Reboot, CutShort
<1>43. CASE UNCHANGED vars
  BY <1>43 DEF vars
<1>44. QED
  BY <1>1, <1>2, <1>3, <1>4, <1>5, <1>6, <1>7, <1>8, <1>9, <1>10, <1>11, <1>12, <1>13, <1>14,
     <1>15, <1>16, <1>17, <1>18, <1>19, <1>20, <1>21, <1>22, <1>23, <1>24, <1>25,
     <1>26, <1>27, <1>28, <1>29, <1>30, <1>31, <1>32, <1>33, <1>34, <1>35, <1>36,
     <1>37, <1>38, <1>39, <1>40, <1>41, <1>42, <1>43
     DEF Next, Script, Systemd

\* The recorded tag is of a release that a slot holds.
LEMMA TagStep ==
  ASSUME TypeOK, RunInv, DiskInv, TagInv, [Next]_vars PROVE TagInv'
<1>typ. /\ run \in RunType /\ latest \in Releases /\ tag \in MaybeRelease
        /\ db \in [Slots -> MaybeRelease \cup {Partial}] /\ enabled \in [Slots -> BOOLEAN]
        /\ pc # "idle" => run.rel \in Releases
  BY DEF TypeOK, RunInv
<1>fix. scenario' = scenario
  BY ScenarioFixed
<1>disk. /\ pc = "recordTag" => \E s \in Slots : db[s] = run.rel /\ enabled[s]
  BY <1>typ DEF DiskInv, Blue, Green, AfterStage, AfterHealth, AfterEnable, AfterReplace,
     RecordLabels, ForwardLabels, ReplaceLabels, Slots, RunType
<1> USE <1>typ, <1>fix, <1>disk
    DEF TagInv, ForwardLabels, UndoLabels, PlanLabels, MaybeRelease, Releases,
        ReplaceLabels, RecordLabels, RunType, NoRun, Slots, Other, NoSlot, 
        Goto, GotoWith, Exit, fileVars, caddyVars, tagVars
<1>1. CASE Publish
  BY <1>1 DEF Publish
<1>2. CASE Check
  <2>1. pc = "idle" /\ pc' = "plan" /\ run'.rel = latest /\ (scenario.force \/ tag # latest)
    BY <1>2 DEF Check, SyncDue
  <2>2. QED
    BY <1>2, <2>1 DEF Check
<1>3. CASE Plan
  <2>1. /\ pc = "plan" /\ pc' \in {"drain", "install", "idle"}
        /\ pc' # "idle" => run'.rel = run.rel
    BY <1>3 DEF Plan
  <2>2. QED
    BY <1>3, <2>1 DEF Plan
<1>4. CASE DrainTarget
  BY <1>4 DEF DrainTarget, Stopped
<1>5. CASE RemoveTarget
  BY <1>5 DEF RemoveTarget
<1>6. CASE InstallBinary
  BY <1>6 DEF InstallBinary
<1>7. CASE Stage
  BY <1>7 DEF Stage
<1>8. CASE StartTarget
  BY <1>8 DEF StartTarget, Started
<1>9. CASE HealthCheck
  BY <1>9 DEF HealthCheck, Healthy, TimesOut
<1>10. CASE EnableTarget
  BY <1>10 DEF EnableTarget
<1>11. CASE SwitchForward
  BY <1>11 DEF SwitchForward, SwitchEnv, SwitchReload
<1>12. CASE SwitchRevert
  BY <1>12 DEF SwitchRevert
<1>13. CASE Mark
  BY <1>13 DEF Mark
<1>14. CASE DrainActive
  BY <1>14 DEF DrainActive, Stopped
<1>15. CASE RemoveActive
  BY <1>15 DEF RemoveActive
<1>16. CASE DisableActive
  BY <1>16 DEF DisableActive
<1>17. CASE MarkAgain
  BY <1>17 DEF MarkAgain
<1>18. CASE SwitchBack
  BY <1>18 DEF SwitchBack, SwitchEnv, SwitchReload
<1>19. CASE BackRevert
  BY <1>19 DEF BackRevert
<1>20. CASE BackMark
  BY <1>20 DEF BackMark
<1>21. CASE UndoStop
  BY <1>21 DEF UndoStop, Stopped
<1>22. CASE UndoDisable
  BY <1>22 DEF UndoDisable
<1>23. CASE UndoRemove
  BY <1>23 DEF UndoRemove
<1>24. CASE RestoreBinary("undoBinary")
  BY <1>24 DEF RestoreBinary
<1>25. CASE StopBoth
  BY <1>25 DEF StopBoth, Stopped
<1>26. CASE RemoveBoth
  BY <1>26 DEF RemoveBoth
<1>27. CASE Replace
  BY <1>27 DEF Replace
<1>28. CASE EnablePrimary
  BY <1>28 DEF EnablePrimary
<1>29. CASE StartPrimary
  BY <1>29 DEF StartPrimary, Started
<1>30. CASE HealthPrimary
  BY <1>30 DEF HealthPrimary, Healthy, TimesOut
<1>31. CASE RestoreBinary("replaceBinary")
  BY <1>31 DEF RestoreBinary
<1>32. CASE ReplaceSwitch
  BY <1>32 DEF ReplaceSwitch, SwitchEnv, SwitchReload
<1>33. CASE ReplaceMark
  BY <1>33 DEF ReplaceMark
<1>34. CASE RecordTag
  BY <1>34 DEF RecordTag
<1>35. CASE RecordPublished
  BY <1>35 DEF RecordPublished
<1>36. ASSUME NEW s \in Slots, Boot(s) PROVE TagInv'
  BY <1>36 DEF Boot
<1>37. ASSUME NEW s \in Slots, Retry(s) PROVE TagInv'
  BY <1>37 DEF Retry
<1>38. ASSUME NEW s \in Slots, ProcessCrash(s) PROVE TagInv'
  BY <1>38 DEF ProcessCrash
<1>39. CASE CaddyStop
  BY <1>39 DEF CaddyStop
<1>40. CASE CaddyStart
  BY <1>40 DEF CaddyStart
<1>41. CASE Kill
  BY <1>41 DEF Kill, CutShort
<1>42. CASE Reboot
  BY <1>42 DEF Reboot, CutShort
<1>43. CASE UNCHANGED vars
  BY <1>43 DEF vars
<1>44. QED
  BY <1>1, <1>2, <1>3, <1>4, <1>5, <1>6, <1>7, <1>8, <1>9, <1>10, <1>11, <1>12, <1>13, <1>14,
     <1>15, <1>16, <1>17, <1>18, <1>19, <1>20, <1>21, <1>22, <1>23, <1>24, <1>25,
     <1>26, <1>27, <1>28, <1>29, <1>30, <1>31, <1>32, <1>33, <1>34, <1>35, <1>36,
     <1>37, <1>38, <1>39, <1>40, <1>41, <1>42, <1>43
     DEF Next, Script, Systemd

\* Nothing is ahead of what is published, nor the old slot of its run.
LEMMA OrderStep ==
  ASSUME TypeOK, RunInv, HostInv, EnvInv, TagInv, OrderInv, [Next]_vars
  PROVE  OrderInv'
<1>typ. /\ run \in RunType /\ latest \in Releases /\ caddyEnv \in MaybeSlot
        /\ proc \in [Slots -> [st : {"down", "boot", "up", "failing"}, db : MaybeRelease]]
        /\ db \in [Slots -> MaybeRelease \cup {Partial}]
        /\ run.blueGreen => run.active \in Slots /\ run.target = Other(run.active)
        /\ pc # "idle" => run.rel \in Releases /\ run.rel <= latest
  BY DEF TypeOK, RunInv, TagInv
<1>fix. scenario' = scenario
  BY ScenarioFixed
<1>1. \A s \in Slots : db'[s] <= latest' /\ proc'[s].db <= latest'
  <2> USE <1>typ DEF OrderInv, BeforeEnd, Releases, MaybeRelease, Partial, Slots, Goto,
      GotoWith, Exit,
          fileVars, caddyVars, tagVars, RunType
  <2>1. CASE Publish
    BY <2>1 DEF Publish
  <2>2. CASE Check
    BY <2>2 DEF Check
  <2>3. CASE Plan
    BY <2>3 DEF Plan, BlueGreen, CaddyReady
  <2>4. CASE DrainTarget
    BY <2>4 DEF DrainTarget, Stopped
  <2>5. CASE RemoveTarget
    BY <2>5 DEF RemoveTarget
  <2>6. CASE InstallBinary
    BY <2>6 DEF InstallBinary
  <2>7. CASE Stage
    BY <2>7 DEF Stage
  <2>8. CASE StartTarget
    BY <2>8 DEF StartTarget, Started
  <2>9. CASE HealthCheck
    BY <2>9 DEF HealthCheck, Healthy, TimesOut
  <2>10. CASE EnableTarget
    BY <2>10 DEF EnableTarget
  <2>11. CASE SwitchForward
    BY <2>11 DEF SwitchForward, SwitchEnv, SwitchReload
  <2>12. CASE SwitchRevert
    BY <2>12 DEF SwitchRevert
  <2>13. CASE Mark
    BY <2>13 DEF Mark
  <2>14. CASE DrainActive
    BY <2>14 DEF DrainActive, Stopped
  <2>15. CASE RemoveActive
    BY <2>15 DEF RemoveActive
  <2>16. CASE DisableActive
    BY <2>16 DEF DisableActive
  <2>17. CASE MarkAgain
    BY <2>17 DEF MarkAgain
  <2>18. CASE SwitchBack
    BY <2>18 DEF SwitchBack, SwitchEnv, SwitchReload
  <2>19. CASE BackRevert
    BY <2>19 DEF BackRevert
  <2>20. CASE BackMark
    BY <2>20 DEF BackMark
  <2>21. CASE UndoStop
    BY <2>21 DEF UndoStop, Stopped
  <2>22. CASE UndoDisable
    BY <2>22 DEF UndoDisable
  <2>23. CASE UndoRemove
    BY <2>23 DEF UndoRemove
  <2>24. CASE RestoreBinary("undoBinary")
    BY <2>24 DEF RestoreBinary
  <2>25. CASE StopBoth
    BY <2>25 DEF StopBoth, Stopped
  <2>26. CASE RemoveBoth
    BY <2>26 DEF RemoveBoth
  <2>27. CASE Replace
    BY <2>27 DEF Replace
  <2>28. CASE EnablePrimary
    BY <2>28 DEF EnablePrimary
  <2>29. CASE StartPrimary
    BY <2>29 DEF StartPrimary, Started
  <2>30. CASE HealthPrimary
    BY <2>30 DEF HealthPrimary, Healthy, TimesOut
  <2>31. CASE RestoreBinary("replaceBinary")
    BY <2>31 DEF RestoreBinary
  <2>32. CASE ReplaceSwitch
    BY <2>32 DEF ReplaceSwitch, SwitchEnv, SwitchReload
  <2>33. CASE ReplaceMark
    BY <2>33 DEF ReplaceMark
  <2>34. CASE RecordTag
    BY <2>34 DEF RecordTag
  <2>35. CASE RecordPublished
    BY <2>35 DEF RecordPublished
  <2>36. ASSUME NEW s \in Slots, Boot(s)
         PROVE \A r \in Slots : db'[r] <= latest' /\ proc'[r].db <= latest'
    BY <2>36 DEF Boot, Runs
  <2>37. ASSUME NEW s \in Slots, Retry(s)
         PROVE \A r \in Slots : db'[r] <= latest' /\ proc'[r].db <= latest'
    BY <2>37 DEF Retry
  <2>38. ASSUME NEW s \in Slots, ProcessCrash(s)
         PROVE \A r \in Slots : db'[r] <= latest' /\ proc'[r].db <= latest'
    BY <2>38 DEF ProcessCrash
  <2>39. CASE CaddyStop
    BY <2>39 DEF CaddyStop
  <2>40. CASE CaddyStart
    BY <2>40 DEF CaddyStart
  <2>41. CASE Kill
    BY <2>41 DEF Kill, CutShort
  <2>42. CASE Reboot
    BY <2>42 DEF Reboot, CutShort
  <2>43. CASE UNCHANGED vars
    BY <2>43 DEF vars
  <2>44. QED
    BY <2>1, <2>2, <2>3, <2>4, <2>5, <2>6, <2>7, <2>8, <2>9, <2>10, <2>11, <2>12, <2>13,
       <2>14, <2>15, <2>16, <2>17, <2>18, <2>19, <2>20, <2>21, <2>22, <2>23, <2>24,
       <2>25, <2>26, <2>27, <2>28, <2>29, <2>30, <2>31, <2>32, <2>33, <2>34, <2>35,
       <2>36, <2>37, <2>38, <2>39, <2>40, <2>41, <2>42, <2>43
       DEF Next, Script, Systemd
<1>2. pc' \in {"backEnv", "backReload"} => run'.undo # "none"
  <2> USE <1>typ DEF OrderInv, BeforeEnd, Goto, GotoWith, Exit,
          fileVars, caddyVars, tagVars, RunType
  <2>1. CASE Publish
    BY <2>1 DEF Publish
  <2>2. CASE Check
    BY <2>2 DEF Check
  <2>3. CASE Plan
    BY <2>3 DEF Plan, BlueGreen, CaddyReady
  <2>4. CASE DrainTarget
    BY <2>4 DEF DrainTarget, Stopped
  <2>5. CASE RemoveTarget
    BY <2>5 DEF RemoveTarget
  <2>6. CASE InstallBinary
    BY <2>6 DEF InstallBinary
  <2>7. CASE Stage
    BY <2>7 DEF Stage
  <2>8. CASE StartTarget
    BY <2>8 DEF StartTarget, Started
  <2>9. CASE HealthCheck
    BY <2>9 DEF HealthCheck, Healthy, TimesOut
  <2>10. CASE EnableTarget
    BY <2>10 DEF EnableTarget
  <2>11. CASE SwitchForward
    BY <2>11 DEF SwitchForward, SwitchEnv, SwitchReload
  <2>12. CASE SwitchRevert
    BY <2>12 DEF SwitchRevert
  <2>13. CASE Mark
    BY <2>13 DEF Mark
  <2>14. CASE DrainActive
    BY <2>14 DEF DrainActive, Stopped
  <2>15. CASE RemoveActive
    BY <2>15 DEF RemoveActive
  <2>16. CASE DisableActive
    BY <2>16 DEF DisableActive
  <2>17. CASE MarkAgain
    BY <2>17 DEF MarkAgain
  <2>18. CASE SwitchBack
    BY <2>18 DEF SwitchBack, SwitchEnv, SwitchReload
  <2>19. CASE BackRevert
    BY <2>19 DEF BackRevert
  <2>20. CASE BackMark
    BY <2>20 DEF BackMark
  <2>21. CASE UndoStop
    BY <2>21 DEF UndoStop, Stopped
  <2>22. CASE UndoDisable
    BY <2>22 DEF UndoDisable
  <2>23. CASE UndoRemove
    BY <2>23 DEF UndoRemove
  <2>24. CASE RestoreBinary("undoBinary")
    BY <2>24 DEF RestoreBinary
  <2>25. CASE StopBoth
    BY <2>25 DEF StopBoth, Stopped
  <2>26. CASE RemoveBoth
    BY <2>26 DEF RemoveBoth
  <2>27. CASE Replace
    BY <2>27 DEF Replace
  <2>28. CASE EnablePrimary
    BY <2>28 DEF EnablePrimary
  <2>29. CASE StartPrimary
    BY <2>29 DEF StartPrimary, Started
  <2>30. CASE HealthPrimary
    BY <2>30 DEF HealthPrimary, Healthy, TimesOut
  <2>31. CASE RestoreBinary("replaceBinary")
    BY <2>31 DEF RestoreBinary
  <2>32. CASE ReplaceSwitch
    BY <2>32 DEF ReplaceSwitch, NoRun, SwitchEnv, SwitchReload
  <2>33. CASE ReplaceMark
    BY <2>33 DEF ReplaceMark
  <2>34. CASE RecordTag
    BY <2>34 DEF RecordTag
  <2>35. CASE RecordPublished
    BY <2>35 DEF RecordPublished
  <2>36. ASSUME NEW s \in Slots, Boot(s)
         PROVE pc' \in {"backEnv", "backReload"} => run'.undo # "none"
    BY <2>36 DEF Boot
  <2>37. ASSUME NEW s \in Slots, Retry(s)
         PROVE pc' \in {"backEnv", "backReload"} => run'.undo # "none"
    BY <2>37 DEF Retry
  <2>38. ASSUME NEW s \in Slots, ProcessCrash(s)
         PROVE pc' \in {"backEnv", "backReload"} => run'.undo # "none"
    BY <2>38 DEF ProcessCrash
  <2>39. CASE CaddyStop
    BY <2>39 DEF CaddyStop
  <2>40. CASE CaddyStart
    BY <2>40 DEF CaddyStart
  <2>41. CASE Kill
    BY <2>41 DEF Kill, CutShort
  <2>42. CASE Reboot
    BY <2>42 DEF Reboot, CutShort
  <2>43. CASE UNCHANGED vars
    BY <2>43 DEF vars
  <2>44. QED
    BY <2>1, <2>2, <2>3, <2>4, <2>5, <2>6, <2>7, <2>8, <2>9, <2>10, <2>11, <2>12, <2>13,
       <2>14, <2>15, <2>16, <2>17, <2>18, <2>19, <2>20, <2>21, <2>22, <2>23, <2>24,
       <2>25, <2>26, <2>27, <2>28, <2>29, <2>30, <2>31, <2>32, <2>33, <2>34, <2>35,
       <2>36, <2>37, <2>38, <2>39, <2>40, <2>41, <2>42, <2>43
       DEF Next, Script, Systemd
<1>3. ASSUME OnlyBlueGreen, Without({"kill", "reboot"})
      PROVE  /\ pc' = "plan" => proc'[caddyEnv'].db <= run'.rel
             /\ pc' \in BeforeEnd => proc'[run'.active].db <= run'.rel
  <2>ok. /\ OrderInv /\ HasCaddy /\ Without({"process", "caddy", "disk"})
         /\ Without({"kill", "reboot"}) /\ Without({"reboot"})
    BY <1>3 DEF OnlyBlueGreen, HasCaddy, Without
  <2>host. /\ caddyEnv \in Slots
           /\ Blue(OnTarget) => caddyEnv = run.target
    BY <2>ok DEF HostInv, Without
  <2>env. /\ proc[caddyEnv].st = "up"
          /\ pc \notin {"idle", "plan"} => run.blueGreen
          /\ pc \in OnActive => caddyEnv = run.active
          /\ pc \in {"switchReload", "switchRevert", "mark", "backEnv", "drainActive"}
               => proc[run.active].st = "up"
    BY <1>3, <2>ok DEF EnvInv, Ready
  <2>never. ~ Kill /\ ~ Reboot /\ ~ CaddyStop
    BY <2>ok DEF Kill, Reboot, CaddyStop, Fault, Without
  <2>crash. \A s \in Slots : ~ ProcessCrash(s)
    BY <2>ok DEF ProcessCrash, Fault, Without
  <2>blue. pc \notin ReplaceLabels
    BY <2>env DEF RunInv, ForwardLabels, UndoLabels, RecordLabels, ReplaceLabels
  <2> USE <1>typ, <1>3, <2>ok, <2>host, <2>env, <2>never, <2>crash, <2>blue
      DEF OrderInv, BeforeEnd, OnActive, Blue, AfterDrain, OnTarget, ForwardLabels,
          UndoLabels, PlanLabels,
          ReplaceLabels, RecordLabels, Releases, MaybeRelease, RunType, NoRun, Slots, Other,
          Active, Goto, GotoWith, Exit, fileVars, caddyVars, tagVars
  <2>1. CASE Publish
    BY <2>1 DEF Publish
  <2>2. CASE Check
    BY <2>2 DEF Check
  <2>3. CASE Plan
    <3>1. pc = "plan" /\ Active(caddyEnv)
      BY <2>3 DEF Plan
    <3>2. ReadActiveSlot = caddyEnv
      BY <3>1, ActiveSlotRead
    <3>3. pc' # "idle" => run'.active = caddyEnv /\ run'.rel = run.rel /\ pc' # "plan"
      BY <2>3, <3>2 DEF Plan
    <3>4. QED
      BY <2>3, <3>1, <3>3 DEF Plan
  <2>4. CASE DrainTarget
    BY <2>4 DEF DrainTarget, Stopped
  <2>5. CASE RemoveTarget
    BY <2>5 DEF RemoveTarget
  <2>6. CASE InstallBinary
    BY <2>6 DEF InstallBinary
  <2>7. CASE Stage
    BY <2>7 DEF Stage
  <2>8. CASE StartTarget
    BY <2>8 DEF StartTarget, Started
  <2>9. CASE HealthCheck
    BY <2>9 DEF HealthCheck, Healthy, TimesOut
  <2>10. CASE EnableTarget
    BY <2>10 DEF EnableTarget
  <2>11. CASE SwitchForward
    BY <2>11 DEF SwitchForward, SwitchEnv, SwitchReload
  <2>12. CASE SwitchRevert
    BY <2>12 DEF SwitchRevert
  <2>13. CASE Mark
    BY <2>13 DEF Mark
  <2>14. CASE DrainActive
    BY <2>14 DEF DrainActive, Stopped
  <2>15. CASE RemoveActive
    BY <2>15 DEF RemoveActive
  <2>16. CASE DisableActive
    BY <2>16 DEF DisableActive
  <2>17. CASE MarkAgain
    BY <2>17 DEF MarkAgain
  <2>18. CASE SwitchBack
    BY <2>18 DEF SwitchBack, SwitchEnv, SwitchReload
  <2>19. CASE BackRevert
    BY <2>19 DEF BackRevert
  <2>20. CASE BackMark
    BY <2>20 DEF BackMark
  <2>21. CASE UndoStop
    BY <2>21 DEF UndoStop, Stopped
  <2>22. CASE UndoDisable
    BY <2>22 DEF UndoDisable
  <2>23. CASE UndoRemove
    BY <2>23 DEF UndoRemove
  <2>24. CASE RestoreBinary("undoBinary")
    BY <2>24 DEF RestoreBinary
  <2>25. CASE StopBoth
    BY <2>25 DEF StopBoth, Stopped
  <2>26. CASE RemoveBoth
    BY <2>26 DEF RemoveBoth
  <2>27. CASE Replace
    BY <2>27 DEF Replace
  <2>28. CASE EnablePrimary
    BY <2>28 DEF EnablePrimary
  <2>29. CASE StartPrimary
    BY <2>29 DEF StartPrimary, Started
  <2>30. CASE HealthPrimary
    BY <2>30 DEF HealthPrimary, Healthy, TimesOut
  <2>31. CASE RestoreBinary("replaceBinary")
    BY <2>31 DEF RestoreBinary
  <2>32. CASE ReplaceSwitch
    BY <2>32 DEF ReplaceSwitch, SwitchEnv, SwitchReload
  <2>33. CASE ReplaceMark
    BY <2>33 DEF ReplaceMark
  <2>34. CASE RecordTag
    BY <2>34 DEF RecordTag
  <2>35. CASE RecordPublished
    BY <2>35 DEF RecordPublished
  <2>36. ASSUME NEW s \in Slots, Boot(s) PROVE 
           /\ pc' = "plan" => proc'[caddyEnv'].db <= run'.rel
           /\ pc' \in BeforeEnd => proc'[run'.active].db <= run'.rel
    BY <2>36 DEF Boot
  <2>37. ASSUME NEW s \in Slots, Retry(s) PROVE 
           /\ pc' = "plan" => proc'[caddyEnv'].db <= run'.rel
           /\ pc' \in BeforeEnd => proc'[run'.active].db <= run'.rel
    BY <2>37 DEF Retry
  <2>38. ASSUME NEW s \in Slots, ProcessCrash(s) PROVE 
           /\ pc' = "plan" => proc'[caddyEnv'].db <= run'.rel
           /\ pc' \in BeforeEnd => proc'[run'.active].db <= run'.rel
    BY <2>38 DEF ProcessCrash
  <2>39. CASE CaddyStop
    BY <2>39 DEF CaddyStop
  <2>40. CASE CaddyStart
    BY <2>40 DEF CaddyStart
  <2>41. CASE Kill
    BY <2>41 DEF Kill, CutShort
  <2>42. CASE Reboot
    BY <2>42 DEF Reboot, CutShort
  <2>43. CASE UNCHANGED vars
    BY <2>43 DEF vars
  <2>44. QED
    BY <2>1, <2>2, <2>3, <2>4, <2>5, <2>6, <2>7, <2>8, <2>9, <2>10, <2>11, <2>12, <2>13,
       <2>14, <2>15, <2>16, <2>17, <2>18, <2>19, <2>20, <2>21, <2>22, <2>23, <2>24,
       <2>25, <2>26, <2>27, <2>28, <2>29, <2>30, <2>31, <2>32, <2>33, <2>34, <2>35,
       <2>36, <2>37, <2>38, <2>39, <2>40, <2>41, <2>42, <2>43
       DEF Next, Script, Systemd
<1>4. QED
  BY <1>1, <1>2, <1>3, <1>fix DEF OrderInv, BeforeEnd, OnlyBlueGreen, Without, HasCaddy

-----------------------------------------------------------------------------
(* The invariant holds *)

\* A host installed with release 1 in the primary slot.
LEMMA InitInvariant ==
  Init => BInv
<1> SUFFICES ASSUME Init PROVE BInv
  OBVIOUS
<1>typ. scenario \in ScenarioType /\ scenario.faults \in Nat /\ MaxRelease \in Nat \ {0}
  BY UpdateAssumption DEF Init, ScenarioType
<1>1. TypeOK
  <2>1. run \in RunType
    BY DEF Init, RunType, NoRun, MaybeSlot, MaybeRelease, Slots, NoSlot
  <2>2. QED
    BY <1>typ, <2>1 DEF Init, TypeOK, Labels, MaybeSlot, MaybeRelease, Slots, NoSlot, Releases
<1>2. pc = "idle" /\ run = NoRun /\ ~ run.blueGreen
  BY DEF Init, NoRun
<1>host. /\ db["primary"] = 1 /\ enabled["primary"] /\ proc["primary"].st = "up"
         /\ scenario.caddy => caddyEnv = "primary"
         /\ tag = 1 /\ latest = 1
  BY DEF Init, Slots
<1>3. RunInv
  BY <1>typ, <1>2 DEF Init, RunInv, PlanLabels, ForwardLabels, UndoLabels, ReplaceLabels,
     RecordLabels, Releases
<1>4. DiskInv
  BY <1>2 DEF DiskInv, Blue, Green, AfterStage, AfterHealth, AfterEnable, AfterReplace,
     ForwardLabels, UndoLabels, ReplaceLabels, RecordLabels
<1>5. HostInv
  BY <1>2 DEF Init, HostInv, Blue, Green, AfterStage, AfterHealth, AfterEnable, AfterDrain,
      OnTarget,
     AfterReplace, AfterStart, ForwardLabels, ReplaceLabels, RecordLabels, HasCaddy, Slots
<1>6. FileInv
  BY <1>2 DEF Init, FileInv, Slots
<1>7. EnvInv
  BY <1>typ, <1>2, <1>host DEF EnvInv, Ready, OnlyBlueGreen, OnActive, Active, Releases
<1>8. ConfInv
  BY <1>2 DEF Init, ConfInv
<1>9. BackupInv
  BY <1>2 DEF Init, BackupInv, OnlyBlueGreen, Slots, ForwardLabels, UndoLabels
<1>10. TagInv
  BY <1>2, <1>host DEF TagInv, Slots
<1>11. OrderInv
  BY <1>2, <1>host DEF Init, OrderInv, BeforeEnd, Slots, PlanLabels, ForwardLabels, UndoLabels
<1>12. QED
  BY <1>1, <1>3, <1>4, <1>5, <1>6, <1>7, <1>8, <1>9, <1>10, <1>11 DEF BInv

\* What a run has established, at every command, for any deployment, any
\* number of releases and any faults.
THEOREM UpdateInvariance == Spec => []BInv
<1>1. Init => BInv
  BY InitInvariant
<1>2. BInv /\ [Next]_vars => BInv'
  BY TypeStep, RunStep, DiskStep, HostStep, FileStep, EnvStep, ConfStep, BackupStep, TagStep,
     OrderStep
     DEF BInv
<1>3. QED
  BY <1>1, <1>2, PTL DEF Spec

\* Types of the host's state and of the script's variables.
THEOREM UpdateTyped == Spec => []TypeOK
BY UpdateInvariance, PTL DEF BInv

\* Where releases share one dataset schema, a reboot between any two commands
\* of blue-green updates leaves a slot that systemd starts and that has a
\* dataset the installed binary opens: the one that caddy.env names.
THEOREM RebootsAreSafe == Spec => []BootSafe
<1>1. BInv => BootSafe
  <2> SUFFICES ASSUME BInv, OneSchema, OnlyBlueGreen
               PROVE  \E s \in Slots : enabled[s] /\ Runs(binary, db[s])
    BY DEF BootSafe
  <2>1. caddyEnv \in Slots
    BY DEF BInv, HostInv, OnlyBlueGreen, Without, HasCaddy
  <2>2. enabled[caddyEnv] /\ db[caddyEnv] \in Releases
    BY DEF BInv, EnvInv, Ready
  <2>3. binary \in Releases
    BY DEF BInv, RunInv
  <2>4. QED
    BY <2>1, <2>2, <2>3 DEF Runs, OneSchema, Releases
<1>2. QED
  BY <1>1, UpdateInvariance, PTL

\* rm -f of a slot's dataset, and the move of a new one to its path, never
\* find the slot serving.
THEOREM FilesOutliveTheirReaders == Spec => []ServingSlotKeepsItsFile
<1>1. BInv => ServingSlotKeepsItsFile
  BY DEF BInv, FileInv, ServingSlotKeepsItsFile, Up
<1>2. QED
  BY <1>1, UpdateInvariance, PTL

\* While a blue-green update or its undoing runs, the slot that Caddy tries
\* first answers.
THEOREM TheFirstUpstreamServes == Spec => []FirstUpstreamServes
<1>1. BInv => FirstUpstreamServes
  <2> SUFFICES ASSUME BInv, OnlyBlueGreen, Without({"kill", "reboot"}),
                      pc \in ForwardLabels \cup UndoLabels
               PROVE  caddyConf \in Up
    BY DEF FirstUpstreamServes
  <2>1. Without({"reboot"}) /\ HasCaddy /\ Without({"process", "caddy"})
    BY DEF OnlyBlueGreen, Without, HasCaddy
  <2>2. /\ Ready(caddyEnv) /\ run.blueGreen
        /\ pc \in {"switchReload", "switchRevert"} => Ready(run.active)
        /\ pc \in {"backReload", "backRevert"} => run.prevEnv = run.target
    BY <2>1 DEF BInv, EnvInv, ForwardLabels, UndoLabels
  <2>3. pc \in {"backReload", "backRevert"} => proc[run.target].st = "up"
    BY <2>1, <2>2 DEF BInv, HostInv, Without, Blue, AfterHealth, AfterStage, ForwardLabels
  <2>4. caddyConf = CASE pc \in {"switchReload", "switchRevert"} -> run.active
                      [] pc \in {"backReload", "backRevert"} -> run.target
                      [] OTHER -> caddyEnv
    BY DEF BInv, ConfInv
  <2>5. caddyConf \in Slots
    BY <2>1 DEF BInv, HostInv, Without
  <2>6. QED
    BY <2>1, <2>2, <2>3, <2>4, <2>5 DEF Ready, Up
<1>2. QED
  BY <1>1, UpdateInvariance, PTL

\* A run that records its release has one slot that holds it, is enabled and
\* marked, is Caddy's first upstream and answers with nothing else, and the
\* other one out of the way: whichever way it took, whatever earlier runs left
\* behind and whatever crashes next to it.
THEOREM FinishesAreClean == Spec => []CleanFinish
<1>1. BInv => CleanFinish
  <2> SUFFICES ASSUME BInv, pc \in RecordLabels
               PROVE  LET s == marker IN
                      /\ s \in Slots
                      /\ db[s] = run.rel /\ enabled[s] /\ binary = run.rel
                      /\ proc[s].st = "up" => proc[s].db = run.rel
                      /\ Without({"process"}) => proc[s].st = "up"
                      /\ db[Other(s)] = 0 /\ proc[Other(s)].st = "down" /\ ~ enabled[Other(s)]
                      /\ HasCaddy => caddyEnv = s
                      /\ HasCaddy /\ (run.blueGreen \/ Without({"caddy"}))
                           => caddyConf \in {s, NoSlot}
    BY DEF CleanFinish
  <2>1. binary = run.rel /\ run.target \in Slots
    BY DEF BInv, RunInv, TypeOK, RunType
  <2>2. CASE run.blueGreen
    <3>1. /\ HasCaddy /\ run.active \in Slots
          /\ run.target = Other(run.active) /\ marker = run.target
      BY <2>2 DEF BInv, RunInv, DiskInv
    <3>2. db[run.target] = run.rel /\ enabled[run.target]
      BY <2>2 DEF BInv, DiskInv, Blue
    <3>3. db[run.active] = 0 /\ ~ enabled[run.active]
      BY <2>2 DEF BInv, DiskInv, Blue
    <3>4. /\ proc[run.target].st = "up" => proc[run.target].db = run.rel
          /\ Without({"process"}) => proc[run.target].st = "up"
          /\ caddyEnv = run.target /\ caddyConf \in {run.target, NoSlot}
          /\ proc[run.active].st = "down"
      BY <2>2 DEF BInv, HostInv, Blue
    <3>5. QED
      BY <2>1, <3>1, <3>2, <3>3, <3>4 DEF Other, Slots
  <2>3. CASE ~ run.blueGreen
    <3>1. marker = "primary"
      BY <2>3 DEF BInv, DiskInv
    <3>2. /\ db["primary"] = run.rel /\ db["secondary"] = 0
          /\ enabled["primary"] /\ ~ enabled["secondary"]
      BY <2>3 DEF BInv, DiskInv, Green, RecordLabels
    <3>3. /\ proc["primary"].st = "up" => proc["primary"].db = run.rel
          /\ Without({"process"}) => proc["primary"].st = "up"
          /\ proc["secondary"].st = "down"
          /\ HasCaddy => caddyEnv = "primary"
          /\ HasCaddy /\ Without({"caddy"}) => caddyConf = "primary"
      BY <2>3 DEF BInv, HostInv, Green, RecordLabels
    <3>4. QED
      BY <2>1, <2>3, <3>1, <3>2, <3>3 DEF Other, Slots
  <2>4. QED
    BY <2>2, <2>3
<1>2. QED
  BY <1>1, UpdateInvariance, PTL

\* When a blue-green run has ended, completed or undone, the installed binary
\* is the one of the release behind Caddy.
THEOREM UndoRestoresTheBinary == Spec => []UndoMatchesBinary
<1>1. BInv => UndoMatchesBinary
  <2> SUFFICES ASSUME BInv, OnlyBlueGreen, Without({"kill", "start", "reboot"}), pc = "idle"
               PROVE  binary = ServedRelease
    BY DEF UndoMatchesBinary, BinaryMatchesService
  <2>1. /\ Without({"reboot"}) /\ HasCaddy /\ Without({"process", "caddy"})
        /\ Without({"kill", "reboot"}) /\ Without({"kill", "reboot", "start"})
    BY DEF OnlyBlueGreen, Without, HasCaddy
  <2>2. caddyEnv \in Slots /\ caddyConf = caddyEnv /\ proc[caddyEnv].st = "up"
    <3>1. caddyEnv \in Slots
      BY <2>1 DEF BInv, HostInv, Without
    <3>2. caddyConf = caddyEnv
      BY <2>1 DEF BInv, ConfInv
    <3>3. proc[caddyEnv].st = "up"
      BY <2>1 DEF BInv, EnvInv, Ready
    <3>4. QED
      BY <3>1, <3>2, <3>3
  <2>3. binary = proc[caddyEnv].db
    BY <2>1 DEF BInv, BackupInv
  <2>4. ServedRelease = proc[caddyEnv].db
    BY <2>2 DEF ServedRelease, Routed, Up, Slots, NoSlot
  <2>5. QED
    BY <2>3, <2>4
<1>2. QED
  BY <1>1, UpdateInvariance, PTL

\* When the recorded tag makes a run exit at once, the release is in a slot
\* that systemd starts at boot, whatever ended the runs before.
THEOREM TheTagIsTrue == Spec => []AlreadyActiveIsTrue
<1>1. BInv => AlreadyActiveIsTrue
  BY DEF BInv, TagInv, AlreadyActiveIsTrue
<1>2. QED
  BY <1>1, UpdateInvariance, PTL

-----------------------------------------------------------------------------
(* To the clients an update is a rollout *)

\* The releases that run.
Running == {proc[s].db : s \in Up}

\* What runs has been published, and what answers runs.
LEMMA RunningReleases ==
  ASSUME BInv
  PROVE  /\ Running \subseteq 1 .. latest
         /\ ServedRelease \in Running \cup {0}
         /\ Routed # NoSlot => Routed \in Up /\ ServedRelease \in Running
<1>1. /\ proc \in [Slots -> [st : {"down", "boot", "up", "failing"}, db : MaybeRelease]]
      /\ latest \in Releases
      /\ \A s \in Slots : proc[s].st = "up" => proc[s].db # 0
      /\ \A s \in Slots : proc[s].db <= latest
  BY DEF BInv, TypeOK, OrderInv
<1>2. Routed # NoSlot => Routed \in Up
  BY DEF Routed, Up, Slots, NoSlot
<1>3. ASSUME NEW s \in Up PROVE proc[s].db \in 1 .. latest
  <2>1. proc[s].db \in Nat \ {0} /\ proc[s].db <= latest /\ latest \in Nat
    BY <1>1 DEF Up, MaybeRelease, Releases
  <2>2. QED
    BY <2>1
<1>4. QED
  BY <1>2, <1>3 DEF Running, ServedRelease

\* Where updates are blue-green and hosts do not reboot a slot answers; where
\* nothing kills them it is Caddy's first upstream.
LEMMA SomethingAnswers ==
  ASSUME BInv, OnlyBlueGreen, Without({"reboot"})
  PROVE  /\ Routed # NoSlot
         /\ Without({"kill"}) =>
              /\ caddyConf \in Up
              /\ Routed = caddyConf
              /\ ServedRelease = proc[caddyConf].db
<1>1. HasCaddy /\ Without({"process", "caddy"})
  BY DEF OnlyBlueGreen, HasCaddy, Without
<1>2. caddyEnv \in Slots /\ caddyConf \in Slots
  BY <1>1 DEF BInv, HostInv, Without
<1>3. /\ proc[caddyEnv].st = "up"
      /\ pc \in {"switchReload", "switchRevert"} => proc[run.active].st = "up"
      /\ pc \in {"backReload", "backRevert"} => run.blueGreen
  BY DEF BInv, EnvInv, Ready
<1>4. Routed # NoSlot
  BY <1>2, <1>3 DEF Routed, Up, Slots, NoSlot, Other
<1>5. ASSUME Without({"kill"}) PROVE caddyConf \in Up
  <2>1. caddyConf = CASE pc \in {"switchReload", "switchRevert"} -> run.active
                      [] pc \in {"backReload", "backRevert"} -> run.target
                      [] OTHER -> caddyEnv
    BY <1>5 DEF BInv, ConfInv, Without
  <2>2. pc \in {"backReload", "backRevert"} => proc[run.target].st = "up"
    BY <1>1, <1>3 DEF BInv, HostInv, Without, Blue, AfterHealth, AfterStage, ForwardLabels
  <2>3. QED
    BY <1>2, <1>3, <2>1, <2>2 DEF Up
<1>6. QED
  BY <1>4, <1>5, <1>2 DEF Routed, ServedRelease, Slots, NoSlot

\* The kinds of steps that a client can tell apart.
Quiet     == UNCHANGED <<proc, caddyConf>>
Comes(s)  == /\ s # caddyConf /\ proc[s].st # "up" /\ db[s] \in Releases
             /\ proc' = [proc EXCEPT ![s] = [st |-> "up", db |-> db[s]]]
             /\ UNCHANGED <<caddyConf, run>>
Goes(s)   == /\ s # caddyConf
             /\ proc'[s].st # "up" /\ \A t \in Slots \ {s} : proc'[t] = proc[t]
             /\ UNCHANGED <<caddyConf, run>>
Moves     == /\ caddyConf' \in Up
             /\ run.undo # "none" \/ proc[caddyConf].db <= proc[caddyConf'].db
             /\ UNCHANGED <<proc, run>>

\* Where nothing ends a run, every step of the host is of one of them: the
\* slot that answers is never the one that is stopped.
LEMMA KindsOfSteps ==
  ASSUME BInv, [Next]_vars, OnlyBlueGreen, Without({"kill"}), Without({"reboot"})
  PROVE  Quiet \/ Moves \/ \E s \in Slots : Comes(s) \/ Goes(s)
<1>typ. /\ run \in RunType
        /\ proc \in [Slots -> [st : {"down", "boot", "up", "failing"}, db : MaybeRelease]]
        /\ run.blueGreen => run.active \in Slots /\ run.target = Other(run.active)
  BY DEF BInv, TypeOK, RunInv
<1>ok. /\ HasCaddy /\ Without({"process", "caddy", "disk"}) /\ Without({"process", "caddy"})
       /\ Without({"kill", "reboot"})
  BY DEF OnlyBlueGreen, HasCaddy, Without
<1>up. caddyConf \in Up
  BY SomethingAnswers
<1>host. /\ caddyEnv \in Slots
         /\ Blue(AfterHealth) => proc[run.target] = [st |-> "up", db |-> run.rel]
         /\ Blue(OnTarget) => caddyEnv = run.target
  BY <1>ok DEF BInv, HostInv, Without
<1>env. /\ pc \notin {"idle", "plan"} => run.blueGreen
        /\ pc \in OnActive => caddyEnv = run.active
        /\ proc[caddyEnv].st = "up"
  BY DEF BInv, EnvInv, Ready
<1>conf. caddyConf = CASE pc \in {"switchReload", "switchRevert"} -> run.active
                       [] pc \in {"backReload", "backRevert"} -> run.target
                       [] OTHER -> caddyEnv
  BY <1>ok DEF BInv, ConfInv
<1>order. /\ pc \in {"switchReload", "backReload"} => proc[run.active].db <= run.rel
          /\ pc = "backReload" => run.undo # "none"
  BY <1>ok DEF BInv, OrderInv, BeforeEnd, PlanLabels, ForwardLabels, UndoLabels, AfterDrain
<1>blue. pc \notin ReplaceLabels
  BY <1>env DEF BInv, RunInv, ForwardLabels, UndoLabels, RecordLabels, ReplaceLabels
<1>never. ~ Kill /\ ~ Reboot /\ ~ CaddyStop /\ ~ CaddyStart
  BY <1>ok, <1>up DEF Kill, Reboot, CaddyStop, CaddyStart, Fault, Without, Up, Slots, NoSlot
<1>crash. \A s \in Slots : ~ ProcessCrash(s)
  BY <1>ok DEF ProcessCrash, Fault, Without
<1> USE <1>typ, <1>up DEF RunType, Slots, Other, Up
<1>1. CASE DrainTarget
  <2>1. pc = "drain" /\ run.target # caddyConf
    BY <1>1, <1>env, <1>conf DEF DrainTarget, OnActive
  <2>2. Quiet \/ Goes(run.target)
    BY <1>1, <2>1 DEF DrainTarget, Quiet, Goes, Goto, Stopped, caddyVars
  <2>3. QED
    BY <2>2
<1>2. CASE StartTarget
  <2>1. pc = "start" /\ run.target # caddyConf
    BY <1>2, <1>env, <1>conf DEF StartTarget, OnActive
  <2>2. Quiet \/ Goes(run.target)
    BY <1>2, <2>1 DEF StartTarget, Quiet, Goes, Goto, Started, Active, caddyVars
  <2>3. QED
    BY <2>2
<1>3. CASE UndoStop
  <2>1. pc = "undoStop" /\ run.target # caddyConf
    BY <1>3, <1>env, <1>conf DEF UndoStop, OnActive
  <2>2. Quiet \/ Goes(run.target)
    BY <1>3, <2>1 DEF UndoStop, Quiet, Goes, Goto, Stopped, caddyVars
  <2>3. QED
    BY <2>2
<1>4. CASE DrainActive
  <2>1. pc = "drainActive" /\ run.active # caddyConf /\ run.active \in Slots
    BY <1>4, <1>env, <1>conf, <1>host DEF DrainActive, Blue, OnTarget
  <2>2. Quiet \/ Goes(run.active)
    BY <1>4, <2>1 DEF DrainActive, Quiet, Goes, Goto, Stopped, caddyVars
  <2>3. QED
    BY <2>1, <2>2
<1>5. CASE SwitchForward
  <2>1. CASE SwitchEnv("switchEnv", run.target, "switchReload")
    BY <2>1 DEF SwitchEnv, Quiet
  <2>2. CASE SwitchReload("switchReload", run.target, "mark", "switchRevert")
    <3>1. /\ run.blueGreen /\ caddyConf = run.active
          /\ proc[run.target] = [st |-> "up", db |-> run.rel]
          /\ proc[run.active].db <= run.rel
      BY <2>2, <1>env, <1>conf, <1>host, <1>order
         DEF SwitchReload, Blue, AfterHealth, AfterStage, ForwardLabels
    <3>2. Quiet \/ (caddyConf' = run.target /\ UNCHANGED <<proc, run>>)
      BY <2>2 DEF SwitchReload, Quiet, Goto
    <3>3. QED
      BY <3>1, <3>2 DEF Moves
  <2>3. QED
    BY <1>5, <2>1, <2>2 DEF SwitchForward
<1>6. CASE SwitchBack
  <2>1. CASE SwitchEnv("backEnv", run.active, "backReload")
    BY <2>1 DEF SwitchEnv, Quiet
  <2>2. CASE SwitchReload("backReload", run.active,
                          IF run.undo = "drain" THEN "backMark" ELSE "undoStop", "backRevert")
    <3>1. run.blueGreen /\ proc[run.active].st = "up" /\ run.undo # "none"
      BY <2>2, <1>env, <1>order DEF SwitchReload, OnActive
    <3>2. Quiet \/ (caddyConf' = run.active /\ UNCHANGED <<proc, run>>)
      BY <2>2 DEF SwitchReload, Quiet, Goto
    <3>3. QED
      BY <3>1, <3>2 DEF Moves
  <2>3. QED
    BY <1>6, <2>1, <2>2 DEF SwitchBack
<1>7. ASSUME NEW s \in Slots, Boot(s) PROVE Comes(s) \/ Goes(s)
  <2>1. proc[s].st = "boot" /\ s # caddyConf
    BY <1>7 DEF Boot
  <2>2. Runs(binary, db[s]) => db[s] \in Releases
    BY DEF Runs
  <2>3. QED
    BY <1>7, <2>1, <2>2 DEF Boot, Comes, Goes, caddyVars
<1>8. ASSUME NEW s \in Slots, Retry(s) PROVE Goes(s)
  <2>1. s # caddyConf
    BY <1>8 DEF Retry
  <2>2. proc'[s].st = "boot" /\ \A t \in Slots \ {s} : proc'[t] = proc[t]
    BY <1>8 DEF Retry
  <2>3. QED
    BY <1>8, <2>1, <2>2 DEF Retry, Goes, caddyVars
<1>9. CASE StopBoth \/ StartPrimary \/ ReplaceSwitch
  BY <1>9, <1>blue DEF StopBoth, StartPrimary, ReplaceSwitch, SwitchEnv, SwitchReload,
     ReplaceLabels
<1>10. ASSUME UNCHANGED <<proc, caddyVars>> PROVE Quiet
  BY <1>10 DEF Quiet, caddyVars
<1>11. ASSUME UNCHANGED <<proc, caddyConf>> PROVE Quiet
  BY <1>11 DEF Quiet
<1>12. QED
  BY <1>1, <1>2, <1>3, <1>4, <1>5, <1>6, <1>7, <1>8, <1>9, <1>10, <1>11, <1>never, <1>crash
     DEF Next, Script, Systemd, Publish, Check, Plan, RemoveTarget, InstallBinary, Stage,
         HealthCheck, EnableTarget, SwitchRevert, Mark, RemoveActive, DisableActive,
         MarkAgain, BackRevert, BackMark, UndoDisable, UndoRemove, RestoreBinary,
         RemoveBoth, Replace, EnablePrimary, HealthPrimary, ReplaceMark, RecordTag,
         RecordPublished, vars

\* In such a deployment a step is a rollout's, and none of its cleaning up.
LEMMA SeamlessStep ==
  ASSUME BInv, BInv', [Next]_vars, OnlyBlueGreen, Without({"kill"}), Without({"reboot"}),
         latest' = latest
  PROVE  \/ Running' = Running /\ ServedRelease' = ServedRelease
         \/ /\ \E r \in 1 .. latest : Running' = Running \cup {r}
            /\ UNCHANGED <<ServedRelease, run>>
         \/ /\ \E r \in Running \ {ServedRelease} : Running' = Running \ {r}
            /\ UNCHANGED <<ServedRelease, run>>
         \/ /\ ServedRelease' \in Running
            /\ \/ ServedRelease' > ServedRelease
               \/ run.undo # "none" /\ ServedRelease' < ServedRelease
            /\ Running' = Running /\ UNCHANGED run
<1>fix. scenario' = scenario
  BY ScenarioFixed DEF BInv
<1>typ. proc \in [Slots -> [st : {"down", "boot", "up", "failing"}, db : MaybeRelease]]
  BY DEF BInv, TypeOK
<1>ans. caddyConf \in Up /\ ServedRelease = proc[caddyConf].db
  BY SomethingAnswers
<1>ans2. /\ caddyConf' \in {s \in Slots : proc'[s].st = "up"}
         /\ ServedRelease' = proc'[caddyConf'].db
  <2>1. (OnlyBlueGreen /\ Without({"kill"}) /\ Without({"reboot"}))'
    BY <1>fix DEF OnlyBlueGreen, Without
  <2>2. (BInv /\ OnlyBlueGreen /\ Without({"kill"}) /\ Without({"reboot"})
          => caddyConf \in Up /\ ServedRelease = proc[caddyConf].db)'
    BY SomethingAnswers, PTL
  <2>3. QED
    BY <2>1, <2>2 DEF Up
<1>1. CASE Quiet
  BY <1>1 DEF Quiet, Running, ServedRelease, Routed, Up
<1>2. CASE Moves
  <2>1. Running' = Running
    BY <1>2 DEF Moves, Running, Up
  <2>2. ServedRelease' = proc[caddyConf'].db /\ ServedRelease' \in Running
    BY <1>2, <1>ans2 DEF Moves, Running
  <2>3. ServedRelease \in Nat /\ ServedRelease' \in Nat
    BY <1>typ, <1>ans, <1>2, <2>2 DEF Moves, Up, MaybeRelease, Releases
  <2>4. QED
    BY <1>2, <1>ans, <2>1, <2>2, <2>3 DEF Moves
<1>3. ASSUME NEW s \in Slots, Comes(s)
      PROVE  /\ \E r \in 1 .. latest : Running' = Running \cup {r}
             /\ UNCHANGED <<ServedRelease, run>>
  <2>1. proc'[caddyConf] = proc[caddyConf] /\ caddyConf' = caddyConf
    BY <1>3, <1>typ, <1>ans DEF Comes, Up
  <2>2. Up' = Up \cup {s} /\ proc'[s].db = db[s] /\ \A t \in Up : proc'[t] = proc[t]
    BY <1>3, <1>typ DEF Comes, Up
  <2>3. Running' = Running \cup {db[s]}
    BY <2>2 DEF Running
  <2>4. db[s] \in 1 .. latest
    BY <1>3 DEF Comes, BInv, OrderInv, TypeOK, Releases
  <2>5. QED
    BY <1>3, <1>ans, <1>ans2, <2>1, <2>3, <2>4 DEF Comes
<1>4. ASSUME NEW s \in Slots, Goes(s)
      PROVE  /\ UNCHANGED <<ServedRelease, run>>
             /\ \/ Running' = Running
                \/ \E r \in Running \ {ServedRelease} : Running' = Running \ {r}
  <2>1. proc'[caddyConf] = proc[caddyConf] /\ caddyConf' = caddyConf
    BY <1>4, <1>ans DEF Goes, Up
  <2>2. UNCHANGED <<ServedRelease, run>>
    BY <1>4, <2>1, <1>ans, <1>ans2 DEF Goes
  <2>3. Up' = {caddyConf} /\ (Up = {caddyConf} \/ Up = {caddyConf, s})
    BY <1>4, <1>ans, <2>1 DEF Goes, Up, Slots
  <2>4. Running' = {ServedRelease}
    BY <2>1, <2>3, <1>ans DEF Running
  <2>5. CASE Up = {caddyConf}
    BY <2>2, <2>4, <2>5, <1>ans DEF Running
  <2>6. CASE Up = {caddyConf, s}
    <3>1. Running = {ServedRelease, proc[s].db}
      BY <2>6, <1>ans DEF Running
    <3>2. QED
      BY <2>2, <2>4, <3>1
  <2>7. QED
    BY <2>2, <2>3, <2>5, <2>6
<1>5. QED
  BY <1>1, <1>2, <1>3, <1>4, KindsOfSteps

\* A step of the host is a step of the rollout, or none of it.
LEMMA RolloutStep ==
  ASSUME BInv, BInv', [Next]_vars PROVE [Rollout!Next]_(Rollout!vars)
<1> DEFINE promise == IF ~ OnlyBlueGreen \/ ~ Without({"reboot"}) THEN "none"
                      ELSE IF Without({"kill"}) THEN "seamless" ELSE "available"
           failed == run.undo # "none"
<1>fix. promise' = promise
  BY ScenarioFixed DEF BInv, OnlyBlueGreen, Without
<1>typ. /\ Running' \subseteq 1 .. latest' /\ ServedRelease' \in Running' \cup {0}
        /\ OnlyBlueGreen /\ Without({"reboot"}) => ServedRelease' \in Running'
  <2>1. (BInv => /\ Running \subseteq 1 .. latest /\ ServedRelease \in Running \cup {0}
                 /\ Routed # NoSlot => ServedRelease \in Running)'
    BY RunningReleases, PTL
  <2>2. (BInv /\ OnlyBlueGreen /\ Without({"reboot"}) => Routed # NoSlot)'
    BY SomethingAnswers, PTL
  <2>3. UNCHANGED scenario
    BY ScenarioFixed DEF BInv
  <2>4. QED
    BY <2>1, <2>2, <2>3 DEF OnlyBlueGreen, Without
<1>1. CASE Publish
  <2>1. latest' = latest + 1 /\ UNCHANGED <<proc, caddyConf, run, scenario>>
    BY <1>1 DEF Publish, caddyVars, faultVars
  <2>2. UNCHANGED <<Running, ServedRelease>>
    BY <2>1 DEF Running, ServedRelease, Routed, Up
  <2>3. QED
    BY <2>1, <2>2, <1>fix DEF Rollout!Next, Rollout!Publish, Running
<1>2. CASE latest' = latest
  <2>1. CASE promise = "none"
    BY <2>1, <1>2, <1>fix, <1>typ DEF Rollout!Next, Rollout!Outage, Running
  <2>2. CASE promise = "available"
    <3>1. ServedRelease' \in Running'
      BY <2>2, <1>typ
    <3>2. QED
      BY <2>2, <3>1, <1>2, <1>fix, <1>typ DEF Rollout!Next, Rollout!CleanUp, Running
  <2>3. CASE promise = "seamless"
    <3>1. OnlyBlueGreen /\ Without({"kill"}) /\ Without({"reboot"})
      BY <2>3
    <3>2. CASE Running' = Running /\ ServedRelease' = ServedRelease
      <4>1. failed' = failed \/ failed' = ~ failed
        OBVIOUS
      <4>2. QED
        BY <3>2, <4>1, <1>2, <1>fix DEF Rollout!Next, Rollout!Fail, Rollout!vars, Running
    <3>3. ASSUME NEW r \in 1 .. latest, Running' = Running \cup {r},
                 UNCHANGED <<ServedRelease, run>>
          PROVE  Rollout!Next
      BY <3>3, <1>2, <1>fix DEF Rollout!Next, Rollout!BringUp, Running
    <3>4. ASSUME NEW r \in Running \ {ServedRelease}, Running' = Running \ {r},
                 UNCHANGED <<ServedRelease, run>>
          PROVE  Rollout!Next
      BY <3>4, <1>2, <1>fix DEF Rollout!Next, Rollout!TakeDown, Running
    <3>5. ASSUME ServedRelease' \in Running, Running' = Running, UNCHANGED run,
                 \/ ServedRelease' > ServedRelease
                 \/ run.undo # "none" /\ ServedRelease' < ServedRelease
          PROVE  Rollout!Next
      <4>1. ServedRelease' \in 1 .. latest
        BY <3>5, <1>2, <1>typ
      <4>2. Rollout!MoveForward(ServedRelease') \/ Rollout!MoveBack(ServedRelease')
        BY <3>5, <1>2, <1>fix DEF Rollout!MoveForward, Rollout!MoveBack, Running
      <4>3. QED
        BY <4>1, <4>2 DEF Rollout!Next
    <3>6. QED
      BY <3>1, <3>2, <3>3, <3>4, <3>5, <1>2, SeamlessStep
  <2>4. QED
    BY <2>1, <2>2, <2>3
<1>3. Publish \/ latest' = latest
  BY DEF Next, Script, Systemd, Check, Plan, DrainTarget, RemoveTarget, InstallBinary,
     Stage, StartTarget, HealthCheck, EnableTarget, SwitchForward, SwitchEnv, SwitchReload,
     SwitchRevert, Mark, DrainActive, RemoveActive, DisableActive, MarkAgain, SwitchBack,
     BackRevert, BackMark, UndoStop, UndoDisable, UndoRemove, RestoreBinary, StopBoth,
     RemoveBoth, Replace, EnablePrimary, StartPrimary, HealthPrimary, ReplaceSwitch,
     ReplaceMark, RecordTag, RecordPublished, Boot, Retry, ProcessCrash, CaddyStop,
     CaddyStart, Kill, Reboot, vars
<1>4. QED
  BY <1>1, <1>2, <1>3

\* README "keeps planned dataset updates available": where updates are
\* blue-green and nothing ends them, clients see releases move forward, or
\* back after a failure, and the slot that answers is never stopped; where
\* they may be killed, some slot answers after every step.
THEOREM UpdatesAreRollouts == Spec => ImplementsRollout
<1>1. Init => Rollout!Init
  <2> SUFFICES ASSUME Init PROVE Rollout!Init
    OBVIOUS
  <2>1. Up = {"primary"} /\ proc["primary"].db = 1 /\ run.undo = "none" /\ latest = 1
    BY DEF Init, Up, Slots, NoRun
  <2>2. Running = {1}
    BY <2>1 DEF Running
  <2>3. ServedRelease \in {0, 1} /\ (OnlyBlueGreen => ServedRelease = 1)
    BY <2>1 DEF Init, ServedRelease, Routed, OnlyBlueGreen, NoSlot, Other
  <2>4. QED
    BY <2>1, <2>2, <2>3 DEF Rollout!Init, Rollout!Promises, Running
<1>2. BInv /\ BInv' /\ [Next]_vars => [Rollout!Next]_(Rollout!vars)
  BY RolloutStep
<1>3. QED
  BY <1>1, <1>2, UpdateInvariance, PTL DEF Spec, ImplementsRollout, Rollout!Spec

-----------------------------------------------------------------------------
(* The installer next to the updater *)

\* Where no service crashes on its own and the host stays up.
Steady == Without({"process", "reboot"})

\* What the installer's own run of sync-bbolt.sh, always stop-and-replace,
\* has established at its commands.
SyncInv ==
  /\ pc \in {"plan", "install", "backRevert"} \cup ReplaceLabels \cup RecordLabels
  /\ run.mode = "0" /\ ~ run.blueGreen
  /\ pc \in AfterReplace \cup RecordLabels => db["primary"] = run.rel
  /\ pc \in (AfterReplace \ {"enablePrimary"}) \cup RecordLabels => enabled["primary"]
  /\ Steady /\ pc \in (AfterStart \ {"healthPrimary", "replaceBinary"}) \cup RecordLabels
       => proc["primary"] = [st |-> "up", db |-> run.rel]
  /\ pc \in RecordLabels => marker = "primary"
  /\ pc = "recordPublished" => tag = run.rel

\* What that run leaves, and the rest of the installation keeps.
Installed ==
  /\ pc = "idle"
  /\ db["primary"] = tag /\ enabled["primary"] /\ marker = "primary"
  /\ Steady => proc["primary"] = [st |-> "up", db |-> tag]

\* At every command of the installer.
InstInv ==
  /\ inst \in InstLabels /\ synced \in BOOLEAN
  /\ synced => inst \in {"verify", "caddyEnv", "caddyRestart", "done", "failed"}
  /\ inst = "syncing" => SyncInv
  /\ synced /\ inst \in {"verify", "caddyEnv", "caddyRestart"} => Installed
  /\ synced /\ inst = "caddyRestart" /\ HasCaddy => caddyEnv = "primary"

\* The installer, too, leaves everything of its type.
LEMMA InstallerTyped ==
  ASSUME TypeOK, [InstNext]_allVars PROVE TypeOK'
<1>ok. /\ latest \in Releases /\ run \in RunType /\ caddyEnv \in MaybeSlot
       /\ enabled \in [Slots -> BOOLEAN] /\ HasCaddy \in BOOLEAN
       /\ proc \in [Slots -> [st : {"down", "boot", "up", "failing"}, db : MaybeRelease]]
       /\ \A s \in Slots : (proc[s].st = "up") <=> (proc[s].db # 0)
  BY UpdateAssumption DEF TypeOK, ScenarioType, HasCaddy
<1> USE <1>ok DEF MaybeSlot, MaybeRelease, Slots, NoSlot, fileVars, caddyVars, tagVars, faultVars
<1>1. CASE UpdateStep
  BY <1>1, TypeStep DEF UpdateStep
<1>2. CASE InstStop
  BY <1>2 DEF InstStop, TypeOK
<1>3. CASE InstConfigure
  BY <1>3 DEF InstConfigure, TypeOK
<1>4. CASE InstEnable
  BY <1>4 DEF InstEnable, TypeOK
<1>5. CASE InstSyncSkipped
  BY <1>5 DEF InstSyncSkipped, TypeOK, vars
<1>6. CASE InstSyncStart
  <2>1. [NoRun EXCEPT !.rel = latest, !.mode = "0"] \in RunType
    BY RunEdits
  <2>2. QED
    BY <1>6, <2>1, SMTT(30), ZenonT(30) DEF InstSyncStart, GotoWith, TypeOK, Labels, PlanLabels
<1>7. CASE InstVerify
  BY <1>7 DEF InstVerify, Started, TypeOK
<1>8. CASE InstCaddyEnv
  BY <1>8 DEF InstCaddyEnv, TypeOK
<1>9. CASE InstCaddyRestart
  BY <1>9 DEF InstCaddyRestart, TypeOK
<1>10. CASE UNCHANGED allVars
  BY <1>10, TypeStep DEF allVars, vars
<1>11. QED
  BY <1>1, <1>2, <1>3, <1>4, <1>5, <1>6, <1>7, <1>8, <1>9, <1>10 DEF InstNext

\* The installer's sync goes on as it has begun.
LEMMA SyncStep ==
  ASSUME TypeOK, SyncInv, Next, pc' # "idle" PROVE SyncInv'
<1>typ. /\ run \in RunType
        /\ enabled \in [Slots -> BOOLEAN]
        /\ proc \in [Slots -> [st : {"down", "boot", "up", "failing"}, db : MaybeRelease]]
        /\ db \in [Slots -> MaybeRelease \cup {Partial}]
  BY DEF TypeOK
<1>fix. scenario' = scenario
  BY ScenarioFixed
<1> USE <1>typ, <1>fix
    DEF SyncInv, Steady, Without, AfterReplace, AfterStart, PlanLabels, ForwardLabels,
        UndoLabels, ReplaceLabels, RecordLabels, Goto, GotoWith, Exit, RunType, Slots,
        fileVars, caddyVars, tagVars
<1>1. CASE Publish
  BY <1>1 DEF Publish
<1>2. CASE Check
  BY <1>2 DEF Check
<1>3. CASE Plan
  BY <1>3 DEF Plan, BlueGreen
<1>4. CASE InstallBinary
  BY <1>4 DEF InstallBinary
<1>5. CASE StopBoth
  BY <1>5 DEF StopBoth
<1>6. CASE RemoveBoth
  BY <1>6 DEF RemoveBoth
<1>7. CASE Replace
  BY <1>7 DEF Replace
<1>8. CASE EnablePrimary
  BY <1>8 DEF EnablePrimary
<1>9. CASE StartPrimary
  BY <1>9 DEF StartPrimary
<1>10. CASE HealthPrimary
  <2>1. CASE TimesOut("primary") /\ Goto("replaceBinary")
    BY <1>10, <2>1 DEF HealthPrimary
  <2>2. CASE Healthy("primary") /\ pc' \in {"replaceMark", "replaceEnv", "replacePersist"}
                                /\ UNCHANGED run
    <3>1. proc["primary"] = [st |-> "up", db |-> run.rel]
      BY <2>2 DEF Healthy
    <3>2. QED
      BY <1>10, <2>2, <3>1 DEF HealthPrimary
  <2>3. QED
    BY <1>10, <2>1, <2>2 DEF HealthPrimary
<1>11. CASE ReplaceSwitch
  BY <1>11 DEF ReplaceSwitch, SwitchEnv, SwitchReload
<1>12. CASE ReplaceMark
  BY <1>12 DEF ReplaceMark
<1>13. CASE RecordTag
  BY <1>13 DEF RecordTag
<1>14. CASE \E s \in Slots : Boot(s) \/ Retry(s)
  <2>1. PICK s \in Slots : Boot(s) \/ Retry(s)
    BY <1>14
  <2>2. proc["primary"].st = "up" => proc'["primary"] = proc["primary"]
    BY <2>1 DEF Boot, Retry
  <2>3. QED
    BY <2>1, <2>2 DEF Boot, Retry
<1>15. CASE \E s \in Slots : ProcessCrash(s)
  BY <1>15 DEF ProcessCrash, Fault
<1>16. CASE CaddyStop \/ CaddyStart
  BY <1>16 DEF CaddyStop, CaddyStart
<1>17. CASE Kill \/ Reboot \/ BackRevert \/ RecordPublished \/ RestoreBinary("replaceBinary")
  BY <1>17 DEF Kill, Reboot, BackRevert, RecordPublished, RestoreBinary
<1>18. pc \notin {"drain", "rmTarget", "undoBinary"} \cup ForwardLabels
                 \cup (UndoLabels \ {"backRevert"})
  OBVIOUS
<1>19. QED
  BY <1>1, <1>2, <1>3, <1>4, <1>5, <1>6, <1>7, <1>8, <1>9, <1>10, <1>11, <1>12, <1>13, <1>14,
     <1>15, <1>16, <1>17, <1>18
     DEF Next, Script, Systemd, DrainTarget, RemoveTarget, Stage, StartTarget, HealthCheck,
         EnableTarget, SwitchForward, SwitchBack, SwitchEnv, SwitchReload, SwitchRevert, Mark,
         DrainActive, RemoveActive, DisableActive, MarkAgain, BackMark, UndoStop, UndoDisable,
         UndoRemove, RestoreBinary

\* Its last command leaves the release installed.
LEMMA SyncEnds ==
  ASSUME TypeOK, SyncInv, RecordPublished PROVE Installed'
BY DEF SyncInv, RecordPublished, Installed, Exit, NoFault, faultVars, fileVars, caddyVars,
       tagVars, Steady, Without, RecordLabels

\* No step of the system without a run takes it away.
LEMMA InstalledStays ==
  ASSUME TypeOK, Installed, [Next]_vars, pc' = "idle"
  PROVE  Installed' /\ UNCHANGED caddyEnv
<1>typ. proc \in [Slots -> [st : {"down", "boot", "up", "failing"}, db : MaybeRelease]]
  BY DEF TypeOK
<1>fix. scenario' = scenario
  BY ScenarioFixed
<1> USE <1>typ, <1>fix
    DEF Installed, Steady, Without, Exit, Fault, fileVars, caddyVars, tagVars
<1>1. CASE UNCHANGED vars
  BY <1>1 DEF vars
<1>2. CASE Publish
  BY <1>2 DEF Publish
<1>3. CASE \E s \in Slots : Boot(s) \/ Retry(s)
  <2>1. PICK s \in Slots : Boot(s) \/ Retry(s)
    BY <1>3
  <2>2. proc["primary"].st = "up" => proc'["primary"] = proc["primary"]
    BY <2>1 DEF Boot, Retry, Slots
  <2>3. QED
    BY <2>1, <2>2 DEF Boot, Retry
<1>4. CASE \E s \in Slots : ProcessCrash(s)
  BY <1>4 DEF ProcessCrash
<1>5. CASE CaddyStop \/ CaddyStart
  BY <1>5 DEF CaddyStop, CaddyStart
<1>6. CASE Reboot
  BY <1>6 DEF Reboot, CutShort
<1>7. CASE Check
  BY <1>7 DEF Check, GotoWith
<1>8. ~ Kill /\ ~ Script
  BY DEF Kill, Script, Plan, InstallBinary, DrainTarget, RemoveTarget, Stage, StartTarget,
         HealthCheck, EnableTarget, SwitchForward, SwitchBack, SwitchEnv, SwitchReload,
         SwitchRevert, Mark, DrainActive, RemoveActive, DisableActive, MarkAgain, BackRevert,
         BackMark, UndoStop, UndoDisable, UndoRemove, RestoreBinary, StopBoth, RemoveBoth,
         Replace, EnablePrimary, StartPrimary, HealthPrimary, ReplaceSwitch, ReplaceMark,
         RecordTag, RecordPublished
<1>9. QED
  BY <1>1, <1>2, <1>3, <1>4, <1>5, <1>6, <1>7, <1>8 DEF Next, Systemd

\* Every command of the installer, and every step next to it, keeps its
\* invariant.
LEMMA InstallerStep ==
  ASSUME TypeOK, InstInv, [InstNext]_allVars PROVE InstInv'
<1>1. CASE UpdateStep
  <2> DEFINE Ends == inst = "syncing" /\ pc # "idle" /\ pc' = "idle"
  <2>1. /\ Next
        /\ pc = "idle" /\ pc' # "idle" => inst \in {"ready", "done", "failed"}
        /\ IF Ends THEN /\ inst' = IF RecordPublished THEN "verify" ELSE "failed"
                        /\ synced' = RecordPublished
                   ELSE UNCHANGED instVars
    BY <1>1 DEF UpdateStep
  <2>fix. scenario' = scenario
    BY <2>1, ScenarioFixed
  <2>2. RecordPublished \in BOOLEAN
    BY DEF RecordPublished
  <2>3. CASE Ends /\ RecordPublished
    <3>1. Installed'
      BY <2>3, SyncEnds DEF InstInv
    <3>2. QED
      BY <2>1, <2>3, <3>1 DEF InstInv, InstLabels
  <2>4. CASE Ends /\ ~ RecordPublished
    BY <2>1, <2>2, <2>4 DEF InstInv, InstLabels
  <2>5. CASE inst = "syncing" /\ ~ Ends
    <3>1. pc # "idle"
      BY <2>5 DEF InstInv, SyncInv, ReplaceLabels, RecordLabels
    <3>2. SyncInv'
      BY <2>1, <2>5, <3>1, SyncStep DEF InstInv
    <3>3. QED
      BY <2>1, <2>5, <3>2 DEF InstInv, instVars
  <2>6. CASE inst # "syncing" /\ synced /\ inst \in {"verify", "caddyEnv", "caddyRestart"}
    <3>1. Installed /\ pc = "idle" /\ pc' = "idle"
      BY <2>1, <2>6 DEF InstInv, Installed
    <3>2. Installed' /\ UNCHANGED caddyEnv
      BY <2>1, <3>1, InstalledStays
    <3>3. QED
      BY <2>1, <2>6, <2>fix, <3>2 DEF InstInv, instVars, HasCaddy
  <2>7. CASE inst # "syncing" /\ ~ (synced /\ inst \in {"verify", "caddyEnv", "caddyRestart"})
    BY <2>1, <2>7 DEF InstInv, instVars
  <2>8. QED
    BY <2>3, <2>4, <2>5, <2>6, <2>7
<1>2. CASE InstStop
  BY <1>2 DEF InstStop, InstInv, InstLabels
<1>3. CASE InstConfigure
  BY <1>3 DEF InstConfigure, InstInv, InstLabels
<1>4. CASE InstEnable
  BY <1>4 DEF InstEnable, InstInv, InstLabels
<1>5. CASE InstSyncSkipped
  BY <1>5 DEF InstSyncSkipped, InstInv, InstLabels
<1>6. CASE InstSyncStart
  BY <1>6 DEF InstSyncStart, GotoWith, NoRun, InstInv, SyncInv, InstLabels, AfterReplace,
     AfterStart, ReplaceLabels, RecordLabels
<1>7. CASE InstVerify
  <2>1. CASE synced
    <3>1. /\ Installed /\ inst' \in {"caddyEnv", "failed"} /\ UNCHANGED synced
          /\ UNCHANGED <<pc, scenario, db, enabled, marker, tag>>
      BY <1>7, <2>1 DEF InstVerify, InstInv, fileVars, tagVars, faultVars
    <3>2. Active("primary") => UNCHANGED proc
      BY <1>7 DEF InstVerify, Started
    <3>3. Installed'
      BY <3>1, <3>2 DEF Installed, Steady, Without, Active
    <3>4. QED
      BY <3>1, <3>3 DEF InstInv, InstLabels
  <2>2. CASE ~ synced
    BY <1>7, <2>2 DEF InstVerify, InstInv, InstLabels
  <2>3. QED
    BY <2>1, <2>2
<1>8. CASE InstCaddyEnv
  BY <1>8 DEF InstCaddyEnv, InstInv, InstLabels, Installed, Steady, Without, HasCaddy,
     fileVars, tagVars, faultVars
<1>9. CASE InstCaddyRestart
  BY <1>9 DEF InstCaddyRestart, InstInv, InstLabels
<1>10. CASE UNCHANGED allVars
  BY <1>10 DEF allVars, vars, fileVars, caddyVars, tagVars, faultVars, InstInv, SyncInv,
     Installed, Steady, Without, HasCaddy
<1>11. QED
  BY <1>1, <1>2, <1>3, <1>4, <1>5, <1>6, <1>7, <1>8, <1>9, <1>10 DEF InstNext

\* What the installation has established, at every command of the installer,
\* for any deployment, any number of releases and any faults.
THEOREM InstallInvariance == InstSpec => [](TypeOK /\ InstInv)
<1>1. InstInit => TypeOK /\ InstInv
  BY InitInvariant DEF InstInit, InstInv, InstLabels, BInv
<1>2. TypeOK /\ InstInv /\ [InstNext]_allVars => (TypeOK /\ InstInv)'
  BY InstallerTyped, InstallerStep
<1>3. QED
  BY <1>1, <1>2, PTL DEF InstSpec

\* install.sh: a completed installation whose own sync installed a release has
\* the primary slot serve it, enabled, marked and behind Caddy, at whatever
\* command of an update it began.
THEOREM InstallationsServe == InstSpec => InstalledReleaseServes
<1>1. ASSUME TypeOK, InstInv, [InstNext]_allVars,
             Completes, synced, Without({"process", "reboot"})
      PROVE  /\ db'["primary"] = tag /\ enabled'["primary"] /\ marker' = "primary"
             /\ proc'["primary"] = [st |-> "up", db |-> tag]
             /\ HasCaddy => caddyConf' = "primary"
  <2>1. InstCaddyRestart
    BY <1>1 DEF Completes, InstNext, UpdateStep, InstStop, InstConfigure, InstEnable,
       InstSyncSkipped, InstSyncStart, InstVerify, InstCaddyEnv, allVars, instVars
  <2>2. QED
    BY <1>1, <2>1 DEF InstCaddyRestart, InstInv, Installed, Steady, fileVars
<1>2. TypeOK /\ InstInv /\ [InstNext]_allVars =>
        [Completes /\ synced /\ Without({"process", "reboot"}) =>
           /\ db'["primary"] = tag /\ enabled'["primary"] /\ marker' = "primary"
           /\ proc'["primary"] = [st |-> "up", db |-> tag]
           /\ HasCaddy => caddyConf' = "primary"]_allVars
  BY <1>1
<1>3. QED
  BY <1>2, InstallInvariance, PTL DEF InstSpec, InstalledReleaseServes
=============================================================================
