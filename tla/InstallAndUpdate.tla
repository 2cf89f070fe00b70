-------------------------- MODULE InstallAndUpdate --------------------------
(***************************************************************************)
(* install.sh run again on an installed host, next to the updater of       *)
(* BlueGreenUpdate.  The installer stops both slots without the updater's  *)
(* lock, rewrites the configuration, runs sync-bbolt.sh in stop-and-replace *)
(* mode and goes on when that exits 0, which it also does when another run *)
(* holds the lock and when there is nothing newer to install.              *)
(***************************************************************************)
EXTENDS BlueGreenUpdate

CONSTANT Overlap   \* the installer may start while an update runs

ASSUME OverlapAssumption == Overlap \in BOOLEAN

VARIABLES inst,    \* the next command of the installer
          synced   \* its sync-bbolt.sh installed a release

instVars == <<inst, synced>>
allVars  == <<vars, inst, synced>>

InstLabels == {"ready", "configure", "enable", "sync", "syncing", "verify",
               "caddyEnv", "caddyRestart", "done", "failed"}

InstInit == Init /\ inst = "ready" /\ synced = FALSE

\* Once the deployment files are downloaded, both units are stopped.
InstStop ==
  /\ inst = "ready"
  /\ Overlap \/ pc = "idle"
  /\ inst' = "configure"
  /\ proc' = [s \in Slots |-> [st |-> "down", db |-> 0]]
  /\ UNCHANGED <<latest, fileVars, caddyVars, marker, tagVars, pc, run, faultVars, synced>>

\* The env files are rewritten; a domain restored from the earlier
\* installation points caddy.env at the primary slot.
InstConfigure ==
  /\ inst = "configure"
  /\ inst' = "enable"
  /\ caddyEnv' = IF HasCaddy THEN "primary" ELSE caddyEnv
  /\ UNCHANGED <<latest, fileVars, proc, caddyConf, marker, tagVars, pc, run, faultVars, synced>>

InstEnable ==
  /\ inst = "enable"
  /\ inst' = "sync"
  /\ enabled' = [enabled EXCEPT !["primary"] = TRUE]
  /\ UNCHANGED <<latest, db, binary, proc, caddyVars, marker, tagVars, pc, run, faultVars, synced>>

\* sync-bbolt.sh exits 0 at once if it cannot have the lock or has nothing
\* newer to install.
InstSyncSkipped ==
  /\ inst = "sync"
  /\ pc # "idle" \/ ~ SyncDue
  /\ inst' = "verify"
  /\ UNCHANGED <<vars, synced>>

InstSyncStart ==
  /\ inst = "sync"
  /\ pc = "idle"
  /\ SyncDue
  /\ inst' = "syncing"
  /\ GotoWith("plan", [NoRun EXCEPT !.rel = latest, !.mode = "0"])
  /\ UNCHANGED <<latest, fileVars, proc, caddyVars, marker, tagVars, faultVars, synced>>

\* systemctl is-active || restart || die: right after the fork the process
\* counts as active, a little later it may have died.
InstVerify ==
  /\ inst = "verify"
  /\ \/ Active("primary") /\ inst' = "caddyEnv" /\ UNCHANGED proc
     \/ ~ Active("primary") /\ inst' = "caddyEnv" /\ proc' = Started("primary")
     \/ /\ ~ Active("primary") /\ ~ Runs(binary, db["primary"])
        /\ inst' = "failed"
        /\ proc' = [proc EXCEPT !["primary"] = [st |-> "failing", db |-> 0]]
  /\ UNCHANGED <<latest, fileVars, caddyVars, marker, tagVars, pc, run, faultVars, synced>>

\* configure_caddy, for a deployment with a domain.
InstCaddyEnv ==
  /\ inst = "caddyEnv"
  /\ inst' = "caddyRestart"
  /\ caddyEnv' = IF HasCaddy THEN "primary" ELSE caddyEnv
  /\ UNCHANGED <<latest, fileVars, proc, caddyConf, marker, tagVars, pc, run, faultVars, synced>>

InstCaddyRestart ==
  /\ inst = "caddyRestart"
  /\ inst' = "done"
  /\ caddyConf' = caddyEnv
  /\ UNCHANGED <<latest, fileVars, proc, caddyEnv, marker, tagVars, pc, run, faultVars, synced>>

\* The updater, systemd, Caddy and GitHub go on as before; no timer fires while
\* the installer runs, and its own sync-bbolt.sh passes on its exit status.
UpdateStep ==
  /\ Next
  /\ pc = "idle" /\ pc' # "idle" => inst \in {"ready", "done", "failed"}
  /\ IF inst = "syncing" /\ pc # "idle" /\ pc' = "idle"
     THEN /\ inst' = IF RecordPublished THEN "verify" ELSE "failed"
          /\ synced' = RecordPublished
     ELSE UNCHANGED instVars

InstNext ==
  \/ UpdateStep
  \/ InstStop \/ InstConfigure \/ InstEnable
  \/ InstSyncSkipped \/ InstSyncStart
  \/ InstVerify \/ InstCaddyEnv \/ InstCaddyRestart

InstSpec == InstInit /\ [][InstNext]_allVars

-----------------------------------------------------------------------------
(* Properties *)

Completes == inst # "done" /\ inst' = "done"

\* An installation that itself installed a release ends with the primary slot
\* serving it, marked, enabled and behind Caddy, whichever slot was active
\* before and whatever an updater stopped halfway had left; where services do
\* not crash on their own and the host stays up.
InstalledReleaseServes ==
  [][Completes /\ synced /\ Without({"process", "reboot"}) =>
       /\ db'["primary"] = tag /\ enabled'["primary"] /\ marker' = "primary"
       /\ proc'["primary"] = [st |-> "up", db |-> tag]
       /\ HasCaddy => caddyConf' = "primary"]_allVars

\* "MehrNet BGP API installation completed.  Local API: http://127.0.0.1:3102":
\* an installation that ran alone has started a slot that has a dataset.
CompletedMeansServing ==
  [][Completes /\ pc = "idle" =>
       \E s \in Slots : db'[s] # 0 /\ proc'[s].st \in {"boot", "up"}]_allVars
=============================================================================
