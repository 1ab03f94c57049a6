-------------------------------- MODULE Slots --------------------------------
(***************************************************************************)
(* The three deployment slots and the two programs that write them: the    *)
(* update runner (scripts/update-runner.py) and the bootstrap that it      *)
(* starts (bootstrap/mcapp.sh --skip, lib/deploy.sh).  The runner picks a   *)
(* target slot, the bootstrap picks one of its own, both write slot        *)
(* metadata and the "current" link, and the service keeps executing what   *)
(* it was started from until something restarts it.                        *)
(*                                                                         *)
(* A step is a stretch that leaves files behind.  Between two steps the    *)
(* bootstrap may fail or run into its 900 s, systemd may kill the runner   *)
(* (TimeoutStartSec=900), the service may be restarted, or the power may   *)
(* fail.  A release number stands for its files and versions; a tree that  *)
(* tar left half extracted counts as that release's when pyproject.toml    *)
(* and version.html are there, as it does for deploy_release.              *)
(***************************************************************************)
EXTENDS Integers, FiniteSetsExt

CONSTANT Releases  \* release numbers, in the order of their versions

ASSUME ParametersAssumption == Releases \subseteq Nat \ {0}

Slot == 0 .. 2
NoSlot == -1
NoRelease == 0  \* no files, a null version, or the version "unknown"

VARIABLES
    current,   \* the slot that the "current" link names
    tree,      \* what lies in each slot: its release, and is .venv ready?
    version,   \* meta/slot-N.json: version ...
    deployed,  \* ... and deployed_at: pairs of recorded slots, the first no later
    served,    \* the release of the web app under /var/www
    running,   \* the release the mcapp service executes, NoRelease when down
    etc,       \* the release whose units are installed ...
    db,        \* ... and the newest that has migrated the database
    etcSnap,   \* meta/slot-N.etc.tar.gz
    dbSnap,    \* meta/slot-N.db
    pc,        \* where the runner or its bootstrap stands, "idle" between runs
    mode,      \* "update" or "rollback"
    active,    \* run_update: active_slot
    target,    \* run_update: target_slot, _do_rollback: target_slot
    remote,    \* the bootstrap's resolved app version
    deploy,    \* the bootstrap's DEPLOY_SLOT
    result,    \* status of the last run; "bootstrap_error" and "raised" are the
               \* reasons of run_update's status "failed"
    before     \* history: slot, tree, version, etc and db when the run started

metaVars == <<version, deployed>>
fileVars == <<current, tree, metaVars, served, etc, db, etcSnap, dbSnap>>
boxVars == <<fileVars, running>>
choiceVars == <<mode, active, target, remote, deploy, before>>
vars == <<boxVars, choiceVars, pc, result>>

Empty == [release |-> NoRelease, env |-> FALSE]
Nowhere == [slot |-> NoSlot, tree |-> Empty, version |-> NoRelease,
            etc |-> NoRelease, db |-> NoRelease]

\* A box on which the first release was installed.
Init ==
    \E r \in Releases :
    /\ current = 0
    /\ tree = [s \in Slot |-> IF s = 0 THEN [release |-> r, env |-> TRUE] ELSE Empty]
    /\ version = [s \in Slot |-> IF s = 0 THEN r ELSE NoRelease]
    /\ deployed = {<<0, 0>>}
    /\ served = r
    /\ running = r
    /\ etc = r
    /\ db = r
    /\ etcSnap = [s \in Slot |-> NoRelease]
    /\ dbSnap = [s \in Slot |-> NoRelease]
    /\ pc = "idle"
    /\ mode = "update"
    /\ active = NoSlot
    /\ target = NoSlot
    /\ remote = NoRelease
    /\ deploy = NoSlot
    /\ result = "none"
    /\ before = Nowhere

-----------------------------------------------------------------------------
(* Choosing slots *)

Others == Slot \ {current}
Recorded == {s \in Slot : <<s, s>> \in deployed}
NoLater(s, o) == <<s, o>> \in deployed
Oldest(S) == CHOOSE s \in S : \A o \in S : NoLater(s, o)
Newest(S) == CHOOSE s \in S : \A o \in S : NoLater(o, s)

\* Mutant: the dates are compared the wrong way round.
TargetSlot_Newest == IF Slot \subseteq Recorded THEN Newest(Others) ELSE Min(Slot \ Recorded)

\* The runner's choice ...
OldestSlot == IF Others \subseteq Recorded THEN Oldest(Others) ELSE Min(Others \ Recorded)
\* ... and the bootstrap's, which looks for an empty slot among all three.
TargetSlot == IF Slot \subseteq Recorded THEN Oldest(Others) ELSE Min(Slot \ Recorded)

RollbackSlot == IF Others \cap Recorded = {} THEN NoSlot ELSE Newest(Others \cap Recorded)

\* An empty slot is taken to hold whatever web app is served.
ReadVersion(s) == IF tree[s].release # NoRelease THEN tree[s].release ELSE served

Usable(s) == tree[s].release # NoRelease /\ tree[s].env
Starts(s) == IF Usable(s) THEN tree[s].release ELSE NoRelease
Migrated(d, release) == IF release > d THEN release ELSE d

Record(s) ==
    /\ version' = [version EXCEPT ![s] = ReadVersion(s)]
    /\ deployed' = {e \in deployed : s \notin {e[1], e[2]}} \cup {<<o, s>> : o \in Recorded \cup {s}}

\* The service is started from slots/current, and migrates the database.
StartService ==
    /\ running' = Starts(current)
    /\ db' = Migrated(db, Starts(current))

Goto(step) == pc' = step /\ UNCHANGED result

\* The runner ends, and with it all that it had chosen.
End(status) ==
    /\ pc' = "idle"
    /\ result' = status
    /\ mode' = "update"
    /\ active' = NoSlot
    /\ target' = NoSlot
    /\ remote' = NoRelease
    /\ deploy' = NoSlot
    /\ before' = Nowhere

-----------------------------------------------------------------------------
(* A run begins: mcapp-update.service starts the runner of slots/current *)

Begin(m, slot) ==
    /\ pc = "idle"
    /\ Usable(current)
    /\ mode' = m
    /\ active' = current
    /\ target' = slot
    /\ before' = [slot |-> current, tree |-> tree[current], version |-> version[current],
                  etc |-> etc, db |-> db]
    /\ remote' = NoRelease
    /\ deploy' = NoSlot
    /\ result' = "none"
    /\ pc' = "snapshot"
    /\ UNCHANGED boxVars

StartUpdate == Begin("update", OldestSlot)

StartRollback == RollbackSlot # NoSlot /\ Begin("rollback", RollbackSlot)

TakeSnapshot ==
    /\ pc = "snapshot"
    /\ etcSnap' = [etcSnap EXCEPT ![active] = etc]
    /\ dbSnap' = [dbSnap EXCEPT ![active] = db]
    /\ Goto(IF mode = "update" THEN "resolve" ELSE "stop")
    /\ UNCHANGED <<current, tree, metaVars, served, etc, db, running, choiceVars>>

-----------------------------------------------------------------------------
(* The bootstrap, mcapp.sh --skip *)

\* The latest release of the channel asked for, "unknown" without the API.
Resolve ==
    /\ pc = "resolve"
    /\ remote' \in Releases \cup {NoRelease}
    /\ Goto("choose")
    /\ UNCHANGED <<boxVars, mode, active, target, deploy, before>>

Rotate ==
    /\ remote # NoRelease
    /\ version[current] # remote \/ tree[current].release = NoRelease

ChooseSlot ==
    /\ pc = "choose"
    /\ deploy' = IF Rotate THEN TargetSlot ELSE current
    /\ etcSnap' = [etcSnap EXCEPT ![current] = etc]
    /\ Goto("download")
    /\ UNCHANGED <<current, tree, metaVars, served, etc, db, dbSnap, running,
                   mode, active, target, remote, before>>

Here == tree[deploy]

\* deploy_release: the slot already has the release, or none can be named.
KeepTree ==
    /\ pc = "download"
    /\ Here.release # NoRelease
    /\ remote \in {NoRelease, Here.release}
    /\ Goto("webapp")
    /\ UNCHANGED <<boxVars, choiceVars>>

\* The tarball is downloaded and verified, and the slot is cleared.
ClearTree ==
    /\ pc = "download"
    /\ remote \notin {NoRelease, Here.release}
    /\ tree' = [tree EXCEPT ![deploy] = Empty]
    /\ Goto("extract")
    /\ UNCHANGED <<current, metaVars, served, etc, db, etcSnap, dbSnap, running, choiceVars>>

\* tar succeeds, or fails half-way (next = "failed").
Extract(next) ==
    /\ pc = "extract"
    /\ tree' = [tree EXCEPT ![deploy].release = remote]
    /\ Goto(next)
    /\ UNCHANGED <<current, metaVars, served, etc, db, etcSnap, dbSnap, running, choiceVars>>

DeployWebapp ==
    /\ pc = "webapp"
    /\ served' = Max({served, Here.release})
    /\ Goto("env")
    /\ UNCHANGED <<current, tree, metaVars, etc, db, etcSnap, dbSnap, running, choiceVars>>

\* Mutant: a failed uv sync goes unnoticed.
SetupEnv_FailureIgnored ==
    /\ pc = "env"
    /\ \E ready \in BOOLEAN : tree' = [tree EXCEPT ![deploy].env = ready]
    /\ Goto("record")
    /\ UNCHANGED <<current, metaVars, served, etc, db, etcSnap, dbSnap, running, choiceVars>>

SetupEnv ==
    /\ pc = "env"
    /\ tree' = [tree EXCEPT ![deploy].env = TRUE]
    /\ Goto("record")
    /\ UNCHANGED <<current, metaVars, served, etc, db, etcSnap, dbSnap, running, choiceVars>>

RecordDeploy ==
    /\ pc = "record"
    /\ Record(deploy)
    /\ Goto("link")
    /\ UNCHANGED <<current, tree, served, etc, db, etcSnap, dbSnap, running, choiceVars>>

LinkDeploy ==
    /\ pc = "link"
    /\ current' = deploy
    /\ Goto("units")
    /\ UNCHANGED <<tree, metaVars, served, etc, db, etcSnap, dbSnap, running, choiceVars>>

InstallUnits ==
    /\ pc = "units"
    /\ etc' = Here.release
    /\ Goto("restart")
    /\ UNCHANGED <<current, tree, metaVars, served, db, etcSnap, dbSnap, running, choiceVars>>

Restart ==
    /\ pc = "restart"
    /\ StartService
    /\ Goto("check")
    /\ UNCHANGED <<current, tree, metaVars, served, etc, etcSnap, dbSnap, choiceVars>>

BootstrapPasses ==
    /\ pc = "check"
    /\ running # NoRelease
    /\ Goto("accept")
    /\ UNCHANGED <<boxVars, choiceVars>>

BootstrapSteps == {"resolve", "choose", "download", "extract", "webapp", "env",
                   "record", "link", "units", "restart", "check"}

\* Any command may fail under "set -e"; 15 minutes kill the bootstrap.
BootstrapFails ==
    /\ pc \in BootstrapSteps
    /\ Goto("failed")
    /\ UNCHANGED <<boxVars, choiceVars>>

-----------------------------------------------------------------------------
(* The runner, once the bootstrap has ended *)

AcceptDeploy ==
    /\ pc = "accept"
    /\ Record(target)
    /\ Goto("swap")
    /\ UNCHANGED <<current, tree, served, etc, db, etcSnap, dbSnap, running, choiceVars>>

Swap ==
    /\ pc = "swap"
    /\ current' = target
    /\ Goto("health")
    /\ UNCHANGED <<tree, metaVars, served, etc, db, etcSnap, dbSnap, running, choiceVars>>

\* The bootstrap failed, but only after it had linked the target slot.
FailedButActive ==
    /\ pc = "failed"
    /\ current = target
    /\ Record(target)
    /\ Goto("health")
    /\ UNCHANGED <<current, tree, served, etc, db, etcSnap, dbSnap, running, choiceVars>>

BootstrapError ==
    /\ pc = "failed"
    /\ current # target
    /\ End("bootstrap_error")
    /\ UNCHANGED boxVars

HealthPasses ==
    /\ pc = "health"
    /\ running # NoRelease
    /\ IF mode = "update" THEN Goto("converge") /\ UNCHANGED choiceVars ELSE End("success")
    /\ UNCHANGED boxVars

\* A converge never fails the update and touches no slot.
Converge ==
    /\ pc = "converge"
    /\ End("success")
    /\ UNCHANGED boxVars

HealthFails ==
    /\ pc = "health"
    /\ \/ /\ mode = "update"
          /\ target' = active
          /\ Goto("stop")
          /\ UNCHANGED <<mode, active, remote, deploy, before>>
       \/ /\ mode = "rollback"
          /\ End("warning")
    /\ UNCHANGED boxVars

-----------------------------------------------------------------------------
(* _do_rollback *)

StopService ==
    /\ pc = "stop"
    /\ running' = NoRelease
    /\ Goto("swap_back")
    /\ UNCHANGED <<fileVars, choiceVars>>

SwapBack ==
    /\ pc = "swap_back"
    /\ current' = target
    /\ Goto("restore_etc")
    /\ UNCHANGED <<tree, metaVars, served, etc, db, etcSnap, dbSnap, running, choiceVars>>

RestoreEtc ==
    /\ pc = "restore_etc"
    /\ etc' = IF etcSnap[target] # NoRelease THEN etcSnap[target] ELSE etc
    /\ Goto("restore_db")
    /\ UNCHANGED <<current, tree, metaVars, served, db, etcSnap, dbSnap, running, choiceVars>>

RestoreDb ==
    /\ pc = "restore_db"
    /\ db' = IF dbSnap[target] # NoRelease THEN dbSnap[target] ELSE db
    /\ Goto("start")
    /\ UNCHANGED <<current, tree, metaVars, served, etc, etcSnap, dbSnap, running, choiceVars>>

StartAgain ==
    /\ pc = "start"
    /\ StartService
    /\ IF mode = "update" THEN End("rolled_back") ELSE Goto("health") /\ UNCHANGED choiceVars
    /\ UNCHANGED <<current, tree, metaVars, served, etc, etcSnap, dbSnap>>

\* A snapshot, a record, a link or a restore raises: only run_update catches it.
RunnerRaises ==
    /\ \/ pc \in {"snapshot", "accept", "swap", "swap_back"}
       \/ pc = "failed" /\ current = target
       \/ pc = "restore_etc" /\ etcSnap[target] # NoRelease
       \/ pc = "restore_db" /\ dbSnap[target] # NoRelease
    /\ End(IF mode = "update" THEN "raised" ELSE "crashed")
    /\ UNCHANGED boxVars

-----------------------------------------------------------------------------
(* What happens around a run *)

\* TimeoutStartSec=900 kills the runner with its bootstrap.
KillRunner ==
    /\ pc # "idle"
    /\ End("killed")
    /\ UNCHANGED boxVars

\* Restart=always, unless the service was stopped.
ServiceRestarts ==
    /\ running # NoRelease
    /\ StartService
    /\ UNCHANGED <<current, tree, metaVars, served, etc, etcSnap, dbSnap,
                   choiceVars, pc, result>>

Reboot ==
    /\ StartService
    /\ IF pc = "idle" THEN UNCHANGED <<pc, result, choiceVars>> ELSE End("killed")
    /\ UNCHANGED <<current, tree, metaVars, served, etc, etcSnap, dbSnap>>

BootstrapStep ==
    \/ Resolve \/ ChooseSlot \/ KeepTree \/ ClearTree
    \/ Extract("webapp") \/ Extract("failed")
    \/ DeployWebapp \/ SetupEnv \/ RecordDeploy \/ LinkDeploy
    \/ InstallUnits \/ Restart \/ BootstrapPasses \/ BootstrapFails

RollbackStep ==
    StopService \/ SwapBack \/ RestoreEtc \/ RestoreDb \/ StartAgain

RunnerStep ==
    \/ TakeSnapshot \/ RunnerRaises
    \/ BootstrapStep
    \/ AcceptDeploy \/ Swap \/ FailedButActive \/ BootstrapError
    \/ HealthPasses \/ Converge \/ HealthFails
    \/ RollbackStep

Next ==
    \/ StartUpdate \/ StartRollback
    \/ RunnerStep
    \/ KillRunner \/ ServiceRestarts \/ Reboot

Spec == Init /\ [][Next]_vars

-----------------------------------------------------------------------------
(* Properties *)

\* Every variable keeps its type: in particular a run always has a target.
TypeOK ==
    /\ {deploy, target, active} \subseteq Slot \cup {NoSlot}
    /\ current \in Slot
    /\ tree \in [Slot -> [release : Releases \cup {NoRelease}, env : BOOLEAN]]
    /\ version \in [Slot -> Releases \cup {NoRelease}]
    /\ Recorded = {s \in Slot : version[s] # NoRelease}
    /\ deployed \subseteq Recorded \X Recorded
    /\ \A s, o \in Recorded : NoLater(s, o) \/ NoLater(o, s)
    /\ {served, running, etc, db, remote} \subseteq Releases \cup {NoRelease}
    /\ {etcSnap[s] : s \in Slot} \cup {dbSnap[s] : s \in Slot} \subseteq Releases \cup {NoRelease}
    /\ pc \in BootstrapSteps \cup {"idle", "snapshot", "failed", "accept", "swap", "health",
              "converge", "stop", "swap_back", "restore_etc", "restore_db", "start"}
    /\ pc # "idle" => {active, target} \subseteq Slot
    /\ result \in {"none", "success", "bootstrap_error", "raised", "crashed", "warning",
                   "rolled_back", "killed"}

\* The bootstrap deploys in place, into the active slot, when what it is offered
\* is what that slot is recorded to hold, or when nothing can be named; the runner
\* has chosen another slot nevertheless, and links that.
InPlace == deploy = before.slot

\* In place, and what the slot was recorded to hold is not what lay in it.
Mislabelled == InPlace /\ before.version # before.tree.release

\* An update, whenever its bootstrap fails, the runner raises or is killed or the
\* power goes, leaves "current" naming a slot with a release and its environment,
\* so that the box comes up again.  It takes one away in two ways only, both in
\* place: it links the slot that nothing was deployed to, or it clears the active
\* one because of a wrong record (download_and_install_release clears a slot,
\* swap_current_symlink, swap_symlink and _do_rollback set the link).
UpdateKeepsUsable ==
    [][ mode = "update" /\ Usable(current) =>
            \/ Usable(current)'
            \/ InPlace /\ pc = "swap" /\ current' = target
            \/ Mislabelled /\ pc = "download" /\ current' = deploy ]_vars

\* An update that reports "rolled_back" leaves the slot, its files, the units
\* and the database as they were when it began, and runs that release.
RolledBackIsRestored ==
    [][ pc # "idle" /\ result' = "rolled_back" =>
            /\ current' = before.slot
            /\ etc' = before.etc
            /\ \/ Mislabelled
               \/ /\ tree'[current'] = before.tree
                  /\ running' = before.tree.release
                  /\ db' = Migrated(before.db, before.tree.release) ]_vars

\* An update that reports "failed" leaves the active slot linked with its files,
\* and with its units if it was the bootstrap that failed; unless the runner
\* raised after the switch, when the slot that was deployed to is linked and holds
\* the release offered (run_update gives no rollback for it).
FailedLeavesActive ==
    [][ pc # "idle" /\ result' \in {"bootstrap_error", "raised"} =>
            \/ /\ current = before.slot
               /\ tree[current] = before.tree \/ Mislabelled
               /\ result' = "bootstrap_error" => etc = before.etc \/ InPlace
            \/ result' = "raised" /\ InPlace
            \/ /\ result' = "raised" /\ current = deploy
               /\ tree[current] = [release |-> remote, env |-> TRUE] ]_vars

\* An update that reports success has made current the slot the runner chose.
\* The bootstrap chose the same, and the release offered lies in it and is recorded
\* for it; or nothing else than the active slot's recorded version was offered.
SuccessIsOffered ==
    [][ pc # "idle" /\ mode = "update" /\ result' = "success" =>
            /\ current = target
            /\ \/ deploy = target /\ tree[current].release = remote /\ version[current] = remote
               \/ InPlace /\ remote \in {NoRelease, before.version} ]_vars

\* What the runner reports of an update is what it did to the slots.
ResultIsTrue == []TypeOK /\ FailedLeavesActive /\ SuccessIsOffered

\* What an update takes from a box that can start, whatever comes of it.
BoxSurvives == UpdateKeepsUsable /\ RolledBackIsRestored
=============================================================================
