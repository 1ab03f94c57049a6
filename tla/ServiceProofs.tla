---------------------------- MODULE ServiceProofs ----------------------------
(***************************************************************************)
(* What is proved of the two things that keep the service going: the slots *)
(* it is deployed to, and the BLE service with its one adapter.            *)
(*                                                                         *)
(* The slots, for any set of releases and any number of updates and        *)
(* rollbacks with failures, kills and reboots anywhere in them: what the   *)
(* runner reports of an update is what it did, and an update leaves a box  *)
(* that can start.  Up to the switch of the link an update only writes the *)
(* slot it has chosen, which is not the active one, and the bootstrap has  *)
(* chosen the same slot as the runner, because nothing records a slot      *)
(* between the two choices; from the switch on the link names a slot that  *)
(* holds the release, with its environment and its record; and a rollback  *)
(* of an update restores what was saved before anything was written.       *)
(*                                                                         *)
(* The BLE service, for any number of nodes, requests and reconnect tasks: *)
(* the operation lock has one holder, the session is of one node and the   *)
(* one that was asked for, and nobody takes the bus from a request that is *)
(* initialising.  Whoever is between taking the adapter down and bringing  *)
(* it up holds the lock, and from an answered disconnect to the next       *)
(* request nothing runs that could do so.                                  *)
(***************************************************************************)
EXTENDS Slots, BLEService, TLAPS

(* How far an update has come. *)
Before == {"snapshot", "resolve", "choose"}
Filled == {"webapp", "env", "record", "link"}
Linked == {"units", "restart", "check", "accept", "swap", "health", "converge"}
Back == {"stop", "swap_back", "restore_etc", "restore_db", "start"}
Bygone == {"stop", "swap_back"}

Known == Releases \cup {NoRelease}
Tree == [release : Known, env : BOOLEAN]
Complete(t) == t.release # NoRelease /\ t.env

(* The records, apart from the other variables. *)
Dates ==
    /\ deployed \subseteq Recorded \X Recorded
    /\ \A s, o \in Recorded : NoLater(s, o) \/ NoLater(o, s)
Versions ==
    /\ version \in [Slot -> Known]
    /\ Recorded = {s \in Slot : version[s] # NoRelease}

Types ==
    /\ deploy \in Slot \cup {NoSlot} /\ target \in Slot \cup {NoSlot} /\ active \in Slot \cup {NoSlot}
    /\ current \in Slot
    /\ tree \in [Slot -> Tree]
    /\ served \in Known /\ running \in Known /\ etc \in Known /\ db \in Known /\ remote \in Known
    /\ etcSnap \in [Slot -> Known] /\ dbSnap \in [Slot -> Known]
    /\ pc \in BootstrapSteps \cup {"idle", "snapshot", "failed", "accept", "swap", "health",
              "converge", "stop", "swap_back", "restore_etc", "restore_db", "start"}
    /\ pc # "idle" => active \in Slot /\ target \in Slot
    /\ result \in {"none", "success", "bootstrap_error", "raised", "crashed", "warning",
                   "rolled_back", "killed"}

(* The database as it was, migrated by the old release at most. *)
Migrations == {before.db, Migrated(before.db, before.tree.release)}

(* What the box is at any time. *)
BoxInv ==
    /\ Types /\ Dates /\ Versions
    /\ served # NoRelease /\ etc # NoRelease /\ db # NoRelease
    /\ mode \in {"update", "rollback"} /\ current \in Recorded
    /\ pc \in BootstrapSteps \ {"resolve", "choose"} => deploy \in Slot
    /\ pc # "idle" => active \in Recorded /\ target # NoSlot /\ result = "none"

RollbackInv ==
    mode = "rollback" /\ pc # "idle" =>
        pc \in {"snapshot", "health"} \cup Back /\ target \in Recorded

(* What the runner remembers of the start of an update still stands. *)
SavedInv ==
    /\ active = before.slot /\ Complete(before.tree) /\ before.tree \in Tree
    /\ tree[active] = before.tree \/ Mislabelled
    /\ before.etc # NoRelease /\ before.db # NoRelease
    /\ before.db \in Known /\ before.etc \in Known
    /\ IF pc = "snapshot" THEN db \in Migrations
       ELSE etcSnap[active] = before.etc /\ dbSnap[active] \in Migrations

(* The bootstrap deploys to the slot that the runner chose, or in place. *)
Rotated == deploy = target /\ remote # NoRelease
Stays == deploy = active /\ remote \in {NoRelease, before.version}

(* The slot that the bootstrap deploys to, as far as it has come. *)
TargetInv ==
    /\ pc \in Before =>
           /\ target = OldestSlot /\ current = active /\ etc = before.etc
           /\ deploy = NoSlot /\ version[active] = before.version
    /\ pc \in {"download", "extract"} \cup Filled =>
           current = active /\ etc = before.etc
    /\ pc \in {"download", "extract"} \cup Filled \cup Linked =>
           target # active /\ (Rotated \/ Stays)
    /\ pc = "extract" => remote # NoRelease /\ (InPlace => Mislabelled)
    /\ pc \in Filled \cup Linked =>
           tree[deploy].release # NoRelease /\ remote \in {NoRelease, tree[deploy].release}
    /\ pc \in {"record", "link"} \cup Linked => tree[deploy].env
    /\ pc \in {"link"} \cup Linked => version[deploy] = tree[deploy].release
    /\ pc \in {"units", "restart", "check", "accept", "swap"} => current = deploy
    /\ pc = "swap" => target \in Recorded
    /\ pc \in {"health", "converge"} => current = target
    /\ pc = "failed" =>
           /\ target # active
           /\ \/ current = active /\ (etc = before.etc \/ deploy = active)
              \/ /\ current = target /\ Rotated
                 /\ tree[deploy].release = remote /\ tree[deploy].env

(* A rollback within an update goes back to where it began. *)
BackInv ==
    /\ pc \in Back => target = active /\ Complete(tree[active])
    /\ pc \in Bygone =>
           \/ deploy = active
           \/ /\ current = deploy /\ deploy \in Slot
              /\ tree[deploy].release = remote /\ tree[deploy].env
    /\ pc \in Back \ Bygone => current = active
    /\ pc \in {"restore_db", "start"} => etc = before.etc
    /\ pc = "start" => db \in Migrations \/ Mislabelled

UpdateInv == mode = "update" /\ pc # "idle" => SavedInv /\ TargetInv /\ BackInv

SlotsInv == BoxInv /\ RollbackInv /\ UpdateInv

-----------------------------------------------------------------------------
(* Choosing slots *)

(* The type invariant in pieces the provers take one at a time.             *)
LEMMA TypeParts == Types /\ Dates /\ Versions => TypeOK
BY DEF TypeOK, Types, Dates, Versions, Tree, Known

(* One or two slots have a first and a last. *)
LEMMA OneOfFew ==
    ASSUME Dates, NEW S \in SUBSET Others, S # {}, S \subseteq Recorded, current \in Slot
    PROVE  Oldest(S) \in S /\ Newest(S) \in S
<1>1. PICK a \in S : TRUE
    OBVIOUS
<1>2. PICK b \in S : S = {a, b}
    <2>1. CASE \A o \in S : o = a
        BY <2>1
    <2>2. ASSUME NEW b \in S, b # a PROVE S = {a, b}
        <3>1. Others \ {a, b} = {}
            BY <2>2 DEF Others, Slot
        <3> QED
            BY <2>2, <3>1
    <2> QED
        BY <2>1, <2>2
<1>3. \A s \in S : NoLater(s, s)
    BY DEF Recorded, NoLater
<1>4. (\E s \in S : \A o \in S : NoLater(s, o)) /\ (\E s \in S : \A o \in S : NoLater(o, s))
    BY <1>2, <1>3 DEF Dates
<1> QED
    BY <1>4 DEF Oldest, Newest

(* A set of slots that is not empty has a lowest one.                       *)
LEMMA LeastSlot ==
    ASSUME NEW S \in SUBSET Slot, S # {} PROVE Min(S) \in S
<1>1. \E s \in S : \A o \in S : s <= o
    <2>1. CASE 0 \in S
        BY <2>1 DEF Slot
    <2>2. CASE 0 \notin S /\ 1 \in S
        BY <2>2 DEF Slot
    <2>3. CASE 0 \notin S /\ 1 \notin S
        <3>1. \A o \in S : o = 2
            BY <2>3 DEF Slot
        <3> QED
            BY <3>1
    <2> QED
        BY <2>1, <2>2, <2>3
<1> QED
    BY <1>1 DEF Min

(* The runner's choice is another slot than the current one, and the       *)
(* bootstrap's is the same as long as the current slot is recorded.        *)
LEMMA SameChoice ==
    ASSUME Dates, current \in Slot
    PROVE  /\ OldestSlot \in Others
           /\ RollbackSlot # NoSlot => RollbackSlot \in Others /\ RollbackSlot \in Recorded
           /\ current \in Recorded => TargetSlot = OldestSlot
<1>1. Others \subseteq Slot /\ Others # {} /\ NoSlot \notin Slot
    BY DEF Others, Slot, NoSlot
<1>2. OldestSlot \in Others
    BY <1>1, OneOfFew, LeastSlot DEF OldestSlot
<1>3. RollbackSlot # NoSlot => RollbackSlot \in Others /\ RollbackSlot \in Recorded
    <2>1. Others \cap Recorded # {} => Newest(Others \cap Recorded) \in Others \cap Recorded
        BY OneOfFew
    <2> QED
        BY <2>1 DEF RollbackSlot
<1>4. ASSUME current \in Recorded PROVE TargetSlot = OldestSlot
    <2>1. (Slot \subseteq Recorded) <=> (Others \subseteq Recorded)
        BY <1>4 DEF Others
    <2>2. Slot \ Recorded = Others \ Recorded
        BY <1>4 DEF Others
    <2> QED
        BY <2>1, <2>2 DEF TargetSlot, OldestSlot
<1> QED
    BY <1>2, <1>3, <1>4

(* A record is added, or renewed, for one slot. *)
LEMMA Recording ==
    ASSUME Dates, Versions, NEW s \in Slot, Record(s), served # NoRelease,
           served \in Known, tree \in [Slot -> Tree]
    PROVE  /\ Dates' /\ Versions'
           /\ Recorded' = Recorded \cup {s}
           /\ version'[s] = (IF tree[s].release # NoRelease THEN tree[s].release ELSE served)
<1> DEFINE release == IF tree[s].release # NoRelease THEN tree[s].release ELSE served
<1>1. /\ version' = [version EXCEPT ![s] = release]
      /\ deployed' = {e \in deployed : s \notin {e[1], e[2]}} \cup {<<o, s>> : o \in Recorded \cup {s}}
    BY DEF Record, ReadVersion
<1>2. release \in Known /\ release # NoRelease
    BY DEF Tree
<1> HIDE DEF release
<1>3. ASSUME NEW o, NEW q
      PROVE  <<o, q>> \in deployed' <=> \/ <<o, q>> \in deployed /\ o # s /\ q # s
                                        \/ q = s /\ o \in Recorded \cup {s}
    BY <1>1
<1>4. Recorded' = Recorded \cup {s}
    <2>1. \A o : o \in Recorded' <=> o \in Slot /\ <<o, o>> \in deployed'
        BY DEF Recorded
    <2>2. \A o : o \in Recorded <=> o \in Slot /\ <<o, o>> \in deployed
        BY DEF Recorded
    <2> QED
        BY <1>3, <2>1, <2>2
<1>5. Dates'
    <2>1. \A e \in deployed' : e \in Recorded' \X Recorded'
        BY <1>1, <1>4 DEF Dates
    <2>2. \A o, q \in Recorded' : <<o, q>> \in deployed' \/ <<q, o>> \in deployed'
        BY <1>3, <1>4 DEF Dates, NoLater
    <2> QED
        BY <2>1, <2>2 DEF Dates, NoLater
<1>6. version'[s] = release /\ \A o \in Slot \ {s} : version'[o] = version[o]
    BY <1>1 DEF Versions
<1>7. Versions'
    <2>1. version' \in [Slot -> Known]
        BY <1>1, <1>2 DEF Versions
    <2> QED
        BY <1>2, <1>4, <1>6, <2>1 DEF Versions
<1> QED
    BY <1>4, <1>5, <1>6, <1>7 DEF release

-----------------------------------------------------------------------------
(* Every step keeps the invariant *)

(* What the steps need to know of the numbers. *)
LEMMA Numbers ==
    /\ NoRelease \notin Releases /\ NoSlot \notin Slot
    /\ NoRelease \in Known /\ Releases \subseteq Known
    /\ \A d, r \in Known :
           /\ Migrated(d, r) \in Known
           /\ d # NoRelease => Migrated(d, r) # NoRelease
           /\ Migrated(Migrated(d, r), r) = Migrated(d, r)
           /\ Max({d, r}) \in {d, r} /\ (d # NoRelease => Max({d, r}) # NoRelease)
<1>1. Releases \subseteq Nat \ {0}
    BY ParametersAssumption
<1>2. \A d, r \in Nat : Max({d, r}) = IF d >= r THEN d ELSE r
    <2>1. ASSUME NEW d \in Nat, NEW r \in Nat
          PROVE  LET m == IF d >= r THEN d ELSE r IN
                 /\ m \in {d, r} /\ \A y \in {d, r} : m >= y
                 /\ \A x \in {d, r} : (\A y \in {d, r} : x >= y) => x = m
        OBVIOUS
    <2> QED
        BY <2>1 DEF Max
<1> QED
    BY <1>1, <1>2 DEF NoRelease, NoSlot, Slot, Migrated, Known

(* Only a record changes what the choices of a slot depend on.               *)
LEMMA RecordsStay ==
    ASSUME UNCHANGED metaVars
    PROVE  /\ Recorded' = Recorded /\ (Dates' <=> Dates) /\ (Versions' <=> Versions)
           /\ current' = current => OldestSlot' = OldestSlot
<1>1. deployed' = deployed /\ version' = version
    BY DEF metaVars
<1>2. Recorded' = Recorded
    BY <1>1 DEF Recorded
<1>3. (Dates' <=> Dates) /\ (Versions' <=> Versions)
    BY <1>1, <1>2 DEF Dates, Versions, NoLater
<1>4. ASSUME current' = current PROVE OldestSlot' = OldestSlot
    <2>1. Others' = Others
        BY <1>4 DEF Others
    <2>2. ASSUME NEW S PROVE Oldest(S)' = Oldest(S)
        BY <1>1 DEF Oldest, NoLater
    <2> QED
        BY <1>2, <2>1, <2>2 DEF OldestSlot
<1> QED
    BY <1>2, <1>3, <1>4

(* What the steps need to know of a state. *)
LEMMA StateFacts ==
    ASSUME BoxInv
    PROVE  /\ Types /\ Dates /\ Versions
           /\ OldestSlot \in Slot /\ OldestSlot # current /\ TargetSlot = OldestSlot
           /\ RollbackSlot # NoSlot => RollbackSlot \in Recorded
           /\ Recorded \subseteq Slot
           /\ \A s \in Slot :
                 /\ Starts(s) \in Known
                 /\ Usable(s) = Complete(tree[s])
                 /\ Complete(tree[s]) => Starts(s) = tree[s].release
<1>1. Types /\ Dates /\ Versions /\ current \in Recorded /\ current \in Slot
    BY DEF BoxInv, Types
<1>2. /\ OldestSlot \in Slot /\ OldestSlot # current /\ TargetSlot = OldestSlot
      /\ RollbackSlot # NoSlot => RollbackSlot \in Recorded
    BY <1>1, SameChoice DEF Others
<1>3. ASSUME NEW s \in Slot
      PROVE  /\ Starts(s) \in Known
             /\ Usable(s) = Complete(tree[s])
             /\ Complete(tree[s]) => Starts(s) = tree[s].release
    BY <1>1, Numbers DEF Types, Tree, Starts, Usable, Complete
<1>4. Recorded \subseteq Slot
    BY DEF Recorded
<1> QED
    BY <1>1, <1>2, <1>3, <1>4

(* However often the old release migrates the database, it is one of two.   *)
LEMMA Remigrated ==
    ASSUME BoxInv, SavedInv, current = active, tree[active] = before.tree, db \in Migrations
    PROVE  Migrated(db, Starts(current)) \in Migrations
<1>1. Starts(current) = before.tree.release /\ before.tree.release \in Known /\ before.db \in Known
    BY StateFacts DEF SavedInv, Types, Tree
<1>2. /\ Migrated(before.db, before.tree.release) \in Migrations
      /\ Migrated(Migrated(before.db, before.tree.release), before.tree.release)
         = Migrated(before.db, before.tree.release)
    BY <1>1, Numbers DEF Migrations
<1> QED
    BY <1>1, <1>2 DEF Migrations

(* Slots are recorded, and no step takes a record away.                      *)
LEMMA RecordsNext ==
    ASSUME SlotsInv, [Next]_vars
    PROVE  Dates' /\ Versions' /\ Recorded \subseteq Recorded'
<1>1. UNCHANGED metaVars \/ \E s \in Slot : Record(s)
    <2>1. CASE RecordDeploy
        BY <2>1 DEF RecordDeploy, SlotsInv, BoxInv, BootstrapSteps
    <2>2. CASE AcceptDeploy \/ FailedButActive
        BY <2>2 DEF AcceptDeploy, FailedButActive, SlotsInv, BoxInv, Types
    <2> QED
        BY <2>1, <2>2 DEF Next, RunnerStep, BootstrapStep, RollbackStep, vars, boxVars, fileVars,
           StartUpdate, StartRollback, Begin, TakeSnapshot, RunnerRaises, Resolve, ChooseSlot,
           KeepTree, ClearTree, Extract, DeployWebapp, SetupEnv, LinkDeploy, InstallUnits, Restart,
           BootstrapPasses, BootstrapFails, Swap, BootstrapError, HealthPasses, Converge,
           HealthFails, StopService, SwapBack, RestoreEtc, RestoreDb, StartAgain,
           KillRunner, ServiceRestarts, Reboot
<1>2. Dates /\ Versions /\ served # NoRelease /\ served \in Known
      /\ tree \in [Slot -> Tree]
    BY DEF SlotsInv, BoxInv, Types
<1> QED
    BY <1>1, <1>2, RecordsStay, Recording

(* Every step keeps the types.                                               *)
LEMMA TypesNext ==
    ASSUME SlotsInv, [Next]_vars
    PROVE  Types'
<1> USE DEF SlotsInv, BoxInv, Types, BootstrapSteps, Tree, boxVars, fileVars, metaVars, choiceVars,
            Goto, End
<1>0. /\ NoRelease \in Known /\ Releases \subseteq Known
      /\ OldestSlot \in Slot /\ TargetSlot = OldestSlot
      /\ RollbackSlot # NoSlot => RollbackSlot \in Slot
      /\ \A s \in Slot : Starts(s) \in Known
      /\ \A d, r \in Known : Migrated(d, r) \in Known /\ Max({d, r}) \in {d, r}
    BY Numbers, StateFacts
<1>1. CASE StartUpdate
    BY <1>0, <1>1 DEF StartUpdate, Begin
<1>2. CASE StartRollback
    BY <1>0, <1>2 DEF StartRollback, Begin
<1>3. CASE TakeSnapshot
    BY <1>0, <1>3 DEF TakeSnapshot
<1>4. CASE RunnerRaises
    BY <1>0, <1>4 DEF RunnerRaises
<1>5. CASE Resolve
    BY <1>0, <1>5 DEF Resolve
<1>6. CASE ChooseSlot
    BY <1>0, <1>6 DEF ChooseSlot
<1>7. CASE KeepTree
    BY <1>0, <1>7 DEF KeepTree
<1>8. CASE ClearTree
    BY <1>0, <1>8 DEF ClearTree, Empty
<1>9. CASE Extract("webapp")
    BY <1>0, <1>9 DEF Extract
<1>10. CASE Extract("failed")
    BY <1>0, <1>10 DEF Extract
<1>11. CASE DeployWebapp
    <2>1. tree[deploy].release \in Known
        BY <1>11 DEF DeployWebapp
    <2>2. served' \in Known
        BY <1>0, <1>11, <2>1 DEF DeployWebapp, Here
    <2> QED
        BY <1>11, <2>2 DEF DeployWebapp
<1>12. CASE SetupEnv
    BY <1>0, <1>12 DEF SetupEnv
<1>13. CASE RecordDeploy
    BY <1>0, <1>13 DEF RecordDeploy
<1>14. CASE LinkDeploy
    BY <1>0, <1>14 DEF LinkDeploy
<1>15. CASE InstallUnits
    BY <1>0, <1>15 DEF InstallUnits, Here
<1>16. CASE Restart
    BY <1>0, <1>16 DEF Restart, StartService
<1>17. CASE BootstrapPasses
    BY <1>0, <1>17 DEF BootstrapPasses
<1>18. CASE BootstrapFails
    BY <1>0, <1>18 DEF BootstrapFails
<1>19. CASE AcceptDeploy
    BY <1>0, <1>19 DEF AcceptDeploy
<1>20. CASE Swap
    BY <1>0, <1>20 DEF Swap
<1>21. CASE FailedButActive
    BY <1>0, <1>21 DEF FailedButActive
<1>22. CASE BootstrapError
    BY <1>0, <1>22 DEF BootstrapError
<1>23. CASE HealthPasses
    BY <1>0, <1>23 DEF HealthPasses
<1>24. CASE Converge
    BY <1>0, <1>24 DEF Converge
<1>25. CASE HealthFails
    BY <1>0, <1>25 DEF HealthFails
<1>26. CASE StopService
    BY <1>0, <1>26 DEF StopService
<1>27. CASE SwapBack
    BY <1>0, <1>27 DEF SwapBack
<1>28. CASE RestoreEtc
    BY <1>0, <1>28 DEF RestoreEtc
<1>30. CASE RestoreDb
    BY <1>0, <1>30 DEF RestoreDb
<1>31. CASE StartAgain
    BY <1>0, <1>31 DEF StartAgain, StartService
<1>32. CASE KillRunner
    BY <1>0, <1>32 DEF KillRunner
<1>33. CASE ServiceRestarts
    BY <1>0, <1>33 DEF ServiceRestarts, StartService
<1>34. CASE Reboot
    BY <1>0, <1>34 DEF Reboot, StartService
<1>35. CASE UNCHANGED vars
    BY <1>0, <1>35 DEF vars
<1> QED
    BY <1>1, <1>2, <1>3, <1>4, <1>5, <1>6, <1>7, <1>8, <1>9, <1>10, <1>11, <1>12, <1>13, <1>14,
       <1>15, <1>16, <1>17, <1>18, <1>19, <1>20, <1>21, <1>22, <1>23, <1>24, <1>25, <1>26, <1>27,
       <1>28, <1>30, <1>31, <1>32, <1>33, <1>34, <1>35
       DEF Next, RunnerStep, BootstrapStep, RollbackStep

(* A rollback asked for by name never enters the bootstrap.                  *)
LEMMA RollbackNext ==
    ASSUME SlotsInv, [Next]_vars
    PROVE  RollbackInv'
<1> SUFFICES ASSUME mode' = "rollback", pc' # "idle"
             PROVE  pc' \in {"snapshot", "health"} \cup Back /\ target' \in Recorded'
    BY DEF RollbackInv
<1> USE DEF boxVars, fileVars, metaVars, choiceVars, Goto, End, Back
<1>1. /\ Recorded \subseteq Recorded' /\ (RollbackSlot # NoSlot => RollbackSlot \in Recorded)
      /\ mode = "rollback" /\ pc # "idle"
            => pc \in {"snapshot", "health"} \cup Back /\ target \in Recorded
    BY StateFacts, RecordsNext DEF SlotsInv, RollbackInv
<1>2. CASE StartUpdate \/ StartRollback
    BY <1>1, <1>2 DEF StartUpdate, StartRollback, Begin
<1>3. CASE TakeSnapshot \/ RollbackStep
    BY <1>1, <1>3 DEF TakeSnapshot, RollbackStep, StopService, SwapBack, RestoreEtc,
       RestoreDb, StartAgain
<1>4. CASE HealthPasses \/ HealthFails
    BY <1>4 DEF HealthPasses, HealthFails
<1>5. CASE UNCHANGED <<mode, target, pc>>
    BY <1>1, <1>5
<1>6. CASE pc \in BootstrapSteps \cup {"failed", "accept", "swap", "converge"} /\ mode' = mode
    BY <1>1, <1>6 DEF BootstrapSteps
<1> QED
    BY <1>2, <1>3, <1>4, <1>5, <1>6
       DEF Next, RunnerStep, BootstrapStep, vars, BootstrapSteps, RunnerRaises, Resolve,
       ChooseSlot, KeepTree, ClearTree, Extract, DeployWebapp, SetupEnv, RecordDeploy, LinkDeploy,
       InstallUnits, Restart, BootstrapPasses, BootstrapFails, AcceptDeploy, Swap, FailedButActive,
       BootstrapError, Converge, KillRunner, ServiceRestarts, Reboot

(* What an update remembers: only its own start sets it, the snapshot is     *)
(* taken of what still stands, and no slot but its target is written.       *)
LEMMA SavedNext ==
    ASSUME SlotsInv, [Next]_vars
    PROVE  (mode = "update" /\ pc # "idle" => SavedInv)'
<1> SUFFICES ASSUME mode' = "update", pc' # "idle" PROVE SavedInv'
    OBVIOUS
<1> USE DEF boxVars, fileVars, metaVars, choiceVars, Goto, End
<1>1. /\ db \in Known /\ etc \in Known /\ db # NoRelease /\ etc # NoRelease
      /\ current \in Slot /\ tree \in [Slot -> Tree]
      /\ etcSnap \in [Slot -> Known] /\ dbSnap \in [Slot -> Known]
      /\ pc # "idle" => active \in Slot
    BY DEF SlotsInv, BoxInv, Types
<1>2. ASSUME mode = "update", pc # "idle"
      PROVE  /\ SavedInv
             /\ pc \in {"snapshot", "choose"} =>
                    current = active /\ etc = before.etc /\ tree[active] = before.tree
             /\ pc \in {"download", "extract", "env"} =>
                    (Rotated /\ target # active) \/ Stays
             /\ pc = "extract" /\ InPlace => Mislabelled
             /\ pc = "env" => remote \in {NoRelease, tree[deploy].release}
    <2>1. SavedInv /\ TargetInv
        BY <1>2 DEF SlotsInv, UpdateInv
    <2>2. ASSUME pc \in {"snapshot", "choose"} PROVE tree[active] = before.tree
        <3>1. deploy = NoSlot /\ active \in Slot /\ active = before.slot
            BY <1>1, <1>2, <2>1, <2>2 DEF TargetInv, SavedInv, Before
        <3> QED
            BY <2>1, <3>1, Numbers DEF SavedInv, Mislabelled, InPlace
    <2> QED
        BY <2>1, <2>2 DEF TargetInv, Before, Filled
<1>3. CASE StartUpdate
    <2>1. Complete(tree[current])
        BY <1>1, <1>3, StateFacts DEF StartUpdate, Begin, SlotsInv
    <2>2. /\ before' = [slot |-> current, tree |-> tree[current], version |-> version[current],
                       etc |-> etc, db |-> db]
          /\ active' = current /\ pc' = "snapshot" /\ tree' = tree /\ db' = db
        BY <1>3 DEF StartUpdate, Begin
    <2>3. /\ before'.slot = current /\ before'.tree = tree[current]
          /\ before'.etc = etc /\ before'.db = db
        BY <2>2
    <2> QED
        BY <1>1, <2>1, <2>2, <2>3 DEF SavedInv, Migrations
<1>4. CASE TakeSnapshot
    <2>1. /\ SavedInv /\ pc = "snapshot" /\ current = active /\ etc = before.etc
          /\ active \in Slot /\ pc' # "snapshot" /\ tree[active] = before.tree
        BY <1>1, <1>2, <1>4 DEF TakeSnapshot
    <2>2. etcSnap'[active] = etc /\ dbSnap'[active] = db /\ UNCHANGED <<active, before, tree>>
        BY <1>1, <1>4, <2>1 DEF TakeSnapshot
    <2>3. Migrations' = Migrations
        BY <2>2 DEF Migrations
    <2> QED
        BY <2>1, <2>2, <2>3 DEF SavedInv
<1>5. CASE ChooseSlot
    <2>1. /\ SavedInv /\ pc = "choose" /\ current = active /\ etc = before.etc
          /\ active \in Slot /\ pc' # "snapshot" /\ tree[active] = before.tree
        BY <1>1, <1>2, <1>5 DEF ChooseSlot
    <2>2. etcSnap'[active] = etc /\ UNCHANGED <<active, before, tree, dbSnap>>
        BY <1>1, <1>5, <2>1 DEF ChooseSlot
    <2>3. Migrations' = Migrations
        BY <2>2 DEF Migrations
    <2> QED
        BY <2>1, <2>2, <2>3 DEF SavedInv
<1>6. CASE ClearTree \/ Extract("webapp") \/ Extract("failed") \/ SetupEnv
    <2>1. /\ SavedInv /\ active \in Slot /\ pc # "snapshot" /\ pc' # "snapshot"
          /\ (Rotated /\ target # active) \/ Stays
          /\ mode = "update" /\ pc # "idle"
        BY <1>1, <1>2, <1>6 DEF ClearTree, Extract, SetupEnv
    <2>2. UNCHANGED <<active, before, deploy, etcSnap, dbSnap>>
        BY <1>6 DEF ClearTree, Extract, SetupEnv
    <2>3. Migrations' = Migrations /\ Mislabelled' = Mislabelled
        BY <2>2 DEF Migrations, Mislabelled, InPlace
    <2>4. tree'[active] = tree[active] \/ Mislabelled
        <3>1. CASE Rotated /\ target # active
            BY <1>1, <1>6, <2>1, <3>1 DEF ClearTree, Extract, SetupEnv, Rotated
        <3>2. CASE ClearTree /\ Stays
            <4>1. InPlace /\ remote = before.version /\ remote # tree[active].release
                BY <2>1, <3>2 DEF ClearTree, Stays, InPlace, SavedInv, Here
            <4> QED
                BY <2>1, <4>1 DEF SavedInv, Mislabelled
        <3>3. CASE (Extract("webapp") \/ Extract("failed")) /\ Stays
            BY <1>2, <2>1, <3>3 DEF Extract, Stays, InPlace, SavedInv
        <3>4. CASE SetupEnv /\ Stays /\ ~Mislabelled
            <4>1. tree[active].env /\ tree[active] \in Tree /\ deploy = active
                BY <1>1, <2>1, <3>4 DEF SavedInv, Complete, Stays
            <4>2. tree'[active] = [tree[active] EXCEPT !.env = TRUE]
                BY <1>1, <2>1, <3>4, <4>1 DEF SetupEnv
            <4> QED
                BY <4>1, <4>2 DEF Tree
        <3> QED
            BY <1>6, <2>1, <3>1, <3>2, <3>3, <3>4
    <2> QED
        BY <2>1, <2>2, <2>3, <2>4 DEF SavedInv
<1>7. CASE ServiceRestarts
    <2>1. SavedInv /\ UNCHANGED <<active, before, deploy, tree, etcSnap, dbSnap, pc>>
        BY <1>2, <1>7 DEF ServiceRestarts
    <2>2. Migrations' = Migrations /\ Mislabelled' = Mislabelled
        BY <2>1 DEF Migrations, Mislabelled, InPlace
    <2>3. ASSUME pc = "snapshot" PROVE db' \in Migrations
        <3>1. BoxInv /\ current = active /\ tree[active] = before.tree /\ db \in Migrations
            BY <1>2, <1>7, <2>3 DEF ServiceRestarts, SlotsInv, SavedInv
        <3> QED
            BY <1>7, <2>1, <3>1, Remigrated DEF ServiceRestarts, StartService
    <2> QED
        BY <2>1, <2>2, <2>3 DEF SavedInv
<1>8. CASE UNCHANGED <<mode, active, before, deploy, tree, etcSnap, dbSnap, db, pc>>
    <2>1. Migrations' = Migrations /\ Mislabelled' = Mislabelled
        BY <1>8 DEF Migrations, Mislabelled, InPlace
    <2> QED
        BY <1>2, <1>8, <2>1 DEF SavedInv
<1>9. CASE /\ pc # "snapshot" /\ pc' # "snapshot" /\ pc # "idle"
           /\ UNCHANGED <<mode, active, before, deploy, tree, etcSnap, dbSnap>>
    <2>1. Migrations' = Migrations /\ Mislabelled' = Mislabelled
        BY <1>9 DEF Migrations, Mislabelled, InPlace
    <2> QED
        BY <1>2, <1>9, <2>1 DEF SavedInv
<1> QED
    BY <1>3, <1>4, <1>5, <1>6, <1>7, <1>8, <1>9
       DEF Next, RunnerStep, BootstrapStep, RollbackStep, vars, BootstrapSteps, StartRollback, Begin,
       RunnerRaises, Resolve, KeepTree, DeployWebapp, RecordDeploy, LinkDeploy, InstallUnits,
       Restart, BootstrapPasses, BootstrapFails, AcceptDeploy, Swap, FailedButActive,
       BootstrapError, HealthPasses, Converge, HealthFails, StopService, SwapBack, RestoreEtc,
       RestoreDb, StartAgain, KillRunner, Reboot

(* The slot that an update writes, one step of the bootstrap at a time.      *)
LEMMA TargetNext ==
    ASSUME SlotsInv, [Next]_vars
    PROVE  (mode = "update" /\ pc # "idle" => TargetInv)'
<1> SUFFICES ASSUME mode' = "update", pc' # "idle" PROVE TargetInv'
    OBVIOUS
<1> USE DEF boxVars, fileVars, metaVars, choiceVars, Goto, End
<1>1. /\ current \in Slot /\ tree \in [Slot -> Tree] /\ version \in [Slot -> Known]
      /\ pc # "idle" => active \in Slot /\ target \in Slot
      /\ served \in Known /\ served # NoRelease /\ remote \in Known
      /\ Dates /\ Versions /\ BoxInv
    BY DEF SlotsInv, BoxInv, Types, Versions
<1>2. ASSUME mode = "update", pc # "idle" PROVE SavedInv /\ TargetInv /\ BackInv
    BY <1>2 DEF SlotsInv, UpdateInv
<1>3. /\ OldestSlot \in Slot /\ OldestSlot # current /\ TargetSlot = OldestSlot
      /\ Usable(current) => tree[current].release # NoRelease
    BY <1>1, StateFacts DEF Complete
<1>4. UNCHANGED <<current, version, deployed>> => OldestSlot' = OldestSlot
    BY RecordsStay DEF metaVars
<1>0. UNCHANGED <<active, target, remote, deploy, before>> =>
          UNCHANGED <<Rotated, Stays, InPlace, Mislabelled>>
    BY DEF Rotated, Stays, InPlace, Mislabelled
<1>5. CASE StartUpdate
    BY <1>1, <1>3, <1>4, <1>5 DEF StartUpdate, Begin, TargetInv, Before, Filled, Linked
<1>6. CASE TakeSnapshot
    BY <1>2, <1>4, <1>6 DEF TakeSnapshot, TargetInv, Before, Filled, Linked
<1>7. CASE Resolve
    BY <1>2, <1>4, <1>7 DEF Resolve, TargetInv, Before, Filled, Linked
<1>8. CASE ChooseSlot
    <2>1. /\ current = active /\ etc = before.etc /\ target = OldestSlot
          /\ version[active] = before.version
        BY <1>2, <1>8 DEF ChooseSlot, TargetInv, Before
    <2>2. tree[current].release # NoRelease
        <3>1. deploy = NoSlot /\ active \in Slot /\ SavedInv
            BY <1>1, <1>2, <1>8 DEF ChooseSlot, TargetInv, Before
        <3> QED
            BY <2>1, <3>1, Numbers DEF SavedInv, Complete, Mislabelled, InPlace
    <2>3. target # active /\ (Rotated' \/ Stays')
        BY <1>3, <1>8, <2>1, <2>2 DEF ChooseSlot, Rotate, Rotated, Stays
    <2> QED
        BY <1>8, <2>1, <2>3 DEF ChooseSlot, TargetInv, Before, Filled, Linked
<1>9. CASE KeepTree
    BY <1>0, <1>2, <1>9 DEF KeepTree, Here, TargetInv, Before, Filled, Linked
<1>10. CASE ClearTree
    <2>1. TargetInv /\ SavedInv /\ pc = "download" /\ remote \notin {NoRelease, tree[deploy].release}
        BY <1>2, <1>10 DEF ClearTree, Here
    <2>2. InPlace => Mislabelled
        <3>1. ASSUME InPlace, tree[active] = before.tree PROVE before.version # before.tree.release
            BY <2>1, <3>1 DEF TargetInv, SavedInv, InPlace, Rotated, Stays
        <3> QED
            BY <2>1, <3>1 DEF SavedInv, Mislabelled
    <2> QED
        BY <1>0, <1>10, <2>1, <2>2 DEF ClearTree, TargetInv, Before, Filled, Linked
<1>11. CASE Extract("webapp")
    <2>1. deploy \in Slot /\ TargetInv /\ pc = "extract" /\ pc' = "webapp"
        BY <1>1, <1>2, <1>11 DEF Extract, BoxInv, BootstrapSteps
    <2>2. tree'[deploy].release = remote /\ remote # NoRelease
        BY <1>1, <1>11, <2>1 DEF Extract, Tree, TargetInv
    <2> QED
        BY <1>0, <1>11, <2>1, <2>2 DEF Extract, TargetInv, Before, Filled, Linked
<1>12. CASE Extract("failed")
    BY <1>2, <1>12 DEF Extract, TargetInv, Before, Filled, Linked
<1>13. CASE SetupEnv
    <2>1. deploy \in Slot /\ TargetInv /\ pc = "env" /\ pc' = "record"
        BY <1>1, <1>2, <1>13 DEF SetupEnv, BoxInv, BootstrapSteps
    <2>2. tree'[deploy].release = tree[deploy].release /\ tree'[deploy].env
        BY <1>1, <1>13, <2>1 DEF SetupEnv, Tree
    <2> QED
        BY <1>0, <1>13, <2>1, <2>2 DEF SetupEnv, TargetInv, Before, Filled, Linked
<1>14. CASE RecordDeploy
    <2>1. deploy \in Slot /\ TargetInv /\ pc = "record" /\ pc' = "link"
        BY <1>1, <1>2, <1>14 DEF RecordDeploy, BoxInv, BootstrapSteps
    <2>2. version'[deploy] = tree[deploy].release
        BY <1>1, <1>14, <2>1, Recording DEF RecordDeploy, TargetInv, Filled
    <2> QED
        BY <1>0, <1>14, <2>1, <2>2 DEF RecordDeploy, TargetInv, Before, Filled, Linked
<1>15. CASE LinkDeploy
    BY <1>0, <1>2, <1>15 DEF LinkDeploy, TargetInv, Before, Filled, Linked
<1>16. CASE BootstrapFails
    <2>1. TargetInv /\ pc \in BootstrapSteps /\ pc' = "failed" /\ UNCHANGED <<boxVars, choiceVars>>
        BY <1>2, <1>16 DEF BootstrapFails, BootstrapSteps
    <2>2. target # active
        BY <1>3, <2>1 DEF TargetInv, BootstrapSteps, Before, Filled, Linked
    <2>3. CASE pc \in {"units", "restart", "check"}
        BY <1>0, <2>1, <2>2, <2>3 DEF TargetInv, Before, Filled, Linked, Rotated, Stays
    <2>4. CASE pc \in {"resolve", "choose", "download", "extract"} \cup Filled
        BY <2>1, <2>2, <2>4 DEF TargetInv, Before, Filled, Linked
    <2> QED
        BY <2>1, <2>3, <2>4 DEF BootstrapSteps, Filled
<1>17. CASE AcceptDeploy
    <2>1. target \in Slot /\ TargetInv /\ pc = "accept" /\ pc' = "swap" /\ deploy \in Slot
        BY <1>1, <1>2, <1>17 DEF AcceptDeploy, TargetInv, Linked, Rotated, Stays
    <2>2. target \in Recorded'
        BY <1>1, <1>17, <2>1, Recording DEF AcceptDeploy
    <2>3. version'[deploy] = tree[deploy].release
        <3>1. CASE deploy = target
            BY <1>1, <1>17, <2>1, <3>1, Recording DEF AcceptDeploy, TargetInv, Linked
        <3>2. CASE deploy # target
            BY <1>1, <1>17, <2>1, <3>2 DEF AcceptDeploy, Record, TargetInv, Linked
        <3> QED
            BY <3>1, <3>2
    <2> QED
        BY <1>0, <1>17, <2>1, <2>2, <2>3 DEF AcceptDeploy, TargetInv, Before, Filled, Linked
<1>18. CASE FailedButActive
    <2>1. /\ target \in Slot /\ TargetInv /\ pc = "failed" /\ pc' = "health" /\ current = target
          /\ target # active
        BY <1>1, <1>2, <1>18 DEF FailedButActive, TargetInv
    <2>2. Rotated /\ tree[deploy].release = remote /\ tree[deploy].env /\ deploy = target
        BY <2>1 DEF TargetInv, Rotated
    <2>3. version'[deploy] = tree[deploy].release
        BY <1>1, <1>18, <2>1, <2>2, Recording DEF FailedButActive, Rotated
    <2> QED
        BY <1>0, <1>18, <2>1, <2>2, <2>3 DEF FailedButActive, TargetInv, Before, Filled, Linked, Rotated
<1>19. CASE InstallUnits \/ Restart \/ BootstrapPasses \/ Swap \/ HealthPasses
    BY <1>0, <1>2, <1>19
       DEF InstallUnits, Restart, BootstrapPasses, Swap, HealthPasses, TargetInv, Before, Filled, Linked
<1>20. CASE HealthFails \/ RollbackStep
    BY <1>20 DEF HealthFails, RollbackStep, StopService, SwapBack, RestoreEtc,
       RestoreDb, StartAgain, TargetInv, Before, Filled, Linked
<1>21. CASE UNCHANGED <<mode, current, active, target, tree, version, deployed, etc, remote,
                      deploy, before, pc>>
    <2>1. Recorded' = Recorded
        BY <1>21, RecordsStay DEF metaVars
    <2> QED
        BY <1>0, <1>2, <1>4, <1>21, <2>1 DEF TargetInv, Before, Filled, Linked
<1>22. CASE DeployWebapp
    BY <1>0, <1>2, <1>22 DEF DeployWebapp, TargetInv, Before, Filled, Linked
<1> QED
    BY <1>5, <1>6, <1>7, <1>8, <1>9, <1>10, <1>11, <1>12, <1>13, <1>14, <1>15, <1>16, <1>17, <1>18,
       <1>19, <1>20, <1>21, <1>22
       DEF Next, RunnerStep, BootstrapStep, vars, StartRollback, Begin, RunnerRaises,
       BootstrapError, Converge, KillRunner, ServiceRestarts, Reboot

(* The rollback of an update: the link, the units, the database.             *)
LEMMA BackNext ==
    ASSUME SlotsInv, [Next]_vars
    PROVE  (mode = "update" /\ pc # "idle" => BackInv)'
<1> SUFFICES ASSUME mode' = "update", pc' \in Back PROVE BackInv'
    BY DEF BackInv, Back, Bygone
<1> USE DEF boxVars, fileVars, metaVars, choiceVars, Goto, End, Back
<1>1. ASSUME mode = "update", pc # "idle" PROVE SavedInv /\ TargetInv /\ BackInv
    BY <1>1 DEF SlotsInv, UpdateInv
<1>2. mode = "update" /\ BoxInv
    BY DEF SlotsInv, Next, RunnerStep, BootstrapStep, RollbackStep, vars, StartUpdate,
       StartRollback, Begin, TakeSnapshot, RunnerRaises, Resolve, ChooseSlot, KeepTree, ClearTree,
       Extract, DeployWebapp, SetupEnv, RecordDeploy, LinkDeploy, InstallUnits, Restart,
       BootstrapPasses, BootstrapFails, AcceptDeploy, Swap, FailedButActive, BootstrapError,
       HealthPasses, Converge, HealthFails, StopService, SwapBack, RestoreEtc,
       RestoreDb, StartAgain, KillRunner, ServiceRestarts, Reboot
<1>3. CASE HealthFails
    <2>1. SavedInv /\ TargetInv /\ pc = "health" /\ pc' = "stop" /\ target' = active'
        BY <1>1, <1>2, <1>3 DEF HealthFails
    <2>2. UNCHANGED <<boxVars, active, remote, deploy>>
        BY <1>3, <2>1 DEF HealthFails
    <2>3. /\ Rotated \/ Stays
          /\ target # active /\ tree[deploy].release # NoRelease /\ tree[deploy].env
          /\ remote \in {NoRelease, tree[deploy].release} /\ current = target
        BY <2>1 DEF TargetInv, Linked
    <2>4. CASE Stays
        BY <2>1, <2>2, <2>3, <2>4 DEF Stays, Complete, BackInv, Bygone
    <2>5. CASE Rotated
        <3>1. Complete(tree[active])
            BY <2>1, <2>3, <2>5 DEF SavedInv, Mislabelled, InPlace, Rotated
        <3>2. current = deploy /\ tree[deploy].release = remote /\ deploy \in Slot
            BY <1>2, <2>3, <2>5 DEF Rotated, BoxInv, Types
        <3> QED
            BY <2>1, <2>2, <2>3, <3>1, <3>2 DEF BackInv, Bygone, Complete
    <2> QED
        BY <2>3, <2>4, <2>5
<1>12. CASE StopService
    BY <1>1, <1>2, <1>12 DEF StopService, BackInv, Bygone, Complete
<1>4. CASE SwapBack
    BY <1>1, <1>2, <1>4 DEF SwapBack, BackInv, Bygone, Complete
<1>5. CASE RestoreEtc
    <2>1. etc' = before.etc
        BY <1>1, <1>2, <1>5 DEF RestoreEtc, BackInv, SavedInv
    <2> QED
        BY <1>1, <1>2, <1>5, <2>1 DEF RestoreEtc, BackInv, Bygone, Complete
<1>6. CASE RestoreDb
    <2>1. SavedInv /\ BackInv /\ pc = "restore_db" /\ pc' = "start" /\ target = active
        BY <1>1, <1>2, <1>6 DEF RestoreDb, BackInv
    <2>2. dbSnap[active] \in Migrations /\ dbSnap[active] # NoRelease
        <3>1. before.db \in Known /\ before.tree.release \in Known /\ before.db # NoRelease
            BY <1>2, <2>1 DEF BoxInv, Types, Tree, SavedInv
        <3> QED
            BY <2>1, <3>1, Numbers DEF SavedInv, Migrations
    <2>3. db' = dbSnap[active] /\ before' = before
        BY <1>6, <2>1, <2>2 DEF RestoreDb
    <2>4. Migrations' = Migrations
        BY <2>3 DEF Migrations
    <2> QED
        BY <1>6, <2>1, <2>2, <2>3, <2>4 DEF RestoreDb, BackInv, Bygone, Complete
<1>7. CASE ServiceRestarts
    <2>1. /\ SavedInv /\ BackInv
          /\ UNCHANGED <<current, target, active, remote, deploy, tree, etc, before, pc>>
        BY <1>1, <1>7 DEF ServiceRestarts
    <2>2. Migrations' = Migrations /\ Mislabelled' = Mislabelled
        BY <2>1 DEF Migrations, Mislabelled, InPlace
    <2>3. ASSUME pc = "start", ~Mislabelled PROVE db' \in Migrations
        <3>1. current = active /\ tree[active] = before.tree /\ db \in Migrations /\ BoxInv
            BY <1>2, <1>7, <2>1, <2>3 DEF ServiceRestarts, BackInv, SavedInv, Bygone
        <3> QED
            BY <1>7, <2>1, <2>2, <3>1, Remigrated DEF ServiceRestarts, StartService
    <2> QED
        BY <2>1, <2>2, <2>3 DEF BackInv, Complete
<1>8. CASE UNCHANGED <<current, target, active, remote, deploy, tree, etc, db, before, pc>>
    BY <1>1, <1>2, <1>8 DEF BackInv, Complete, Migrations, Mislabelled, InPlace
<1> QED
    BY <1>2, <1>3, <1>4, <1>5, <1>6, <1>7, <1>8, <1>12
       DEF Next, RunnerStep, BootstrapStep, RollbackStep, vars, BootstrapSteps, StartUpdate,
       StartRollback, Begin, TakeSnapshot, RunnerRaises, Resolve, ChooseSlot, KeepTree, ClearTree,
       Extract, DeployWebapp, SetupEnv, RecordDeploy, LinkDeploy, InstallUnits, Restart,
       BootstrapPasses, BootstrapFails, AcceptDeploy, Swap, FailedButActive, BootstrapError,
       HealthPasses, Converge, StartAgain, KillRunner, Reboot

(* Who is asked to run: the slots named are recorded ones.                   *)
LEMMA BoxNext ==
    ASSUME SlotsInv, [Next]_vars
    PROVE  BoxInv'
<1> USE DEF boxVars, fileVars, metaVars, choiceVars, Goto, End
<1>1. Types' /\ Dates' /\ Versions' /\ Recorded \subseteq Recorded'
    BY TypesNext, RecordsNext
<1>2. /\ BoxInv /\ Types
      /\ served \in Known /\ etc \in Known /\ db \in Known
      /\ served # NoRelease /\ etc # NoRelease /\ db # NoRelease
      /\ current \in Recorded /\ mode \in {"update", "rollback"}
      /\ OldestSlot \in Slot /\ TargetSlot = OldestSlot
      /\ RollbackSlot # NoSlot => RollbackSlot \in Recorded
      /\ NoSlot \notin Slot /\ Recorded \subseteq Slot
      /\ \A d, r \in Known : /\ d # NoRelease => Migrated(d, r) # NoRelease
                             /\ d # NoRelease => Max({d, r}) # NoRelease
      /\ \A s \in Slot : Starts(s) \in Known
    BY StateFacts, Numbers DEF SlotsInv, BoxInv, Types
<1>3. ASSUME pc # "idle"
      PROVE  /\ active \in Recorded /\ target \in Slot /\ result = "none"
             /\ pc \in BootstrapSteps \ {"resolve", "choose"} => deploy \in Slot
             /\ mode = "rollback" => pc \in {"snapshot", "health"} \cup Back /\ target \in Recorded
             /\ mode = "update" => SavedInv /\ TargetInv /\ BackInv
    BY <1>2, <1>3 DEF SlotsInv, BoxInv, Types, RollbackInv, UpdateInv
<1>4. served' # NoRelease
    <2>1. CASE DeployWebapp
        <3>1. deploy \in Slot /\ tree[deploy].release \in Known
            BY <1>2, <1>3, <2>1 DEF DeployWebapp, BootstrapSteps, Types, Tree
        <3> QED
            BY <1>2, <2>1, <3>1 DEF DeployWebapp, Here
    <2>2. CASE UNCHANGED served
        BY <1>2, <2>2
    <2> QED
        BY <2>1, <2>2 DEF Next, RunnerStep, BootstrapStep, RollbackStep, vars, StartUpdate,
           StartRollback, Begin, TakeSnapshot, RunnerRaises, Resolve, ChooseSlot, KeepTree,
           ClearTree, Extract, SetupEnv, RecordDeploy, LinkDeploy, InstallUnits, Restart,
           BootstrapPasses, BootstrapFails, AcceptDeploy, Swap, FailedButActive, BootstrapError,
           HealthPasses, Converge, HealthFails, StopService, SwapBack, RestoreEtc,
           RestoreDb, StartAgain, KillRunner, ServiceRestarts, Reboot
<1>5. etc' # NoRelease
    <2>1. CASE InstallUnits
        <3>1. mode = "update" /\ tree[deploy].release # NoRelease
            BY <1>2, <1>3, <2>1 DEF InstallUnits, Back, TargetInv, Filled, Linked
        <3> QED
            BY <2>1, <3>1 DEF InstallUnits, Here
    <2>2. CASE RestoreEtc
        BY <1>2, <2>2 DEF RestoreEtc
    <2>3. CASE UNCHANGED etc
        BY <1>2, <2>3
    <2> QED
        BY <2>1, <2>2, <2>3 DEF Next, RunnerStep, BootstrapStep, RollbackStep, vars, StartUpdate,
           StartRollback, Begin, TakeSnapshot, RunnerRaises, Resolve, ChooseSlot, KeepTree,
           ClearTree, Extract, DeployWebapp, SetupEnv, RecordDeploy, LinkDeploy, Restart,
           BootstrapPasses, BootstrapFails, AcceptDeploy, Swap, FailedButActive, BootstrapError,
           HealthPasses, Converge, HealthFails, StopService, SwapBack,
           RestoreDb, StartAgain, KillRunner, ServiceRestarts, Reboot
<1>6. db' # NoRelease
    <2>1. CASE Restart \/ StartAgain \/ ServiceRestarts \/ Reboot
        BY <1>2, <2>1 DEF Restart, StartAgain, ServiceRestarts, Reboot, StartService, Types
    <2>2. CASE RestoreDb
        BY <1>2, <2>2 DEF RestoreDb
    <2>3. CASE UNCHANGED db
        BY <1>2, <2>3
    <2> QED
        BY <2>1, <2>2, <2>3 DEF Next, RunnerStep, BootstrapStep, RollbackStep, vars, StartUpdate,
           StartRollback, Begin, TakeSnapshot, RunnerRaises, Resolve, ChooseSlot, KeepTree,
           ClearTree, Extract, DeployWebapp, SetupEnv, RecordDeploy, LinkDeploy, InstallUnits,
           BootstrapPasses, BootstrapFails, AcceptDeploy, Swap, FailedButActive, BootstrapError,
           HealthPasses, Converge, HealthFails, StopService, SwapBack, RestoreEtc,
           KillRunner
<1>7. current' \in Recorded'
    <2>1. CASE LinkDeploy \/ Swap
        <3>1. mode = "update" /\ TargetInv /\ pc \in {"link", "swap"}
            BY <1>2, <1>3, <2>1 DEF LinkDeploy, Swap, Back
        <3>2. CASE LinkDeploy
            <4>1. deploy \in Slot /\ version[deploy] # NoRelease
                BY <1>3, <3>1, <3>2 DEF LinkDeploy, TargetInv, Filled, BootstrapSteps
            <4> QED
                BY <1>1, <1>2, <3>2, <4>1 DEF LinkDeploy, BoxInv, Versions
        <3>3. CASE Swap
            BY <1>1, <3>1, <3>3 DEF Swap, TargetInv
        <3> QED
            BY <2>1, <3>2, <3>3
    <2>2. CASE SwapBack
        <3>1. target \in Recorded
            BY <1>2, <1>3, <2>2 DEF SwapBack, Back, BackInv
        <3> QED
            BY <1>1, <2>2, <3>1 DEF SwapBack
    <2>3. CASE UNCHANGED current
        BY <1>1, <1>2, <2>3
    <2> QED
        BY <2>1, <2>2, <2>3 DEF Next, RunnerStep, BootstrapStep, RollbackStep, vars, StartUpdate,
           StartRollback, Begin, TakeSnapshot, RunnerRaises, Resolve, ChooseSlot, KeepTree,
           ClearTree, Extract, DeployWebapp, SetupEnv, RecordDeploy, InstallUnits, Restart,
           BootstrapPasses, BootstrapFails, AcceptDeploy, FailedButActive, BootstrapError,
           HealthPasses, Converge, HealthFails, StopService, RestoreEtc,
           RestoreDb, StartAgain, KillRunner, ServiceRestarts, Reboot
<1>8. /\ mode' \in {"update", "rollback"}
      /\ pc' \in BootstrapSteps \ {"resolve", "choose"} => deploy' \in Slot
      /\ pc' # "idle" => active' \in Recorded' /\ target' # NoSlot /\ result' = "none"
    <2>1. CASE StartUpdate \/ StartRollback
        BY <1>1, <1>2, <2>1 DEF StartUpdate, StartRollback, Begin, BootstrapSteps
    <2>2. CASE ChooseSlot
        BY <1>1, <1>2, <1>3, <2>2 DEF ChooseSlot, Types
    <2>3. CASE HealthFails
        BY <1>1, <1>2, <1>3, <2>3 DEF HealthFails, BootstrapSteps
    <2>4. CASE /\ UNCHANGED <<mode, active, target, deploy>>
               /\ pc' \in BootstrapSteps \ {"resolve", "choose"}
                     => pc \in BootstrapSteps \ {"resolve", "choose"}
               /\ pc' = "idle" \/ (pc # "idle" /\ UNCHANGED result)
        BY <1>1, <1>2, <1>3, <2>4 DEF BootstrapSteps
    <2>5. CASE pc' = "idle" /\ mode' = "update"
        BY <2>5 DEF BootstrapSteps
    <2> QED
        BY <1>2, <2>1, <2>2, <2>3, <2>4, <2>5
           DEF Next, RunnerStep, BootstrapStep, RollbackStep, vars, BootstrapSteps,
           TakeSnapshot, RunnerRaises, Resolve, KeepTree,
           ClearTree, Extract, DeployWebapp, SetupEnv, RecordDeploy, LinkDeploy, InstallUnits,
           Restart, BootstrapPasses, BootstrapFails, AcceptDeploy, Swap, FailedButActive,
           BootstrapError, HealthPasses, Converge, StopService, SwapBack, RestoreEtc, RestoreDb, StartAgain, KillRunner, ServiceRestarts, Reboot
<1> QED
    BY <1>1, <1>4, <1>5, <1>6, <1>7, <1>8 DEF BoxInv

-----------------------------------------------------------------------------
(* The theorems *)

(* The invariant holds of a box with its first release ...                   *)
LEMMA SlotsInitially == Init => SlotsInv
<1> SUFFICES ASSUME Init PROVE SlotsInv
    OBVIOUS
<1>1. PICK r \in Releases :
          /\ tree = [s \in Slot |-> IF s = 0 THEN [release |-> r, env |-> TRUE] ELSE Empty]
          /\ version = [s \in Slot |-> IF s = 0 THEN r ELSE NoRelease]
          /\ served = r /\ running = r /\ etc = r /\ db = r
    BY DEF Init
<1>2. /\ current = 0 /\ deployed = {<<0, 0>>} /\ pc = "idle" /\ mode = "update"
      /\ active = NoSlot /\ target = NoSlot /\ deploy = NoSlot /\ remote = NoRelease
      /\ result = "none"
      /\ etcSnap = [s \in Slot |-> NoRelease] /\ dbSnap = [s \in Slot |-> NoRelease]
    BY DEF Init
<1>3. r \in Known /\ r # NoRelease /\ NoRelease \in Known /\ 0 \in Slot
    BY Numbers DEF Slot
<1>4. Recorded = {0}
    BY <1>2, <1>3 DEF Recorded
<1>5. Dates
    BY <1>2, <1>4 DEF Dates, NoLater
<1>6. Versions
    BY <1>1, <1>3, <1>4 DEF Versions
<1>7. Types
    BY <1>1, <1>2, <1>3 DEF Types, Tree, Empty
<1> QED
    BY <1>1, <1>2, <1>3, <1>4, <1>5, <1>6, <1>7
       DEF SlotsInv, BoxInv, RollbackInv, UpdateInv, BootstrapSteps, NoSlot

(* ... and every step of the runner, of its bootstrap and around them keeps it. *)
LEMMA SlotsStep == SlotsInv /\ [Next]_vars => SlotsInv'
<1> SUFFICES ASSUME SlotsInv, [Next]_vars PROVE SlotsInv'
    OBVIOUS
<1>1. UpdateInv'
    BY SavedNext, TargetNext, BackNext DEF UpdateInv
<1> QED
    BY <1>1, BoxNext, RollbackNext DEF SlotsInv

(* The invariant of mcapp-update.service: whatever run_update, the bootstrap *)
(* and _do_rollback have done so far, and wherever they were killed, the     *)
(* slots are as SlotsInv says.                                               *)
THEOREM SlotsAreOrderly == Spec => []SlotsInv
<1>1. SlotsInv /\ [Next]_vars => SlotsInv'
    BY SlotsStep
<1> QED
    BY <1>1, SlotsInitially, PTL DEF Spec

(* The steps of an update *)

(* What the steps of an update need to know of it.                           *)
LEMMA UpdateFacts ==
    ASSUME SlotsInv, mode = "update", pc # "idle"
    PROVE  /\ SavedInv /\ TargetInv /\ BackInv /\ result = "none"
           /\ current \in Slot /\ active \in Slot /\ target \in Slot
           /\ tree \in [Slot -> Tree] /\ version \in [Slot -> Known]
           /\ pc \in BootstrapSteps \ {"resolve", "choose"} => deploy \in Slot
    BY DEF SlotsInv, BoxInv, Types, Versions, UpdateInv

(* Only two steps report a failure of an update: the bootstrap's, and the    *)
(* exception that run_update catches.                                        *)
LEMMA FailuresAreTrue ==
    ASSUME SlotsInv, Next, pc # "idle", result' \in {"bootstrap_error", "raised"}
    PROVE  \/ /\ current = before.slot
              /\ tree[current] = before.tree \/ Mislabelled
              /\ result' = "bootstrap_error" => etc = before.etc \/ InPlace
           \/ result' = "raised" /\ InPlace
           \/ /\ result' = "raised" /\ current = deploy
              /\ tree[current] = [release |-> remote, env |-> TRUE]
<1> USE DEF Goto, End
<1>1. BootstrapError \/ (RunnerRaises /\ mode = "update")
    BY DEF SlotsInv, BoxInv, Next, RunnerStep, BootstrapStep, RollbackStep, StartUpdate,
       StartRollback, Begin, TakeSnapshot, RunnerRaises, Resolve, ChooseSlot, KeepTree, ClearTree,
       Extract, DeployWebapp, SetupEnv, RecordDeploy, LinkDeploy, InstallUnits, Restart,
       BootstrapPasses, BootstrapFails, AcceptDeploy, Swap, FailedButActive, BootstrapError,
       HealthPasses, Converge, HealthFails, StopService, SwapBack, RestoreEtc,
       RestoreDb, StartAgain, KillRunner, ServiceRestarts, Reboot
<1>2. CASE BootstrapError
    <2>1. mode = "update" /\ pc = "failed" /\ current # target /\ result' = "bootstrap_error"
        BY <1>2 DEF BootstrapError, SlotsInv, BoxInv, RollbackInv, Back
    <2>2. SavedInv /\ TargetInv
        BY <2>1, UpdateFacts
    <2> QED
        BY <2>1, <2>2 DEF SavedInv, TargetInv, InPlace
<1>3. CASE RunnerRaises /\ mode = "update"
    <2>1. /\ pc \in {"snapshot", "accept", "swap", "swap_back", "failed", "restore_etc", "restore_db"}
          /\ pc = "failed" => current = target
          /\ result' = "raised"
        BY <1>3 DEF RunnerRaises
    <2>2. /\ SavedInv /\ TargetInv /\ BackInv
          /\ current \in Slot /\ target \in Slot /\ tree \in [Slot -> Tree]
        BY <1>3, <2>1, UpdateFacts
    <2>3. CASE current = active
        BY <2>1, <2>2, <2>3 DEF SavedInv
    <2>4. CASE InPlace
        BY <2>1, <2>4
    <2>5. ASSUME current # active, ~InPlace
          PROVE  current = deploy /\ tree[current].release = remote /\ tree[current].env
        <3>1. pc \in {"accept", "swap", "swap_back", "failed"} /\ deploy # active
            BY <2>1, <2>2, <2>5 DEF SavedInv, TargetInv, BackInv, Before, Back, Bygone, InPlace
        <3> QED
            BY <2>1, <2>2, <2>5, <3>1
               DEF TargetInv, BackInv, Bygone, Linked, Rotated, Stays
    <2>6. tree[current] \in Tree
        BY <2>2
    <2> QED
        BY <2>1, <2>3, <2>4, <2>5, <2>6 DEF Tree
<1> QED
    BY <1>1, <1>2, <1>3

(* An update succeeds after its converge, when the service has answered.     *)
LEMMA SuccessesAreTrue ==
    ASSUME SlotsInv, Next, pc # "idle", mode = "update", result' = "success"
    PROVE  /\ current = target
           /\ \/ deploy = target /\ tree[current].release = remote /\ version[current] = remote
              \/ InPlace /\ remote \in {NoRelease, before.version}
<1> USE DEF Goto, End
<1>1. SavedInv /\ TargetInv /\ result = "none"
    BY UpdateFacts
<1>2. Converge
    BY <1>1 DEF Next, RunnerStep, BootstrapStep, RollbackStep, StartUpdate,
       StartRollback, Begin, TakeSnapshot, RunnerRaises, Resolve, ChooseSlot, KeepTree, ClearTree,
       Extract, DeployWebapp, SetupEnv, RecordDeploy, LinkDeploy, InstallUnits, Restart,
       BootstrapPasses, BootstrapFails, AcceptDeploy, Swap, FailedButActive, BootstrapError,
       HealthPasses, Converge, HealthFails, StopService, SwapBack, RestoreEtc,
       RestoreDb, StartAgain, KillRunner, ServiceRestarts, Reboot
<1> QED
    BY <1>1, <1>2 DEF Converge, SavedInv, TargetInv, Filled, Linked, Rotated, Stays, InPlace

(* What the runner writes to its status file is what it did: after a "failed" *)
(* bootstrap the active slot and its files are untouched, after an exception  *)
(* the link is back or names what was deployed, and after the "success" of an *)
(* update the slot it chose is current and holds, on record, the release      *)
(* offered, unless nothing else than the active slot's was offered.           *)
THEOREM ResultsAreTrue == Spec => ResultIsTrue
<1>1. SlotsInv => TypeOK
    BY TypeParts DEF SlotsInv, BoxInv
<1>2. SlotsInv /\ [Next]_vars =>
         [pc # "idle" /\ result' \in {"bootstrap_error", "raised"} =>
            \/ /\ current = before.slot
               /\ tree[current] = before.tree \/ Mislabelled
               /\ result' = "bootstrap_error" => etc = before.etc \/ InPlace
            \/ result' = "raised" /\ InPlace
            \/ /\ result' = "raised" /\ current = deploy
               /\ tree[current] = [release |-> remote, env |-> TRUE]]_vars
    BY FailuresAreTrue
<1>3. SlotsInv /\ [Next]_vars =>
         [pc # "idle" /\ mode = "update" /\ result' = "success" =>
            /\ current = target
            /\ \/ deploy = target /\ tree[current].release = remote /\ version[current] = remote
               \/ InPlace /\ remote \in {NoRelease, before.version}]_vars
    BY SuccessesAreTrue
<1> QED
    BY <1>1, <1>2, <1>3, SlotsAreOrderly, PTL
       DEF Spec, ResultIsTrue, FailedLeavesActive, SuccessIsOffered

(* A step of an update takes the box's slot away in two ways only.           *)
LEMMA UsableStays ==
    ASSUME SlotsInv, SlotsInv', Next, mode = "update", Usable(current)
    PROVE  \/ Usable(current)'
           \/ InPlace /\ pc = "swap" /\ current' = target
           \/ Mislabelled /\ pc = "download" /\ current' = deploy
<1> USE DEF boxVars, fileVars, metaVars, choiceVars, Goto, End
<1>1. current \in Slot /\ tree \in [Slot -> Tree] /\ Complete(tree[current])
    BY StateFacts DEF SlotsInv, BoxInv, Types
<1>2. ASSUME pc # "idle"
      PROVE  /\ SavedInv /\ TargetInv /\ BackInv /\ active \in Slot /\ target \in Slot
             /\ pc \in BootstrapSteps \ {"resolve", "choose"} => deploy \in Slot
    BY <1>2, UpdateFacts
<1>3. ASSUME Complete(tree'[current']) PROVE Usable(current)'
    <2>1. current' \in Slot /\ tree' \in [Slot -> Tree]
        BY DEF SlotsInv, BoxInv, Types
    <2> QED
        BY <1>3, <2>1 DEF Usable, Complete
<1>4. CASE ClearTree
    <2>1. CASE deploy = current
        <3>1. /\ SavedInv /\ current = active /\ pc = "download" /\ current' = deploy /\ InPlace
              /\ remote = before.version /\ remote # tree[active].release
            BY <1>2, <1>4, <2>1
               DEF ClearTree, Here, TargetInv, Rotated, Stays, SavedInv, InPlace
        <3> QED
            BY <3>1 DEF SavedInv, Mislabelled
    <2>2. CASE deploy # current
        BY <1>1, <1>3, <1>4, <2>2 DEF ClearTree
    <2> QED
        BY <2>1, <2>2
<1>5. CASE Extract("webapp") \/ Extract("failed")
    <2>1. remote # NoRelease /\ current' = current
        BY <1>2, <1>5 DEF Extract, TargetInv
    <2>2. Complete(tree'[current])
        BY <1>1, <1>5, <2>1 DEF Extract, Complete, Tree
    <2> QED
        BY <1>3, <2>1, <2>2
<1>6. CASE SetupEnv
    <2>1. current' = current
        BY <1>6 DEF SetupEnv
    <2>2. Complete(tree'[current])
        BY <1>1, <1>6 DEF SetupEnv, Complete, Tree
    <2> QED
        BY <1>3, <2>1, <2>2
<1>7. CASE LinkDeploy
    <2>1. tree[deploy].release # NoRelease /\ tree[deploy].env
        BY <1>2, <1>7 DEF LinkDeploy, TargetInv, Filled
    <2> QED
        BY <1>3, <1>7, <2>1 DEF LinkDeploy, Complete
<1>8. CASE Swap
    <2>1. SavedInv /\ TargetInv /\ pc = "swap" /\ current' = target /\ tree' = tree
        BY <1>2, <1>8 DEF Swap
    <2>2. CASE Stays
        BY <2>1, <2>2 DEF Stays, SavedInv, InPlace
    <2>3. CASE Rotated
        <3>1. Complete(tree[target])
            BY <2>1, <2>3 DEF TargetInv, Filled, Linked, Rotated, Complete
        <3> QED
            BY <1>3, <2>1, <3>1
    <2> QED
        BY <2>1, <2>2, <2>3 DEF TargetInv, Linked
<1>9. CASE SwapBack
    <2>1. target = active /\ Complete(tree[active])
        BY <1>2, <1>9 DEF SwapBack, BackInv, Back
    <2> QED
        BY <1>3, <1>9, <2>1 DEF SwapBack
<1>10. CASE UNCHANGED <<current, tree>>
    BY <1>1, <1>3, <1>10
<1> QED
    BY <1>4, <1>5, <1>6, <1>7, <1>8, <1>9, <1>10
       DEF Next, RunnerStep, BootstrapStep, RollbackStep, StartUpdate, StartRollback, Begin,
       TakeSnapshot, RunnerRaises, Resolve, ChooseSlot, KeepTree, DeployWebapp, RecordDeploy,
       InstallUnits, Restart, BootstrapPasses, BootstrapFails, AcceptDeploy, FailedButActive,
       BootstrapError, HealthPasses, Converge, HealthFails, StopService, RestoreEtc,
       RestoreDb, StartAgain, KillRunner, ServiceRestarts, Reboot

(* The step that reports "rolled_back" ends where the update began.         *)
LEMMA BackToTheStart ==
    ASSUME SlotsInv, Next, pc # "idle", result' = "rolled_back"
    PROVE  /\ current' = before.slot
           /\ etc' = before.etc
           /\ \/ Mislabelled
              \/ /\ tree'[current'] = before.tree
                 /\ running' = before.tree.release
                 /\ db' = Migrated(before.db, before.tree.release)
<1> USE DEF boxVars, fileVars, metaVars, choiceVars, Goto, End
<1>1. StartAgain /\ mode = "update"
    BY DEF SlotsInv, BoxInv, Next, RunnerStep, BootstrapStep, RollbackStep, StartUpdate,
       StartRollback, Begin, TakeSnapshot, RunnerRaises, Resolve, ChooseSlot, KeepTree, ClearTree,
       Extract, DeployWebapp, SetupEnv, RecordDeploy, LinkDeploy, InstallUnits, Restart,
       BootstrapPasses, BootstrapFails, AcceptDeploy, Swap, FailedButActive, BootstrapError,
       HealthPasses, Converge, HealthFails, StopService, SwapBack, RestoreEtc,
       RestoreDb, StartAgain, KillRunner, ServiceRestarts, Reboot
<1>2. SavedInv /\ BackInv /\ pc = "start" /\ BoxInv
    BY <1>1 DEF StartAgain, SlotsInv, UpdateInv
<1>3. current = active /\ active = before.slot /\ etc = before.etc
    BY <1>2 DEF SavedInv, BackInv, Back, Bygone
<1>4. UNCHANGED <<current, tree, etc>>
    BY <1>1 DEF StartAgain
<1>5. ASSUME ~Mislabelled
      PROVE  /\ tree[current] = before.tree
             /\ running' = before.tree.release
             /\ db' = Migrated(before.db, before.tree.release)
    <2>1. tree[current] = before.tree /\ db \in Migrations
        BY <1>2, <1>3, <1>5 DEF SavedInv, BackInv
    <2>2. Starts(current) = before.tree.release /\ before.tree.release \in Known /\ before.db \in Known
        BY <1>2, <1>3, <2>1, StateFacts DEF SavedInv, Types, Tree
    <2>3. Migrated(db, before.tree.release) = Migrated(before.db, before.tree.release)
        <3>1. Migrated(Migrated(before.db, before.tree.release), before.tree.release)
              = Migrated(before.db, before.tree.release)
            BY <2>2, Numbers
        <3>2. db = before.db \/ db = Migrated(before.db, before.tree.release)
            BY <2>1 DEF Migrations
        <3> QED
            BY <3>1, <3>2
    <2> QED
        BY <1>1, <2>1, <2>2, <2>3 DEF StartAgain, StartService
<1> QED
    BY <1>3, <1>4, <1>5

(* An update keeps "current" on a slot with a release and its environment    *)
(* through every failure, kill and power cut, but for the two steps that a   *)
(* deployment in place goes wrong with; one that reports "rolled_back" has   *)
(* restored slot, files, units and database (_do_rollback, restore_etc,      *)
(* restore_database).                                                        *)
THEOREM BoxComesThrough == Spec => BoxSurvives
<1>1. SlotsInv /\ SlotsInv' /\ [Next]_vars =>
         [mode = "update" /\ Usable(current) =>
            \/ Usable(current)'
            \/ InPlace /\ pc = "swap" /\ current' = target
            \/ Mislabelled /\ pc = "download" /\ current' = deploy]_vars
    BY UsableStays
<1>2. SlotsInv /\ [Next]_vars =>
         [pc # "idle" /\ result' = "rolled_back" =>
            /\ current' = before.slot
            /\ etc' = before.etc
            /\ \/ Mislabelled
               \/ /\ tree'[current'] = before.tree
                  /\ running' = before.tree.release
                  /\ db' = Migrated(before.db, before.tree.release)]_vars
    BY BackToTheStart
<1> QED
    BY <1>1, <1>2, SlotsAreOrderly, PTL
       DEF Spec, BoxSurvives, UpdateKeepsUsable, RolledBackIsRestored

-----------------------------------------------------------------------------
(* The BLE service.  Which await a job of each kind may stand at, and what *)
(* it has with it.                                                         *)
Connecting == {"enter", "wait", "dial", "resolve", "search", "pair", "cleanup", "name", "mtu", "leave",
               "notify", "init"}
Awaits(op) ==
    CASE op = "none" -> {"idle"}
      [] op = "connect" -> Connecting
      [] op = "ensure" -> Connecting \cup {"preempt", "teardown"}
      [] op = "disconnect" -> {"enter", "wait", "leave"}
      [] op = "reconnect" -> Connecting \cup {"start", "sleep"}
      [] op = "auto" -> Connecting \cup {"sleep"}

JobType ==
    [op : {"none", "connect", "ensure", "disconnect", "auto", "reconnect"},
     node : Address,
     pc : UnderLock \cup {"idle", "start", "sleep", "preempt", "wait", "notify", "init"},
     attempt : 0 .. Attempts, try : 0 .. Tries]

JobFits(j, rec) ==
    /\ rec \in JobType
    /\ rec.pc \in Awaits(rec.op)
    /\ j \in Requests => rec.op \in {"none", "connect", "ensure", "disconnect"}
    /\ j \in Loops => rec.op \in {"none", "reconnect"}
    /\ j = auto => rec.op \in {"none", "auto"}
    /\ rec.op \in {"connect", "ensure", "auto", "reconnect"} /\ rec.pc # "start" => rec.node # None
    /\ rec.pc \in {"sleep", "preempt", "wait", "enter", "leave"} => rec.try = 0
    /\ j = auto /\ rec.pc = "sleep" => rec.attempt < Attempts

JobsFit ==
    /\ job \in [Jobs -> JobType]
    /\ \A j \in Jobs : JobFits(j, job[j])

(* The other variables.                                                    *)
ServiceTypes ==
    /\ links \subseteq Nodes /\ signals \subseteq Nodes
    /\ status \in {"disconnected", "connecting", "connected", "disconnecting", "error"}
    /\ {mac, iface, chars, lastMac, saved} \subseteq Address
    /\ {live, subscribed, cancelConnect, userDisconnected, reconnecting} \subseteq BOOLEAN
    /\ attached \in {"no", "yes", "dead"}
    /\ stale \in [watch : SUBSET Nodes, notify : SUBSET Nodes]
    /\ reconnectTask \in Loops \cup {None}
    /\ probe \in Requests \cup {None}
    /\ subscribed => iface # None
    /\ attached = "yes" => chars # None

Inside(rec) == rec.pc \in UnderLock \/ (rec.op = "ensure" /\ rec.pc = "notify")
LockInv ==
    /\ \A j \in Jobs : Inside(job[j]) <=> holder = j
    /\ queue \subseteq Waiting \X Waiting
    /\ \A j, k \in Waiting : <<j, k>> \in queue <=> j # k /\ <<k, j>> \notin queue

(* While the adapter has no session, or gives one up, it is not connected; *)
(* and the proxies of an attempt are of its node, or were taken away.      *)
Attempting == {"dial", "resolve", "search", "pair"}
Down == Attempting \cup {"cleanup", "leave", "teardown"}
SessionInv ==
    /\ OneSession
    /\ \A j \in Jobs : job[j].pc \in Down => ~Connected
    /\ \A j \in Jobs : job[j].pc \in Attempting => iface \in {job[j].node, None}
    /\ \A j \in Jobs : job[j].pc = "pair" => chars \in {job[j].node, None}

LadderInv ==
    /\ ReconnectingIsTrue
    /\ reconnecting \/ Running(auto) => lastMac # None

(* Between a disconnect and the next request nothing runs but the          *)
(* disconnect.                                                             *)
QuietInv ==
    /\ quiet = "pending" =>
        /\ userDisconnected /\ saved = None
        /\ \E r \in Requests :
            /\ job[r].op = "disconnect"
            /\ \A j \in Jobs \ {r} : ~Running(j)
    /\ quiet = "yes" =>
        /\ userDisconnected /\ saved = None /\ status = "disconnected"
        /\ \A j \in Jobs : ~Running(j)

ServiceInv ==
    /\ ServiceTypes /\ JobsFit /\ LockInv /\ SessionInv /\ ProbeOnlyDuringInit /\ LadderInv /\ QuietInv

-----------------------------------------------------------------------------
(* The lock, when the jobs of S leave it and the others stay.              *)
LEMMA LeaversLetGo ==
    ASSUME LockInv, NEW S \in SUBSET Jobs,
           holder' = HolderWithout(S), queue' = QueueWithout(S),
           \A j \in S : ~Inside(job'[j]) /\ job'[j].pc # "wait",
           \A j \in Jobs \ S : /\ Inside(job'[j]) <=> Inside(job[j])
                               /\ job'[j].pc = "wait" <=> job[j].pc = "wait"
    PROVE  LockInv'
<1>1. None \notin Jobs
  BY ServiceAssumption DEF Jobs, Background
<1>2. \A j \in Jobs : Inside(job'[j]) <=> holder' = j
  BY <1>1 DEF LockInv, HolderWithout
<1>3. Waiting' = Waiting \ S
  BY DEF Waiting
<1>4. queue' \subseteq Waiting' \X Waiting'
  BY <1>3 DEF LockInv, QueueWithout
<1>5. \A j, k \in Waiting' : <<j, k>> \in queue' <=> <<j, k>> \in queue
  BY <1>3 DEF QueueWithout
<1>6. \A j, k \in Waiting' : <<j, k>> \in queue' <=> j # k /\ <<k, j>> \notin queue'
  BY <1>3, <1>5 DEF LockInv
<1> QED
  BY <1>2, <1>4, <1>6 DEF LockInv

LEMMA LockStays ==
    ASSUME LockInv, UNCHANGED lockVars,
           \A j \in Jobs :
             /\ Inside(job'[j]) <=> Inside(job[j])
             /\ job'[j].pc = "wait" <=> job[j].pc = "wait"
    PROVE  LockInv'
<1>1. Waiting' = Waiting
  BY DEF Waiting
<1> QED
  BY <1>1 DEF LockInv, lockVars

LEMMA LetGoKeeps ==
    ASSUME LockInv, NEW j \in Jobs, LetGo(j), MayEnter(j) \/ holder = j,
           ~Inside(job'[j]), job'[j].pc # "wait",
           \A k \in Jobs \ {j} : job'[k] = job[k]
    PROVE  LockInv'
<1>1. holder' = HolderWithout({j})
  BY DEF LockInv, LetGo, MayEnter, HolderWithout, Inside, UnderLock, Busy
<1> QED
  BY <1>1, LeaversLetGo DEF LetGo

LEMMA HoldKeeps ==
    ASSUME LockInv, NEW j \in Jobs, Hold(j), MayEnter(j),
           Inside(job'[j]), job'[j].pc # "wait",
           \A k \in Jobs \ {j} : job'[k] = job[k]
    PROVE  LockInv'
<1>1. holder \in {None, j}
  BY DEF LockInv, MayEnter, Inside, UnderLock, Busy
<1>2. \A k \in Jobs : Inside(job'[k]) <=> holder' = k
  BY <1>1, ServiceAssumption DEF LockInv, Hold, Jobs, Background
<1>3. Waiting' = Waiting \ {j}
  BY DEF Waiting
<1>4. queue' \subseteq Waiting' \X Waiting'
  BY <1>3 DEF LockInv, Hold, QueueWithout
<1>5. \A i, k \in Waiting' : <<i, k>> \in queue' <=> <<i, k>> \in queue
  BY <1>3 DEF Hold, QueueWithout
<1>6. \A i, k \in Waiting' : <<i, k>> \in queue' <=> i # k /\ <<k, i>> \notin queue'
  BY <1>3, <1>5 DEF LockInv
<1> QED
  BY <1>2, <1>4, <1>6 DEF LockInv

(* A call queues up behind the waiters there are.                          *)
LEMMA CallKeeps ==
    ASSUME LockInv, JobsFit, NEW j \in Jobs, NEW rec, DOMAIN rec = {"op", "node", "pc", "attempt", "try"},
           Call(j, rec), ~Inside(job[j]), job[j].pc # "wait"
    PROVE  LockInv'
<1>1. \A k \in Jobs \ {j} : job'[k] = job[k]
  BY DEF Call, JobsFit
<1>2. CASE ~Busy /\ Waiting = {}
  <2>1. job'[j].pc = "enter" /\ holder' = j /\ queue' = queue
    BY <1>2 DEF Call, JobsFit
  <2>2. Waiting' = {} /\ queue = {}
    BY <1>1, <1>2, <2>1 DEF Waiting, LockInv
  <2>3. \A k \in Jobs : Inside(job'[k]) <=> holder' = k
    BY <1>1, <1>2, <2>1, ServiceAssumption DEF LockInv, Inside, UnderLock, Busy, Jobs, Background
  <2> QED
    BY <2>1, <2>2, <2>3 DEF LockInv
<1>3. CASE ~(~Busy /\ Waiting = {})
  <2>1. job'[j].pc = "wait" /\ holder' = holder /\ queue' = queue \cup (Waiting \X {j})
    BY <1>3 DEF Call, JobsFit
  <2>2. Waiting' = Waiting \cup {j} /\ j \notin Waiting
    BY <1>1, <2>1 DEF Waiting
  <2>3. \A k \in Jobs : Inside(job'[k]) <=> holder' = k
    <3>1. ~Inside(job'[j])
      BY <2>1 DEF Inside, UnderLock
    <3> QED
      BY <1>1, <2>1, <3>1 DEF LockInv
  <2>4. queue' \subseteq Waiting' \X Waiting'
    BY <2>1, <2>2 DEF LockInv
  <2>5. \A i, k \in Waiting' : <<i, k>> \in queue' <=> i # k /\ <<k, i>> \notin queue'
    <3> SUFFICES ASSUME NEW i \in Waiting', NEW k \in Waiting'
                 PROVE  <<i, k>> \in queue' <=> i # k /\ <<k, i>> \notin queue'
      OBVIOUS
    <3>1. <<i, k>> \in queue' <=> (<<i, k>> \in queue \/ (i \in Waiting /\ k = j))
      BY <2>1
    <3>2. <<k, i>> \in queue' <=> (<<k, i>> \in queue \/ (k \in Waiting /\ i = j))
      BY <2>1
    <3>3. (i = j \/ k = j) => <<i, k>> \notin queue /\ <<k, i>> \notin queue
      BY <2>2 DEF LockInv
    <3>4. i \in Waiting \/ i = j
      BY <2>2
    <3>5. k \in Waiting \/ k = j
      BY <2>2
    <3> QED
      BY <2>2, <3>1, <3>2, <3>3, <3>4, <3>5 DEF LockInv
  <2> QED
    BY <2>3, <2>4, <2>5 DEF LockInv
<1> QED
  BY <1>2, <1>3

LEMMA OneMoves ==
    ASSUME JobsFit, NEW j \in Jobs, NEW rec, JobFits(j, rec), job' = [job EXCEPT ![j] = rec]
    PROVE  JobsFit' /\ job'[j] = rec /\ \A k \in Jobs \ {j} : job'[k] = job[k]
BY DEF JobsFit, JobFits

LEMMA IdleFits == ASSUME NEW j \in Jobs PROVE JobFits(j, Idle) /\ ~Inside(Idle)
BY ServiceAssumption DEF JobFits, Idle, JobType, Awaits, Address, Inside, UnderLock

(* While another job runs nothing is quiet.                                *)
LEMMA NotQuiet ==
    ASSUME QuietInv, NEW j \in Jobs, Running(j), job[j].op # "disconnect"
    PROVE  quiet \notin {"pending", "yes"}
BY DEF QuietInv

(* What a step of one job leaves to be shown.                              *)
LEMMA StepKeeps ==
    ASSUME ServiceInv, NEW j \in Jobs, Running(j), job[j].op # "disconnect",
           job[j].pc \notin {"init", "preempt"} \/ j \in Background,
           NEW rec, JobFits(j, rec), job' = [job EXCEPT ![j] = rec],
           UNCHANGED <<lastMac, quiet>>,
           \/ UNCHANGED probe
           \/ probe' = j /\ rec.op = "ensure" /\ rec.pc = "init",
           \/ reconnecting' = FALSE
           \/ UNCHANGED reconnecting /\ (j \in Background => rec.pc # "idle")
           \/ j \in Background /\ rec.pc # "idle" /\ lastMac # None,
           ServiceTypes', LockInv', SessionInv'
    PROVE  ServiceInv'
<1>1. JobsFit' /\ job'[j] = rec /\ \A k \in Jobs \ {j} : job'[k] = job[k]
  BY OneMoves DEF ServiceInv
<1>2. QuietInv'
  BY NotQuiet DEF ServiceInv, QuietInv
<1>3. ProbeOnlyDuringInit'
  BY <1>1, ServiceAssumption
     DEF ServiceInv, ProbeOnlyDuringInit, Initialising, JobFits, Jobs, Background
<1>4. ReconnectingIsTrue'
  <2>1. CASE reconnecting' = FALSE
    BY <2>1 DEF ReconnectingIsTrue
  <2>2. CASE UNCHANGED reconnecting /\ (j \in Background => rec.pc # "idle")
    BY <1>1, <2>2, ServiceAssumption
       DEF ServiceInv, LadderInv, ReconnectingIsTrue, Running, Jobs, Background
  <2>3. CASE j \in Background /\ rec.pc # "idle" /\ lastMac # None
    BY <1>1, <2>3 DEF ReconnectingIsTrue, Running
  <2> QED
    BY <2>1, <2>2, <2>3
<1>5. reconnecting' \/ Running(auto)' => lastMac' # None
  <2>1. auto \in Jobs /\ (Running(auto)' => Running(auto))
    BY <1>1 DEF Running, Jobs, Background
  <2> QED
    BY <2>1 DEF ServiceInv, LadderInv
<1> QED
  BY <1>1, <1>2, <1>3, <1>4, <1>5 DEF ServiceInv, LadderInv

LEMMA SessionStays ==
    ASSUME SessionInv, UNCHANGED <<status, mac, iface, chars, chars>>, NEW j \in Jobs,
           \A k \in Jobs \ {j} : job'[k] = job[k],
           job'[j].pc \in Down => job[j].pc \in Down \/ ~Connected,
           job'[j].pc \in Attempting =>
               /\ job[j].pc \in Attempting /\ job'[j].node = job[j].node
               /\ job'[j].pc = "pair" => job[j].pc = "pair"
    PROVE  SessionInv'
BY DEF SessionInv, OneSession, Connected, Down, Attempting

(* When the session is lost or given up; when j, which holds the lock,     *)
(* dials; and when jobs are cancelled.                                     *)
LEMMA SessionLost ==
    ASSUME SessionInv, ~Connected', NEW j \in Jobs, \A k \in Jobs \ {j} : job'[k] = job[k],
           job'[j].pc \notin Attempting, iface' \in {iface, None}, chars' \in {chars, None}
    PROVE  SessionInv'
BY DEF SessionInv, OneSession, Attempting

LEMMA SessionDials ==
    ASSUME LockInv', NEW j \in Jobs, holder' = j, ~Connected', job'[j].pc = "dial",
           iface' = job'[j].node
    PROVE  SessionInv'
<1>1. \A k \in Jobs \ {j} : job'[k].pc \notin Attempting
  BY DEF LockInv, Inside, UnderLock, Attempting
<1> QED
  BY <1>1 DEF SessionInv, OneSession, Attempting

LEMMA SessionLeft ==
    ASSUME SessionInv, OneSession', UNCHANGED status,
           iface' \in {iface, None}, chars' \in {chars, None},
           \A j \in Jobs : job'[j] = job[j] \/ job'[j].pc \notin Down
    PROVE  SessionInv'
BY DEF SessionInv, Connected, Down, Attempting

-----------------------------------------------------------------------------
(* The loops.                                                              *)

LEMMA LoopStartsKeeps == ASSUME ServiceInv, NEW j \in Jobs, LoopStarts(j) PROVE ServiceInv'
<1>1. /\ JobFits(j, job[j]) /\ job[j].pc = "start" /\ job[j].op = "reconnect" /\ j \in Loops
      /\ j # auto /\ job \in [Jobs -> JobType]
  BY ServiceAssumption
     DEF ServiceInv, JobsFit, JobFits, LoopStarts, Awaits, Connecting, Jobs, Background
<1>2. ServiceTypes'
  BY
     DEF ServiceInv, ServiceTypes, LoopStarts, LoopEnds, bluezVars, adapterVars, busVars, sessionVars
<1>3. PICK rec \in {Idle, [Job("reconnect", lastMac, "sleep") EXCEPT !.attempt = 1]} :
         /\ job' = [job EXCEPT ![j] = rec]
         /\ \/ reconnecting' = FALSE
            \/ rec # Idle /\ lastMac # None
         /\ rec # Idle => lastMac # None
  <2>1. lastMac = None => reconnecting = FALSE
    BY DEF ServiceInv, LadderInv, ServiceTypes
  <2>2. CASE lastMac = None \/ userDisconnected
    <3>1. job' = [job EXCEPT ![j] = Idle] /\ reconnecting' = FALSE
      BY <2>1, <2>2 DEF LoopStarts, LoopEnds, JobEnds
    <3> QED
      BY <3>1
  <2>3. CASE lastMac # None /\ ~userDisconnected
    BY <2>3 DEF LoopStarts, Job, Idle
  <2> QED
    BY <2>2, <2>3
<1>4. CASE rec = Idle
  <2>1. JobFits(j, rec) /\ ~Inside(rec) /\ rec.pc = "idle"
    BY <1>4, IdleFits DEF Idle
  <2>2. job'[j] = rec /\ \A k \in Jobs \ {j} : job'[k] = job[k]
    BY <1>1, <1>3
  <2>3. LockInv'
    BY <1>1, <2>1, <2>2, LockStays DEF ServiceInv, LoopStarts, Inside, UnderLock
  <2>4. SessionInv'
    BY <2>1, <2>2, SessionStays DEF ServiceInv, LoopStarts, adapterVars, sessionVars, Down, Attempting
  <2> QED
    BY <1>1, <1>2, <1>3, <1>4, <2>1, <2>3, <2>4, StepKeeps DEF LoopStarts, Running
<1>5. CASE rec = [Job("reconnect", lastMac, "sleep") EXCEPT !.attempt = 1] /\ lastMac # None
  <2>1. /\ rec = [op |-> "reconnect", node |-> lastMac, pc |-> "sleep", attempt |-> 1, try |-> 0]
        /\ ~Inside(rec)
    BY <1>5 DEF Job, Inside, UnderLock
  <2>2. JobFits(j, rec)
    BY <1>1, <1>5, <2>1, ServiceAssumption DEF JobFits, JobType, Awaits, ServiceInv, ServiceTypes
  <2>3. job'[j] = rec /\ \A k \in Jobs \ {j} : job'[k] = job[k]
    BY <1>1, <1>3
  <2>4. LockInv'
    BY <1>1, <2>1, <2>3, LockStays DEF ServiceInv, LoopStarts, Inside, UnderLock
  <2>5. SessionInv'
    BY <2>1, <2>3, SessionStays DEF ServiceInv, LoopStarts, adapterVars, sessionVars, Down, Attempting
  <2>6. j \in Background /\ rec.pc # "idle"
    BY <1>1, <2>1 DEF Background
  <2> QED
    BY <1>1, <1>2, <1>3, <1>5, <2>2, <2>4, <2>5, <2>6, StepKeeps DEF LoopStarts, Running
<1> QED
  BY <1>3, <1>4, <1>5

LEMMA JobFacts ==
    ASSUME ServiceInv, NEW j \in Jobs
    PROVE  /\ job \in [Jobs -> JobType] /\ JobFits(j, job[j])
           /\ job[j].op \in {"reconnect", "auto"} <=> (j \in Background /\ job[j].op # "none")
           /\ job[j].op \in {"connect", "ensure", "disconnect"} <=> (j \in Requests /\ job[j].op # "none")
           /\ job[j].pc = "idle" <=> job[j].op = "none"
           /\ job[j].pc = "wait" => ~Inside(job[j])
           /\ Inside(job[j]) <=> holder = j
           /\ (j \in Background \/ j \in Requests) /\ ~(j \in Background /\ j \in Requests)
<1>1. job \in [Jobs -> JobType] /\ JobFits(j, job[j])
  BY DEF ServiceInv, JobsFit
<1> QED
  BY <1>1, ServiceAssumption
     DEF JobFits, JobType, Awaits, Connecting, Jobs, Background, Inside, UnderLock,
     ServiceInv, LockInv

LEMMA StepFits ==
    ASSUME NEW j \in Jobs, JobFits(j, job[j]), job[j].pc # "start",
           NEW p \in Awaits(job[j].op) \ {"idle", "start", "sleep", "preempt", "wait", "enter", "leave"}
    PROVE  /\ JobFits(j, Step(j, p))
           /\ Step(j, p).pc = p /\ Step(j, p).op = job[j].op /\ Step(j, p).node = job[j].node
<1>0. job[j] \in JobType /\ job[j].op \in {"none", "connect", "ensure", "disconnect", "auto", "reconnect"}
  BY DEF JobFits, JobType
<1>1. job[j] \in JobType /\ p \in UnderLock \cup {"notify", "init"}
  BY <1>0 DEF Awaits, Connecting, UnderLock
<1>2. Step(j, p) \in JobType
  BY <1>1 DEF Step, JobType
<1>3. /\ Step(j, p).pc = p /\ Step(j, p).op = job[j].op /\ Step(j, p).node = job[j].node
  BY <1>1 DEF Step, JobType
<1> QED
  BY <1>2, <1>3 DEF JobFits

LEMMA DialFits ==
    ASSUME NEW j \in Jobs, JobFits(j, job[j]), Connects(j), job[j].pc # "start", job[j].try < Tries,
           NEW rec, rec = Dialing(j)
    PROVE  JobFits(j, rec) /\ rec.pc = "dial" /\ Inside(rec) /\ job[j].node \in Nodes
<1>1. job[j] \in JobType
  BY DEF JobFits
<1>2. job[j].try + 1 \in 0 .. Tries
  BY <1>1, ServiceAssumption DEF JobType
<1>3. rec \in JobType /\ rec.pc = "dial" /\ rec.op = job[j].op /\ rec.node = job[j].node
  BY <1>1, <1>2 DEF JobType, UnderLock, Dialing
<1>4. job[j].node \in Nodes
  BY <1>1 DEF JobFits, Connects, JobType, Address
<1> QED
  BY <1>3, <1>4, ServiceAssumption DEF JobFits, Connects, Inside, UnderLock, Awaits, Connecting

LEMMA ResetBusTypes ==
    ASSUME ServiceTypes, ResetBus
    PROVE  /\ live' \in BOOLEAN /\ signals' \subseteq Nodes
           /\ stale' \in [watch : SUBSET Nodes, notify : SUBSET Nodes]
<1>1. NoHandlers \in [watch : SUBSET Nodes, notify : SUBSET Nodes]
  BY DEF NoHandlers
<1>2. CASE MayReset
  BY <1>1, <1>2 DEF ResetBus, DropBus
<1>3. CASE ~MayReset
  BY <1>3 DEF ServiceTypes, ResetBus, busVars
<1> QED
  BY <1>2, <1>3

LEMMA LoopWakesKeeps == ASSUME ServiceInv, NEW j \in Jobs, LoopWakes(j) PROVE ServiceInv'
<1>1. /\ job[j].pc = "sleep" /\ j \in Background /\ job[j].op \in {"reconnect", "auto"}
      /\ JobFits(j, job[j]) /\ job \in [Jobs -> JobType] /\ ~Inside(job[j]) /\ Running(j)
  BY JobFacts DEF LoopWakes, JobFits, Awaits, Connecting, Inside, UnderLock, Running
<1>2. ServiceTypes'
  BY ResetBusTypes
     DEF ServiceInv, ServiceTypes, LoopWakes, LoopEnds, bluezVars, busVars, sessionVars
<1>3. CASE GivesUp
  <2>1. /\ job' = [job EXCEPT ![j] = Idle] /\ reconnecting' = FALSE /\ UNCHANGED lockVars
        /\ UNCHANGED <<status, mac, iface, chars, lastMac, quiet, probe>>
    BY <1>3 DEF LoopWakes, LoopEnds, JobEnds, sessionVars
  <2>2. JobFits(j, Idle) /\ ~Inside(Idle) /\ Idle.pc = "idle"
    BY IdleFits DEF Idle
  <2>3. job'[j] = Idle /\ \A k \in Jobs \ {j} : job'[k] = job[k]
    BY <1>1, <2>1
  <2>4. LockInv'
    BY <1>1, <2>1, <2>2, <2>3, LockStays DEF ServiceInv
  <2>5. SessionInv'
    BY <2>1, <2>2, <2>3, SessionStays DEF ServiceInv, Down, Attempting
  <2> QED
    BY <1>1, <1>2, <2>1, <2>2, <2>4, <2>5, StepKeeps
<1>4. CASE ~GivesUp
  <2>1. PICK attempt \in 0 .. Attempts, p \in {"enter", "wait"} :
           /\ job' = [job EXCEPT ![j] = [job[j] EXCEPT !.attempt = attempt, !.pc = p]]
           /\ Call(j, [job[j] EXCEPT !.attempt = attempt])
    <3>1. CASE j = auto
      <4>1. job[j].attempt + 1 \in 0 .. Attempts
        BY <1>1, <3>1, ServiceAssumption DEF JobFits, JobType
      <4> QED
        BY <1>1, <1>4, <3>1, <4>1 DEF LoopWakes, Call, JobType
    <3>2. CASE j # auto
      <4>1. job[j].attempt \in 0 .. Attempts /\ job[j] = [job[j] EXCEPT !.attempt = job[j].attempt]
        BY <1>1 DEF JobType
      <4> QED
        BY <1>1, <1>4, <3>2, <4>1 DEF LoopWakes, Call, JobType
    <3> QED
      BY <3>1, <3>2
  <2> DEFINE rec == [job[j] EXCEPT !.attempt = attempt, !.pc = p]
  <2>2. rec \in JobType /\ rec.pc = p /\ rec.op = job[j].op /\ rec.node = job[j].node /\ rec.try = job[j].try
    BY <1>1 DEF JobType, UnderLock
  <2>3. JobFits(j, rec)
    BY <1>1, <2>2 DEF JobFits, Awaits, Connecting
  <2>4. job'[j] = rec /\ \A k \in Jobs \ {j} : job'[k] = job[k]
    BY <1>1, <2>1
  <2>5. LockInv'
    <3>1. DOMAIN [job[j] EXCEPT !.attempt = attempt] = {"op", "node", "pc", "attempt", "try"}
      BY <1>1 DEF JobType
    <3> QED
      BY <1>1, <2>1, <3>1, CallKeeps DEF ServiceInv
  <2>6. UNCHANGED <<status, mac, iface, chars, lastMac, quiet, probe>>
    BY DEF LoopWakes, sessionVars
  <2>7. SessionInv'
    BY <2>2, <2>4, <2>6, SessionStays DEF ServiceInv, Down, Attempting
  <2>8. \/ UNCHANGED reconnecting /\ (j \in Background => rec.pc # "idle")
        \/ j \in Background /\ rec.pc # "idle" /\ lastMac # None
    BY <1>1, <1>4, <2>2 DEF LoopWakes, ServiceInv, LadderInv, Running
  <2> HIDE DEF rec
  <2> QED
    BY <1>1, <1>2, <2>1, <2>3, <2>5, <2>6, <2>7, <2>8, StepKeeps DEF rec
<1> QED
  BY <1>3, <1>4

-----------------------------------------------------------------------------
(* Under the lock.                                                         *)

LEMMA LeftoverType == ASSUME ServiceTypes PROVE Leftover \in [watch : SUBSET Nodes, notify : SUBSET Nodes]
<1>1. subscribed /\ live => iface \in Nodes
  BY DEF ServiceTypes, Address
<1>2. attached = "yes" /\ live => chars \in Nodes
  BY DEF ServiceTypes, Address
<1>3. stale.watch \subseteq Nodes /\ stale.notify \subseteq Nodes
  BY DEF ServiceTypes
<1> QED
  BY <1>1, <1>2, <1>3 DEF Leftover

LEMMA ConnectFacts ==
    ASSUME ServiceInv, NEW j \in Jobs, Connects(j)
    PROVE  /\ job \in [Jobs -> JobType] /\ JobFits(j, job[j]) /\ Running(j) /\ job[j].op # "disconnect"
           /\ job[j].pc # "start" => job[j].node \in Nodes
           /\ Inside(job[j]) <=> holder = j
           /\ Connecting \subseteq Awaits(job[j].op)
BY JobFacts DEF Connects, JobFits, JobType, Address, Running, Awaits

LEMMA EnterConnectKeeps == ASSUME ServiceInv, NEW j \in Jobs, EnterConnect(j) PROVE ServiceInv'
<1>1. /\ Connects(j) /\ MayEnter(j) /\ job[j].pc \in {"enter", "wait"}
      /\ job \in [Jobs -> JobType] /\ JobFits(j, job[j]) /\ Running(j) /\ job[j].op # "disconnect"
      /\ job[j].node \in Nodes /\ Connecting \subseteq Awaits(job[j].op)
  BY ConnectFacts DEF EnterConnect, MayEnter
<1>2. /\ UNCHANGED <<links, signals, reconnecting, reconnectTask, userDisconnected, lastMac, saved, quiet>>
      /\ cancelConnect' = FALSE
  BY DEF EnterConnect, bluezVars, taskVars
<1>3. CASE AlreadyThere(j)
  <2>1. PICK p \in {"init", "notify"} :
           /\ job' = [job EXCEPT ![j] = Step(j, p)]
           /\ IF p = "init" THEN Ensures(j) /\ probe' = j ELSE ~Ensures(j) /\ probe' = probe
    BY <1>3 DEF AlreadyThere, Initialise, GoesTo
  <2>2. JobFits(j, Step(j, p)) /\ Step(j, p).pc = p /\ Step(j, p).op = job[j].op
    BY <1>1, StepFits DEF Connecting
  <2>3. job'[j] = Step(j, p) /\ \A k \in Jobs \ {j} : job'[k] = job[k]
    BY <1>1, <2>1
  <2>4. ~Inside(Step(j, p))
    BY <2>1, <2>2 DEF Inside, UnderLock, Ensures
  <2>5. LockInv'
    BY <1>1, <1>3, <2>2, <2>3, <2>4, LetGoKeeps DEF ServiceInv, AlreadyThere
  <2>6. UNCHANGED <<status, mac, iface, chars, subscribed, attached, live, stale>>
    BY <1>3 DEF AlreadyThere, sessionVars, busVars
  <2>7. SessionInv'
    BY <2>2, <2>3, <2>6, SessionStays DEF ServiceInv, Down, Attempting
  <2>8. probe' \in {probe, j} /\ (probe' = j => j \in Requests \/ probe' = probe)
    BY <1>1, <2>1, JobFacts DEF Ensures
  <2>9. ServiceTypes'
    BY <1>2, <2>6, <2>8 DEF ServiceInv, ServiceTypes
  <2> QED
    BY <1>1, <1>2, <2>1, <2>2, <2>5, <2>7, <2>9, StepKeeps DEF Ensures
<1>4. CASE LeaveFirst(j)
  <2>1. job' = [job EXCEPT ![j] = Step(j, "leave")] /\ UNCHANGED probe
    BY <1>4 DEF LeaveFirst, GoesTo
  <2>2. /\ Step(j, "leave").pc = "leave" /\ Step(j, "leave").op = job[j].op
        /\ Inside(Step(j, "leave")) /\ JobFits(j, Step(j, "leave"))
    BY <1>1 DEF Step, JobType, Inside, UnderLock, JobFits, Connecting
  <2>3. job'[j] = Step(j, "leave") /\ \A k \in Jobs \ {j} : job'[k] = job[k]
    BY <1>1, <2>1
  <2>4. LockInv'
    BY <1>1, <1>4, <2>2, <2>3, HoldKeeps DEF ServiceInv, LeaveFirst
  <2>5. /\ status' = "disconnecting" /\ subscribed' = FALSE /\ attached' = "no"
        /\ UNCHANGED <<mac, iface, chars, live, stale>>
    BY <1>4 DEF LeaveFirst, LeaveStarts, busVars
  <2>6. ServiceTypes' /\ SessionInv'
    <3>1. ServiceTypes'
      BY <1>2, <2>1, <2>5 DEF ServiceInv, ServiceTypes
    <3> QED
      BY <2>2, <2>3, <2>5, <3>1, SessionLost DEF ServiceInv, Connected, Attempting
  <2> QED
    BY <1>1, <1>2, <2>1, <2>2, <2>4, <2>6, StepKeeps
<1>5. CASE DialAtOnce(j)
  <2> DEFINE rec == Dialing(j)
  <2>1. job' = [job EXCEPT ![j] = rec] /\ UNCHANGED probe
    BY <1>5 DEF DialAtOnce, Dial
  <2>2. JobFits(j, rec) /\ rec.pc = "dial" /\ Inside(rec)
    <3>1. job[j].try < Tries
      BY <1>1, ServiceAssumption DEF JobFits
    <3> QED
      BY <1>1, <3>1, DialFits
  <2> HIDE DEF rec
  <2>3. job'[j] = rec /\ \A k \in Jobs \ {j} : job'[k] = job[k]
    BY <1>1, <2>1
  <2>4. LockInv'
    BY <1>1, <1>5, <2>2, <2>3, HoldKeeps DEF ServiceInv, DialAtOnce
  <2>5. /\ status' = "connecting" /\ iface' = job[j].node /\ live' = TRUE /\ stale' = Leftover
        /\ subscribed' = FALSE /\ attached' \in {"no", "dead"} /\ UNCHANGED <<mac, chars>>
        /\ holder' = j /\ rec.node = job[j].node
    BY <1>1, <1>5 DEF DialAtOnce, Dial, NewProxies, Hold, rec, Dialing, JobType
  <2>6. ServiceTypes'
    BY <1>1, <1>2, <2>1, <2>5, LeftoverType DEF ServiceInv, ServiceTypes, Address
  <2>7. SessionInv'
    BY <2>2, <2>3, <2>4, <2>5, SessionDials DEF Connected
  <2> QED
    BY <1>1, <1>2, <2>1, <2>2, <2>4, <2>6, <2>7, StepKeeps
<1> QED
  BY <1>3, <1>4, <1>5 DEF EnterConnect

(* A step of a connect that stays under the lock.                          *)
LEMMA UnderLockFacts ==
    ASSUME ServiceInv, NEW j \in Jobs, job[j].pc \in Attempting \cup {"cleanup", "name", "mtu", "teardown"}
    PROVE  /\ Connects(j) /\ holder = j /\ Inside(job[j]) /\ job[j].node \in Nodes
           /\ job \in [Jobs -> JobType] /\ JobFits(j, job[j]) /\ Running(j)
           /\ job[j].op # "disconnect" /\ Connecting \subseteq Awaits(job[j].op)
<1>1. Inside(job[j])
  BY DEF Inside, UnderLock, Attempting
<1>2. Connects(j)
  BY JobFacts DEF JobFits, JobType, Awaits, Connects, Attempting
<1> QED
  BY <1>1, <1>2, ConnectFacts DEF Attempting

LEMMA DialUpKeeps == ASSUME ServiceInv, NEW j \in Jobs, DialUp(j) PROVE ServiceInv'
<1>1. job[j].pc = "dial" /\ job' = [job EXCEPT ![j] = Step(j, "resolve")]
  BY DEF DialUp, GoesTo
<1>2. /\ job[j].node \in Nodes /\ Inside(job[j]) /\ JobFits(j, job[j]) /\ job \in [Jobs -> JobType]
      /\ Running(j) /\ job[j].op # "disconnect" /\ "resolve" \in Awaits(job[j].op)
  BY <1>1, UnderLockFacts DEF Connecting, Attempting
<1>3. /\ JobFits(j, Step(j, "resolve")) /\ Step(j, "resolve").pc = "resolve"
      /\ Step(j, "resolve").node = job[j].node
  BY <1>1, <1>2, StepFits
<1>4. job'[j] = Step(j, "resolve") /\ \A k \in Jobs \ {j} : job'[k] = job[k]
  BY <1>1, <1>2
<1>5. LockInv'
  BY <1>1, <1>2, <1>3, <1>4, LockStays DEF ServiceInv, DialUp, Inside, UnderLock
<1>6. ServiceTypes'
  BY <1>2
     DEF ServiceInv, ServiceTypes, DialUp, adapterVars, sessionVars, busVars, taskVars, memoryVars
<1>7. SessionInv'
  BY <1>1, <1>3, <1>4, SessionStays DEF ServiceInv, DialUp, adapterVars, sessionVars, Down, Attempting
<1> QED
  BY <1>1, <1>2, <1>3, <1>5, <1>6, <1>7, StepKeeps DEF DialUp, taskVars, memoryVars

LEMMA DialFailsKeeps == ASSUME ServiceInv, NEW j \in Jobs, DialFails(j) PROVE ServiceInv'
<1>1. job[j].pc \in Attempting /\ job' = [job EXCEPT ![j] = Step(j, "cleanup")]
  BY DEF DialFails, GoesTo, Attempting
<1>2. /\ job[j].node \in Nodes /\ Inside(job[j]) /\ JobFits(j, job[j]) /\ job \in [Jobs -> JobType]
      /\ Running(j) /\ job[j].op # "disconnect" /\ "cleanup" \in Awaits(job[j].op)
  BY <1>1, UnderLockFacts DEF Connecting
<1>3. JobFits(j, Step(j, "cleanup")) /\ Step(j, "cleanup").pc = "cleanup"
  BY <1>1, <1>2, StepFits DEF Attempting
<1>4. job'[j] = Step(j, "cleanup") /\ \A k \in Jobs \ {j} : job'[k] = job[k]
  BY <1>1, <1>2
<1>5. LockInv'
  BY <1>1, <1>2, <1>3, <1>4, LockStays DEF ServiceInv, DialFails, Inside, UnderLock
<1>6. links' \subseteq Nodes /\ signals' \subseteq Nodes
  BY <1>2 DEF ServiceInv, ServiceTypes, Address, DialFails, LinkDown, bluezVars
<1>7. ServiceTypes'
  BY <1>6
     DEF ServiceInv, ServiceTypes, DialFails, adapterVars, sessionVars, busVars, taskVars, memoryVars
<1>8. SessionInv'
  BY <1>1, <1>3, <1>4, SessionStays DEF ServiceInv, DialFails, adapterVars, sessionVars, Down, Attempting
<1> QED
  BY <1>1, <1>2, <1>3, <1>5, <1>7, <1>8, StepKeeps DEF DialFails, taskVars, memoryVars

(* While a job is under the lock no other is.                              *)
LEMMA OthersOutside ==
    ASSUME LockInv, NEW j \in Jobs, holder = j
    PROVE  \A k \in Jobs \ {j} : job[k].pc \notin Down /\ ~Inside(job[k])
BY DEF LockInv, Inside, UnderLock, Down, Attempting

LEMMA AsksKeeps == ASSUME ServiceInv, NEW j \in Jobs, Asks(j) PROVE ServiceInv'
<1>1. job[j].pc = "resolve" /\ job' = [job EXCEPT ![j] = Step(j, "search")]
  BY DEF Asks, GoesTo
<1>2. /\ job[j].node \in Nodes /\ Inside(job[j]) /\ JobFits(j, job[j]) /\ job \in [Jobs -> JobType]
      /\ Running(j) /\ job[j].op # "disconnect" /\ "search" \in Awaits(job[j].op) /\ holder = j
  BY <1>1, UnderLockFacts DEF Connecting, Attempting
<1>3. /\ JobFits(j, Step(j, "search")) /\ Step(j, "search").pc = "search"
      /\ Step(j, "search").node = job[j].node
  BY <1>1, <1>2, StepFits
<1>4. job'[j] = Step(j, "search") /\ \A k \in Jobs \ {j} : job'[k] = job[k]
  BY <1>1, <1>2
<1>5. LockInv'
  BY <1>1, <1>2, <1>3, <1>4, LockStays DEF ServiceInv, Asks, Inside, UnderLock
<1>6. ServiceTypes'
  BY <1>2
     DEF ServiceInv, ServiceTypes, Asks, bluezVars, adapterVars, sessionVars, busVars, taskVars, memoryVars, Address
<1>7. SessionInv'
  BY <1>1, <1>3, <1>4, SessionStays DEF ServiceInv, Asks, adapterVars, sessionVars, Down, Attempting
<1> QED
  BY <1>1, <1>2, <1>3, <1>5, <1>6, <1>7, StepKeeps DEF Asks, taskVars, memoryVars

LEMMA ReadFoundKeeps == ASSUME ServiceInv, NEW j \in Jobs, ReadFound(j) PROVE ServiceInv'
<1>1. job[j].pc = "search" /\ job' = [job EXCEPT ![j] = Step(j, "pair")]
  BY DEF ReadFound, GoesTo
<1>2. /\ job[j].node \in Nodes /\ Inside(job[j]) /\ JobFits(j, job[j]) /\ job \in [Jobs -> JobType]
      /\ Running(j) /\ job[j].op # "disconnect" /\ "pair" \in Awaits(job[j].op) /\ holder = j
  BY <1>1, UnderLockFacts DEF Connecting, Attempting
<1>3. /\ JobFits(j, Step(j, "pair")) /\ Step(j, "pair").pc = "pair"
      /\ Step(j, "pair").node = job[j].node
  BY <1>1, <1>2, StepFits
<1>4. job'[j] = Step(j, "pair") /\ \A k \in Jobs \ {j} : job'[k] = job[k]
  BY <1>1, <1>2
<1>5. LockInv'
  BY <1>1, <1>2, <1>3, <1>4, LockStays DEF ServiceInv, ReadFound, Inside, UnderLock
<1>6. ServiceTypes'
  BY <1>2, ServiceAssumption
     DEF ServiceInv, ServiceTypes, ReadFound, bluezVars, busVars, taskVars, memoryVars, Address
<1>7. SessionInv'
  <2>1. chars' = job[j].node /\ UNCHANGED <<status, mac, iface>>
    BY DEF ReadFound
  <2>2. \A k \in Jobs \ {j} : job[k].pc \notin Down
    BY <1>2, OthersOutside DEF ServiceInv
  <2>3. ~Connected /\ iface \in {job[j].node, None}
    BY <1>1 DEF ServiceInv, SessionInv, Down, Attempting
  <2> QED
    BY <1>3, <1>4, <2>1, <2>2, <2>3 DEF SessionInv, OneSession, Connected, Down, Attempting
<1> QED
  BY <1>1, <1>2, <1>3, <1>5, <1>6, <1>7, StepKeeps DEF ReadFound, taskVars, memoryVars

LEMMA ResolvedKeeps == ASSUME ServiceInv, NEW j \in Jobs, Resolved(j) PROVE ServiceInv'
<1>1. job[j].pc = "pair" /\ job' = [job EXCEPT ![j] = Step(j, "name")]
  BY DEF Resolved, GoesTo
<1>2. /\ job[j].node \in Nodes /\ Inside(job[j]) /\ JobFits(j, job[j]) /\ job \in [Jobs -> JobType]
      /\ Running(j) /\ job[j].op # "disconnect" /\ "name" \in Awaits(job[j].op) /\ holder = j
  BY <1>1, UnderLockFacts DEF Connecting, Attempting
<1>3. /\ JobFits(j, Step(j, "name")) /\ Step(j, "name").pc = "name"
      /\ Step(j, "name").node = job[j].node
  BY <1>1, <1>2, StepFits
<1>4. job'[j] = Step(j, "name") /\ \A k \in Jobs \ {j} : job'[k] = job[k]
  BY <1>1, <1>2
<1>5. LockInv'
  BY <1>1, <1>2, <1>3, <1>4, LockStays DEF ServiceInv, Resolved, Inside, UnderLock
<1>6. ServiceTypes'
  BY <1>2
     DEF ServiceInv, ServiceTypes, Resolved, bluezVars, adapterVars, sessionVars, busVars, taskVars, memoryVars, Address
<1>7. SessionInv'
  <2>1. mac' = job[j].node /\ job[j].node # None /\ UNCHANGED <<iface, chars>>
    BY <1>2, ServiceAssumption DEF Resolved
  <2>2. \A k \in Jobs \ {j} : job[k].pc \notin Down
    BY <1>2, OthersOutside DEF ServiceInv
  <2>3. chars = job[j].node /\ iface \in {job[j].node, None}
    BY <1>1 DEF ServiceInv, SessionInv, Attempting, Resolved, BothFound, Down
  <2> QED
    BY <1>3, <1>4, <2>1, <2>2, <2>3 DEF SessionInv, OneSession, Down, Attempting
<1> QED
  BY <1>1, <1>2, <1>3, <1>5, <1>6, <1>7, StepKeeps DEF Resolved, taskVars, memoryVars

LEMMA NameReadKeeps == ASSUME ServiceInv, NEW j \in Jobs, NameRead(j) PROVE ServiceInv'
<1>1. job[j].pc = "name" /\ job' = [job EXCEPT ![j] = Step(j, "mtu")]
  BY DEF NameRead, GoesTo
<1>2. /\ job[j].node \in Nodes /\ Inside(job[j]) /\ JobFits(j, job[j]) /\ job \in [Jobs -> JobType]
      /\ Running(j) /\ job[j].op # "disconnect" /\ "mtu" \in Awaits(job[j].op) /\ holder = j
  BY <1>1, UnderLockFacts DEF Connecting, Attempting
<1>3. /\ JobFits(j, Step(j, "mtu")) /\ Step(j, "mtu").pc = "mtu"
      /\ Step(j, "mtu").node = job[j].node
  BY <1>1, <1>2, StepFits
<1>4. job'[j] = Step(j, "mtu") /\ \A k \in Jobs \ {j} : job'[k] = job[k]
  BY <1>1, <1>2
<1>5. LockInv'
  BY <1>1, <1>2, <1>3, <1>4, LockStays DEF ServiceInv, NameRead, Inside, UnderLock
<1>6. ServiceTypes'
  BY <1>2
     DEF ServiceInv, ServiceTypes, NameRead, bluezVars, adapterVars, sessionVars, busVars, taskVars, memoryVars, Address
<1>7. SessionInv'
  BY <1>1, <1>3, <1>4, SessionStays DEF ServiceInv, NameRead, Down, Attempting
<1> QED
  BY <1>1, <1>2, <1>3, <1>5, <1>6, <1>7, StepKeeps DEF NameRead, taskVars, memoryVars

LEMMA MtuReadKeeps == ASSUME ServiceInv, NEW j \in Jobs, MtuRead(j) PROVE ServiceInv'
<1>1. job[j].pc = "mtu" /\ job' = [job EXCEPT ![j] = Step(j, "notify")]
  BY DEF MtuRead, GoesTo
<1>2. /\ job[j].node \in Nodes /\ Inside(job[j]) /\ JobFits(j, job[j]) /\ job \in [Jobs -> JobType]
      /\ Running(j) /\ job[j].op # "disconnect" /\ "notify" \in Awaits(job[j].op) /\ holder = j
  BY <1>1, UnderLockFacts DEF Connecting
<1>3. /\ JobFits(j, Step(j, "notify")) /\ Step(j, "notify").pc = "notify"
      /\ Step(j, "notify").op = job[j].op
  BY <1>1, <1>2, StepFits
<1>4. job'[j] = Step(j, "notify") /\ \A k \in Jobs \ {j} : job'[k] = job[k]
  BY <1>1, <1>2
<1>5. LockInv'
  <2>1. CASE Ensures(j)
    BY <1>1, <1>2, <1>3, <1>4, <2>1, LockStays DEF ServiceInv, MtuRead, Inside, UnderLock, Ensures
  <2>2. CASE ~Ensures(j)
    BY <1>2, <1>3, <1>4, <2>2, LetGoKeeps DEF ServiceInv, MtuRead, Inside, UnderLock, Ensures
  <2> QED
    BY <2>1, <2>2
<1>6. ServiceTypes'
  BY <1>2
     DEF ServiceInv, ServiceTypes, MtuRead, bluezVars, busVars, adapterVars, sessionVars, taskVars, memoryVars, Address
<1>7. SessionInv'
  BY <1>1, <1>3, <1>4, SessionStays DEF ServiceInv, MtuRead, adapterVars, sessionVars, Down, Attempting
<1> QED
  BY <1>1, <1>2, <1>3, <1>5, <1>6, <1>7, StepKeeps DEF MtuRead, taskVars, memoryVars

LEMMA NoHandlersType == NoHandlers \in [watch : SUBSET Nodes, notify : SUBSET Nodes]
BY DEF NoHandlers

LEMMA TryAgainKeeps == ASSUME ServiceInv, NEW j \in Jobs, TryAgain(j) PROVE ServiceInv'
<1> DEFINE rec == Dialing(j)
<1>1. job[j].pc = "cleanup" /\ job' = [job EXCEPT ![j] = rec] /\ job[j].try < Tries
  BY DEF TryAgain, MayTryAgain
<1>2. /\ job[j].node \in Nodes /\ Inside(job[j]) /\ JobFits(j, job[j]) /\ job \in [Jobs -> JobType]
      /\ Running(j) /\ job[j].op # "disconnect" /\ Connects(j) /\ holder = j
  BY <1>1, UnderLockFacts
<1>3. JobFits(j, rec) /\ rec.pc = "dial" /\ Inside(rec) /\ rec.node = job[j].node
  BY <1>1, <1>2, DialFits DEF Dialing, JobType
<1> HIDE DEF rec
<1>4. job'[j] = rec /\ \A k \in Jobs \ {j} : job'[k] = job[k]
  BY <1>1, <1>2
<1>5. LockInv'
  BY <1>1, <1>2, <1>3, <1>4, LockStays DEF ServiceInv, TryAgain
<1>6. ServiceTypes'
  BY <1>2, NoHandlersType
     DEF ServiceInv, ServiceTypes, TryAgain, NewProxies, taskVars, memoryVars, Address
<1>7. ~Connected
  BY <1>1 DEF ServiceInv, SessionInv, Down, Attempting
<1>8. status' # "connected"
  BY <1>7 DEF TryAgain, Connected
<1>9. SessionInv'
  BY <1>2, <1>3, <1>4, <1>5, <1>8, SessionDials DEF TryAgain, NewProxies, Connected, lockVars
<1> QED
  BY <1>1, <1>2, <1>3, <1>5, <1>6, <1>9, StepKeeps DEF TryAgain, taskVars, memoryVars

(* A job that stops trying ends, or sleeps until its next attempt.         *)
LEMMA FailsFacts ==
    ASSUME NEW j \in Jobs, JobFits(j, job[j]), job \in [Jobs -> JobType],
           job[j].pc \notin {"idle", "start", "sleep"},
           Fails(j) \/ (j = auto /\ AttemptFails(j))
    PROVE  \E rec : /\ JobFits(j, rec) /\ rec.pc \in {"idle", "sleep"}
                    /\ job' = [job EXCEPT ![j] = rec]
                    /\ \/ reconnecting' = FALSE
                       \/ UNCHANGED reconnecting /\ (j \in Background => rec.pc # "idle")
<1> DEFINE Goal == \E rec : /\ JobFits(j, rec) /\ rec.pc \in {"idle", "sleep"}
                            /\ job' = [job EXCEPT ![j] = rec]
                            /\ \/ reconnecting' = FALSE
                               \/ UNCHANGED reconnecting /\ (j \in Background => rec.pc # "idle")
<1>1. /\ job[j] \in JobType /\ job[j].attempt \in 0 .. Attempts /\ job[j].op # "none"
      /\ Attempts \in Nat
  BY ServiceAssumption DEF JobFits, JobType, Awaits
<1>2. CASE job' = [job EXCEPT ![j] = Idle] /\ (j \in Background => reconnecting' = FALSE)
           /\ (j \notin Background => UNCHANGED reconnecting)
  <2>1. JobFits(j, Idle) /\ Idle.pc = "idle"
    BY IdleFits DEF Idle
  <2> QED
    BY <1>2, <2>1
<1>3. ASSUME NEW attempt \in 0 .. Attempts, job' = [job EXCEPT ![j] = Sleeping(j, attempt)],
             UNCHANGED reconnecting, j \in Background, j = auto => attempt < Attempts
      PROVE  Goal
  <2>1. /\ Sleeping(j, attempt) \in JobType /\ Sleeping(j, attempt).pc = "sleep"
        /\ Sleeping(j, attempt).op = job[j].op /\ Sleeping(j, attempt).node = job[j].node
        /\ Sleeping(j, attempt).try = 0 /\ Sleeping(j, attempt).attempt = attempt
    <3>1. 0 \in 0 .. Tries
      BY ServiceAssumption
    <3> QED
      BY <1>1, <1>3, <3>1 DEF Sleeping, JobType
  <2>2. job[j].op \in {"auto", "reconnect"}
    BY <1>1, <1>3, ServiceAssumption DEF JobFits, Background, JobType
  <2>3. JobFits(j, Sleeping(j, attempt))
    BY <1>1, <1>3, <2>1, <2>2, ServiceAssumption DEF JobFits, Awaits, Jobs, Background
  <2> QED
    BY <1>3, <2>1, <2>3
<1>4. CASE j \notin Background
  BY <1>2, <1>4, ServiceAssumption DEF Fails, JobEnds, Background
<1>5. CASE j \in Background
  <2>1. AttemptFails(j)
    BY <1>5 DEF Fails
  <2>2. CASE ~MoreAttempts(j) \/ (j # auto /\ userDisconnected)
    BY <1>2, <1>5, <2>1, <2>2 DEF AttemptFails, LoopEnds, JobEnds
  <2>3. CASE MoreAttempts(j) /\ j # auto /\ ~userDisconnected
    <3>1. job[j].attempt + 1 \in 0 .. Attempts
      BY <1>1, <2>3 DEF MoreAttempts
    <3> QED
      BY <1>3, <1>5, <2>1, <2>3, <3>1 DEF AttemptFails
  <2>4. CASE MoreAttempts(j) /\ j = auto
    <3>1. job[j].attempt < Attempts
      BY <2>4 DEF MoreAttempts
    <3> QED
      BY <1>1, <1>3, <1>5, <2>1, <2>4, <3>1 DEF AttemptFails
  <2> QED
    BY <2>2, <2>3, <2>4
<1> QED
  BY <1>4, <1>5

LEMMA ConnectFailsKeeps == ASSUME ServiceInv, NEW j \in Jobs, ConnectFails(j) PROVE ServiceInv'
<1>1. job[j].pc = "cleanup" /\ Fails(j)
  BY DEF ConnectFails
<1>2. /\ job[j].node \in Nodes /\ Inside(job[j]) /\ JobFits(j, job[j]) /\ job \in [Jobs -> JobType]
      /\ Running(j) /\ job[j].op # "disconnect" /\ holder = j
  BY <1>1, UnderLockFacts
<1>3. PICK rec : /\ JobFits(j, rec) /\ rec.pc \in {"idle", "sleep"}
                 /\ job' = [job EXCEPT ![j] = rec]
                 /\ \/ reconnecting' = FALSE
                    \/ UNCHANGED reconnecting /\ (j \in Background => rec.pc # "idle")
  BY <1>1, <1>2, FailsFacts
<1>4. job'[j] = rec /\ ~Inside(rec) /\ \A k \in Jobs \ {j} : job'[k] = job[k]
  BY <1>2, <1>3 DEF Inside, UnderLock
<1>5. LockInv'
  BY <1>2, <1>3, <1>4, LetGoKeeps DEF ServiceInv, ConnectFails
<1>6. ServiceTypes'
  BY <1>3, NoHandlersType DEF ServiceInv, ServiceTypes, ConnectFails, DropBus, ResetSession, Address
<1>7. status' # "connected"
  BY DEF ConnectFails
<1>8. SessionInv'
  BY <1>3, <1>4, <1>7, SessionLost DEF ServiceInv, ConnectFails, ResetSession, Connected, Attempting
<1> QED
  BY <1>1, <1>2, <1>3, <1>5, <1>6, <1>8, StepKeeps DEF ConnectFails

-----------------------------------------------------------------------------
(* The notify subscription and the initialisation.                         *)

LEMMA NotifyFacts ==
    ASSUME ServiceInv, NEW j \in Jobs, job[j].pc \in {"notify", "init"}
    PROVE  /\ Connects(j) /\ job[j].node \in Nodes /\ JobFits(j, job[j])
           /\ job \in [Jobs -> JobType] /\ Running(j) /\ job[j].op # "disconnect"
           /\ "init" \in Awaits(job[j].op)
           /\ Inside(job[j]) <=> holder = j
           /\ Inside(job[j]) <=> job[j].pc = "notify" /\ Ensures(j)
           /\ Ensures(j) => j \in Requests /\ "teardown" \in Awaits(job[j].op)
<1>1. Connects(j)
  BY JobFacts DEF JobFits, JobType, Awaits, Connects
<1>2. Inside(job[j]) <=> job[j].pc = "notify" /\ Ensures(j)
  BY DEF Inside, UnderLock, Ensures
<1>3. Ensures(j) => j \in Requests /\ "teardown" \in Awaits(job[j].op)
  BY JobFacts DEF Ensures, Awaits
<1> QED
  BY <1>1, <1>2, <1>3, ConnectFacts DEF Connecting

LEMMA NotifyStartsKeeps == ASSUME ServiceInv, NEW j \in Jobs, NotifyStarts(j) PROVE ServiceInv'
<1>1. /\ job[j].pc = "notify" /\ job' = [job EXCEPT ![j] = Step(j, "init")]
      /\ probe' = IF Ensures(j) THEN j ELSE probe
  BY DEF NotifyStarts, Initialise, GoesTo
<1>2. /\ JobFits(j, job[j]) /\ job \in [Jobs -> JobType] /\ Running(j) /\ job[j].op # "disconnect"
      /\ "init" \in Awaits(job[j].op)
      /\ Inside(job[j]) <=> holder = j
      /\ Inside(job[j]) <=> Ensures(j)
      /\ Ensures(j) => j \in Requests
  BY <1>1, NotifyFacts
<1>3. /\ JobFits(j, Step(j, "init")) /\ Step(j, "init").pc = "init" /\ Step(j, "init").op = job[j].op
      /\ ~Inside(Step(j, "init"))
  BY <1>1, <1>2, StepFits DEF Inside, UnderLock
<1>4. job'[j] = Step(j, "init") /\ \A k \in Jobs \ {j} : job'[k] = job[k]
  BY <1>1, <1>2
<1>5. LockInv'
  <2>1. CASE Ensures(j)
    BY <1>2, <1>3, <1>4, <2>1, LetGoKeeps DEF ServiceInv, NotifyStarts
  <2>2. CASE ~Ensures(j)
    BY <1>1, <1>2, <1>3, <1>4, <2>2, LockStays DEF ServiceInv, NotifyStarts
  <2> QED
    BY <2>1, <2>2
<1>6. chars # None
  BY ServiceAssumption DEF NotifyStarts, MayNotify, ServiceInv, ServiceTypes
<1>7. ServiceTypes'
  BY <1>1, <1>2, <1>6 DEF ServiceInv, ServiceTypes, NotifyStarts, bluezVars, busVars, taskVars
<1>8. SessionInv'
  BY <1>3, <1>4, SessionStays DEF ServiceInv, NotifyStarts, Down, Attempting
<1> QED
  BY <1>1, <1>2, <1>3, <1>5, <1>7, <1>8, StepKeeps DEF NotifyStarts, taskVars, Ensures

LEMMA NotifyFailsKeeps == ASSUME ServiceInv, NEW j \in Jobs, NotifyFails(j) PROVE ServiceInv'
<1>1. /\ job[j].pc = "notify"
      /\ UNCHANGED <<links, signals, lockVars, cancelConnect, reconnectTask, userDisconnected, lastMac,
                     saved, probe, quiet>>
  BY DEF NotifyFails, bluezVars
<1>2. /\ JobFits(j, job[j]) /\ job \in [Jobs -> JobType] /\ Running(j) /\ job[j].op # "disconnect"
      /\ Inside(job[j]) <=> holder = j
      /\ Inside(job[j]) <=> Ensures(j)
      /\ Ensures(j) => "teardown" \in Awaits(job[j].op)
  BY <1>1, NotifyFacts
<1>3. CASE Ensures(j)
  <2>1. /\ job' = [job EXCEPT ![j] = Step(j, "teardown")] /\ UNCHANGED reconnecting
        /\ status' = "disconnecting" /\ subscribed' = FALSE /\ attached' = "no"
        /\ UNCHANGED <<mac, iface, chars, live, stale>>
    BY <1>3 DEF NotifyFails, LeaveStarts, GoesTo, busVars
  <2>2. /\ JobFits(j, Step(j, "teardown")) /\ Step(j, "teardown").pc = "teardown"
        /\ Inside(Step(j, "teardown"))
    BY <1>1, <1>2, <1>3, StepFits DEF Inside, UnderLock
  <2>3. job'[j] = Step(j, "teardown") /\ \A k \in Jobs \ {j} : job'[k] = job[k]
    BY <1>2, <2>1
  <2>4. LockInv'
    BY <1>1, <1>2, <1>3, <2>2, <2>3, LockStays DEF ServiceInv
  <2>5. ServiceTypes' /\ SessionInv'
    <3>1. ServiceTypes'
      BY <1>1, <2>1 DEF ServiceInv, ServiceTypes
    <3> QED
      BY <2>1, <2>2, <2>3, <3>1, SessionLost DEF ServiceInv, Connected, Attempting
  <2> QED
    BY <1>1, <1>2, <2>1, <2>2, <2>4, <2>5, StepKeeps
<1>4. CASE ~Ensures(j)
  <2>1. /\ Fails(j) /\ attached' \in {attached, "no"}
        /\ UNCHANGED <<status, mac, iface, chars, subscribed, live, stale>>
    BY <1>4 DEF NotifyFails, busVars
  <2>2. PICK rec : /\ JobFits(j, rec) /\ rec.pc \in {"idle", "sleep"}
                   /\ job' = [job EXCEPT ![j] = rec]
                   /\ \/ reconnecting' = FALSE
                      \/ UNCHANGED reconnecting /\ (j \in Background => rec.pc # "idle")
    BY <1>1, <1>2, <2>1, FailsFacts
  <2>3. job'[j] = rec /\ ~Inside(rec) /\ \A k \in Jobs \ {j} : job'[k] = job[k]
    BY <1>2, <2>2 DEF Inside, UnderLock
  <2>4. LockInv'
    BY <1>1, <1>2, <1>4, <2>2, <2>3, LockStays DEF ServiceInv
  <2>5. ServiceTypes'
    BY <1>1, <2>1, <2>2 DEF ServiceInv, ServiceTypes
  <2>6. SessionInv'
    BY <2>1, <2>2, <2>3, SessionStays DEF ServiceInv, Down, Attempting
  <2> QED
    BY <1>1, <1>2, <2>2, <2>4, <2>5, <2>6, StepKeeps
<1> QED
  BY <1>3, <1>4

LEMMA InitEndsKeeps == ASSUME ServiceInv, NEW j \in Jobs, InitEnds(j) PROVE ServiceInv'
<1>1. /\ job[j].pc = "init" /\ probe' = ProbeAfter(j) /\ job' = [job EXCEPT ![j] = Idle]
      /\ UNCHANGED <<bluezVars, lockVars, adapterVars, reconnectTask, userDisconnected, quiet>>
  BY DEF InitEnds, AttemptSucceeds, LoopEnds, JobEnds
<1>2. /\ job[j].node \in Nodes /\ job \in [Jobs -> JobType] /\ Running(j) /\ job[j].op # "disconnect"
      /\ ~Inside(job[j])
  BY <1>1, NotifyFacts DEF Inside, UnderLock
<1>3. JobFits(j, Idle) /\ ~Inside(Idle) /\ Idle.pc = "idle"
  BY IdleFits DEF Idle
<1>4. JobsFit' /\ job'[j] = Idle /\ \A k \in Jobs \ {j} : job'[k] = job[k]
  BY <1>1, <1>3, OneMoves DEF ServiceInv
<1>5. LockInv'
  BY <1>1, <1>2, <1>3, <1>4, LockStays DEF ServiceInv
<1>6. SessionInv'
  BY <1>1, <1>3, <1>4, SessionStays DEF ServiceInv, adapterVars, sessionVars, Down, Attempting
<1>7. QuietInv'
  BY <1>1, <1>2, NotQuiet DEF ServiceInv, QuietInv
<1>8. ProbeOnlyDuringInit'
  BY <1>1, <1>4 DEF ServiceInv, ProbeOnlyDuringInit, ProbeAfter, Initialising, Jobs
<1>9. CASE j \in Background
  <2>1. reconnecting' = FALSE /\ lastMac' = lastMac /\ saved' \in {saved, job[j].node}
    BY <1>9 DEF InitEnds, AttemptSucceeds, LoopEnds
  <2>2. ServiceTypes'
    BY <1>1, <1>2, <2>1
       DEF ServiceInv, ServiceTypes, ProbeAfter, Address, bluezVars, adapterVars, sessionVars, busVars
  <2>3. LadderInv'
    <3>1. auto \in Jobs /\ (Running(auto)' => Running(auto))
      BY <1>3, <1>4 DEF Running, Jobs, Background
    <3> QED
      BY <2>1, <3>1 DEF ServiceInv, LadderInv, ReconnectingIsTrue
  <2> QED
    BY <1>4, <1>5, <1>6, <1>7, <1>8, <2>2, <2>3 DEF ServiceInv
<1>10. CASE j \notin Background
  <2>1. UNCHANGED reconnecting /\ {lastMac', saved'} \subseteq {lastMac, saved, job[j].node}
    BY <1>10 DEF InitEnds
  <2>2. lastMac' \in {lastMac, job[j].node}
    BY <1>10 DEF InitEnds
  <2>3. ServiceTypes'
    BY <1>1, <1>2, <2>1
       DEF ServiceInv, ServiceTypes, ProbeAfter, Address, bluezVars, adapterVars, sessionVars, busVars
  <2>4. LadderInv'
    <3>1. auto \in Jobs /\ (Running(auto)' => Running(auto)) /\ job[j].node # None
      BY <1>2, <1>3, <1>4, ServiceAssumption DEF Running, Jobs, Background
    <3>2. ReconnectingIsTrue'
      BY <1>1, <1>4, <1>10, <2>1 DEF ServiceInv, LadderInv, ReconnectingIsTrue, Running, Jobs
    <3> QED
      BY <2>1, <2>2, <3>1, <3>2 DEF ServiceInv, LadderInv
  <2> QED
    BY <1>4, <1>5, <1>6, <1>7, <1>8, <2>3, <2>4 DEF ServiceInv
<1> QED
  BY <1>9, <1>10

-----------------------------------------------------------------------------
(* The ends of a disconnect.                                               *)

LEMMA LeaveFacts ==
    ASSUME ServiceInv, NEW j \in Jobs, job[j].pc \in {"leave", "teardown"}
    PROVE  /\ Inside(job[j]) /\ holder = j /\ ~Connected /\ Running(j)
           /\ job \in [Jobs -> JobType] /\ JobFits(j, job[j])
           /\ ~Connects(j) => job[j].op = "disconnect" /\ j \in Requests
<1>1. Inside(job[j])
  BY DEF Inside, UnderLock
<1>2. ~Connected
  BY DEF ServiceInv, SessionInv, Down, Attempting
<1>3. ~Connects(j) => job[j].op = "disconnect" /\ j \in Requests
  BY JobFacts DEF JobFits, JobType, Awaits, Connects
<1> QED
  BY <1>1, <1>2, <1>3, JobFacts DEF Running

LEMMA LinkGoesTypes == ASSUME ServiceTypes, LinkGoes PROVE links' \subseteq Nodes
BY DEF ServiceTypes, LinkGoes

LEMMA LeavesForNextKeeps == ASSUME ServiceInv, NEW j \in Jobs, LeavesForNext(j) PROVE ServiceInv'
<1> DEFINE rec == Dialing(j)
<1>1. job[j].pc = "leave" /\ Connects(j) /\ job' = [job EXCEPT ![j] = rec]
  BY DEF LeavesForNext, Dial
<1>2. /\ Inside(job[j]) /\ holder = j /\ ~Connected /\ Running(j)
      /\ job \in [Jobs -> JobType] /\ JobFits(j, job[j]) /\ job[j].op # "disconnect"
  BY <1>1, LeaveFacts DEF Connects
<1>3. JobFits(j, rec) /\ rec.pc = "dial" /\ Inside(rec) /\ job[j].node \in Nodes /\ rec.node = job[j].node
  <2>1. job[j].try < Tries
    BY <1>1, <1>2, ServiceAssumption DEF JobFits
  <2> QED
    BY <1>1, <1>2, <2>1, DialFits DEF Dialing, JobType
<1> HIDE DEF rec
<1>4. job'[j] = rec /\ \A k \in Jobs \ {j} : job'[k] = job[k]
  BY <1>1, <1>2
<1>5. LockInv'
  BY <1>1, <1>2, <1>3, <1>4, LockStays DEF ServiceInv, LeavesForNext
<1>6. ServiceTypes'
  <2>1. /\ links' \subseteq Nodes /\ signals' = {} /\ mac' = None /\ status' = "connecting"
        /\ iface' = job[j].node /\ live' = TRUE /\ stale' = NoHandlers /\ subscribed' = FALSE
        /\ attached' \in {"no", "dead"} /\ chars' = chars
    BY LinkGoesTypes DEF ServiceInv, LeavesForNext, Dial, NewProxies
  <2> QED
    BY <1>3, <2>1, NoHandlersType
       DEF ServiceInv, ServiceTypes, LeavesForNext, taskVars, memoryVars, Address
<1>7. SessionInv'
  BY <1>2, <1>3, <1>4, <1>5, SessionDials DEF LeavesForNext, Dial, NewProxies, Connected, lockVars
<1> QED
  BY <1>1, <1>2, <1>3, <1>5, <1>6, <1>7, StepKeeps DEF LeavesForNext, taskVars, memoryVars

(* What the end of a disconnect leaves to be shown.                        *)
LEMMA DisconnectEndKeeps ==
    ASSUME ServiceInv, NEW j \in Jobs, Running(j), job[j].pc \notin {"init", "preempt"},
           job[j].op \in {"disconnect", "ensure"},
           job' = [job EXCEPT ![j] = Idle], status' \in {"disconnected", "error"},
           job[j].op = "disconnect" => status' = "disconnected",
           quiet' = IF job[j].op = "disconnect" /\ quiet = "pending" THEN "yes" ELSE quiet,
           UNCHANGED <<taskVars, userDisconnected, lastMac, saved, probe>>,
           LetGo(j), MayEnter(j) \/ holder = j, ServiceTypes',
           iface' \in {iface, None}, chars' \in {chars, None}
    PROVE  ServiceInv'
<1>1. JobFits(j, Idle) /\ ~Inside(Idle) /\ Idle.pc = "idle" /\ j \in Requests /\ j \notin Background
  BY IdleFits, JobFacts DEF Idle
<1>2. JobsFit' /\ job'[j] = Idle /\ \A k \in Jobs \ {j} : job'[k] = job[k]
  BY <1>1, OneMoves DEF ServiceInv
<1>3. LockInv'
  BY <1>1, <1>2, LetGoKeeps DEF ServiceInv
<1>4. SessionInv'
  BY <1>1, <1>2, SessionLost DEF ServiceInv, Connected, Attempting
<1>5. ProbeOnlyDuringInit'
  BY <1>2 DEF ServiceInv, ProbeOnlyDuringInit, Initialising, Jobs
<1>6. LadderInv'
  <2>1. auto \in Jobs /\ (Running(auto)' => Running(auto))
    BY <1>1, <1>2 DEF Running, Jobs, Background
  <2>2. ReconnectingIsTrue'
    BY <1>1, <1>2 DEF ServiceInv, LadderInv, ReconnectingIsTrue, Running, Jobs, taskVars
  <2> QED
    BY <2>1, <2>2 DEF ServiceInv, LadderInv, taskVars
<1>7. QuietInv'
  <2>1. quiet # "yes"
    BY DEF ServiceInv, QuietInv
  <2>2. CASE quiet = "pending"
    <3>1. /\ userDisconnected /\ saved = None /\ job[j].op = "disconnect"
          /\ \A k \in Jobs \ {j} : ~Running(k)
      BY <2>2 DEF ServiceInv, QuietInv, Running, Jobs
    <3>2. \A k \in Jobs : ~Running(k)'
      BY <1>1, <1>2, <3>1 DEF Running
    <3> QED
      BY <2>2, <3>1, <3>2 DEF QuietInv
  <2>3. CASE quiet # "pending"
    BY <2>1, <2>3 DEF QuietInv
  <2> QED
    BY <2>2, <2>3
<1> QED
  BY <1>2, <1>3, <1>4, <1>5, <1>6, <1>7 DEF ServiceInv

LEMMA LeaveEndsKeeps == ASSUME ServiceInv, NEW j \in Jobs, LeaveEnds(j) PROVE ServiceInv'
<1>1. /\ job[j].pc \in {"leave", "teardown"} /\ job[j].op \in {"disconnect", "ensure"}
      /\ job[j].op = "disconnect" => job[j].pc = "leave"
  <2>1. job[j].pc = "leave" => job[j].op = "disconnect"
    BY LeaveFacts DEF LeaveEnds
  <2>2. job[j].pc = "teardown" => job[j].op = "ensure"
    BY JobFacts DEF JobFits, JobType, Awaits, Connecting
  <2> QED
    BY <2>1, <2>2 DEF LeaveEnds
<1>2. Running(j) /\ holder = j
  BY <1>1, LeaveFacts
<1>3. ServiceTypes'
  <2>1. /\ links' \subseteq Nodes /\ signals' = {} /\ mac' = None /\ status' \in {"disconnected", "error"}
        /\ iface' = None /\ chars' = None /\ live' = FALSE /\ stale' = NoHandlers
        /\ subscribed' = FALSE /\ attached' = "no"
    BY LinkGoesTypes DEF ServiceInv, LeaveEnds, DropBus, ResetSession
  <2> QED
    BY <2>1, NoHandlersType DEF ServiceInv, ServiceTypes, LeaveEnds, taskVars, Address
<1> QED
  BY <1>1, <1>2, <1>3, DisconnectEndKeeps DEF LeaveEnds, JobEnds, ResetSession

LEMMA EnterDisconnectKeeps == ASSUME ServiceInv, NEW j \in Jobs, EnterDisconnect(j) PROVE ServiceInv'
<1>1. /\ job[j].op = "disconnect" /\ MayEnter(j) /\ job[j].pc \in {"enter", "wait"} /\ Running(j)
      /\ job \in [Jobs -> JobType] /\ JobFits(j, job[j]) /\ j \in Requests
      /\ UNCHANGED <<links, signals, cancelConnect, taskVars, userDisconnected, lastMac, saved, probe>>
  BY JobFacts DEF EnterDisconnect, MayEnter, Running, bluezVars
<1>2. CASE status = "disconnected"
  <2>1. /\ LetGo(j) /\ job' = [job EXCEPT ![j] = Idle] /\ UNCHANGED <<status, sessionVars, busVars>>
        /\ quiet' = IF quiet = "pending" THEN "yes" ELSE quiet
    BY <1>2 DEF EnterDisconnect, JobEnds
  <2>2. ServiceTypes'
    BY <1>1, <2>1 DEF ServiceInv, ServiceTypes, taskVars, sessionVars, busVars
  <2> QED
    BY <1>1, <1>2, <2>1, <2>2, DisconnectEndKeeps DEF sessionVars
<1>3. CASE status # "disconnected"
  <2>1. /\ Hold(j) /\ job' = [job EXCEPT ![j] = Step(j, "leave")] /\ quiet' = quiet
        /\ status' = "disconnecting" /\ subscribed' = FALSE /\ attached' = "no"
        /\ UNCHANGED <<mac, iface, chars, live, stale>>
    BY <1>3 DEF EnterDisconnect, GoesTo, LeaveStarts, busVars
  <2>2. /\ Step(j, "leave").pc = "leave" /\ Step(j, "leave").op = "disconnect"
        /\ Inside(Step(j, "leave")) /\ JobFits(j, Step(j, "leave"))
    <3>1. /\ Step(j, "leave").pc = "leave" /\ Step(j, "leave").op = "disconnect"
          /\ Step(j, "leave") \in JobType /\ Step(j, "leave").try = job[j].try
      BY <1>1 DEF Step, JobType, UnderLock
    <3> QED
      BY <1>1, <3>1, ServiceAssumption DEF Inside, UnderLock, JobFits, Awaits, Background
  <2>3. JobsFit' /\ job'[j] = Step(j, "leave") /\ \A k \in Jobs \ {j} : job'[k] = job[k]
    BY <2>1, <2>2, OneMoves DEF ServiceInv
  <2>4. LockInv'
    BY <1>1, <2>1, <2>2, <2>3, HoldKeeps DEF ServiceInv
  <2>5. ServiceTypes' /\ SessionInv'
    <3>1. ServiceTypes'
      BY <1>1, <2>1 DEF ServiceInv, ServiceTypes, taskVars
    <3> QED
      BY <2>1, <2>2, <2>3, <3>1, SessionLost DEF ServiceInv, Connected, Attempting
  <2>6. \A k \in Jobs : Running(k)' <=> Running(k)
    BY <1>1, <2>2, <2>3 DEF Running
  <2>7. LadderInv' /\ QuietInv'
    <3>1. auto \in Jobs /\ Background \subseteq Jobs /\ Requests \subseteq Jobs
      BY DEF Jobs, Background
    <3>2. ReconnectingIsTrue'
      BY <1>1, <2>3, <2>6, <3>1 DEF ServiceInv, LadderInv, ReconnectingIsTrue, taskVars
    <3>3. QuietInv'
      BY <1>1, <2>1, <2>2, <2>3, <2>6, <3>1 DEF ServiceInv, QuietInv
    <3> QED
      BY <1>1, <2>6, <3>1, <3>2, <3>3 DEF ServiceInv, LadderInv, taskVars
  <2>8. ProbeOnlyDuringInit'
    BY <1>1, <2>3 DEF ServiceInv, ProbeOnlyDuringInit, Initialising, Jobs
  <2> QED
    BY <2>3, <2>4, <2>5, <2>7, <2>8 DEF ServiceInv
<1> QED
  BY <1>2, <1>3

-----------------------------------------------------------------------------
(* The routes.                                                             *)

(* A request that begins, or that comes back from its gather.              *)
LEMMA RequestKeeps ==
    ASSUME ServiceInv, NEW r \in Requests, job[r].pc \in {"idle", "preempt"},
           NEW rec, JobFits(r, rec), job' = [job EXCEPT ![r] = rec],
           quiet' \notin {"pending", "yes"}, UNCHANGED <<lastMac, probe>>,
           reconnecting' = FALSE \/ (UNCHANGED reconnecting /\ job[r].pc = "idle"),
           ServiceTypes', LockInv', SessionInv'
    PROVE  ServiceInv'
<1>1. r \in Jobs /\ auto \in Jobs /\ Background \subseteq Jobs /\ Requests \subseteq Jobs /\ r \notin Background
  BY ServiceAssumption DEF Jobs, Background
<1>2. JobsFit' /\ job'[r] = rec /\ \A k \in Jobs \ {r} : job'[k] = job[k]
  BY <1>1, OneMoves DEF ServiceInv
<1>3. ProbeOnlyDuringInit'
  BY <1>1, <1>2 DEF ServiceInv, ProbeOnlyDuringInit, Initialising
<1>4. LadderInv'
  <2>1. Running(auto)' <=> Running(auto)
    BY <1>1, <1>2 DEF Running, Background
  <2>2. ReconnectingIsTrue'
    BY <1>1, <1>2 DEF ServiceInv, LadderInv, ReconnectingIsTrue, Running
  <2> QED
    BY <2>1, <2>2 DEF ServiceInv, LadderInv
<1>5. QuietInv'
  BY DEF QuietInv
<1> QED
  BY <1>2, <1>3, <1>4, <1>5 DEF ServiceInv

(* Its call, which takes the lock or queues up.                            *)
LEMMA RequestCalls ==
    ASSUME ServiceInv, NEW r \in Requests, job[r].pc \in {"idle", "preempt"}, NEW n \in Nodes,
           NEW op \in {"connect", "ensure"}, Call(r, Job(op, n, "idle"))
    PROVE  /\ LockInv'
           /\ \E p \in {"enter", "wait"} :
                /\ job' = [job EXCEPT ![r] = Job(op, n, p)]
                /\ JobFits(r, Job(op, n, p))
<1>1. r \in Jobs /\ r \notin Background /\ ~Inside(job[r])
  BY ServiceAssumption DEF Jobs, Background, Inside, UnderLock
<1>2. LockInv'
  BY <1>1, CallKeeps DEF ServiceInv, Job
<1>3. PICK p \in {"enter", "wait"} : job' = [job EXCEPT ![r] = Job(op, n, p)]
  BY DEF Call, Job
<1>4. JobFits(r, Job(op, n, p))
  BY <1>1, ServiceAssumption
     DEF JobFits, Job, JobType, Awaits, Connecting, UnderLock, Background, Address
<1> QED
  BY <1>2, <1>3, <1>4

LEMMA StartConnectKeeps ==
    ASSUME ServiceInv, NEW r \in Requests, NEW n \in Nodes, StartConnect(r, n) PROVE ServiceInv'
<1>1. /\ job[r].pc = "idle" /\ Call(r, Job("connect", n, "idle"))
      /\ UNCHANGED <<links, status, sessionVars, cancelConnect, taskVars, lastMac, saved, probe>>
  BY DEF StartConnect, Free, Running
<1>2. LockInv' /\ \E p \in {"enter", "wait"} : /\ job' = [job EXCEPT ![r] = Job("connect", n, p)]
                                               /\ JobFits(r, Job("connect", n, p))
  BY <1>1, RequestCalls
<1>3. PICK p \in {"enter", "wait"} : /\ job' = [job EXCEPT ![r] = Job("connect", n, p)]
                                     /\ JobFits(r, Job("connect", n, p))
  BY <1>2
<1>4. ServiceTypes'
  <2>1. /\ live' \in BOOLEAN /\ signals' \subseteq Nodes /\ userDisconnected' = FALSE
        /\ stale' \in [watch : SUBSET Nodes, notify : SUBSET Nodes]
    BY ResetBusTypes DEF ServiceInv, StartConnect
  <2> QED
    BY <1>1, <2>1 DEF ServiceInv, ServiceTypes, taskVars, sessionVars
<1>5. SessionInv'
  <2>1. r \in Jobs /\ Job("connect", n, p).pc \notin Down \cup Attempting
    BY DEF Jobs, Job, Down, Attempting
  <2>2. job'[r] = Job("connect", n, p) /\ \A k \in Jobs \ {r} : job'[k] = job[k]
    BY <1>3, <2>1 DEF ServiceInv, JobsFit
  <2> QED
    BY <1>1, <2>1, <2>2, SessionStays DEF ServiceInv, sessionVars
<1> QED
  BY <1>1, <1>2, <1>3, <1>4, <1>5, RequestKeeps DEF StartConnect, taskVars

LEMMA EnsureGoesOnKeeps ==
    ASSUME ServiceInv, NEW r \in Requests, NEW n \in Nodes, EnsureGoesOn(r, n),
           job[r].pc \in {"idle", "preempt"}, quiet' \notin {"pending", "yes"}
    PROVE  ServiceInv'
<1>1. /\ reconnectTask' = None /\ reconnecting' = FALSE
      /\ UNCHANGED <<bluezVars, adapterVars, lastMac, saved, probe>>
  BY DEF EnsureGoesOn
<1>2. r \in Jobs
  BY DEF Jobs
<1>3. PICK rec : /\ job' = [job EXCEPT ![r] = rec] /\ JobFits(r, rec) /\ LockInv' /\ rec.pc \notin Down \cup Attempting
                 /\ userDisconnected' \in {FALSE, userDisconnected}
  <2>1. CASE Busy
    <3>1. job' = [job EXCEPT ![r] = Idle] /\ UNCHANGED <<userDisconnected, lockVars>>
      BY <2>1 DEF EnsureGoesOn, JobEnds
    <3>2. JobFits(r, Idle) /\ ~Inside(Idle) /\ Idle.pc = "idle"
      BY <1>2, IdleFits DEF Idle
    <3>3. job'[r] = Idle /\ \A k \in Jobs \ {r} : job'[k] = job[k]
      BY <1>2, <3>1 DEF ServiceInv, JobsFit
    <3>4. LockInv'
      BY <1>2, <3>1, <3>2, <3>3, LockStays DEF ServiceInv, Inside, UnderLock
    <3> QED
      BY <3>1, <3>2, <3>4 DEF Down, Attempting
  <2>2. CASE ~Busy
    <3>1. Call(r, Job("ensure", n, "idle")) /\ userDisconnected' = FALSE
      BY <2>2 DEF EnsureGoesOn
    <3>2. LockInv' /\ \E p \in {"enter", "wait"} : /\ job' = [job EXCEPT ![r] = Job("ensure", n, p)]
                                                   /\ JobFits(r, Job("ensure", n, p))
      BY <3>1, RequestCalls
    <3> QED
      BY <3>1, <3>2 DEF Job, Down, Attempting
  <2> QED
    BY <2>1, <2>2
<1>4. ServiceTypes'
  BY <1>1, <1>3 DEF ServiceInv, ServiceTypes, bluezVars, adapterVars, sessionVars, busVars
<1>5. SessionInv'
  <2>1. job'[r] = rec /\ \A k \in Jobs \ {r} : job'[k] = job[k]
    BY <1>2, <1>3 DEF ServiceInv, JobsFit
  <2> QED
    BY <1>1, <1>2, <1>3, <2>1, SessionStays DEF ServiceInv, sessionVars, adapterVars
<1> QED
  BY <1>1, <1>3, <1>4, <1>5, RequestKeeps

LEMMA PreemptedKeeps == ASSUME ServiceInv, NEW r \in Jobs, Preempted(r) PROVE ServiceInv'
<1>1. job[r].pc = "preempt" /\ EnsureGoesOn(r, job[r].node) /\ quiet' = quiet
  BY DEF Preempted
<1>2. Ensures(r) /\ r \in Requests /\ Running(r) /\ job[r].op # "disconnect"
  BY <1>1, JobFacts DEF JobFits, JobType, Awaits, Connecting, Ensures, Running
<1>3. job[r].node \in Nodes
  BY <1>1, <1>2, ConnectFacts DEF Connects, Ensures
<1>4. quiet' \notin {"pending", "yes"}
  BY <1>1, <1>2, NotQuiet DEF ServiceInv
<1> QED
  BY <1>1, <1>2, <1>3, <1>4, EnsureGoesOnKeeps

-----------------------------------------------------------------------------
(* Cancelled jobs.                                                         *)

BusTypes ==
    /\ links \subseteq Nodes /\ signals \subseteq Nodes
    /\ {mac, iface, chars} \subseteq Address
    /\ {live, subscribed} \subseteq BOOLEAN
    /\ attached \in {"no", "yes", "dead"}
    /\ stale \in [watch : SUBSET Nodes, notify : SUBSET Nodes]
    /\ subscribed => iface # None
    /\ attached = "yes" => chars # None

LEMMA AbandonKeeps ==
    ASSUME ServiceInv, NEW S \in SUBSET Jobs, Abandon(S), UNCHANGED status
    PROVE  /\ BusTypes' /\ OneSession'
           /\ iface' \in {iface, None} /\ chars' \in {chars, None}
<1>1. links' \subseteq Nodes
  <2>1. \A k \in S : job[k].pc = "dial" => job[k].node \in Nodes
    BY UnderLockFacts DEF Attempting
  <2> QED
    BY <2>1 DEF Abandon, ServiceInv, ServiceTypes
<1>2. CASE \E k \in S : job[k].pc = "cleanup"
  <2>1. ~Connected
    BY <1>2 DEF ServiceInv, SessionInv, Down, Attempting
  <2> QED
    BY <1>1, <1>2, <2>1, NoHandlersType DEF Abandon, DropBus, ResetSession, OneSession,
       Connected, Address, BusTypes
<1>3. CASE ~\E k \in S : job[k].pc = "cleanup"
  <2>1. UNCHANGED <<signals, live, stale, mac, iface, chars, subscribed, attached>>
    BY <1>3 DEF Abandon, busVars, sessionVars
  <2> QED
    BY <1>1, <2>1 DEF ServiceInv, ServiceTypes, SessionInv, OneSession, Connected, BusTypes, Down, Attempting
<1> QED
  BY <1>2, <1>3

LEMMA EnsureTimesOutKeeps == ASSUME ServiceInv, NEW r \in Requests, EnsureTimesOut(r) PROVE ServiceInv'
<1>1. /\ Ensures(r) /\ job[r].pc \notin {"idle", "preempt", "init"} /\ job' = [job EXCEPT ![r] = Idle]
      /\ Abandon({r}) /\ holder' = HolderWithout({r}) /\ queue' = QueueWithout({r})
      /\ UNCHANGED <<status, cancelConnect, taskVars, memoryVars>>
  BY DEF EnsureTimesOut, Unwind, JobEnds
<1>2. r \in Jobs /\ r \notin Background /\ Running(r) /\ job[r].op # "disconnect"
  BY <1>1, ServiceAssumption DEF Jobs, Background, Running, Ensures
<1>3. JobFits(r, Idle) /\ ~Inside(Idle) /\ Idle.pc = "idle"
  BY <1>2, IdleFits DEF Idle
<1>4. job'[r] = Idle /\ \A k \in Jobs \ {r} : job'[k] = job[k]
  BY <1>1, <1>2 DEF ServiceInv, JobsFit
<1>5. LockInv'
  BY <1>1, <1>2, <1>3, <1>4, LeaversLetGo DEF ServiceInv
<1>6. ServiceTypes' /\ SessionInv'
  <2>1. BusTypes' /\ OneSession' /\ iface' \in {iface, None} /\ chars' \in {chars, None}
    BY <1>1, <1>2, AbandonKeeps
  <2>2. ServiceTypes'
    BY <1>1, <2>1 DEF ServiceInv, ServiceTypes, taskVars, memoryVars, BusTypes
  <2>3. SessionInv'
    BY <1>1, <1>3, <1>4, <2>1, SessionLeft DEF ServiceInv, Down, Attempting
  <2> QED
    BY <2>2, <2>3
<1> QED
  BY <1>1, <1>2, <1>3, <1>5, <1>6, StepKeeps DEF taskVars, memoryVars

LEMMA AutoTimesOutKeeps == ASSUME ServiceInv, AutoTimesOut PROVE ServiceInv'
<1>1. /\ job[auto].pc \notin {"idle", "sleep"} /\ AttemptFails(auto)
      /\ Abandon({auto}) /\ holder' = HolderWithout({auto}) /\ queue' = QueueWithout({auto})
      /\ UNCHANGED <<status, cancelConnect, reconnectTask, userDisconnected, lastMac, saved, probe, quiet>>
  BY DEF AutoTimesOut, Unwind
<1>2. auto \in Jobs /\ auto \in Background /\ Running(auto)
  BY <1>1 DEF Jobs, Background, Running
<1>3. /\ JobFits(auto, job[auto]) /\ job \in [Jobs -> JobType] /\ job[auto].pc # "start"
      /\ job[auto].op # "disconnect"
  BY <1>1, <1>2, JobFacts DEF JobFits, Awaits, Connecting
<1>4. PICK rec : /\ JobFits(auto, rec) /\ rec.pc \in {"idle", "sleep"}
                 /\ job' = [job EXCEPT ![auto] = rec]
                 /\ \/ reconnecting' = FALSE
                    \/ UNCHANGED reconnecting /\ (auto \in Background => rec.pc # "idle")
  BY <1>1, <1>2, <1>3, FailsFacts
<1>5. job'[auto] = rec /\ ~Inside(rec) /\ \A k \in Jobs \ {auto} : job'[k] = job[k]
  BY <1>2, <1>3, <1>4 DEF Inside, UnderLock
<1>6. LockInv'
  BY <1>1, <1>2, <1>4, <1>5, LeaversLetGo DEF ServiceInv
<1>7. ServiceTypes' /\ SessionInv'
  <2>1. BusTypes' /\ OneSession' /\ iface' \in {iface, None} /\ chars' \in {chars, None}
    BY <1>1, <1>2, AbandonKeeps
  <2>2. ServiceTypes'
    BY <1>1, <1>4, <2>1 DEF ServiceInv, ServiceTypes, BusTypes
  <2>3. SessionInv'
    BY <1>1, <1>4, <1>5, <2>1, SessionLeft DEF ServiceInv, Down, Attempting
  <2> QED
    BY <2>2, <2>3
<1> QED
  BY <1>1, <1>2, <1>3, <1>4, <1>6, <1>7, StepKeeps

(* The tasks a route cancels: jobs of the background, which end there.     *)
LEMMA CancelFacts ==
    ASSUME ServiceInv
    PROVE  /\ Referenced \subseteq Background /\ Background \subseteq Jobs
           /\ CancelledJobs(Referenced) \in [Jobs -> JobType]
           /\ \A j \in Jobs : JobFits(j, CancelledJobs(Referenced)[j])
           /\ \A j \in Referenced : CancelledJobs(Referenced)[j] = Idle
           /\ \A j \in Jobs \ Referenced : CancelledJobs(Referenced)[j] = job[j]
           /\ \A j \in Jobs \ Referenced : Running(j) => j \notin {reconnectTask, auto}
<1>1. Referenced \subseteq Background /\ Background \subseteq Jobs
  BY DEF Referenced, ServiceInv, ServiceTypes, Background, Jobs
<1>2. \A j \in Jobs : CancelledJobs(Referenced)[j] = IF j \in Referenced THEN Idle ELSE job[j]
  BY DEF CancelledJobs
<1>3. \A j \in Jobs : JobFits(j, CancelledJobs(Referenced)[j])
  BY <1>2, IdleFits DEF ServiceInv, JobsFit
<1>4. CancelledJobs(Referenced) \in [Jobs -> JobType]
  <2>1. \A j \in Jobs : CancelledJobs(Referenced)[j] \in JobType
    BY <1>3 DEF JobFits
  <2> QED
    BY <1>2, <2>1 DEF CancelledJobs
<1>5. \A j \in Jobs \ Referenced : Running(j) => j \notin {reconnectTask, auto}
  BY ServiceAssumption DEF Referenced, Jobs, Background
<1> QED
  BY <1>1, <1>2, <1>3, <1>4, <1>5

LEMMA CancelReconnectKeeps == ASSUME ServiceInv, CancelReconnect PROVE ServiceInv'
<1> DEFINE S == Referenced
<1>1. /\ S \subseteq Background /\ Background \subseteq Jobs /\ Requests \subseteq Jobs
      /\ JobsFit'
      /\ \A j \in S : job'[j] = Idle
      /\ \A j \in Jobs \ S : job'[j] = job[j]
  BY CancelFacts DEF CancelReconnect, JobsFit, Jobs
<1>2. /\ Abandon(S) /\ holder' = HolderWithout(S) /\ queue' = QueueWithout(S)
      /\ UNCHANGED <<status, cancelConnect, lastMac, probe, quiet>>
      /\ userDisconnected' = TRUE /\ saved' \in {None, saved} /\ reconnecting' = FALSE
      /\ reconnectTask' \in {None, reconnectTask}
  BY DEF CancelReconnect, Unwind
<1> HIDE DEF S
<1>3. \A j \in S : ~Inside(job'[j]) /\ job'[j].pc = "idle"
  BY <1>1 DEF Idle, Inside, UnderLock
<1>4. LockInv'
  BY <1>1, <1>2, <1>3, LeaversLetGo DEF ServiceInv
<1>5. BusTypes' /\ OneSession' /\ iface' \in {iface, None} /\ chars' \in {chars, None}
  BY <1>1, <1>2, AbandonKeeps
<1>6. ServiceTypes'
  BY <1>2, <1>5 DEF ServiceInv, ServiceTypes, Address, BusTypes
<1>7. SessionInv'
  BY <1>1, <1>2, <1>3, <1>5, SessionLeft DEF ServiceInv, Down, Attempting
<1>8. ProbeOnlyDuringInit'
  BY <1>1, <1>2, ServiceAssumption DEF ServiceInv, ProbeOnlyDuringInit, Initialising, Background
<1>9. \A j \in Jobs : Running(j)' => Running(j)
  BY <1>1, <1>3 DEF Running
<1>10. LadderInv'
  BY <1>1, <1>2, <1>9 DEF ServiceInv, LadderInv, ReconnectingIsTrue, Background
<1>11. QuietInv'
  <2>1. \A r \in Requests : r \notin S
    BY <1>1, ServiceAssumption DEF Background
  <2> QED
    BY <1>1, <1>2, <1>9, <2>1 DEF ServiceInv, QuietInv
<1> QED
  BY <1>1, <1>4, <1>6, <1>7, <1>8, <1>10, <1>11 DEF ServiceInv

LEMMA StartEnsureKeeps ==
    ASSUME ServiceInv, NEW r \in Requests, NEW n \in Nodes, StartEnsure(r, n) PROVE ServiceInv'
<1> DEFINE S == Referenced
           rec == Job("ensure", n, "preempt")
<1>1. job[r].pc = "idle" /\ quiet' = "no"
  BY DEF StartEnsure, Free, Running
<1>2. CASE Referenced = {}
  BY <1>1, <1>2, EnsureGoesOnKeeps DEF StartEnsure
<1>3. CASE Referenced # {}
  <2>1. /\ Abandon(S) /\ holder' = HolderWithout(S) /\ queue' = QueueWithout(S)
        /\ job' = [CancelledJobs(S) EXCEPT ![r] = rec]
        /\ UNCHANGED <<status, cancelConnect, taskVars, userDisconnected, lastMac, saved, probe>>
    BY <1>3 DEF StartEnsure, Unwind
  <2>2. r \in Jobs /\ auto \in Jobs /\ r \notin Background /\ Requests \subseteq Jobs
    BY ServiceAssumption DEF Jobs, Background
  <2>3. JobFits(r, rec) /\ ~Inside(rec) /\ rec.pc = "preempt"
    BY <2>2, ServiceAssumption
       DEF JobFits, Job, JobType, Awaits, Background, Address, Inside, UnderLock
  <2>4. /\ S \subseteq Background /\ S \subseteq Jobs /\ JobsFit' /\ r \notin S
        /\ \A j \in S : job'[j] = Idle
        /\ job'[r] = rec
        /\ \A j \in Jobs \ (S \cup {r}) : job'[j] = job[j]
    BY <2>1, <2>2, <2>3, CancelFacts DEF JobsFit, JobFits
  <2> HIDE DEF S, rec
  <2>5. \A j \in S : ~Inside(job'[j]) /\ job'[j].pc = "idle"
    BY <2>4 DEF Idle, Inside, UnderLock
  <2>6. LockInv'
    <3>1. ~Inside(job[r])
      BY <1>1 DEF Inside, UnderLock
    <3> QED
      BY <1>1, <2>1, <2>3, <2>4, <2>5, <3>1, LeaversLetGo DEF ServiceInv
  <2>7. BusTypes' /\ OneSession' /\ iface' \in {iface, None} /\ chars' \in {chars, None}
    BY <2>1, <2>4, AbandonKeeps
  <2>8. ServiceTypes'
    BY <2>1, <2>7 DEF ServiceInv, ServiceTypes, taskVars, BusTypes
  <2>9. SessionInv'
    BY <2>1, <2>3, <2>4, <2>5, <2>7, SessionLeft DEF ServiceInv, Down, Attempting
  <2>10. ProbeOnlyDuringInit'
    BY <1>1, <2>1, <2>2, <2>4, ServiceAssumption
       DEF ServiceInv, ProbeOnlyDuringInit, Initialising, Background
  <2>11. LadderInv'
    <3>1. Running(auto)' => Running(auto)
      BY <2>2, <2>4, <2>5 DEF Running, Background
    <3>2. ReconnectingIsTrue'
      BY <2>3, <2>4 DEF ReconnectingIsTrue
    <3> QED
      BY <2>1, <3>1, <3>2 DEF ServiceInv, LadderInv, taskVars
  <2>12. QuietInv'
    BY <1>1 DEF QuietInv
  <2> QED
    BY <2>4, <2>6, <2>8, <2>9, <2>10, <2>11, <2>12 DEF ServiceInv
<1> QED
  BY <1>2, <1>3

(* A disconnect takes the lock or queues up behind the waiters that stay.  *)
LEMMA CallPastKeeps ==
    ASSUME LockInv, NEW S \in SUBSET Jobs, NEW r \in Jobs \ S, ~Inside(job[r]), job[r].pc # "wait",
           CallPast(S, r), \A j \in S : ~Inside(job'[j]) /\ job'[j].pc # "wait",
           \A j \in Jobs \ (S \cup {r}) : job'[j] = job[j],
           job'[r] = Job("disconnect", None, IF ~Busy /\ Waiting \subseteq S THEN "enter" ELSE "wait")
    PROVE  LockInv'
<1>0. None \notin Jobs /\ r \notin Waiting
  BY ServiceAssumption DEF Jobs, Background, Waiting
<1>1. CASE ~Busy /\ Waiting \subseteq S
  <2>1. holder' = r /\ queue' = {} /\ job'[r].pc = "enter" /\ Inside(job'[r])
    BY <1>1 DEF CallPast, Job, Inside, UnderLock
  <2>2. Waiting' = {}
    BY <1>1, <2>1 DEF Waiting
  <2>3. \A j \in Jobs : Inside(job'[j]) <=> holder' = j
    BY <1>0, <1>1, <2>1 DEF LockInv, Busy
  <2> QED
    BY <2>1, <2>2, <2>3 DEF LockInv
<1>2. CASE ~(~Busy /\ Waiting \subseteq S)
  <2>1. /\ holder' = HolderWithout(S) /\ queue' = QueueWithout(S) \cup ((Waiting \ S) \X {r})
        /\ job'[r].pc = "wait" /\ ~Inside(job'[r])
    BY <1>2 DEF CallPast, Job, Inside, UnderLock
  <2>2. Waiting' = (Waiting \ S) \cup {r}
    BY <2>1 DEF Waiting
  <2>3. \A j \in Jobs : Inside(job'[j]) <=> holder' = j
    BY <1>0, <2>1 DEF LockInv, HolderWithout
  <2>4. queue' \subseteq Waiting' \X Waiting'
    BY <2>1, <2>2 DEF LockInv, QueueWithout
  <2>5. \A i, k \in Waiting' : <<i, k>> \in queue' <=> i # k /\ <<k, i>> \notin queue'
    <3> SUFFICES ASSUME NEW i \in Waiting', NEW k \in Waiting'
                 PROVE  <<i, k>> \in queue' <=> i # k /\ <<k, i>> \notin queue'
      OBVIOUS
    <3>1. (i = r \/ k = r) => <<i, k>> \notin queue /\ <<k, i>> \notin queue
      BY <1>0 DEF LockInv
    <3>2. <<i, k>> \in queue' <=> (<<i, k>> \in queue \/ (i \in Waiting \ S /\ k = r))
      BY <2>1, <2>2, <3>1 DEF QueueWithout
    <3>3. <<k, i>> \in queue' <=> (<<k, i>> \in queue \/ (k \in Waiting \ S /\ i = r))
      BY <2>1, <2>2, <3>1 DEF QueueWithout
    <3>4. i \in Waiting \ S \/ i = r
      BY <2>2
    <3>5. k \in Waiting \ S \/ k = r
      BY <2>2
    <3> QED
      BY <1>0, <3>1, <3>2, <3>3, <3>4, <3>5 DEF LockInv
  <2> QED
    BY <2>3, <2>4, <2>5 DEF LockInv
<1> QED
  BY <1>1, <1>2

LEMMA StartDisconnectKeeps == ASSUME ServiceInv, NEW r \in Requests, StartDisconnect(r) PROVE ServiceInv'
<1> DEFINE S == Referenced
<1>1. /\ job[r].pc = "idle" /\ Abandon(S)
      /\ UNCHANGED <<status, lastMac, probe>>
      /\ userDisconnected' = TRUE /\ saved' \in {None, saved} /\ reconnecting' = FALSE
      /\ reconnectTask' \in {None, reconnectTask} /\ cancelConnect' \in {TRUE, cancelConnect}
  BY DEF StartDisconnect, Free, Running
<1>2. r \in Jobs /\ auto \in Jobs /\ r \notin Background /\ Requests \subseteq Jobs /\ ~Inside(job[r])
  BY <1>1, ServiceAssumption DEF Jobs, Background, Inside, UnderLock
<1>3. /\ S \subseteq Background /\ S \subseteq Jobs /\ r \notin S
      /\ CancelledJobs(S) \in [Jobs -> JobType]
      /\ \A j \in Jobs : JobFits(j, CancelledJobs(S)[j])
      /\ \A j \in S : CancelledJobs(S)[j] = Idle
      /\ \A j \in Jobs \ S : CancelledJobs(S)[j] = job[j]
      /\ \A j \in Jobs \ S : Running(j) => j \notin {reconnectTask, auto}
  BY <1>2, CancelFacts
<1>4. NoOther(r) => \A j \in Jobs \ (S \cup {r}) : ~Running(j)
  BY <1>3 DEF NoOther
<1> HIDE DEF S
<1>5. /\ JobsFit' /\ LockInv'
      /\ \A j \in S : job'[j].pc = "idle"
      /\ \A j \in Jobs \ (S \cup {r}) : job'[j] = job[j]
      /\ job'[r].pc \in {"idle", "enter", "wait"}
      /\ QuietInv'
  <2>1. CASE status = "disconnected"
    <3>1. /\ job' = CancelledJobs(S) /\ holder' = HolderWithout(S) /\ queue' = QueueWithout(S)
          /\ quiet' = IF NoOther(r) /\ saved' = None THEN "yes" ELSE "no"
      BY <2>1 DEF StartDisconnect, S
    <3>2. \A j \in S : ~Inside(job'[j]) /\ job'[j].pc = "idle"
      BY <1>3, <3>1 DEF Idle, Inside, UnderLock
    <3>3. LockInv'
      BY <1>3, <3>1, <3>2, LeaversLetGo DEF ServiceInv
    <3>4. JobsFit'
      BY <1>3, <3>1 DEF JobsFit
    <3>5. job'[r].pc = "idle"
      BY <1>1, <1>2, <1>3, <3>1
    <3>6. QuietInv'
      BY <1>1, <1>3, <1>4, <2>1, <3>1, <3>2, <3>5 DEF QuietInv, Running
    <3> QED
      BY <1>3, <3>1, <3>2, <3>3, <3>4, <3>5, <3>6
  <2>2. CASE status # "disconnected"
    <3> DEFINE rec == Job("disconnect", None, IF ~Busy /\ Waiting \subseteq S THEN "enter" ELSE "wait")
    <3>1. /\ CallPast(S, r) /\ job' = [CancelledJobs(S) EXCEPT ![r] = rec]
          /\ quiet' = IF NoOther(r) /\ saved' = None THEN "pending" ELSE "no"
      BY <2>2 DEF StartDisconnect, CallPast, S
    <3>2. rec.op = "disconnect" /\ rec.pc \in {"enter", "wait"} /\ JobFits(r, rec)
      <4>1. rec.op = "disconnect" /\ rec.pc \in {"enter", "wait"} /\ rec.try = 0 /\ rec \in JobType
        BY ServiceAssumption DEF Job, JobType, UnderLock, Address
      <4> QED
        BY <1>2, <4>1, ServiceAssumption DEF JobFits, Awaits, Background
    <3>3. job'[r] = rec /\ \A j \in Jobs \ {r} : job'[j] = CancelledJobs(S)[j]
      BY <1>2, <1>3, <3>1
    <3>4. \A j \in S : ~Inside(job'[j]) /\ job'[j].pc = "idle"
      BY <1>3, <3>3 DEF Idle, Inside, UnderLock
    <3>5. LockInv'
      BY <1>1, <1>2, <1>3, <3>1, <3>3, <3>4, CallPastKeeps DEF ServiceInv
    <3> HIDE DEF rec
    <3>6. JobsFit'
      BY <1>2, <1>3, <3>1, <3>2, <3>3 DEF JobsFit, JobFits
    <3>7. QuietInv'
      <4>1. CASE NoOther(r) /\ saved' = None
        <5>1. \A j \in Jobs \ {r} : ~Running(j)'
          BY <1>3, <1>4, <3>3, <3>4, <4>1 DEF Running
        <5> QED
          BY <1>1, <3>1, <3>2, <3>3, <4>1, <5>1 DEF QuietInv
      <4>2. CASE ~(NoOther(r) /\ saved' = None)
        BY <3>1, <4>2 DEF QuietInv
      <4> QED
        BY <4>1, <4>2
    <3> QED
      BY <1>3, <3>2, <3>3, <3>4, <3>5, <3>6, <3>7
  <2> QED
    BY <2>1, <2>2
<1>6. BusTypes' /\ OneSession' /\ iface' \in {iface, None} /\ chars' \in {chars, None}
  BY <1>1, <1>3, AbandonKeeps
<1>7. ServiceTypes'
  BY <1>1, <1>6 DEF ServiceInv, ServiceTypes, Address, BusTypes
<1>8. SessionInv'
  BY <1>1, <1>3, <1>5, <1>6, SessionLeft DEF ServiceInv, Down, Attempting
<1>9. ProbeOnlyDuringInit'
  <2>1. \A q \in Requests : q \notin S
    BY <1>3, ServiceAssumption DEF Background
  <2> QED
    BY <1>1, <1>2, <1>5, <2>1 DEF ServiceInv, ProbeOnlyDuringInit, Initialising
<1>10. LadderInv'
  <2>1. Running(auto)' => Running(auto)
    BY <1>2, <1>5 DEF Running, Background
  <2> QED
    BY <1>1, <2>1 DEF ServiceInv, LadderInv, ReconnectingIsTrue
<1> QED
  BY <1>5, <1>7, <1>8, <1>9, <1>10 DEF ServiceInv

-----------------------------------------------------------------------------
(* A lost link, and a restart.                                             *)

LEMMA DetectedKeeps == ASSUME ServiceInv, Detected, signals' \subseteq Nodes PROVE ServiceInv'
<1>1. /\ status' = "disconnected" /\ mac' = None /\ iface' = None /\ chars' = None /\ subscribed' = FALSE
      /\ attached' = "no" /\ stale' = Leftover /\ live' = live
      /\ probe' = IF userDisconnected THEN probe ELSE None
      /\ UNCHANGED <<links, lockVars, cancelConnect, reconnecting, userDisconnected, lastMac, saved, quiet>>
  BY DEF Detected, LoseSession, ResetSession, OnAdapterDisconnect
<1>2. CASE UNCHANGED <<job, reconnectTask>>
  <2>1. ServiceTypes'
    BY <1>1, <1>2, LeftoverType DEF ServiceInv, ServiceTypes, Address
  <2>2. JobsFit' /\ LockInv' /\ LadderInv'
    BY <1>1, <1>2
       DEF ServiceInv, JobsFit, LockInv, Waiting, LadderInv, ReconnectingIsTrue, Running, lockVars
  <2>3. SessionInv' /\ ProbeOnlyDuringInit' /\ QuietInv'
    BY <1>1, <1>2
       DEF ServiceInv, SessionInv, OneSession, Connected, ProbeOnlyDuringInit, Initialising,
       QuietInv, Running, Down, Attempting
  <2> QED
    BY <2>1, <2>2, <2>3 DEF ServiceInv
<1>3. CASE ~userDisconnected /\ ScheduleReconnect /\ ~UNCHANGED <<job, reconnectTask>>
  <2>1. PICK l \in Loops : /\ ~Running(l) /\ job' = [job EXCEPT ![l] = Job("reconnect", None, "start")]
                           /\ reconnectTask' = l
    BY <1>3 DEF ScheduleReconnect
  <2> DEFINE rec == Job("reconnect", None, "start")
  <2>2. /\ l \in Jobs /\ auto \in Jobs /\ l # auto /\ l \notin Requests /\ Requests \subseteq Jobs
        /\ Background \subseteq Jobs /\ ~Inside(job[l]) /\ job[l].pc = "idle"
    BY <2>1, ServiceAssumption DEF Jobs, Background, Running, Inside, UnderLock
  <2>3. JobFits(l, rec) /\ ~Inside(rec) /\ rec.pc = "start"
    BY <2>2, ServiceAssumption DEF JobFits, Job, JobType, Awaits, Address, Inside, UnderLock
  <2> HIDE DEF rec
  <2>4. JobsFit' /\ job'[l] = rec /\ \A k \in Jobs \ {l} : job'[k] = job[k]
    BY <2>1, <2>2, <2>3, OneMoves DEF ServiceInv, rec
  <2>5. LockInv'
    BY <1>1, <2>2, <2>3, <2>4, LockStays DEF ServiceInv
  <2>6. ServiceTypes'
    BY <1>1, <2>1, LeftoverType DEF ServiceInv, ServiceTypes, Address
  <2>7. SessionInv' /\ ProbeOnlyDuringInit'
    BY <1>1, <1>3 DEF SessionInv, OneSession, Connected, ProbeOnlyDuringInit, Down, Attempting
  <2>8. LadderInv'
    <3>1. Running(auto)' <=> Running(auto)
      BY <2>2, <2>4 DEF Running
    <3>2. ReconnectingIsTrue'
      BY <1>1, <2>2, <2>3, <2>4 DEF ServiceInv, LadderInv, ReconnectingIsTrue, Running
    <3> QED
      BY <1>1, <3>1, <3>2 DEF ServiceInv, LadderInv
  <2>9. QuietInv'
    BY <1>1, <1>3 DEF ServiceInv, QuietInv
  <2> QED
    BY <2>4, <2>5, <2>6, <2>7, <2>8, <2>9 DEF ServiceInv
<1> QED
  BY <1>2, <1>3 DEF Detected, OnAdapterDisconnect

(* Only the links and the signals of BlueZ change.                         *)
LEMMA LinksMoveKeeps ==
    ASSUME ServiceInv, links' \subseteq Nodes, signals' \subseteq Nodes,
           UNCHANGED <<lockVars, adapterVars, job, taskVars, memoryVars>>
    PROVE  ServiceInv'
<1>1. UNCHANGED <<status, mac, iface, chars, live, subscribed, attached, stale, cancelConnect, holder, queue, job,
                  reconnecting, reconnectTask, userDisconnected, lastMac, saved, probe, quiet>>
  BY DEF lockVars, adapterVars, sessionVars, busVars, taskVars, memoryVars
<1>2. ServiceTypes'
  BY <1>1 DEF ServiceInv, ServiceTypes
<1>3. JobsFit' /\ LockInv' /\ LadderInv'
  BY <1>1 DEF ServiceInv, JobsFit, LockInv, Waiting, LadderInv, ReconnectingIsTrue, Running
<1>4. SessionInv' /\ ProbeOnlyDuringInit' /\ QuietInv'
  BY <1>1 DEF ServiceInv, SessionInv, OneSession, Connected, ProbeOnlyDuringInit, Initialising,
     QuietInv, Running, Down, Attempting
<1> QED
  BY <1>2, <1>3, <1>4 DEF ServiceInv

LEMMA BlueZKeeps == ASSUME ServiceInv, BlueZ PROVE ServiceInv'
<1>1. ASSUME NEW n \in Nodes, SignalArrives(n) PROVE ServiceInv'
  <2>1. signals' \subseteq Nodes
    BY <1>1 DEF ServiceInv, ServiceTypes, SignalArrives
  <2>2. CASE status = "disconnected" \/ ~Heard(n)
    BY <1>1, <2>1, <2>2, LinksMoveKeeps DEF SignalArrives, ServiceInv, ServiceTypes
  <2>3. CASE ~(status = "disconnected" \/ ~Heard(n))
    BY <1>1, <2>1, <2>3, DetectedKeeps DEF SignalArrives
  <2> QED
    BY <2>2, <2>3
<1>2. ASSUME NEW n \in Nodes, LinkLost(n) PROVE ServiceInv'
  <2>1. links' \subseteq Nodes /\ signals' \subseteq Nodes
    BY <1>2 DEF ServiceInv, ServiceTypes, LinkLost, LinkDown
  <2> QED
    BY <1>2, <2>1, LinksMoveKeeps DEF LinkLost
<1>3. CASE WriteFails
  BY <1>3, DetectedKeeps DEF WriteFails, ServiceInv, ServiceTypes
<1> QED
  BY <1>1, <1>2, <1>3 DEF BlueZ

(* A service that begins, on the node of its state file.                   *)
LEMMA StartingHolds ==
    ASSUME NEW n \in Address, job' = StartupJobs(n), lastMac' = IF AutoConnect THEN n ELSE None,
           holder' = None, queue' = {}, status' = "disconnected", reconnecting' = FALSE, probe' = None,
           quiet' = "no", ServiceTypes'
    PROVE  ServiceInv'
<1>1. \A j \in Jobs : job'[j] = IF j = auto /\ AutoConnect /\ n # None THEN Job("auto", n, "sleep") ELSE Idle
  BY DEF StartupJobs
<1>2. n # None => JobFits(auto, Job("auto", n, "sleep"))
  BY ServiceAssumption DEF JobFits, Job, JobType, Awaits, Connecting, Address
<1>3. JobsFit'
  <2>1. \A j \in Jobs : JobFits(j, job'[j])
    BY <1>1, <1>2, IdleFits
  <2>2. \A j \in Jobs : job'[j] \in JobType
    BY <2>1 DEF JobFits
  <2>3. job' \in [Jobs -> JobType]
    BY <2>2 DEF StartupJobs
  <2> QED
    BY <2>1, <2>3 DEF JobsFit
<1>4. \A j \in Jobs : ~Inside(job'[j]) /\ job'[j].pc \notin Down \cup {"wait"}
  BY <1>1 DEF Job, Idle, Inside, UnderLock, Down, Attempting
<1>5. LockInv'
  <2>1. Waiting' = {} /\ None \notin Jobs
    BY <1>4, ServiceAssumption DEF Waiting, Jobs, Background
  <2> QED
    BY <1>4, <2>1 DEF LockInv
<1>6. SessionInv' /\ ProbeOnlyDuringInit' /\ QuietInv'
  <2>1. SessionInv'
    BY <1>4 DEF SessionInv, OneSession, Connected, Down, Attempting
  <2> QED
    BY <2>1 DEF ProbeOnlyDuringInit, QuietInv
<1>7. LadderInv'
  <2>1. Running(auto)' => AutoConnect /\ n # None
    BY <1>1 DEF Running, Idle, Jobs, Background
  <2> QED
    BY <2>1 DEF LadderInv, ReconnectingIsTrue
<1> QED
  BY <1>3, <1>5, <1>6, <1>7 DEF ServiceInv

LEMMA ServiceComesBackKeeps == ASSUME ServiceInv, ServiceComesBack PROVE ServiceInv'
<1>1. saved \in Address
  BY DEF ServiceInv, ServiceTypes
<1>2. ServiceTypes'
  BY <1>1, NoHandlersType
     DEF ServiceInv, ServiceTypes, ServiceComesBack, DropBus, ResetSession, Address
<1> QED
  BY <1>1, <1>2, StartingHolds DEF ServiceComesBack

LEMMA ServiceBegins == ASSUME ServiceInit PROVE ServiceInv
<1>1. \A j \in Jobs : job[j] = Idle
  BY DEF ServiceInit, StartupJobs
<1>2. JobsFit
  <2>1. \A j \in Jobs : JobFits(j, job[j])
    BY <1>1, IdleFits
  <2>2. job \in [Jobs -> JobType]
    BY <2>1 DEF JobFits, ServiceInit, StartupJobs
  <2> QED
    BY <2>1, <2>2 DEF JobsFit
<1>3. \A j \in Jobs : ~Inside(job[j]) /\ job[j].pc = "idle"
  BY <1>1 DEF Idle, Inside, UnderLock
<1>4. LockInv
  <2>1. Waiting = {} /\ None \notin Jobs
    BY <1>3, ServiceAssumption DEF Waiting, Jobs, Background
  <2> QED
    BY <1>3, <2>1 DEF ServiceInit, LockInv
<1>5. ServiceTypes
  BY NoHandlersType DEF ServiceInit, ServiceTypes, Address
<1>6. SessionInv /\ ProbeOnlyDuringInit /\ QuietInv
  BY DEF ServiceInit, SessionInv, OneSession, Connected, ProbeOnlyDuringInit, QuietInv, Down, Attempting
<1>7. LadderInv
  BY <1>3 DEF ServiceInit, LadderInv, ReconnectingIsTrue, Running, Jobs, Background
<1> QED
  BY <1>2, <1>4, <1>5, <1>6, <1>7 DEF ServiceInv

-----------------------------------------------------------------------------
LEMMA JobStepKeeps == ASSUME ServiceInv, NEW j \in Jobs, JobStep(j) PROVE ServiceInv'
BY LoopStartsKeeps, LoopWakesKeeps, EnterConnectKeeps, DialUpKeeps, DialFailsKeeps, AsksKeeps,
   ReadFoundKeeps, ResolvedKeeps, NameReadKeeps, MtuReadKeeps, TryAgainKeeps, ConnectFailsKeeps, NotifyStartsKeeps, NotifyFailsKeeps, InitEndsKeeps,
   LeavesForNextKeeps, LeaveEndsKeeps, EnterDisconnectKeeps, PreemptedKeeps DEF JobStep

LEMMA ServiceStutters == ASSUME ServiceInv, UNCHANGED serviceVars PROVE ServiceInv'
BY LinksMoveKeeps DEF serviceVars, bluezVars, ServiceInv, ServiceTypes

LEMMA ServiceNextKeeps == ASSUME ServiceInv, [ServiceNext]_serviceVars PROVE ServiceInv'
<1>1. ASSUME NEW j \in Jobs, JobStep(j) PROVE ServiceInv'
  BY <1>1, JobStepKeeps
<1>2. CASE Deadline
  BY <1>2, EnsureTimesOutKeeps, AutoTimesOutKeeps DEF Deadline
<1>3. CASE Route
  BY <1>3, StartConnectKeeps, StartEnsureKeeps, StartDisconnectKeeps, CancelReconnectKeeps DEF Route
<1>4. (IF Entering = {} THEN Jobs ELSE Entering) \subseteq Jobs
  BY DEF Entering
<1> QED
  BY <1>1, <1>2, <1>3, <1>4, BlueZKeeps, ServiceComesBackKeeps, ServiceStutters DEF ServiceNext

(* The inductive invariant: the jobs fit their kinds, the lock has one     *)
(* holder and its waiters an order, a job that takes the adapter down or   *)
(* brings it up finds it not connected, the probe belongs to a request     *)
(* that initialises, and a quiet service has nothing running               *)
(* (BLEAdapter._operation_lock, ServiceState).                             *)
THEOREM ServiceStaysOrderly == ServiceSpec => []ServiceInv
<1>1. ServiceInit => ServiceInv
  BY ServiceBegins
<1>2. ServiceInv /\ [ServiceNext]_serviceVars => ServiceInv'
  BY ServiceNextKeeps
<1> QED
  BY <1>1, <1>2, PTL DEF ServiceSpec

(* The flags of ServiceState say what is going on: one job is inside the   *)
(* adapter, pin_probe_deadline is armed only while its ensure_connected    *)
(* initialises, and "reconnecting" means that a loop runs or is cancelled. *)
THEOREM FlagsStayTrue == ServiceSpec => []FlagsAreTrue
<1>1. ServiceInv => FlagsAreTrue
  <2> SUFFICES ASSUME ServiceInv PROVE FlagsAreTrue
    OBVIOUS
  <2>1. job \in [Jobs -> JobType]
    BY DEF ServiceInv, JobsFit
  <2>2. \A j \in Jobs : (job[j].pc \in UnderLock \/ (Ensures(j) /\ job[j].pc = "notify")) <=> holder = j
    BY DEF ServiceInv, LockInv, Inside, Ensures
  <2>3. ServiceTypeOK
    BY <2>1, <2>2 DEF ServiceInv, ServiceTypes, LockInv, JobType, ServiceTypeOK
  <2> QED
    BY <2>3 DEF ServiceInv, LadderInv, FlagsAreTrue
<1> QED
  BY <1>1, ServiceStaysOrderly, PTL

(* The session is of one node, _connected_mac and dev_iface alike, and     *)
(* after an answered /disconnect no task brings one back.                  *)
THEOREM SessionStaysWanted == ServiceSpec => []SessionIsWanted
<1>1. ServiceInv => SessionIsWanted
  BY
     DEF ServiceInv, SessionInv, QuietInv, SessionIsWanted, QuietAfterDisconnect, Connected, Background, Jobs, Down, Attempting
<1> QED
  BY <1>1, ServiceStaysOrderly, PTL

(* Who closes the bus: a reset while nobody initialises, or a job under    *)
(* the lock; or the service is gone.                                       *)
LEMMA AbandonBus ==
    ASSUME LockInv, NEW S \in SUBSET Jobs, Abandon(S), live' # live
    PROVE  \E j \in Jobs : holder = j
BY DEF Abandon, busVars, LockInv, Inside, UnderLock

LEMMA BusIsKept ==
    ASSUME ServiceInv, [ServiceNext]_serviceVars, live, ~live', NEW r \in Requests,
           r \in Initialising, r \in Initialising'
    PROVE  \E j \in Jobs : holder = j
<1>0. LockInv /\ Initialising # {} /\ ~ResetBus
  BY DEF ServiceInv, ResetBus, MayReset, busVars
<1>1. ASSUME NEW j \in Jobs, JobStep(j) PROVE holder = j
  <2>1. CASE TryAgain(j) \/ ConnectFails(j)
    BY <2>1, UnderLockFacts DEF TryAgain, ConnectFails
  <2>2. CASE LeavesForNext(j) \/ LeaveEnds(j)
    BY <2>2, LeaveFacts DEF LeavesForNext, LeaveEnds
  <2>3. /\ ~LoopStarts(j) /\ ~DialUp(j) /\ ~DialFails(j) /\ ~Asks(j)
        /\ ~ReadFound(j) /\ ~Resolved(j) /\ ~NameRead(j) /\ ~MtuRead(j)
    BY DEF LoopStarts, DialUp, DialFails, Asks, ReadFound, Resolved, NameRead, MtuRead, adapterVars,
       busVars
  <2>4. ~LoopWakes(j)
    BY <1>0 DEF LoopWakes, busVars
  <2>5. ~EnterConnect(j)
    BY
       DEF EnterConnect, AlreadyThere, LeaveFirst, DialAtOnce, LeaveStarts, Dial, NewProxies, busVars
  <2>6. ~NotifyStarts(j) /\ ~NotifyFails(j) /\ ~InitEnds(j)
    BY DEF NotifyStarts, NotifyFails, InitEnds, LeaveStarts, adapterVars, busVars
  <2>7. ~EnterDisconnect(j) /\ ~Preempted(j)
    BY DEF EnterDisconnect, Preempted, EnsureGoesOn, LeaveStarts, adapterVars, busVars
  <2> QED
    BY <1>1, <2>1, <2>2, <2>3, <2>4, <2>5, <2>6, <2>7 DEF JobStep
<1>2. CASE Deadline
  <2>1. Requests \subseteq Jobs /\ auto \in Jobs
    BY DEF Jobs, Background
  <2> QED
    BY <1>0, <1>2, <2>1, AbandonBus DEF Deadline, EnsureTimesOut, AutoTimesOut, Unwind
<1>3. CASE Route
  <2>1. Referenced \subseteq Jobs
    BY CancelFacts
  <2>2. CASE CancelReconnect
    BY <1>0, <2>1, <2>2, AbandonBus DEF CancelReconnect, Unwind
  <2>3. ASSUME NEW q \in Requests, StartDisconnect(q) PROVE \E j \in Jobs : holder = j
    BY <1>0, <2>1, <2>3, AbandonBus DEF StartDisconnect
  <2>4. ASSUME NEW q \in Requests, NEW n \in Nodes, StartConnect(q, n) PROVE FALSE
    BY <1>0, <2>4 DEF StartConnect
  <2>5. ASSUME NEW q \in Requests, NEW n \in Nodes, StartEnsure(q, n) PROVE \E j \in Jobs : holder = j
    BY <1>0, <2>1, <2>5, AbandonBus DEF StartEnsure, Unwind, EnsureGoesOn, adapterVars, busVars
  <2> QED
    BY <1>3, <2>2, <2>3, <2>4, <2>5 DEF Route
<1>4. ~BlueZ
  BY DEF BlueZ, SignalArrives, LinkLost, WriteFails, Detected, LoseSession, adapterVars, busVars
<1>5. ~ServiceComesBack
  BY DEF ServiceComesBack, Initialising, StartupJobs, Job, Idle, Jobs
<1>6. ~UNCHANGED serviceVars
  BY DEF serviceVars, adapterVars, busVars
<1>7. (IF Entering = {} THEN Jobs ELSE Entering) \subseteq Jobs
  BY DEF Entering
<1> QED
  BY <1>1, <1>2, <1>3, <1>4, <1>5, <1>6, <1>7 DEF ServiceNext

(* reset_bus in _connect_and_initialize, and all else that closes the bus, *)
(* spares an ensure_connected that is initialising outside the lock.       *)
THEOREM BusStaysForInit == ServiceSpec => BusKeptForInit
<1>1. ServiceInv /\ [ServiceNext]_serviceVars
        => [\A r \in Requests : r \in Initialising /\ r \in Initialising' /\ live /\ ~live'
              => \E j \in Jobs : holder = j]_serviceVars
  BY BusIsKept
<1> QED
  BY <1>1, ServiceStaysOrderly, PTL DEF ServiceSpec, BusKeptForInit
=============================================================================
