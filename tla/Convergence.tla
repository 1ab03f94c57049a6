---------------------------- MODULE Convergence ----------------------------
(***************************************************************************)
(* Launching the update runner (system_converge.py, launch_update_runner   *)
(* of sse_handler.py, the entry of update-runner.py, the path unit of      *)
(* systemd).                                                               *)
(*                                                                         *)
(* A launch writes an args file, then a trigger file.  systemd starts the  *)
(* runner while the trigger is there and no runner runs; the runner reads  *)
(* the args, removes both files, and opens its port only then.  A user's   *)
(* launch asks for the port; the watchdog of a process whose box lags      *)
(* behind waits until port and trigger have been quiet for a while, notes  *)
(* the boot it tried in, and launches a converge.  Nothing locks the two   *)
(* files.                                                                  *)
(***************************************************************************)
EXTENDS Lifecycle

CONSTANTS
    None,
    Plans,      \* what the world does here, see the variable plan
    Users,      \* requests for an update, a rollback or a converge
    Quiet,      \* _IDLE_PROBE_REQUIRED_CONSECUTIVE
    Patience    \* probes within _IDLE_WAIT_CAP_S

Dog == "dog"    \* the watchdog's launch

ASSUME LaunchersAssumption ==
    /\ Users \cap {Dog, "torn"} = {}
    /\ None \notin Users \cup {Dog, "torn"}

VARIABLES
    plan,       \* users to ask, reboots, whether bootstraps and the sanity guard are good, and
                \* whether the path unit gives up after a failed start
    current,    \* the installed epoch is the one this release requires
    boot,       \* boot_id
    attempt,    \* CONVERGE_ATTEMPT_FILE
    args,       \* UPDATE_ARGS_FILE: None, "torn" or whose args
    trigger,    \* UPDATE_TRIGGER_FILE exists
    deaf,       \* the path unit has failed
    runner,     \* stage and job
    user,       \* user -> how far its launch is
    dog,        \* stage, quiet probes in a row, probes, whether the port was closed
    answered,   \* history: launches answered "launched"
    taken,      \* history: launches a runner took up
    crossed,    \* history: launches another one, or the start of a runner, cut across
    tries       \* history: the watchdog's launches in this boot

files == <<args, trigger>>
past == <<answered, taken, crossed, tries>>
convVars == <<plan, current, boot, attempt, files, deaf, runner, user, dog, past>>
vars == <<lifeVars, convVars>>

NoRunner == [stage |-> "off", job |-> None]
Asleep == [stage |-> "off", quiet |-> 0, probes |-> 0, closed |-> FALSE]
PortOpen == runner.stage \in {"working", "grace"}
Consuming == runner.stage \in {"read", "unlinkArgs", "unlinkTrigger"}
Lagging == ~current

\* A launch that has begun to write its files and is not done.
Midway == {u \in Users : user[u] \in {"torn", "args", "trigger"}}
            \cup (IF dog.stage \in {"torn", "args", "trigger"} THEN {Dog} ELSE {})

ConvInit ==
    /\ plan \in Plans
    /\ current = FALSE
    /\ boot = 1 /\ attempt = 0
    /\ args = None /\ trigger = FALSE /\ deaf = FALSE
    /\ runner = NoRunner
    /\ user = [u \in Users |-> "idle"]
    /\ dog = Asleep
    /\ answered = {} /\ taken = {} /\ crossed = {} /\ tries = 0

-----------------------------------------------------------------------------
(* The two files: write_text truncates, then writes, each file in a thread *)

\* Mutant: the trigger is written before the args.
Sequel_TriggerFirst == [probe |-> "trigger", trigger |-> "torn", torn |-> "args", args |-> "end"]

\* launch_update_runner and _trigger_converge_runner, after the probe
Sequel == [probe |-> "torn", torn |-> "args", args |-> "trigger", trigger |-> "end"]

\* The write that launch x does at this point, and those it cuts across.
Put(x, at) ==
    CASE at = "torn" ->
           /\ args' = "torn"
           /\ crossed' = crossed \cup ({args} \ {None, "torn"}) \cup (Midway \ {x})
                           \cup (IF Consuming \/ Midway \ {x} # {} THEN {x} ELSE {})
           /\ UNCHANGED trigger
      [] at = "args" -> args' = x /\ UNCHANGED <<trigger, crossed>>
      [] at = "trigger" -> trigger' = TRUE /\ UNCHANGED <<args, crossed>>

-----------------------------------------------------------------------------
(* launch_update_runner *)

\* The port is closed, or the request is refused.
Ask(u) ==
    /\ u \in plan.users /\ "sse" \in up
    /\ plan' = [plan EXCEPT !.users = @ \ {u}]
    /\ user' = [user EXCEPT ![u] = IF PortOpen THEN "refused" ELSE Sequel["probe"]]
    /\ UNCHANGED <<lifeVars, current, boot, attempt, files, deaf, runner, dog, past>>

LaunchStep(u) ==
    /\ Alive
    /\ user[u] \in {"torn", "args", "trigger"}
    /\ Put(u, user[u])
    /\ user' = [user EXCEPT ![u] = Sequel[@]]
    /\ answered' = IF Sequel[user[u]] = "end" THEN answered \cup {u} ELSE answered
    /\ UNCHANGED <<lifeVars, plan, current, boot, attempt, deaf, runner, dog, taken, tries>>

-----------------------------------------------------------------------------
(* converge_watchdog *)

DogRuns == "converge" \in loops

\* Mutant: the attempt is noted when it has been launched.
AfterProbe_LaunchFirst == [settled |-> "torn", trigger |-> "record", record |-> "sleep"]

\* _do_attempt
AfterProbe == [settled |-> "record", record |-> "torn", trigger |-> "sleep"]

GoTo(s) == dog' = [dog EXCEPT !.stage = s]

DogVars == <<lifeVars, plan, current, boot, deaf, runner, user, answered, taken>>

\* _run_converge_loop: current, tried in this boot already, or to be tried.
DogLooks ==
    /\ dog.stage = "top"
    /\ dog' = IF ~Lagging THEN [Asleep EXCEPT !.stage = "over"]
              ELSE IF attempt = boot THEN [Asleep EXCEPT !.stage = "sleep"]
              ELSE [Asleep EXCEPT !.stage = "port"]
    /\ UNCHANGED <<DogVars, attempt, files, crossed, tries>>

\* _probe_runner_idle: the port, and then the trigger file.
ProbePort ==
    /\ dog.stage = "port"
    /\ dog' = [dog EXCEPT !.stage = "file", !.closed = ~PortOpen]
    /\ UNCHANGED <<DogVars, attempt, files, crossed, tries>>

\* Mutant: the cap counts idle probes only.
OutOfPatience_Idle(probes, quiet) == probes >= Patience /\ quiet > 0

OutOfPatience(probes, quiet) == probes >= Patience

\* _wait_for_runner_idle
ProbeFile ==
    LET q == IF dog.closed /\ ~trigger THEN dog.quiet + 1 ELSE 0
        n == IF dog.probes < Patience THEN dog.probes + 1 ELSE Patience IN
    /\ dog.stage = "file"
    /\ dog' = [dog EXCEPT !.quiet = q, !.probes = n, !.closed = FALSE,
                          !.stage = IF q = Quiet THEN "settled"
                                    ELSE IF OutOfPatience(n, q) THEN "giveUp" ELSE "port"]
    /\ UNCHANGED <<DogVars, attempt, files, crossed, tries>>

\* Somebody else may have done it; the slot may not be fit for it.
DogDecides ==
    /\ dog.stage = "settled"
    /\ GoTo(IF ~Lagging THEN "sleep" ELSE IF plan.sane THEN AfterProbe["settled"] ELSE "giveUp")
    /\ UNCHANGED <<DogVars, attempt, files, crossed, tries>>

\* _record_attempt, with or without a launch to follow
DogRecords ==
    /\ dog.stage \in {"record", "giveUp"}
    /\ attempt' = boot
    /\ GoTo(IF dog.stage = "record" THEN AfterProbe["record"] ELSE "sleep")
    /\ UNCHANGED <<DogVars, files, crossed, tries>>

DogLaunches ==
    /\ dog.stage \in {"torn", "args", "trigger"}
    /\ Put(Dog, dog.stage)
    /\ tries' = IF dog.stage = "trigger" THEN tries + 1 ELSE tries
    /\ GoTo(IF Sequel[dog.stage] # "end" THEN Sequel[dog.stage] ELSE AfterProbe["trigger"])
    /\ UNCHANGED <<DogVars, attempt>>

\* _RECHECK_INTERVAL_S has passed.
DogWakes ==
    /\ dog.stage = "sleep" /\ plan.wakes > 0
    /\ plan' = [plan EXCEPT !.wakes = @ - 1]
    /\ GoTo("top")
    /\ UNCHANGED <<lifeVars, current, boot, deaf, runner, user, answered, taken, attempt, files,
                   crossed, tries>>

DogStep == DogRuns /\ (DogLooks \/ ProbePort \/ ProbeFile \/ DogDecides \/ DogRecords \/ DogLaunches)

-----------------------------------------------------------------------------
(* The path unit and the runner *)

UnitStarts ==
    /\ trigger /\ ~deaf /\ runner = NoRunner
    /\ runner' = [stage |-> "read", job |-> None]
    /\ UNCHANGED <<lifeVars, plan, current, boot, attempt, files, deaf, user, dog, past>>

\* Half a file is no JSON: the runner dies with the trigger still there; after some
\* such starts systemd gives up.
RunnerReads ==
    /\ runner.stage = "read"
    /\ IF args = "torn"
       THEN /\ runner' = NoRunner
            /\ deaf' \in (IF plan.strict THEN {FALSE, TRUE} ELSE {FALSE})
            /\ UNCHANGED taken
       ELSE /\ runner' = [stage |-> "unlinkArgs", job |-> args]
            /\ taken' = taken \cup ({args} \ {None})
            /\ UNCHANGED deaf
    /\ UNCHANGED <<lifeVars, plan, current, boot, attempt, files, user, dog, answered, crossed, tries>>

RunnerUnlinksArgs ==
    /\ runner.stage = "unlinkArgs"
    /\ args' = None
    /\ runner' = [runner EXCEPT !.stage = "unlinkTrigger"]
    /\ UNCHANGED <<lifeVars, plan, current, boot, attempt, trigger, deaf, user, dog, past>>

\* Without a mode there is nothing to run.
RunnerUnlinksTrigger ==
    /\ runner.stage = "unlinkTrigger"
    /\ trigger' = FALSE
    /\ runner' = IF runner.job = None THEN NoRunner ELSE [runner EXCEPT !.stage = "starting"]
    /\ UNCHANGED <<lifeVars, plan, current, boot, attempt, args, deaf, user, dog, past>>

RunnerListens ==
    /\ runner.stage = "starting"
    /\ runner' = [runner EXCEPT !.stage = "working"]
    /\ UNCHANGED <<lifeVars, plan, current, boot, attempt, files, deaf, user, dog, past>>

\* A bootstrap in converge mode that succeeds writes the epoch.
RunnerWorks ==
    /\ runner.stage = "working"
    /\ runner' = [runner EXCEPT !.stage = "grace"]
    /\ current' = (current \/ plan.good)
    /\ UNCHANGED <<lifeVars, plan, boot, attempt, files, deaf, user, dog, past>>

\* GRACE_PERIOD_S is over, or systemd's start timeout.
RunnerEnds ==
    /\ PortOpen
    /\ runner' = NoRunner
    /\ UNCHANGED <<lifeVars, plan, current, boot, attempt, files, deaf, user, dog, past>>

RunnerStep ==
    \/ UnitStarts \/ RunnerReads \/ RunnerUnlinksArgs \/ RunnerUnlinksTrigger
    \/ RunnerListens \/ RunnerWorks \/ RunnerEnds

-----------------------------------------------------------------------------
(* Steps of the process, and of the box *)

Dropped == [u \in Users |-> IF u \in Midway THEN "dropped" ELSE user[u]]

\* The watchdog starts with the other loops and is cancelled with them; requests go
\* on until the process ends.
ProcessStep ==
    /\ LifeNext
    /\ dog' = IF ~DogRuns /\ "converge" \in loops'
              THEN [Asleep EXCEPT !.stage = IF Lagging THEN "top" ELSE "over"]
              ELSE IF "converge" \in loops' THEN dog ELSE Asleep
    /\ user' = IF stage' = "gone" THEN Dropped ELSE user
    /\ UNCHANGED <<plan, current, boot, attempt, files, deaf, runner, past>>

\* The files outlast a reboot.
Reboot ==
    /\ plan.reboots > 0
    /\ plan' = [plan EXCEPT !.reboots = @ - 1]
    /\ boot' = boot + 1
    /\ tries' = 0
    /\ runner' = NoRunner /\ deaf' = FALSE
    /\ dog' = Asleep
    /\ user' = Dropped
    /\ Gone("reboot")
    /\ UNCHANGED <<agenda, current, attempt, files, answered, taken, crossed>>

Init == LifeInit /\ ConvInit

Next ==
    \/ \E u \in Users : Ask(u) \/ LaunchStep(u)
    \/ DogStep
    \/ DogRuns /\ DogWakes
    \/ RunnerStep \/ ProcessStep \/ Reboot

\* The event loop, main on its ladder, and systemd with the runner it starts.
Fairness == WF_vars(DogStep) /\ WF_vars(RunnerStep) /\ WF_vars(ProcessStep /\ LadderStep)

Spec == Init /\ [][Next]_vars /\ Fairness

-----------------------------------------------------------------------------
(* Properties *)

\* A launch that was answered is taken up by a runner or waits for one with its args
\* and its trigger, unless another launch or the start of a runner cut across it while
\* it wrote its files or they waited (launch_update_runner, main of update-runner.py).
LaunchedRuns ==
    answered \subseteq taken \cup crossed \cup (IF trigger THEN {args} ELSE {})

\* The watchdog launches at most once in a boot, however often the service restarts
\* (_do_attempt, _record_attempt).
OncePerBoot == tries <= 1

\* The watchdog does not wait for ever on a runner or a trigger that never goes: in the
\* end the box is current, the boot noted, or the process stopped
\* (_wait_for_runner_idle).
DogSettles == dog.stage = "port" ~> (current \/ attempt = boot \/ ~DogRuns)
=============================================================================
