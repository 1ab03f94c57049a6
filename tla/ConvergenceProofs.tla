-------------------------- MODULE ConvergenceProofs --------------------------
(***************************************************************************)
(* For any users, plans, agendas and patience: the watchdog launches once  *)
(* in a boot at most, since it notes the boot before it writes a file; and *)
(* a launch that was answered is with a runner, or waits whole, or was     *)
(* crossed by another writer.  On the way down nothing hydrates registers    *)
(* once the client of the BLE service is being stopped.                    *)
(***************************************************************************)
EXTENDS Convergence, TLAPS

OutsideDog == {"stage", "quiet", "probes", "closed"}

Busy == {"port", "file", "settled", "giveUp", "record", "torn", "args", "trigger"}

(* An attempt in progress after its note, and one that is over, are noted  *)
(* for this boot; no second one is begun.                                  *)
OnceInv ==
    /\ DOMAIN dog = OutsideDog
    /\ boot \in Nat /\ attempt \in Nat /\ attempt <= boot
    /\ tries \in {0, 1}
    /\ dog.stage \in {"torn", "args", "trigger"} => attempt = boot
    /\ tries = 1 => attempt = boot /\ dog.stage \notin Busy

LEMMA OnceInit == Init => OnceInv
BY DEF Init, ConvInit, OnceInv, Asleep, OutsideDog

LEMMA OnceNext == OnceInv /\ [Next]_vars => OnceInv'
<1> SUFFICES ASSUME OnceInv, [Next]_vars PROVE OnceInv'
  OBVIOUS
<1>0. ASSUME UNCHANGED <<boot, attempt, tries>>, DOMAIN dog' = OutsideDog,
             dog'.stage \notin Busy \/ dog' = dog
      PROVE  OnceInv'
  BY <1>0 DEF OnceInv, Busy
<1>1. ASSUME NEW u \in Users, Ask(u) \/ LaunchStep(u) PROVE OnceInv'
  <2>1. UNCHANGED <<boot, attempt, tries, dog>>
    BY <1>1 DEF Ask, LaunchStep, past
  <2> QED BY <1>0, <2>1 DEF OnceInv
<1>2. CASE DogLooks
  <2>1. UNCHANGED <<boot, attempt, tries>>
    BY <1>2 DEF DogLooks, DogVars
  <2>2. CASE attempt = boot \/ ~Lagging
    BY <1>0, <1>2, <2>1, <2>2 DEF DogLooks, Asleep, OutsideDog, Busy
  <2>3. CASE attempt # boot /\ Lagging
    <3>1. dog' = [Asleep EXCEPT !.stage = "port"]
      BY <1>2, <2>3 DEF DogLooks
    <3> QED BY <2>1, <2>3, <3>1 DEF OnceInv, Asleep, OutsideDog
  <2> QED BY <2>2, <2>3
<1>3. CASE ProbePort \/ ProbeFile \/ DogDecides
  <2>1. UNCHANGED <<boot, attempt, tries>>
    BY <1>3 DEF ProbePort, ProbeFile, DogDecides, DogVars
  <2>2. dog.stage \in Busy /\ tries = 0
    BY <1>3 DEF ProbePort, ProbeFile, DogDecides, OnceInv, Busy
  <2>3. DOMAIN dog' = OutsideDog
    BY <1>3 DEF ProbePort, ProbeFile, DogDecides, GoTo, OnceInv, OutsideDog
  <2>4. dog'.stage \notin {"torn", "args", "trigger"}
    BY <1>3 DEF ProbePort, ProbeFile, DogDecides, GoTo, AfterProbe, OnceInv, OutsideDog
  <2> QED BY <2>1, <2>2, <2>3, <2>4 DEF OnceInv
<1>4. CASE DogRecords
  <2>1. /\ attempt' = boot /\ UNCHANGED <<boot, tries>>
        /\ DOMAIN dog' = OutsideDog /\ tries = 0
    BY <1>4 DEF DogRecords, DogVars, GoTo, OnceInv, OutsideDog, Busy
  <2> QED BY <2>1 DEF OnceInv
<1>5. CASE DogLaunches
  <2>1. /\ attempt = boot /\ tries = 0 /\ UNCHANGED <<boot, attempt>>
        /\ DOMAIN dog' = OutsideDog
    BY <1>5 DEF DogLaunches, DogVars, GoTo, OnceInv, OutsideDog, Busy
  <2>2. CASE dog.stage = "trigger"
    <3>1. tries' = 1 /\ dog'.stage = "sleep"
      BY <1>5, <2>1, <2>2 DEF DogLaunches, GoTo, Sequel, AfterProbe, OnceInv, OutsideDog
    <3> QED BY <2>1, <3>1 DEF OnceInv, Busy
  <2>3. CASE dog.stage # "trigger"
    BY <1>5, <2>1, <2>3 DEF DogLaunches, OnceInv
  <2> QED BY <2>2, <2>3
<1>6. CASE DogWakes
  BY <1>0, <1>6 DEF DogWakes, GoTo, OnceInv, OutsideDog, Busy
<1>7. CASE RunnerStep
  <2>1. UNCHANGED <<boot, attempt, tries, dog>>
    BY <1>7 DEF RunnerStep, UnitStarts, RunnerReads, RunnerUnlinksArgs, RunnerUnlinksTrigger,
                RunnerListens, RunnerWorks, RunnerEnds, past
  <2> QED BY <1>0, <2>1 DEF OnceInv
<1>8. CASE ProcessStep
  <2>1. UNCHANGED <<boot, attempt, tries>>
    BY <1>8 DEF ProcessStep, past
  <2>2. dog' = dog \/ (DOMAIN dog' = OutsideDog /\ dog'.stage \in {"top", "over", "off"})
    BY <1>8 DEF ProcessStep, Asleep, OutsideDog
  <2> QED BY <1>0, <2>1, <2>2 DEF OnceInv, Busy
<1>9. CASE Reboot
  BY <1>9 DEF Reboot, OnceInv, Asleep, OutsideDog, Busy
<1>10. CASE UNCHANGED vars
  BY <1>0, <1>10 DEF vars, convVars, past, OnceInv
<1> QED
  BY <1>1, <1>2, <1>3, <1>4, <1>5, <1>6, <1>7, <1>8, <1>9, <1>10 DEF Next, DogStep

(* Whatever users, runners and restarts do in between, the watchdog        *)
(* launches a converge once in a boot at most (_do_attempt notes the boot  *)
(* first).                                                                 *)
THEOREM WatchdogTriesOnce == Spec => []OncePerBoot
<1>1. OnceInv => OncePerBoot
  BY DEF OnceInv, OncePerBoot
<1> QED BY OnceInit, OnceNext, <1>1, PTL DEF Spec

-----------------------------------------------------------------------------
(* Launches *)

Launchers == Users \cup {Dog}
At(x) == IF x = Dog THEN dog.stage ELSE user[x]

(* It has begun to write and is not done. *)
Writes(x) == At(x) \in {"args", "trigger"}

(* A runner has read the args and still removes the files. *)
Removing == runner.stage \in {"unlinkArgs", "unlinkTrigger"}

Accounted == taken \cup crossed

FilesType ==
    /\ user \in [Users -> {"idle", "refused", "torn", "args", "trigger", "end", "dropped"}]
    /\ DOMAIN dog = OutsideDog
    /\ DOMAIN runner = {"stage", "job"}
    /\ args \in {None, "torn"} \cup Launchers
    /\ answered \subseteq Users

(* Half-written args are the work of a launch in progress, or it is        *)
(* accounted for; so is the whole file that its next write replaces.       *)
HalfWritten ==
    \A x \in Launchers : At(x) = "args" =>
        /\ args = "torn" \/ x \in Accounted
        /\ args \in {None, "torn"} \cup Accounted

Written == \A x \in Launchers : At(x) = "trigger" => args = x \/ x \in Accounted

(* Two that write at once have crossed each other. *)
WritersCross ==
    \A x, y \in Launchers : x # y /\ Writes(x) /\ Writes(y) => {x, y} \subseteq crossed

(* Whoever writes while a runner removes the files is accounted for, and   *)
(* nobody else's launch is removed with them.                              *)
NoneRemoved ==
    Removing =>
        /\ answered \subseteq Accounted
        /\ \A x \in Launchers : Writes(x) => x \in Accounted

LaunchInv ==
    FilesType /\ HalfWritten /\ Written /\ WritersCross /\ NoneRemoved /\ LaunchedRuns

LEMMA LaunchInit == Init => LaunchInv
<1> SUFFICES ASSUME Init PROVE LaunchInv
  OBVIOUS
<1>1. \A x \in Launchers : At(x) \in {"idle", "off"}
  BY DEF Init, ConvInit, At, Launchers, Asleep
<1> QED
  BY <1>1 DEF Init, ConvInit, LaunchInv, FilesType, HalfWritten, Written, WritersCross, Writes,
              NoneRemoved, Removing, LaunchedRuns, Accounted, Asleep, OutsideDog, NoRunner

LEMMA MidwayAt == Midway = {x \in Launchers : At(x) \in {"torn", "args", "trigger"}}
BY LaunchersAssumption DEF Midway, Launchers, At

(* Steps that write no file: launches go on as they were or come to rest,  *)
(* and what is accounted for stays so.                                     *)
LEMMA RestingStep ==
    ASSUME LaunchInv, FilesType', UNCHANGED <<args, answered, crossed, taken>>,
           \A x \in Launchers : At(x)' = At(x) \/ ~Writes(x)',
           Removing' => Removing, trigger => trigger'
    PROVE  LaunchInv'
<1>1. \A x \in Launchers : Writes(x)' => Writes(x) /\ At(x)' = At(x)
  BY DEF Writes
<1>2. HalfWritten' /\ Written' /\ WritersCross'
  BY <1>1 DEF LaunchInv, HalfWritten, Written, WritersCross, Writes, Accounted
<1>3. NoneRemoved'
  BY <1>1 DEF LaunchInv, NoneRemoved, Accounted
<1> QED BY <1>2, <1>3 DEF LaunchInv, LaunchedRuns, Accounted

(* One write of a launch. *)
LEMMA WriteStep ==
    ASSUME LaunchInv, FilesType', NEW x \in Launchers, At(x) \in {"torn", "args", "trigger"},
           Put(x, At(x)), UNCHANGED <<runner, taken>>,
           \A y \in Launchers \ {x} : At(y)' = At(y),
           At(x) = "torn" => At(x)' = "args",
           At(x) = "args" => At(x)' = "trigger",
           At(x) = "trigger" => ~Writes(x)',
           answered' = answered \/ (At(x) = "trigger" /\ answered' = answered \cup {x})
    PROVE  LaunchInv'
<1>1. CASE At(x) = "torn"
  <2>1. /\ args' = "torn" /\ UNCHANGED <<trigger, answered>> /\ At(x)' = "args"
        /\ crossed' = crossed \cup ({args} \ {None, "torn"}) \cup (Midway \ {x})
                        \cup (IF Consuming \/ Midway \ {x} # {} THEN {x} ELSE {})
    BY <1>1 DEF Put
  <2>2. \A y \in Launchers \ {x} : Writes(y)' => Writes(y) /\ y \in crossed' /\ x \in crossed'
    BY <2>1, MidwayAt DEF Writes
  <2>3. Accounted \subseteq Accounted'
    BY <2>1 DEF Accounted
  <2>4. HalfWritten' /\ Written' /\ WritersCross'
    BY <2>1, <2>2 DEF HalfWritten, Written, WritersCross, Writes, Accounted
  <2>5. NoneRemoved'
    BY <2>1, <2>2, <2>3 DEF LaunchInv, NoneRemoved, Removing, Consuming, Accounted
  <2>6. LaunchedRuns'
    BY <2>1, LaunchersAssumption DEF LaunchInv, LaunchedRuns, FilesType
  <2> QED BY <2>4, <2>5, <2>6 DEF LaunchInv
<1>2. CASE At(x) = "args"
  <2>1. args' = x /\ UNCHANGED <<trigger, crossed, answered>> /\ At(x)' = "trigger"
    BY <1>2 DEF Put
  <2>2. \A y \in Launchers : Writes(y)' => Writes(y) /\ (y = x \/ {x, y} \subseteq crossed)
    BY <1>2, <2>1 DEF LaunchInv, WritersCross, Writes
  <2>3. HalfWritten' /\ Written' /\ WritersCross'
    BY <2>1, <2>2 DEF LaunchInv, HalfWritten, Written, WritersCross, Writes, Accounted
  <2>4. NoneRemoved'
    BY <2>1, <2>2 DEF LaunchInv, NoneRemoved, Removing, Accounted
  <2>5. \A u \in answered : u = args => u \in Accounted
    BY <1>2, LaunchersAssumption DEF LaunchInv, HalfWritten, FilesType
  <2>6. LaunchedRuns'
    BY <2>1, <2>5 DEF LaunchInv, LaunchedRuns, Accounted
  <2> QED BY <2>3, <2>4, <2>6 DEF LaunchInv
<1>3. CASE At(x) = "trigger"
  <2>1. trigger' = TRUE /\ UNCHANGED <<args, crossed>> /\ ~Writes(x)'
    BY <1>3 DEF Put
  <2>2. \A y \in Launchers : Writes(y)' => y # x /\ Writes(y) /\ At(y)' = At(y)
    BY <2>1 DEF Writes
  <2>3. HalfWritten' /\ Written' /\ WritersCross'
    BY <2>1, <2>2 DEF LaunchInv, HalfWritten, Written, WritersCross, Writes, Accounted
  <2>4. NoneRemoved'
    BY <1>3, <2>1, <2>2 DEF LaunchInv, NoneRemoved, Removing, Accounted, Writes
  <2>5. args = x \/ x \in Accounted
    BY <1>3 DEF LaunchInv, Written
  <2>6. LaunchedRuns'
    BY <2>1, <2>5 DEF LaunchInv, LaunchedRuns, Accounted
  <2> QED BY <2>3, <2>4, <2>6 DEF LaunchInv
<1> QED BY <1>1, <1>2, <1>3

LEMMA LaunchNext == LaunchInv /\ [Next]_vars => LaunchInv'
<1> SUFFICES ASSUME LaunchInv, [Next]_vars PROVE LaunchInv'
  OBVIOUS
<1> USE LaunchersAssumption
<1>1. ASSUME NEW u \in Users, Ask(u) PROVE LaunchInv'
  <2>1. UNCHANGED <<files, runner, dog, past>> /\ user'[u] \in {"refused", "torn"}
        /\ user' = [user EXCEPT ![u] = user'[u]]
    BY <1>1 DEF Ask, Sequel, LaunchInv, FilesType
  <2>2. FilesType'
    BY <2>1 DEF LaunchInv, FilesType, files, past
  <2>3. \A x \in Launchers : At(x)' = At(x) \/ ~Writes(x)'
    BY <2>1 DEF At, Writes, Launchers, LaunchInv, FilesType
  <2> QED BY <2>1, <2>2, <2>3, RestingStep DEF files, past, Removing
<1>2. ASSUME NEW u \in Users, LaunchStep(u) PROVE LaunchInv'
  <2>1. /\ user[u] \in {"torn", "args", "trigger"} /\ Put(u, user[u])
        /\ user' = [user EXCEPT ![u] = Sequel[@]] /\ UNCHANGED <<runner, dog, taken>>
        /\ answered' = IF Sequel[user[u]] = "end" THEN answered \cup {u} ELSE answered
    BY <1>2 DEF LaunchStep
  <2>2. /\ user[u] = "torn" => user'[u] = "args"
        /\ user[u] = "args" => user'[u] = "trigger"
        /\ user[u] = "trigger" => user'[u] = "end"
        /\ answered' = answered \/ (user[u] = "trigger" /\ answered' = answered \cup {u})
    BY <2>1 DEF Sequel, LaunchInv, FilesType
  <2>3. At(u) = user[u] /\ At(u)' = user'[u] /\ u \in Launchers
    BY DEF At, Launchers
  <2>4. \A y \in Launchers \ {u} : At(y)' = At(y)
    BY <2>1 DEF At, Launchers, LaunchInv, FilesType
  <2>5. args' \in {None, "torn"} \cup Launchers
    BY <2>1 DEF Put, Launchers, LaunchInv, FilesType
  <2>6. FilesType'
    BY <2>1, <2>2, <2>5 DEF LaunchInv, FilesType
  <2> QED BY <2>1, <2>2, <2>3, <2>4, <2>6, WriteStep DEF Writes
<1>3. CASE DogLooks \/ ProbePort \/ ProbeFile \/ DogDecides \/ DogRecords \/ DogWakes
  <2>1. UNCHANGED <<args, trigger, runner, user, answered, taken, crossed>>
    BY <1>3 DEF DogLooks, ProbePort, ProbeFile, DogDecides, DogRecords, DogWakes, DogVars, files
  <2>2. DOMAIN dog' = OutsideDog /\ dog'.stage \notin {"args", "trigger"}
    BY <1>3 DEF DogLooks, ProbePort, ProbeFile, DogDecides, DogRecords, DogWakes, GoTo, Asleep,
                AfterProbe, LaunchInv, FilesType, OutsideDog
  <2>3. FilesType'
    BY <2>1, <2>2 DEF LaunchInv, FilesType
  <2>4. \A x \in Launchers : At(x)' = At(x) \/ ~Writes(x)'
    BY <2>1, <2>2 DEF At, Writes
  <2> QED BY <2>1, <2>3, <2>4, RestingStep DEF Removing
<1>4. CASE DogLaunches
  <2>1. /\ dog.stage \in {"torn", "args", "trigger"} /\ Put(Dog, dog.stage)
        /\ UNCHANGED <<runner, user, taken, answered>>
        /\ GoTo(IF Sequel[dog.stage] # "end" THEN Sequel[dog.stage] ELSE AfterProbe["trigger"])
    BY <1>4 DEF DogLaunches, DogVars
  <2>2. /\ DOMAIN dog' = OutsideDog
        /\ dog.stage = "torn" => dog'.stage = "args"
        /\ dog.stage = "args" => dog'.stage = "trigger"
        /\ dog.stage = "trigger" => dog'.stage = "sleep"
    BY <2>1 DEF GoTo, Sequel, AfterProbe, LaunchInv, FilesType, OutsideDog
  <2>3. At(Dog) = dog.stage /\ At(Dog)' = dog'.stage /\ Dog \in Launchers
    BY DEF At, Launchers
  <2>4. \A y \in Launchers \ {Dog} : At(y)' = At(y)
    BY <2>1 DEF At
  <2>5. args' \in {None, "torn"} \cup Launchers
    BY <2>1 DEF Put, Launchers, LaunchInv, FilesType
  <2>6. FilesType'
    BY <2>1, <2>2, <2>5 DEF LaunchInv, FilesType
  <2> QED BY <2>1, <2>2, <2>3, <2>4, <2>6, WriteStep DEF Writes
<1>5. CASE RunnerReads /\ args # "torn"
  <2>1. /\ runner' = [stage |-> "unlinkArgs", job |-> args]
        /\ taken' = taken \cup ({args} \ {None})
        /\ UNCHANGED <<args, trigger, user, dog, answered, crossed>>
    BY <1>5 DEF RunnerReads, files
  <2>2. \A x \in Launchers : At(x)' = At(x) /\ Writes(x)' = Writes(x)
    BY <2>1 DEF At, Writes
  <2>3. \A x \in Launchers : Writes(x) => x \in Accounted'
    BY <1>5, <2>1 DEF LaunchInv, HalfWritten, Written, Writes, Accounted, Launchers
  <2>4. \A x \in Launchers : At(x) = "args" => args' \in {None} \cup Accounted'
    BY <2>1 DEF Accounted
  <2>5. answered' \subseteq Accounted'
    BY <2>1 DEF LaunchInv, FilesType, LaunchedRuns, Accounted
  <2>6. FilesType'
    BY <2>1 DEF LaunchInv, FilesType
  <2>7. HalfWritten' /\ Written' /\ WritersCross'
    BY <2>1, <2>2, <2>3, <2>4 DEF LaunchInv, HalfWritten, Written, WritersCross, Writes
  <2> QED BY <2>2, <2>3, <2>5, <2>6, <2>7 DEF LaunchInv, NoneRemoved, LaunchedRuns, Accounted
<1>6. CASE RunnerUnlinksArgs \/ RunnerUnlinksTrigger
  <2>1. /\ Removing /\ DOMAIN runner' = {"stage", "job"} /\ args' \in {args, None}
        /\ UNCHANGED <<user, dog, answered, taken, crossed>>
    BY <1>6 DEF RunnerUnlinksArgs, RunnerUnlinksTrigger, Removing, NoRunner, past, LaunchInv,
                FilesType
  <2>2. \A x \in Launchers : At(x)' = At(x) /\ Writes(x)' = Writes(x)
    BY <2>1 DEF At, Writes
  <2>3. answered \subseteq Accounted /\ \A x \in Launchers : Writes(x) => x \in Accounted
    BY <2>1 DEF LaunchInv, NoneRemoved
  <2>4. FilesType'
    BY <2>1 DEF LaunchInv, FilesType
  <2>5. HalfWritten' /\ Written' /\ WritersCross'
    BY <2>1, <2>2, <2>3 DEF LaunchInv, HalfWritten, Written, WritersCross, Writes, Accounted
  <2> QED
    BY <2>1, <2>2, <2>3, <2>4, <2>5 DEF LaunchInv, NoneRemoved, LaunchedRuns, Accounted
<1>7. CASE \/ UnitStarts \/ (RunnerReads /\ args = "torn") \/ RunnerListens \/ RunnerWorks
           \/ RunnerEnds
  <2>1. UNCHANGED <<files, user, dog, answered, crossed, taken>>
    BY <1>7 DEF UnitStarts, RunnerReads, RunnerListens, RunnerWorks, RunnerEnds, past
  <2>2. DOMAIN runner' = {"stage", "job"} /\ ~Removing'
    <3>1. CASE UnitStarts \/ (RunnerReads /\ args = "torn") \/ RunnerEnds
      <4>1. \/ runner' = [stage |-> "read", job |-> None]
            \/ runner' = [stage |-> "off", job |-> None]
        BY <1>7, <3>1 DEF UnitStarts, RunnerReads, RunnerEnds, NoRunner
      <4>2. CASE runner' = [stage |-> "read", job |-> None]
        BY <4>2 DEF Removing
      <4>3. CASE runner' = [stage |-> "off", job |-> None]
        BY <4>3 DEF Removing
      <4> QED BY <4>1, <4>2, <4>3
    <3>2. CASE RunnerListens \/ RunnerWorks
      <4>1. DOMAIN runner' = {"stage", "job"} /\ runner'.stage \in {"working", "grace"}
        BY <3>2 DEF RunnerListens, RunnerWorks, LaunchInv, FilesType
      <4> QED BY <4>1 DEF Removing
    <3> QED BY <1>7, <3>1, <3>2
  <2>3. FilesType'
    BY <2>1, <2>2 DEF LaunchInv, FilesType, files
  <2>4. \A x \in Launchers : At(x)' = At(x)
    BY <2>1 DEF At
  <2> QED BY <2>1, <2>2, <2>3, <2>4, RestingStep DEF files
<1>8. CASE ProcessStep \/ Reboot
  <2>1. /\ UNCHANGED <<files, answered, taken, crossed>>
        /\ runner' = runner \/ runner' = NoRunner
        /\ user' = user \/ user' = Dropped
        /\ dog' = dog \/ (DOMAIN dog' = OutsideDog /\ dog'.stage \in {"top", "over", "off"})
    BY <1>8 DEF ProcessStep, Reboot, Asleep, OutsideDog, past
  <2>2. \A u \in Users : user'[u] = user[u] \/ user'[u] = "dropped"
    BY <2>1 DEF Dropped
  <2>3. user' \in [Users -> {"idle", "refused", "torn", "args", "trigger", "end", "dropped"}]
    BY <2>1 DEF Dropped, LaunchInv, FilesType
  <2>4. FilesType'
    BY <2>1, <2>3 DEF LaunchInv, FilesType, NoRunner, files
  <2>5. \A x \in Launchers : At(x)' = At(x) \/ ~Writes(x)'
    BY <2>1, <2>2 DEF At, Writes, Launchers
  <2> QED BY <2>1, <2>4, <2>5, RestingStep DEF files, Removing, NoRunner
<1>9. CASE UNCHANGED vars
  <2>1. UNCHANGED <<args, trigger, runner, user, dog, answered, taken, crossed>>
    BY <1>9 DEF vars, convVars, files, past
  <2> QED BY <2>1, RestingStep DEF At, Removing, LaunchInv, FilesType
<1> QED
  BY <1>1, <1>2, <1>3, <1>4, <1>5, <1>6, <1>7, <1>8, <1>9 DEF Next, DogStep, RunnerStep

(* For any number of users, restarts and reboots: a launch answered        *)
(* "launched" is taken up, or waits with its args and its trigger, unless  *)
(* something cut across its two files (launch_update_runner, main of       *)
(* update-runner.py).                                                      *)
THEOREM AnsweredLaunchesAreKept == Spec => []LaunchedRuns
<1>1. LaunchInv => LaunchedRuns
  BY DEF LaunchInv
<1> QED BY LaunchInit, LaunchNext, <1>1, PTL DEF Spec

-----------------------------------------------------------------------------
(* The ladder *)

Registers == {"reconciler", "hydration"}

(* A kind of work that has been reaped is there only if something from     *)
(* outside started it afterwards.                                          *)
ReapInv == \A w \in Registers : Passed(w) /\ w \in work => w \in late

LEMMA Rungs ==
    /\ DOMAIN Ladder = 1..11
    /\ \A i \in 1..11 : Place(Ladder[i]) = i
    /\ Place("reconciler") = 7 /\ Place("hydration") = 8 /\ Place("ble") = 9
    /\ Ladder[1] = "loops" /\ Ladder[7] = "reconciler" /\ Ladder[8] = "hydration"
    /\ Last(Ladder) = Ladder[11]
<1>1. /\ DOMAIN Ladder = 1..11 /\ Len(Ladder) = 11 /\ Ladder[1] = "loops"
      /\ Ladder[7] = "reconciler" /\ Ladder[8] = "hydration" /\ Ladder[9] = "ble"
  BY DEF Ladder
<1>2. ASSUME NEW i \in 1..11, NEW j \in 1..11, Ladder[i] = Ladder[j] PROVE i = j
  BY <1>2 DEF Ladder
<1>3. \A i \in 1..11 : Place(Ladder[i]) = i
  BY <1>1, <1>2 DEF Place
<1> QED BY <1>1, <1>3 DEF Last

LEMMA Standing ==
    ASSUME Stopping
    PROVE  Place(stage) \in 1..11 /\ Ladder[Place(stage)] = stage
BY Rungs DEF Stopping, Range

(* Where main is off the ladder nothing has been passed. *)
LEMMA OffTheLadder ==
    \A s : s \in Range(Build) \cup {"up", "gone"} => s \notin Range(Ladder)
BY DEF Range, Build, Ladder

LEMMA ReapInit == Init => ReapInv
BY OffTheLadder DEF Init, LifeInit, ReapInv

(* A rung is left only when what it reaps has been awaited. *)
LEMMA OnwardStep ==
    ASSUME ReapInv, Stopping, waiting, Onward,
           stage # Last(Ladder) => UNCHANGED <<work, late>>
    PROVE  ReapInv'
<1>1. CASE stage = Last(Ladder)
  BY <1>1 DEF Onward, Gone, ReapInv
<1>2. CASE stage # Last(Ladder)
  <2>1. /\ Place(stage) \in 1..10 /\ stage' = Ladder[Place(stage) + 1]
        /\ waiting' = FALSE /\ UNCHANGED <<work, late>>
    BY <1>2, Rungs, Standing DEF Onward
  <2>2. Place(stage') = Place(stage) + 1
    BY <2>1, Rungs
  <2>3. ASSUME NEW w \in Registers, Passed(w)' PROVE Passed(w)
    <3>1. Place(w) < Place(stage) + 1 /\ Place(w) \in 1..11 /\ Ladder[Place(w)] = w
      BY <2>1, <2>2, <2>3, Rungs DEF Passed, Registers
    <3>2. CASE Place(w) < Place(stage)
      BY <3>2 DEF Passed
    <3>3. CASE Place(w) = Place(stage)
      <4>1. w = stage
        BY <3>1, <3>3, Standing
      <4> QED BY <4>1 DEF Passed
    <3> QED BY <2>1, <3>1, <3>2, <3>3
  <2> QED BY <2>1, <2>3 DEF ReapInv
<1> QED BY <1>1, <1>2

LEMMA ReapLife == ReapInv /\ LifeNext => ReapInv'
<1> SUFFICES ASSUME ReapInv, LifeNext PROVE ReapInv'
  OBVIOUS
<1>1. ASSUME stage' \notin Range(Ladder) PROVE ReapInv'
  BY <1>1 DEF ReapInv, Passed, Stopping
<1>2. CASE BuildStep
  <2>1. stage' \in Range(Build) \cup {"up"}
    <3>1. PICK i \in 1..7 : i = CHOOSE n \in DOMAIN Build : Build[n] = stage
      BY <1>2 DEF BuildStep, Range, Build
    <3> QED BY <1>2, <3>1 DEF BuildStep, Range, Build
  <2> QED BY <1>1, <2>1, OffTheLadder
<1>3. CASE KilledEarly \/ Raise
  BY <1>1, <1>3, OffTheLadder DEF KilledEarly, Raise, Gone
<1>4. CASE NewProcess
  <2>1. Build[1] \in Range(Build)
    BY DEF Range, Build
  <2> QED BY <1>1, <1>4, <2>1, OffTheLadder DEF NewProcess
<1>5. CASE StopRequested
  <2>1. stage' = "loops" /\ Place(stage') = 1
    BY <1>5, Rungs DEF StopRequested, Ladder
  <2>2. ASSUME NEW w \in Registers PROVE ~Passed(w)'
    BY <2>1, Rungs DEF Passed, Registers
  <2> QED BY <2>2 DEF ReapInv
<1>6. CASE WindowOver
  BY <1>6 DEF WindowOver, ReapInv, Passed, Stopping
<1>7. CASE SecondSignal
  BY <1>1, <1>7, OffTheLadder DEF SecondSignal, ReapInv, Passed, Stopping
<1>8. CASE Descend
  BY <1>8 DEF Descend, ReapInv, Passed, Stopping
<1>9. CASE Reaped
  BY <1>9, OnwardStep DEF Reaped
<1>10. CASE TimeOut
  BY <1>10, OnwardStep DEF TimeOut
<1>11. CASE StartWork
  BY <1>11 DEF StartWork, ReapInv, Passed, Stopping
<1>12. CASE Rehydrate
  <2>1. Passed("hydration") => Passed("reconciler")
    BY Rungs, Standing DEF Passed
  <2> QED BY <1>12, <2>1 DEF Rehydrate, ReapInv, Passed, Stopping, Registers
<1>13. CASE EndWork
  BY <1>13 DEF EndWork, ReapInv, Passed, Stopping
<1> QED
  BY <1>2, <1>3, <1>4, <1>5, <1>6, <1>7, <1>8, <1>9, <1>10, <1>11, <1>12, <1>13
     DEF LifeNext, LadderStep

LEMMA ReapNext == ReapInv /\ [Next]_vars => ReapInv'
<1> SUFFICES ASSUME ReapInv, [Next]_vars PROVE ReapInv'
  OBVIOUS
<1>1. CASE ProcessStep
  BY <1>1, ReapLife DEF ProcessStep
<1>2. CASE Reboot
  BY <1>2 DEF Reboot, Gone, ReapInv
<1>3. CASE UNCHANGED lifeVars
  BY <1>3 DEF lifeVars, ReapInv, Passed, Stopping
<1>4. UNCHANGED lifeVars \/ ProcessStep \/ Reboot
  BY DEF Next, Ask, LaunchStep, DogStep, DogLooks, ProbePort, ProbeFile, DogDecides, DogRecords,
         DogLaunches, DogWakes, DogVars, RunnerStep, UnitStarts, RunnerReads, RunnerUnlinksArgs,
         RunnerUnlinksTrigger, RunnerListens, RunnerWorks, RunnerEnds, vars
<1> QED BY <1>1, <1>2, <1>3, <1>4

(* However many messages, events, requests, hung transports and signals    *)
(* come in on the way down: past the rung of the BLE client the only       *)
(* reconciler or hydration there can be was started from outside, or by a  *)
(* reconciler that was, after their rungs had been passed                  *)
(* (_shutdown_services reaps the reconciler before the sweep it can arm).  *)
THEOREM ReapedBeforeTheLink == Spec => []RegistersReaped
<1>1. ReapInv => RegistersReaped
  <2>1. Stopping /\ Place(stage) >= Place("ble") => Passed("reconciler") /\ Passed("hydration")
    BY Rungs, Standing DEF Passed
  <2> QED BY <2>1 DEF ReapInv, RegistersReaped, Registers
<1> QED BY ReapInit, ReapNext, <1>1, PTL DEF Spec
=============================================================================
