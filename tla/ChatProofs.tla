----------------------------- MODULE ChatProofs -----------------------------
(***************************************************************************)
(* Commands and the replies to them, proved for every set of stations,     *)
(* messages, curated lists, beacons, replies and recipients.               *)
(*                                                                         *)
(* Commands: a message is executed once within its window and in one       *)
(* place, a beacon that sends is the listed one, and table, memory and web *)
(* clients have one blocklist.                                             *)
(* Replies: the reference count is exact, so a lock is never replaced      *)
(* while a task uses it, so replies to one station never interleave.       *)
(***************************************************************************)
EXTENDS Commands, Response, FiniteSetTheorems, TLAPS

(* What a step does to the memory of messages and to the commands run.     *)
Forgets == processed' \in {processed, FreshIds} /\ runs' = runs /\ now' = now
Admits(p, m) == Admitted(p, m) /\ runs' = runs /\ now' = now

LEMMA HandleKinds ==
    ASSUME NEW p, NEW m, Handle(p, m)
    PROVE  aired' = aired /\ (Forgets \/ Admits(p, m) \/ (Begin(p, m) /\ now' = now))
<1>1. CASE IgnoreBlocked(p, m)
  BY <1>1 DEF IgnoreBlocked, Forgets, dedupVars
<1>2. CASE IgnoreDuplicate(p, m)
  BY <1>2 DEF IgnoreDuplicate, Forgets
<1>3. CASE Refuse(p, m)
  BY <1>3 DEF Refuse, Admits
<1>4. CASE AnswerThrottled(p, m)
  BY <1>4 DEF AnswerThrottled, Admits
<1>5. CASE Read(p, m)
  BY <1>5 DEF Read
<1>6. CASE AnswerOnly(p, m)
  BY <1>6 DEF AnswerOnly
<1>7. CASE SwitchGroup(p, m)
  BY <1>7 DEF SwitchGroup
<1>8. CASE Kickban(p, m)
  BY <1>8 DEF Kickban
<1>9. CASE TopicAtOnce(p, m)
  BY <1>9 DEF TopicAtOnce, Topic
<1>10. CASE TopicStops(p, m)
  BY <1>10 DEF TopicStops, Topic
<1> QED
  BY <1>1, <1>2, <1>3, <1>4, <1>5, <1>6, <1>7, <1>8, <1>9, <1>10 DEF Handle

LEMMA ResumeKinds ==
    ASSUME NEW p, Resume(p) PROVE aired' = aired /\ Forgets
BY DEF Resume, ReadEnds, KickbanWrites, KickbanFails, KickbanTells, TopicStopped, Forgets, dedupVars

LEMMA LoaderKinds ==
    ASSUME UpstreamChanges \/ FetchAndApply \/ FetchAndAsk \/ ReadProtected
           \/ ReadProtectedFails \/ ApplyList
    PROVE  aired' = aired /\ Forgets
BY DEF UpstreamChanges, FetchAndApply, FetchAndAsk, ReadProtected, ReadProtectedFails, ApplyList,
       ApplyFinds, Forgets, dedupVars

LEMMA StepKinds ==
    ASSUME [CommandNext]_commandVars
    PROVE  \/ \E m : SendOut(m) /\ Forgets
           \/ aired' = aired /\ Forgets
           \/ aired' = aired /\ \E p \in Paths : \E m : Admits(p, m) \/ (Begin(p, m) /\ now' = now)
           \/ aired' = aired /\ Tick /\ processed' = processed /\ runs' = runs
           \/ aired' = aired /\ Restart
<1>1. CASE UNCHANGED commandVars
  BY <1>1 DEF commandVars, dedupVars, Forgets
<1>2. ASSUME NEW m, SendOut(m) PROVE Forgets
  BY <1>2 DEF SendOut, Forgets, dedupVars
<1>3. ASSUME NEW m, NEW p \in Paths, Handle(p, m)
      PROVE  aired' = aired /\ (Forgets \/ Admits(p, m) \/ (Begin(p, m) /\ now' = now))
  BY <1>3, HandleKinds
<1>4. ASSUME NEW p \in Paths, Resume(p) PROVE aired' = aired /\ Forgets
  BY <1>4, ResumeKinds
<1>5. CASE \E b \in Beacons : BeaconEnds(b)
  BY <1>5 DEF BeaconEnds, Forgets, dedupVars
<1>6. CASE Tick \/ Restart
  BY <1>6 DEF Tick, Restart, dedupVars
<1>7. CASE Cleanup
  BY <1>7 DEF Cleanup, Forgets
<1> QED
  BY <1>1, <1>2, <1>3, <1>4, <1>5, <1>6, <1>7, LoaderKinds DEF CommandNext

-----------------------------------------------------------------------------
(* A command runs in one place *)

PlaceInv ==
    /\ \A m \in aired : ~Suppressed(m) /\ m.dst # "me"
    /\ \A r \in runs : r[2].src = "me" => Suppressed(r[2])

LEMMA PlaceHolds == PlaceInv => HereOrOnAir
<1> SUFFICES ASSUME PlaceInv, NEW m \in aired, NEW r \in runs, m.src = "me", r[2] = m PROVE FALSE
  BY DEF HereOrOnAir
<1> QED BY DEF PlaceInv

LEMMA PlaceStays == PlaceInv /\ [CommandNext]_commandVars => PlaceInv'
<1> SUFFICES ASSUME PlaceInv, [CommandNext]_commandVars PROVE PlaceInv'
  OBVIOUS
<1>1. ASSUME NEW m, SendOut(m), Forgets PROVE PlaceInv'
  BY <1>1 DEF PlaceInv, SendOut, Suppressed, Broadcast, Forgets
<1>2. ASSUME aired' = aired, runs' = runs PROVE PlaceInv'
  BY <1>2 DEF PlaceInv, Suppressed, Broadcast
<1>3. ASSUME aired' = aired, NEW p \in Paths, NEW m, Begin(p, m) PROVE PlaceInv'
  <2>1. m.src = "me" => Suppressed(m)
    BY <1>3 DEF Begin, ShouldExecute, Suppressed
  <2>2. \A r \in runs' : r \in runs \/ r = <<p, m, now>>
    BY <1>3 DEF Begin
  <2> QED BY <1>3, <2>1, <2>2 DEF PlaceInv, Suppressed, Broadcast
<1>4. ASSUME aired' = aired, Restart PROVE PlaceInv'
  <2>1. \A r \in runs' : \E s \in runs : r = <<s[1], s[2], None>>
    BY <1>4 DEF Restart
  <2> QED BY <1>4, <2>1 DEF PlaceInv, Suppressed, Broadcast
<1> QED
  BY <1>1, <1>2, <1>3, <1>4, StepKinds DEF Forgets, Admits, Tick

(* A command runs where it was given: none of ours that goes out to        *)
(* another station is executed here as well.                               *)
THEOREM RunsInOnePlace == CommandSpec => []HereOrOnAir
<1>1. CommandInit => PlaceInv
  BY DEF CommandInit, PlaceInv
<1> QED BY <1>1, PlaceStays, PlaceHolds, PTL DEF CommandSpec

-----------------------------------------------------------------------------
(* A command is executed once *)

(* What was executed within the window is remembered.                      *)
OnceInv ==
    /\ now \in Nat
    /\ \A e \in processed : e[2] \in 0 .. now
    /\ \A r \in runs : r[3] # None =>
          /\ r[3] \in 0 .. now
          /\ \/ now - r[3] > IdTimeout
             \/ \E e \in processed : e[1] = Id(r[1], r[2]) /\ e[2] >= r[3]

LEMMA FreshOnes ==
    ASSUME OnceInv, NEW r \in runs, r[3] # None
    PROVE  \/ now - r[3] > IdTimeout
           \/ \E e \in FreshIds : e[1] = Id(r[1], r[2]) /\ e[2] >= r[3]
<1>1. IdTimeout \in Nat
  BY CommandParameters
<1> QED BY <1>1 DEF OnceInv, FreshIds

LEMMA OnceStays == OnceInv /\ [CommandNext]_commandVars => OnceInv'
<1> SUFFICES ASSUME OnceInv, [CommandNext]_commandVars PROVE OnceInv'
  OBVIOUS
<1>0. IdTimeout \in Nat
  BY CommandParameters
<1>1. ASSUME Forgets PROVE OnceInv'
  <2>1. \A e \in processed' : e \in processed
    BY <1>1 DEF Forgets, FreshIds
  <2>2. ASSUME NEW r \in runs, r[3] # None
        PROVE  \/ now - r[3] > IdTimeout
               \/ \E e \in processed' : e[1] = Id(r[1], r[2]) /\ e[2] >= r[3]
    BY <1>1, <2>2, FreshOnes DEF Forgets, OnceInv
  <2> QED BY <1>1, <2>1, <2>2 DEF Forgets, OnceInv, Id
<1>2. ASSUME NEW p, NEW m, Admitted(p, m), now' = now,
             \A r \in runs' : r \in runs \/ r = <<p, m, now>>
      PROVE  OnceInv'
  <2>1. processed' = {e \in FreshIds : e[1] # Id(p, m)} \cup {<<Id(p, m), now>>}
    BY <1>2 DEF Admitted, Remember
  <2>2. \A e \in processed' : e[2] \in 0 .. now
    BY <2>1 DEF OnceInv, FreshIds
  <2>3. ASSUME NEW r \in runs', r[3] # None
        PROVE  /\ r[3] \in 0 .. now
               /\ \/ now - r[3] > IdTimeout
                  \/ \E e \in processed' : e[1] = Id(r[1], r[2]) /\ e[2] >= r[3]
    <3>1. CASE r \in runs
      <4>1. r[3] \in 0 .. now
        BY <2>3, <3>1 DEF OnceInv
      <4>2. CASE now - r[3] > IdTimeout
        BY <4>1, <4>2
      <4>3. CASE \E e \in FreshIds : e[1] = Id(r[1], r[2]) /\ e[2] >= r[3]
        <5>1. PICK e \in FreshIds : e[1] = Id(r[1], r[2]) /\ e[2] >= r[3]
          BY <4>3
        <5>2. CASE e[1] # Id(p, m)
          BY <2>1, <4>1, <5>1, <5>2
        <5>3. CASE e[1] = Id(p, m)
          <6>1. <<Id(p, m), now>> \in processed' /\ now >= r[3]
            BY <2>1, <4>1 DEF OnceInv
          <6> QED BY <4>1, <5>1, <5>3, <6>1
        <5> QED BY <5>2, <5>3
      <4> QED BY <2>3, <3>1, <4>2, <4>3, FreshOnes
    <3>2. CASE r = <<p, m, now>>
      <4>1. <<Id(p, m), now>> \in processed' /\ now \in 0 .. now /\ now >= now
        BY <2>1 DEF OnceInv
      <4> QED BY <3>2, <4>1
    <3> QED BY <1>2, <3>1, <3>2
  <2> QED BY <1>2, <2>2, <2>3 DEF OnceInv, Id
<1>3. ASSUME Tick, processed' = processed, runs' = runs PROVE OnceInv'
  <2>1. now \in Nat /\ now' = now + 1
    BY <1>3 DEF Tick, OnceInv
  <2>2. \A n \in 0 .. now : n \in 0 .. now' /\ (now - n > IdTimeout => now' - n > IdTimeout)
    BY <1>0, <2>1
  <2> QED BY <1>3, <2>1, <2>2 DEF OnceInv, Id
<1>4. ASSUME Restart PROVE OnceInv'
  <2>1. \A r \in runs' : r[3] = None
    BY <1>4 DEF Restart
  <2>2. processed' = {} /\ now' = now
    BY <1>4 DEF Restart
  <2> QED BY <2>1, <2>2 DEF OnceInv
<1> QED
  <2>1. ASSUME NEW p, NEW m, Admits(p, m) PROVE OnceInv'
    BY <1>2, <2>1 DEF Admits
  <2>2. ASSUME NEW p, NEW m, Begin(p, m), now' = now PROVE OnceInv'
    BY <1>2, <2>2 DEF Begin
  <2> QED BY <1>1, <1>3, <1>4, <2>1, <2>2, StepKinds

LEMMA OnceAct ==
    OnceInv /\ [CommandNext]_commandVars =>
        [\A new \in runs' \ runs, old \in runs :
            new[3] # None /\ old[3] # None /\ Id(new[1], new[2]) = Id(old[1], old[2])
                => now - old[3] > IdTimeout]_commandVars
<1> SUFFICES ASSUME OnceInv, [CommandNext]_commandVars, NEW new \in runs' \ runs, NEW old \in runs,
                    new[3] # None, old[3] # None, Id(new[1], new[2]) = Id(old[1], old[2])
             PROVE  now - old[3] > IdTimeout
  OBVIOUS
<1>1. CASE \E p \in Paths : \E m : Begin(p, m)
  <2>1. PICK p, m : p \in Paths /\ Begin(p, m)
    BY <1>1
  <2>2. new = <<p, m, now>>
    BY <2>1 DEF Begin
  <2>3. ~\E e \in FreshIds : e[1] = Id(old[1], old[2])
    BY <2>1, <2>2 DEF Begin, Admitted, Duplicate, Remembered
  <2> QED BY <2>3, FreshOnes
<1>2. CASE Restart
  BY <1>2 DEF Restart
<1> QED BY <1>1, <1>2, StepKinds DEF Forgets, Admits

(* Copies of a message over both paths, or later echoes, are executed once *)
(* within the time the message is remembered (_is_duplicate_msg_id).       *)
THEOREM RunsOnce == CommandSpec => ExecutedOncePerWindow
<1>1. CommandInit => OnceInv
  BY DEF CommandInit, OnceInv
<1> QED BY <1>1, OnceStays, OnceAct, PTL DEF CommandSpec, ExecutedOncePerWindow

-----------------------------------------------------------------------------
(* What a step does to the tasks *)

TaskForm ==
    /\ DOMAIN task = Paths
    /\ \A p \in Paths : DOMAIN task[p] = {"pc", "msg", "on"}

(* Nothing but p's own task moves.                                         *)
Alone(p) == \A q \in Paths \ {p} : task'[q] = task[q]

LEMMA HandleTask ==
    ASSUME TaskForm, NEW p \in Paths, NEW m, Handle(p, m)
    PROVE  /\ task[p].pc = "ready" /\ Alone(p) /\ TaskForm'
           /\ disputed \subseteq disputed'
           /\ task'[p].pc = "ready" \/ task'[p].msg = m
           /\ task'[p].pc \in {"writing", "written"} => Kickban(p, m)
           /\ task'[p].pc = "stopping" => TopicStops(p, m)
<1>1. task[p].pc = "ready"
  BY DEF Handle, IgnoreBlocked, IgnoreDuplicate, Refuse, AnswerThrottled, Read, AnswerOnly,
         SwitchGroup, Kickban, TopicAtOnce, TopicStops, Topic, Begin, Admitted, Arrives, Ready
<1>2. CASE IgnoreBlocked(p, m) \/ IgnoreDuplicate(p, m) \/ Refuse(p, m) \/ AnswerThrottled(p, m)
  <2>1. task' = task /\ disputed' = disputed
    BY <1>2 DEF IgnoreBlocked, IgnoreDuplicate, Refuse, AnswerThrottled
  <2> QED BY <1>1, <2>1 DEF TaskForm, Alone
<1>3. ASSUME Return(p, m), disputed \subseteq disputed'
      PROVE  /\ Alone(p) /\ TaskForm' /\ task'[p].pc = "ready"
  BY <1>3 DEF Return, Alone, TaskForm, Ready
<1>4. CASE AnswerOnly(p, m) \/ SwitchGroup(p, m) \/ TopicAtOnce(p, m)
  <2>1. Return(p, m)
    BY <1>4 DEF AnswerOnly, SwitchGroup, TopicAtOnce
  <2>2. disputed \subseteq disputed'
    BY <1>4 DEF AnswerOnly, SwitchGroup, TopicAtOnce, Dispute
  <2> QED BY <1>1, <1>3, <2>1, <2>2
<1>5. ASSUME NEW step, NEW on, task' = [task EXCEPT ![p] = [pc |-> step, msg |-> m, on |-> on]]
      PROVE  Alone(p) /\ TaskForm' /\ task'[p].pc = step /\ task'[p].msg = m
  BY <1>5 DEF Alone, TaskForm
<1>6. CASE Read(p, m)
  <2>1. Alone(p) /\ TaskForm' /\ task'[p].pc = "reading" /\ task'[p].msg = m
    BY <1>5, <1>6 DEF Read, GoOn
  <2> QED BY <1>1, <1>6, <2>1 DEF Read
<1>7. CASE Kickban(p, m)
  <2>1. Alone(p) /\ TaskForm' /\ task'[p].pc = "writing" /\ task'[p].msg = m
    BY <1>5, <1>7 DEF Kickban, GoOn
  <2>2. disputed \subseteq disputed'
    BY <1>7 DEF Kickban
  <2> QED BY <1>1, <1>7, <2>1, <2>2
<1>8. CASE TopicStops(p, m)
  <2>1. Alone(p) /\ TaskForm' /\ task'[p].pc = "stopping" /\ task'[p].msg = m
    BY <1>5, <1>8 DEF TopicStops
  <2>2. disputed \subseteq disputed'
    BY <1>8 DEF TopicStops, Dispute
  <2> QED BY <1>1, <1>8, <2>1, <2>2
<1> QED BY <1>2, <1>4, <1>6, <1>7, <1>8 DEF Handle

LEMMA ResumeTask ==
    ASSUME TaskForm, NEW p \in Paths, Resume(p)
    PROVE  /\ Alone(p) /\ TaskForm' /\ disputed \subseteq disputed'
           /\ \/ KickbanWrites(p) /\ task'[p] = [task[p] EXCEPT !.pc = "written"]
              \/ task'[p].pc = "ready"
<1>1. ASSUME Ends(p) PROVE Alone(p) /\ TaskForm' /\ task'[p].pc = "ready"
  BY <1>1 DEF Ends, Alone, TaskForm, Ready
<1>2. CASE ReadEnds(p) \/ KickbanTells(p) \/ TopicStopped(p) \/ KickbanFails(p)
  BY <1>1, <1>2 DEF ReadEnds, KickbanFails, KickbanTells, TopicStopped
<1>3. CASE KickbanWrites(p)
  <2>1. task'[p] = [task[p] EXCEPT !.pc = "written"]
    BY <1>3 DEF KickbanWrites, TaskForm
  <2>2. DOMAIN task'[p] = {"pc", "msg", "on"}
    BY <2>1 DEF TaskForm
  <2>3. Alone(p) /\ DOMAIN task' = Paths /\ disputed' = disputed
    BY <1>3 DEF KickbanWrites, TaskForm, Alone
  <2> QED BY <1>3, <2>1, <2>2, <2>3 DEF TaskForm, Alone
<1> QED BY <1>2, <1>3 DEF Resume

LEMMA TaskStays == TaskForm /\ [CommandNext]_commandVars => TaskForm'
<1> SUFFICES ASSUME TaskForm, [CommandNext]_commandVars PROVE TaskForm'
  OBVIOUS
<1>1. ASSUME task' = task PROVE TaskForm'
  BY <1>1 DEF TaskForm
<1>2. CASE Restart
  BY <1>2 DEF Restart, TaskForm, Ready
<1>3. CASE UNCHANGED commandVars
  BY <1>1, <1>3 DEF commandVars
<1>4. ASSUME (\E m : SendOut(m)) \/ (\E b \in Beacons : BeaconEnds(b)) \/ Tick \/ Cleanup
      PROVE  task' = task
  BY <1>4 DEF SendOut, BeaconEnds, Tick, Cleanup
<1>5. ASSUME UpstreamChanges \/ FetchAndApply \/ FetchAndAsk \/ ReadProtected
             \/ ReadProtectedFails \/ ApplyList
      PROVE  task' = task
  BY <1>5 DEF UpstreamChanges, FetchAndApply, FetchAndAsk, ReadProtected, ReadProtectedFails,
              ApplyList, ApplyFinds
<1> QED BY <1>1, <1>2, <1>3, <1>4, <1>5, HandleTask, ResumeTask DEF CommandNext

-----------------------------------------------------------------------------
(* Beacons *)

(* The beacon a group lists is one of its own, and a task that waits for a *)
(* beacon waits for the listed one, cancelled, alone; unless several tasks *)
(* were at work on that group.                                             *)
BeaconForm ==
    /\ DOMAIN beacon = Beacons /\ DOMAIN topics = Groups
    /\ \A b \in Beacons : DOMAIN beacon[b] = {"group", "state"}
    /\ \A g \in Groups : topics[g] # None =>
          /\ topics[g] \in Beacons /\ beacon[topics[g]].group = g
          /\ beacon[topics[g]].state # "none"

Waits(p, g) ==
    /\ task[p].msg.op \in {"beacon", "silence"} /\ task[p].msg.arg = g /\ g \in Groups
    /\ task[p].on \in Beacons /\ beacon[task[p].on].group = g
    /\ beacon[task[p].on].state \in {"cancelled", "ended"}
    /\ g \notin disputed => topics[g] = task[p].on

BeaconInv ==
    /\ BeaconForm
    /\ \A p \in Paths : task[p].pc = "stopping" => Waits(p, task[p].msg.arg)
    /\ \A p, q \in Paths :
          /\ p # q /\ task[p].pc = "stopping" /\ task[q].pc = "stopping"
          /\ task[p].msg.arg = task[q].msg.arg
          => task[p].msg.arg \in disputed
    /\ BeaconsAreListed

(* Steps that concern no beacon.                                           *)
LEMMA OtherSteps ==
    ASSUME BeaconInv, UNCHANGED topicVars, disputed \subseteq disputed',
           \A p \in Paths : task'[p].pc = "stopping" => task'[p] = task[p]
    PROVE  BeaconInv'
<1>1. BeaconForm' /\ BeaconsAreListed'
  BY DEF BeaconInv, BeaconForm, BeaconsAreListed, topicVars, Running
<1>2. ASSUME NEW p \in Paths, task'[p].pc = "stopping" PROVE Waits(p, task[p].msg.arg)'
  BY <1>2 DEF BeaconInv, Waits, topicVars
<1> QED BY <1>1, <1>2 DEF BeaconInv

(* A new beacon, or none, takes the place of one that has ended.           *)
LEMMA AfterStopKeeps ==
    ASSUME BeaconInv, TaskForm, NEW p \in Paths, NEW m, AfterStop(m), Alone(p),
           m.op \in {"beacon", "silence"}, m.arg \in Groups,
           task'[p].pc = "ready", disputed \subseteq disputed',
           m.arg \notin disputed' =>
              /\ \A q \in Paths \ {p} : task[q].pc = "stopping" => task[q].msg.arg # m.arg
              /\ \A b \in Beacons : Running(b) => beacon[b].group # m.arg
    PROVE  BeaconInv'
<1> DEFINE g == m.arg
<1>0. None \notin Beacons
  BY CommandParameters
<1>1. PICK b : /\ topics' = [topics EXCEPT ![g] = b]
               /\ \/ b = None /\ beacon' = beacon
                  \/ b \in Unused /\ beacon' = [beacon EXCEPT ![b] = [group |-> g, state |-> "asleep"]]
  BY DEF AfterStop, StartBeacon
<1>2. \A d \in Beacons \ {b} : beacon'[d] = beacon[d]
  BY <1>0, <1>1 DEF BeaconInv, BeaconForm, Unused
<1>3. b # None => /\ b \in Beacons /\ beacon[b].state = "none" /\ beacon'[b].group = g
                  /\ beacon'[b].state = "asleep" /\ DOMAIN beacon'[b] = {"group", "state"}
  BY <1>1 DEF BeaconInv, BeaconForm, Unused
<1>4. /\ DOMAIN topics' = Groups /\ DOMAIN beacon' = Beacons
      /\ topics'[g] = b /\ \A h \in Groups \ {g} : topics'[h] = topics[h]
  BY <1>1 DEF BeaconInv, BeaconForm
<1>5. BeaconForm'
  <2>1. \A d \in Beacons : DOMAIN beacon'[d] = {"group", "state"}
    BY <1>0, <1>2, <1>3 DEF BeaconInv, BeaconForm
  <2>2. ASSUME NEW h \in Groups, topics'[h] # None
        PROVE  /\ topics'[h] \in Beacons /\ beacon'[topics'[h]].group = h
               /\ beacon'[topics'[h]].state # "none"
    <3>1. CASE h = g
      BY <1>3, <1>4, <2>2, <3>1
    <3>2. CASE h # g
      <4>1. /\ topics'[h] = topics[h] /\ topics[h] \in Beacons /\ beacon[topics[h]].group = h
            /\ beacon[topics[h]].state # "none"
        BY <1>4, <2>2, <3>2 DEF BeaconInv, BeaconForm
      <4>2. topics[h] # b
        BY <1>3, <2>2, <4>1
      <4> QED BY <1>2, <4>1, <4>2
    <3> QED BY <3>1, <3>2
  <2> QED BY <1>4, <2>1, <2>2 DEF BeaconForm
<1>6. ASSUME NEW q \in Paths, task'[q].pc = "stopping"
      PROVE  q # p /\ task'[q] = task[q] /\ Waits(q, task[q].msg.arg)'
  <2>1. q # p /\ task'[q] = task[q]
    BY <1>6 DEF Alone
  <2>2. Waits(q, task[q].msg.arg)
    BY <1>6, <2>1 DEF BeaconInv
  <2>3. beacon'[task[q].on] = beacon[task[q].on]
    BY <1>2, <1>3, <2>2, <1>0 DEF Waits
  <2>4. task[q].msg.arg \notin disputed' => topics'[task[q].msg.arg] = topics[task[q].msg.arg]
    BY <1>4, <1>6, <2>1, <2>2 DEF Waits
  <2> QED BY <2>1, <2>2, <2>3, <2>4 DEF Waits
<1>7. BeaconsAreListed'
  <2> SUFFICES ASSUME NEW d \in Beacons, beacon'[d].state = "asleep", beacon'[d].group \notin disputed'
               PROVE  topics'[beacon'[d].group] = d
    BY DEF BeaconsAreListed, Running
  <2>1. CASE d = b
    BY <1>0, <1>3, <1>4, <2>1
  <2>2. CASE d # b
    <3>1. beacon'[d] = beacon[d] /\ topics[beacon[d].group] = d
      BY <1>2, <2>2 DEF BeaconInv, BeaconsAreListed, Running
    <3>2. beacon[d].group # g
      BY <3>1 DEF Running
    <3>3. topics'[beacon[d].group] = topics[beacon[d].group]
      BY <1>1, <3>2 DEF BeaconInv, BeaconForm
    <3> QED BY <3>1, <3>3
  <2> QED BY <2>1, <2>2
<1> QED BY <1>5, <1>6, <1>7 DEF BeaconInv

LEMMA TopicMessage ==
    ASSUME NEW m \in Messages, m.op \in {"beacon", "silence"} PROVE m.arg \in Groups
BY DEF Groups

(* With no other task at work on it, a group runs the beacon it lists.     *)
LEMMA NoneRuns ==
    ASSUME BeaconInv, NEW g \in Groups, g \notin disputed,
           topics[g] = None \/ beacon[topics[g]].state # "asleep"
    PROVE  \A b \in Beacons : Running(b) => beacon[b].group # g
BY CommandParameters DEF BeaconInv, BeaconsAreListed, Running

LEMMA BeaconStays ==
    ASSUME TaskForm, BeaconInv, [CommandNext]_commandVars PROVE BeaconInv'
<1>1. ASSUME NEW p \in Paths, NEW m \in Messages, Handle(p, m) PROVE BeaconInv'
  <2>1. /\ task[p].pc = "ready" /\ Alone(p) /\ disputed \subseteq disputed'
        /\ task'[p].pc = "ready" \/ task'[p].msg = m
        /\ task'[p].pc = "stopping" => TopicStops(p, m)
    BY <1>1, HandleTask
  <2>2. CASE TopicAtOnce(p, m)
    <3>1. m.op \in {"beacon", "silence"} /\ AfterStop(m) /\ task'[p].pc = "ready"
      BY <2>2 DEF TopicAtOnce, Topic, Return, Ready, TaskForm
    <3>2. m.arg \in Groups
      BY <3>1, TopicMessage
    <3>3. ASSUME m.arg \notin disputed'
          PROVE  /\ \A q \in Paths \ {p} : task[q].pc = "stopping" => task[q].msg.arg # m.arg
                 /\ \A b \in Beacons : Running(b) => beacon[b].group # m.arg
      <4>1. Stopping(m.arg) = {} /\ m.arg \notin disputed
        BY <2>2, <3>3 DEF TopicAtOnce, Dispute
      <4>2. topics[m.arg] = None \/ beacon[topics[m.arg]].state # "asleep"
        BY <2>2 DEF TopicAtOnce, MustStop
      <4> QED BY <3>2, <4>1, <4>2, NoneRuns DEF Stopping
    <3> QED BY <2>1, <3>1, <3>2, <3>3, AfterStopKeeps
  <2>3. CASE TopicStops(p, m)
    <3> DEFINE g == m.arg
               b == topics[g]
    <3>1. /\ m.op \in {"beacon", "silence"} /\ b # None /\ topics' = topics
          /\ beacon' = [beacon EXCEPT ![b].state = "cancelled"]
          /\ task'[p] = [pc |-> "stopping", msg |-> m, on |-> b]
      BY <2>3 DEF TopicStops, Topic, MustStop, TaskForm
    <3>2. g \in Groups /\ b \in Beacons /\ beacon[b].group = g /\ DOMAIN beacon[b] = {"group", "state"}
      BY <3>1, TopicMessage DEF BeaconInv, BeaconForm
    <3>3. /\ DOMAIN beacon' = Beacons /\ \A d \in Beacons \ {b} : beacon'[d] = beacon[d]
          /\ beacon'[b].group = g /\ beacon'[b].state = "cancelled"
          /\ DOMAIN beacon'[b] = {"group", "state"}
      BY <3>1, <3>2 DEF BeaconInv, BeaconForm
    <3>4. BeaconForm'
      BY <3>1, <3>3 DEF BeaconInv, BeaconForm
    <3>5. BeaconsAreListed'
      BY <2>1, <3>1, <3>3 DEF BeaconInv, BeaconsAreListed, Running
    <3>6. ASSUME NEW q \in Paths, task'[q].pc = "stopping" PROVE Waits(q, task[q].msg.arg)'
      <4>1. CASE q = p
        BY <3>1, <3>2, <3>3, <4>1 DEF Waits
      <4>2. CASE q # p
        <5>1. task'[q] = task[q] /\ Waits(q, task[q].msg.arg)
          BY <2>1, <3>6, <4>2 DEF Alone, BeaconInv
        <5>2. /\ beacon'[task[q].on].group = beacon[task[q].on].group
              /\ beacon'[task[q].on].state \in {"cancelled", "ended"}
          BY <3>2, <3>3, <5>1 DEF Waits
        <5> QED BY <2>1, <3>1, <5>1, <5>2 DEF Waits
      <4> QED BY <4>1, <4>2
    <3>7. ASSUME NEW q \in Paths, NEW r \in Paths, q # r, task'[q].pc = "stopping",
                 task'[r].pc = "stopping", task'[q].msg.arg = task'[r].msg.arg
          PROVE  task'[q].msg.arg \in disputed'
      <4>1. ASSUME NEW s \in Paths, s # p, task[s].pc = "stopping", task[s].msg.arg = g
            PROVE  g \in disputed'
        BY <2>3, <4>1 DEF TopicStops, Dispute, Stopping
      <4>2. CASE q = p
        BY <2>1, <3>1, <3>7, <4>1, <4>2 DEF Alone
      <4>3. CASE r = p
        BY <2>1, <3>1, <3>7, <4>1, <4>3 DEF Alone
      <4>4. CASE q # p /\ r # p
        BY <2>1, <3>7, <4>4 DEF Alone, BeaconInv
      <4> QED BY <4>2, <4>3, <4>4
    <3> QED BY <3>4, <3>5, <3>6, <3>7 DEF BeaconInv
  <2>4. CASE ~TopicAtOnce(p, m) /\ ~TopicStops(p, m)
    <3>1. UNCHANGED topicVars
      BY <1>1, <2>4 DEF Handle, IgnoreBlocked, IgnoreDuplicate, Refuse, AnswerThrottled, Read,
                        AnswerOnly, SwitchGroup, Kickban
    <3> QED BY <2>1, <2>4, <3>1, OtherSteps DEF Alone
  <2> QED BY <2>2, <2>3, <2>4
<1>2. ASSUME NEW p \in Paths, Resume(p) PROVE BeaconInv'
  <2>1. /\ Alone(p) /\ disputed \subseteq disputed' /\ task'[p].pc # "stopping"
        /\ TopicStopped(p) => task'[p].pc = "ready"
    <3>1. ASSUME KickbanWrites(p), TopicStopped(p) PROVE FALSE
      BY <3>1 DEF KickbanWrites, TopicStopped, Resumes
    <3>2. ASSUME task'[p] = [task[p] EXCEPT !.pc = "written"] PROVE task'[p].pc = "written"
      BY <3>2 DEF TaskForm
    <3> QED BY <1>2, <3>1, <3>2, ResumeTask
  <2>2. CASE TopicStopped(p)
    <3> DEFINE m == task[p].msg
    <3>1. task[p].pc = "stopping" /\ AfterStop(m) /\ beacon[task[p].on].state = "ended"
          /\ disputed' = disputed
      BY <2>2 DEF TopicStopped, Resumes
    <3>2. Waits(p, m.arg)
      BY <3>1 DEF BeaconInv
    <3>3. ASSUME m.arg \notin disputed'
          PROVE  /\ \A q \in Paths \ {p} : task[q].pc = "stopping" => task[q].msg.arg # m.arg
                 /\ \A b \in Beacons : Running(b) => beacon[b].group # m.arg
      <4>1. \A q \in Paths \ {p} : task[q].pc = "stopping" => task[q].msg.arg # m.arg
        BY <3>1, <3>3 DEF BeaconInv
      <4>2. m.arg \in Groups /\ m.arg \notin disputed /\ beacon[topics[m.arg]].state = "ended"
        BY <3>1, <3>2, <3>3 DEF Waits
      <4> QED BY <4>1, <4>2, NoneRuns
    <3> QED BY <2>1, <2>2, <3>1, <3>2, <3>3, AfterStopKeeps DEF Waits
  <2>3. CASE ~TopicStopped(p)
    <3>1. UNCHANGED topicVars
      BY <1>2, <2>3 DEF Resume, ReadEnds, KickbanWrites, KickbanFails, KickbanTells
    <3> QED BY <2>1, <3>1, OtherSteps DEF Alone
  <2> QED BY <2>2, <2>3
<1>3. ASSUME NEW b \in Beacons, BeaconEnds(b) PROVE BeaconInv'
  <2>1. /\ DOMAIN beacon' = Beacons /\ \A d \in Beacons \ {b} : beacon'[d] = beacon[d]
        /\ beacon'[b].group = beacon[b].group /\ beacon'[b].state = "ended"
        /\ DOMAIN beacon'[b] = {"group", "state"}
        /\ UNCHANGED <<topics, task, disputed>>
    BY <1>3 DEF BeaconEnds, BeaconInv, BeaconForm
  <2>2. BeaconForm'
    BY <2>1 DEF BeaconInv, BeaconForm
  <2>3. BeaconsAreListed'
    BY <2>1 DEF BeaconInv, BeaconsAreListed, Running
  <2>4. ASSUME NEW p \in Paths, task[p].pc = "stopping" PROVE Waits(p, task[p].msg.arg)'
    <3>1. Waits(p, task[p].msg.arg)
      BY <2>4 DEF BeaconInv
    <3> QED BY <2>1, <3>1 DEF Waits
  <2> QED BY <2>1, <2>2, <2>3, <2>4 DEF BeaconInv
<1>4. CASE Restart
  <2>1. /\ \A p \in Paths : task'[p].pc = "ready"
        /\ DOMAIN topics' = Groups /\ \A g \in Groups : topics'[g] = None
    BY <1>4 DEF Restart, Ready
  <2>2. /\ DOMAIN beacon' = Beacons
        /\ \A b \in Beacons : /\ DOMAIN beacon'[b] = {"group", "state"}
                             /\ beacon'[b].state # "asleep"
    BY <1>4 DEF Restart, Unused, BeaconInv, BeaconForm
  <2> QED BY <2>1, <2>2 DEF BeaconInv, BeaconForm, BeaconsAreListed, Running
<1>5. CASE UNCHANGED commandVars
  BY <1>5, OtherSteps DEF commandVars
<1>6. ASSUME (\E m : SendOut(m)) \/ Tick \/ Cleanup \/ UpstreamChanges \/ FetchAndApply
             \/ FetchAndAsk \/ ReadProtected \/ ReadProtectedFails \/ ApplyList
      PROVE  BeaconInv'
  <2>1. UNCHANGED topicVars /\ task' = task /\ disputed \subseteq disputed'
    BY <1>6 DEF SendOut, Tick, Cleanup, UpstreamChanges, FetchAndApply, FetchAndAsk, ReadProtected,
                ReadProtectedFails, ApplyList, ApplyFinds
  <2> QED BY <2>1, OtherSteps
<1> QED BY <1>1, <1>2, <1>3, <1>4, <1>5, <1>6 DEF CommandNext

(* A beacon that sends is the one its group lists, so that !topic delete   *)
(* reaches it (_start_topic_beacon, _stop_topic_beacon); unless two !topic *)
(* for the group overlapped.                                               *)
THEOREM BeaconsStayListed == CommandSpec => []BeaconsAreListed
<1>1. CommandInit => TaskForm /\ BeaconInv
  <2> SUFFICES ASSUME CommandInit PROVE TaskForm /\ BeaconInv
    OBVIOUS
  <2>1. TaskForm /\ \A p \in Paths : task[p].pc = "ready"
    BY DEF CommandInit, TaskForm, Ready
  <2>2. BeaconForm /\ BeaconsAreListed
    BY DEF CommandInit, BeaconForm, BeaconsAreListed, Running
  <2> QED BY <2>1, <2>2 DEF BeaconInv
<1>2. BeaconInv => BeaconsAreListed
  BY DEF BeaconInv
<1>3. TaskForm /\ BeaconInv /\ [CommandNext]_commandVars => TaskForm' /\ BeaconInv'
  BY TaskStays, BeaconStays
<1> QED BY <1>1, <1>2, <1>3, PTL DEF CommandSpec

-----------------------------------------------------------------------------
(* The blocklist *)

Touches(p, c) == KickbanRuns(p) /\ c \in Touched(task[p].msg)

Agrees(c) ==
    /\ c \in stored => c \in blocked
    /\ c \in blocked => c \in stored \cup entries
    /\ c \in told <=> c \in blocked

(* Nobody works on c but perhaps the refresh of the curated list, which    *)
(* remembers of c what is still so.                                        *)
Untouched(c) ==
    /\ \A p \in Paths : ~Touches(p, c)
    /\ Agrees(c)
    /\ loader.pc # "waiting" => (c \in loader.before <=> c \in blocked)
    /\ loader.pc = "asked" => (c \in loader.protected <=> c \in stored)

(* Only p works on c: it has changed the memory, then the table.           *)
Underway(p, c) ==
    /\ Touches(p, c) /\ \A q \in Paths \ {p} : ~Touches(q, c)
    /\ loader.pc = "waiting"
    /\ c \in blocked <=> task[p].msg.op = "ban"
    /\ task[p].pc = "written" => (c \in stored <=> task[p].msg.op = "ban")

BanOf(c) == Untouched(c) \/ \E p \in Paths : Underway(p, c)

LoaderForm ==
    /\ DOMAIN loader = {"pc", "data", "before", "protected"}
    /\ loader.pc \in {"waiting", "asking", "asked"}

BanInv ==
    /\ LoaderForm
    /\ \A p \in Paths : KickbanRuns(p) => task[p].msg.op \in {"ban", "unban", "clear"}
    /\ \A c \in Calls \ disputed : BanOf(c)

LEMMA BanHolds == BanInv => OneBlocklist
<1> SUFFICES ASSUME BanInv, AtRest, NEW c \in Calls \ disputed PROVE Agrees(c)
  BY DEF OneBlocklist, BansAgree, ClientsAreTold, Agrees
<1>1. \A p \in Paths : ~Underway(p, c)
  BY DEF AtRest, Underway, Touches
<1> QED BY <1>1 DEF BanInv, BanOf, Untouched

(* Steps that concern no ban.                                              *)
LEMMA NoBanStep ==
    ASSUME BanInv, UNCHANGED banVars, disputed \subseteq disputed',
           \A p \in Paths : /\ KickbanRuns(p)' <=> KickbanRuns(p)
                            /\ KickbanRuns(p) => task'[p] = task[p]
    PROVE  BanInv'
<1>1. \A p \in Paths : \A c : Touches(p, c)' <=> Touches(p, c)
  BY DEF Touches, Touched
<1>2. ASSUME NEW c \in Calls \ disputed', Untouched(c) PROVE Untouched(c)'
  BY <1>1, <1>2 DEF Untouched, Agrees, banVars
<1>3. ASSUME NEW c \in Calls \ disputed', NEW p \in Paths, Underway(p, c) PROVE Underway(p, c)'
  BY <1>1, <1>3 DEF Underway, Touches, banVars
<1>4. LoaderForm' /\ \A p \in Paths : KickbanRuns(p)' => task'[p].msg.op \in {"ban", "unban", "clear"}
  BY DEF BanInv, LoaderForm, banVars
<1> QED BY <1>2, <1>3, <1>4 DEF BanInv, BanOf

LEMMA KickbanStays ==
    ASSUME TaskForm, BanInv, NEW p \in Paths, NEW m, Kickban(p, m) PROVE BanInv'
<1>1. /\ task[p].pc = "ready" /\ Alone(p) /\ task'[p].pc = "writing" /\ task'[p].msg = m
      /\ m.op \in {"ban", "unban", "clear"}
      /\ blocked' = IF m.op = "ban" THEN blocked \cup {m.arg} ELSE blocked \ Touched(m)
      /\ disputed' = disputed \cup (IF Applying THEN Touched(m) ELSE Touched(m) \cap TouchedNow)
      /\ UNCHANGED <<stored, entries, loader, told>>
  BY DEF Kickban, GoOn, TaskForm, Alone, Begin, Admitted, Arrives, Ready
<1>2. /\ KickbanRuns(p)' /\ ~KickbanRuns(p)
      /\ \A q \in Paths \ {p} : KickbanRuns(q)' = KickbanRuns(q)
  BY <1>1 DEF KickbanRuns, Alone
<1>3. /\ \A c : Touches(p, c)' <=> c \in Touched(m)
      /\ \A c : ~Touches(p, c)
      /\ \A q \in Paths \ {p} : \A c : Touches(q, c)' <=> Touches(q, c)
  BY <1>1, <1>2 DEF Touches, Touched, Alone
<1>4. ASSUME NEW c \in Calls \ disputed', c \in Touched(m) PROVE Underway(p, c)'
  <2>1. ~Applying /\ c \notin TouchedNow
    BY <1>1, <1>4
  <2>2. \A q \in Paths : ~Touches(q, c)
    BY <2>1 DEF Touches, TouchedNow
  <2>3. m.op = "ban" => Touched(m) = {m.arg}
    BY DEF Touched
  <2>4. c \in blocked' <=> m.op = "ban"
    BY <1>1, <1>4, <2>3
  <2> QED BY <1>1, <1>3, <1>4, <2>1, <2>2, <2>4 DEF Underway, Applying
<1>5. ASSUME NEW c \in Calls \ disputed', c \notin Touched(m) PROVE BanOf(c)'
  <2>1. m.op = "ban" => Touched(m) = {m.arg}
    BY DEF Touched
  <2>2. c \in blocked' <=> c \in blocked
    BY <1>1, <1>5, <2>1
  <2>3. BanOf(c)
    BY <1>1, <1>5 DEF BanInv
  <2>4. CASE Untouched(c)
    BY <1>1, <1>3, <1>5, <2>2, <2>4 DEF Untouched, Agrees, BanOf
  <2>5. ASSUME NEW q \in Paths, Underway(q, c) PROVE Underway(q, c)'
    <3>1. q # p
      BY <1>3, <2>5 DEF Underway
    <3>2. task'[q] = task[q]
      BY <1>1, <3>1 DEF Alone
    <3> QED BY <1>1, <1>3, <1>5, <2>2, <2>5, <3>1, <3>2 DEF Underway
  <2> QED BY <2>3, <2>4, <2>5 DEF BanOf
<1>6. \A q \in Paths : KickbanRuns(q)' => task'[q].msg.op \in {"ban", "unban", "clear"}
  BY <1>1, <1>2 DEF BanInv, Alone
<1> QED BY <1>1, <1>4, <1>5, <1>6 DEF BanInv, BanOf, LoaderForm

LEMMA WritesStays ==
    ASSUME TaskForm, BanInv, NEW p \in Paths, KickbanWrites(p) PROVE BanInv'
<1> DEFINE m == task[p].msg
<1>1. /\ task[p].pc = "writing" /\ Alone(p) /\ task'[p].pc = "written" /\ task'[p].msg = m
      /\ stored' = Persisted(m)
      /\ UNCHANGED <<blocked, entries, loader, told, disputed>>
  BY DEF KickbanWrites, Resumes, TaskForm, Alone
<1>2. /\ KickbanRuns(p)' /\ KickbanRuns(p)
      /\ \A q \in Paths \ {p} : KickbanRuns(q)' = KickbanRuns(q)
  BY <1>1 DEF KickbanRuns, Alone
<1>3. m.op \in {"ban", "unban", "clear"}
  BY <1>2 DEF BanInv
<1>4. \A q \in Paths : \A c : Touches(q, c)' <=> Touches(q, c)
  <2>1. \A q \in Paths : task'[q].msg = task[q].msg
    BY <1>1 DEF Alone
  <2> QED BY <1>2, <2>1 DEF Touches, Touched
<1>5. /\ \A c \in Touched(m) : c \in stored' <=> m.op = "ban"
      /\ \A c \in Calls \ Touched(m) : c \in stored' <=> c \in stored
  BY <1>1, <1>3 DEF Persisted, Touched
<1>6. ASSUME NEW c \in Calls \ disputed PROVE BanOf(c)'
  <2>1. CASE Untouched(c)
    <3>1. c \in stored' <=> c \in stored
      BY <1>2, <1>5, <2>1 DEF Untouched, Touches
    <3> QED BY <1>1, <1>4, <2>1, <3>1 DEF Untouched, Agrees, BanOf
  <2>2. ASSUME NEW q \in Paths, Underway(q, c) PROVE Underway(q, c)'
    <3>1. CASE q = p
      <4>1. c \in stored' <=> m.op = "ban"
        BY <1>5, <2>2, <3>1 DEF Underway, Touches
      <4> QED BY <1>1, <1>4, <2>2, <3>1, <4>1 DEF Underway
    <3>2. CASE q # p
      <4>1. c \notin Touched(m) /\ task'[q] = task[q]
        BY <1>1, <1>2, <2>2, <3>2 DEF Underway, Touches, Alone
      <4> QED BY <1>1, <1>4, <1>5, <2>2, <4>1 DEF Underway
    <3> QED BY <3>1, <3>2
  <2> QED BY <1>6, <2>1, <2>2 DEF BanInv, BanOf
<1>7. \A q \in Paths : KickbanRuns(q)' => task'[q].msg.op \in {"ban", "unban", "clear"}
  BY <1>1, <1>2, <1>3 DEF BanInv, Alone
<1> QED BY <1>1, <1>6, <1>7 DEF BanInv, LoaderForm

(* The command returns: the clients have been told, or the write failed.   *)
LEMMA ReturnStays ==
    ASSUME TaskForm, BanInv, NEW p \in Paths, KickbanTells(p) \/ KickbanFails(p) PROVE BanInv'
<1> DEFINE m == task[p].msg
<1>1. /\ KickbanRuns(p) /\ Alone(p) /\ task'[p].pc = "ready"
      /\ UNCHANGED <<blocked, stored, entries, loader>>
      /\ \/ task[p].pc = "written" /\ told' = blocked /\ disputed' = disputed
         \/ told' = told /\ disputed' = disputed \cup Touched(m)
  BY DEF KickbanTells, KickbanFails, Resumes, Ends, TaskForm, Alone, Ready, KickbanRuns, banVars
<1>2. ~KickbanRuns(p)' /\ \A q \in Paths \ {p} : KickbanRuns(q)' = KickbanRuns(q)
  BY <1>1 DEF KickbanRuns, Alone
<1>3. /\ \A c : ~Touches(p, c)'
      /\ \A q \in Paths \ {p} : \A c : Touches(q, c)' <=> Touches(q, c)
  BY <1>1, <1>2 DEF Touches, Touched, Alone
<1>4. ASSUME NEW c \in Calls \ disputed' PROVE BanOf(c)'
  <2>1. BanOf(c)
    BY <1>1, <1>4 DEF BanInv
  <2>2. CASE Untouched(c)
    BY <1>1, <1>3, <2>2 DEF Untouched, Agrees, BanOf
  <2>3. ASSUME NEW q \in Paths, Underway(q, c) PROVE BanOf(c)'
    <3>1. CASE q = p
      <4>1. task[p].pc = "written" /\ told' = blocked
        BY <1>1, <1>4, <2>3, <3>1 DEF Underway, Touches
      <4> QED BY <1>1, <1>3, <2>3, <3>1, <4>1 DEF Underway, Untouched, Agrees, BanOf
    <3>2. CASE q # p
      <4>1. task'[q] = task[q]
        BY <1>1, <3>2 DEF Alone
      <4> QED BY <1>1, <1>3, <2>3, <3>2, <4>1 DEF Underway, BanOf
    <3> QED BY <3>1, <3>2
  <2> QED BY <2>1, <2>2, <2>3 DEF BanOf
<1>5. \A q \in Paths : KickbanRuns(q)' => task'[q].msg.op \in {"ban", "unban", "clear"}
  BY <1>1, <1>2 DEF BanInv, Alone
<1> QED BY <1>1, <1>4, <1>5 DEF BanInv, LoaderForm

(* What a change of the list tells the clients.                            *)
LEMMA AnnouncedIs ==
    ASSUME NEW before, NEW c, told' = Announced(before), c \in told <=> c \in blocked,
           c \in before <=> c \in blocked
    PROVE  c \in told' <=> c \in blocked'
<1>1. CASE blocked' # before
  BY <1>1 DEF Announced
<1>2. CASE blocked' = before
  BY <1>2 DEF Announced
<1> QED BY <1>1, <1>2

LEMMA FetchStays ==
    ASSUME BanInv, FetchAndApply \/ FetchAndAsk PROVE BanInv'
<1>1. /\ loader = Waiting /\ disputed' = disputed \cup TouchedNow
      /\ UNCHANGED <<task, stored>>
  BY DEF FetchAndApply, FetchAndAsk, Fetched
<1>2. \A p \in Paths : \A c : Touches(p, c)' <=> Touches(p, c)
  BY <1>1 DEF Touches, Touched, KickbanRuns
<1>3. ASSUME NEW c \in Calls \ disputed'
      PROVE  Untouched(c) /\ \A p \in Paths : ~Touches(p, c)
  <2>1. \A p \in Paths : ~Touches(p, c)
    BY <1>1, <1>3 DEF TouchedNow, Touches
  <2> QED BY <1>1, <1>3, <2>1 DEF BanInv, BanOf, Underway
<1>4. CASE FetchAndApply
  <2>1. /\ loader' = loader /\ Stale(Served) = {}
        /\ blocked' = (blocked \ Lifted(Served, {})) \cup Served
        /\ entries' = Served /\ told' = Announced(blocked)
    BY <1>4 DEF FetchAndApply, Apply
  <2>2. Lifted(Served, {}) = {} /\ entries \subseteq Served
    BY <2>1 DEF Lifted, Stale
  <2>3. ASSUME NEW c \in Calls \ disputed' PROVE BanOf(c)'
    <3>1. c \in told' <=> c \in blocked'
      BY <1>3, <2>1, <2>3, AnnouncedIs DEF Untouched, Agrees
    <3>2. /\ c \in stored => c \in blocked'
          /\ c \in blocked' => c \in stored \cup entries'
      BY <1>3, <2>1, <2>2, <2>3 DEF Untouched, Agrees
    <3> QED BY <1>1, <1>2, <1>3, <2>1, <2>3, <3>1, <3>2 DEF Untouched, Agrees, BanOf, Waiting
  <2> QED BY <1>1, <2>1, <2>3 DEF BanInv, LoaderForm, KickbanRuns
<1>5. CASE FetchAndAsk
  <2>1. /\ loader' = [pc |-> "asking", data |-> Served, before |-> blocked, protected |-> {}]
        /\ UNCHANGED <<blocked, entries, told>>
    BY <1>5 DEF FetchAndAsk
  <2>2. ASSUME NEW c \in Calls \ disputed' PROVE BanOf(c)'
    BY <1>1, <1>2, <1>3, <2>1, <2>2 DEF Untouched, Agrees, BanOf
  <2> QED BY <1>1, <2>1, <2>2 DEF BanInv, LoaderForm, KickbanRuns
<1> QED BY <1>4, <1>5

LEMMA ReadStays ==
    ASSUME BanInv, ReadProtected PROVE BanInv'
<1>1. /\ loader.pc = "asking" /\ loader'.pc = "asked" /\ loader'.protected = stored
      /\ loader'.before = loader.before /\ DOMAIN loader' = DOMAIN loader
      /\ UNCHANGED <<blocked, stored, entries, told, task, disputed>>
  BY DEF ReadProtected, BanInv, LoaderForm
<1>2. \A p \in Paths : \A c : Touches(p, c)' <=> Touches(p, c)
  BY <1>1 DEF Touches, Touched, KickbanRuns
<1>3. ASSUME NEW c \in Calls \ disputed PROVE BanOf(c)'
  <2>1. Untouched(c)
    BY <1>1, <1>3 DEF BanInv, BanOf, Underway
  <2> QED BY <1>1, <1>2, <2>1 DEF Untouched, Agrees, BanOf
<1> QED BY <1>1, <1>3 DEF BanInv, LoaderForm, KickbanRuns

(* The list is applied with what the table, or its failure, protects.      *)
LEMMA ApplyStays ==
    ASSUME BanInv, ReadProtectedFails \/ ApplyList PROVE BanInv'
<1>1. PICK protected :
         /\ ApplyFinds(protected) /\ loader.pc # "waiting" /\ disputed \subseteq disputed'
         /\ \/ loader.pc = "asked" /\ protected = loader.protected
            \/ disputed' = disputed \cup Stale(loader.data)
  BY DEF ReadProtectedFails, ApplyList
<1>2. /\ blocked' = (blocked \ Lifted(loader.data, protected)) \cup loader.data
      /\ entries' = loader.data /\ told' = Announced(loader.before)
      /\ loader' = Waiting /\ UNCHANGED <<task, stored>>
  BY <1>1 DEF ApplyFinds, Apply
<1>3. \A p \in Paths : \A c : Touches(p, c)' <=> Touches(p, c)
  BY <1>2 DEF Touches, Touched, KickbanRuns
<1>4. ASSUME NEW c \in Calls \ disputed' PROVE BanOf(c)'
  <2>1. Untouched(c)
    BY <1>1, <1>4 DEF BanInv, BanOf, Underway
  <2>2. c \in told' <=> c \in blocked'
    BY <1>1, <1>2, <2>1, AnnouncedIs DEF Untouched, Agrees
  <2>3. c \in entries /\ c \notin loader.data => (c \in protected <=> c \in stored)
    BY <1>1, <1>4, <2>1 DEF Untouched, Stale
  <2>4. /\ c \in stored => c \in blocked'
        /\ c \in blocked' => c \in stored \cup entries'
    BY <1>2, <2>1, <2>3 DEF Untouched, Agrees, Lifted, Stale
  <2> QED BY <1>2, <1>3, <2>1, <2>2, <2>4 DEF Untouched, Agrees, BanOf, Waiting
<1> QED BY <1>2, <1>4 DEF BanInv, LoaderForm, Waiting, KickbanRuns

LEMMA BanStays ==
    ASSUME TaskForm, BanInv, [CommandNext]_commandVars PROVE BanInv'
<1>1. ASSUME NEW p \in Paths, NEW m, Handle(p, m), ~Kickban(p, m) PROVE BanInv'
  <2>1. /\ task[p].pc = "ready" /\ Alone(p) /\ disputed \subseteq disputed'
        /\ task'[p].pc \notin {"writing", "written"}
    BY <1>1, HandleTask
  <2>2. UNCHANGED banVars
    BY <1>1 DEF Handle, IgnoreBlocked, IgnoreDuplicate, Refuse, AnswerThrottled, Read, AnswerOnly,
                SwitchGroup, TopicAtOnce, TopicStops
  <2>3. \A q \in Paths : /\ KickbanRuns(q)' <=> KickbanRuns(q)
                         /\ KickbanRuns(q) => task'[q] = task[q]
    BY <2>1 DEF KickbanRuns, Alone
  <2> QED BY <2>1, <2>2, <2>3, NoBanStep
<1>2. ASSUME NEW p \in Paths, ReadEnds(p) \/ TopicStopped(p) PROVE BanInv'
  <2>1. /\ Alone(p) /\ disputed \subseteq disputed' /\ task'[p].pc = "ready" /\ UNCHANGED banVars
        /\ task[p].pc \in {"reading", "stopping"}
    BY <1>2 DEF ReadEnds, TopicStopped, Ends, Alone, TaskForm, Ready, Resumes
  <2>2. \A q \in Paths : /\ KickbanRuns(q)' <=> KickbanRuns(q)
                         /\ KickbanRuns(q) => task'[q] = task[q]
    BY <2>1 DEF KickbanRuns, Alone
  <2> QED BY <2>1, <2>2, NoBanStep
<1>3. ASSUME (\E m : SendOut(m)) \/ (\E b \in Beacons : BeaconEnds(b)) \/ Tick \/ Cleanup
             \/ UpstreamChanges \/ UNCHANGED commandVars
      PROVE  BanInv'
  <2>1. UNCHANGED <<banVars, task>> /\ disputed \subseteq disputed'
    BY <1>3 DEF SendOut, BeaconEnds, Tick, Cleanup, UpstreamChanges, commandVars
  <2> QED BY <2>1, NoBanStep DEF KickbanRuns
<1>4. CASE Restart
  <2>1. /\ blocked' = stored' /\ told' = stored' /\ loader' = Waiting
        /\ \A p \in Paths : ~KickbanRuns(p)'
    BY <1>4 DEF Restart, KickbanRuns, Ready
  <2> QED BY <2>1 DEF BanInv, BanOf, Untouched, Agrees, Touches, LoaderForm, Waiting
<1>5. ASSUME NEW p \in Paths, Resume(p) PROVE BanInv'
  BY <1>2, <1>5, WritesStays, ReturnStays DEF Resume
<1> QED
  BY <1>1, <1>3, <1>4, <1>5, KickbanStays, FetchStays, ReadStays, ApplyStays DEF CommandNext

(* Table, memory and web clients have one blocklist whenever no command    *)
(* and no refresh is at work (handle_kickban, _apply_sperrliste), but for  *)
(* the call signs two tasks worked on at once or the table failed for.     *)
THEOREM BlocklistStaysOne == CommandSpec => []OneBlocklist
<1>1. CommandInit => TaskForm /\ BanInv
  <2> SUFFICES ASSUME CommandInit PROVE TaskForm /\ BanInv
    OBVIOUS
  <2>1. TaskForm /\ \A p \in Paths : ~KickbanRuns(p)
    BY DEF CommandInit, TaskForm, Ready, KickbanRuns
  <2>2. blocked = stored /\ told = stored /\ loader = Waiting
    BY DEF CommandInit
  <2> QED BY <2>1, <2>2 DEF BanInv, BanOf, Untouched, Agrees, Touches, LoaderForm, Waiting
<1>2. TaskForm /\ BanInv /\ [CommandNext]_commandVars => TaskForm' /\ BanInv'
  BY TaskStays, BanStays
<1> QED BY <1>1, <1>2, BanHolds, PTL DEF CommandSpec

-----------------------------------------------------------------------------
(* The replies *)

(* The count is the number of users. *)
CountExact ==
    \A k \in Recipients : IsFiniteSet(Users(k)) /\ refs[k] = Cardinality(Users(k))

(* Every user of a recipient's lock uses the one in the table. *)
SameLock ==
    \A r \in Replies : state[r] = "using" => lockOf[r] \in Replies /\ lockOf[r] = locks[Key(r)]

(* A reply that has begun to send has kept its lock ever since. *)
StartedHolds ==
    \A r \in Replies : state[r] = "using" /\ sent[r] > 0 => Holds(r) /\ onAir[Key(r)] = r

NoneSentYet == \A r \in Replies : state[r] \in {"new", "created"} => sent[r] = 0

IInv == TypeOK /\ CountExact /\ SameLock /\ StartedHolds /\ NoneSentYet

LEMMA KeyType == \A r \in Replies : Key(r) \in Recipients
BY DEF Key, Recipients

LEMMA InitIInv == Init => IInv
<1> SUFFICES ASSUME Init PROVE IInv
  OBVIOUS
<1>1. TypeOK
  BY ParametersAssumption DEF Init, TypeOK
<1>2. \A k \in Recipients : Users(k) = {}
  BY DEF Init, Users
<1>3. CountExact
  BY <1>2, FS_EmptySet DEF Init, CountExact
<1> QED BY <1>1, <1>3 DEF Init, IInv, SameLock, StartedHolds, NoneSentYet

(* Two holders with one recipient are one. *)
LEMMA HoldersAgree ==
    ASSUME SameLock, NEW q \in Replies, NEW r \in Replies, Holds(q), Holds(r), Key(q) = Key(r)
    PROVE  q = r
BY DEF SameLock, Holds

(* What leaving does to the tables, when the count is exact. *)
LEMMA LeaveFacts ==
    ASSUME IInv, NEW r \in Replies, state[r] = "using", Leave(r),
           UNCHANGED <<lockOf, sent, draining, stopped, onAir>>
    PROVE  IInv'
<1> DEFINE k == Key(r)
           l == lockOf[r]
<1> USE KeyType
<1>1. state' = [state EXCEPT ![r] = "ended"]
  BY DEF Leave
<1>2. l \in Replies /\ l = locks[k] /\ k \in Recipients
  BY DEF IInv, SameLock
<1>3. PICK i \in DOMAIN queue[l] : queue[l][i] = r /\ queue' = [queue EXCEPT ![l] = Without(@, i)]
  BY DEF Leave
<1>4. \A j \in Recipients : Users(j)' = IF j = k THEN Users(j) \ {r} ELSE Users(j)
  BY <1>1 DEF Users, Key, IInv, TypeOK
<1>5. r \in Users(k) /\ IsFiniteSet(Users(k)) /\ refs[k] = Cardinality(Users(k))
  BY DEF Users, IInv, CountExact
<1>6. IsFiniteSet(Users(k) \ {r}) /\ Cardinality(Users(k) \ {r}) = refs[k] - 1
  BY <1>5, FS_RemoveElement
<1>7. refs[k] \in Nat /\ refs[k] - 1 \in Nat
  <2>1. refs[k] \in Nat
    BY <1>2 DEF IInv, TypeOK
  <2>2. Cardinality(Users(k) \ {r}) \in Nat
    BY <1>6, FS_CardinalityType
  <2> QED BY <1>6, <2>1, <2>2
<1>8. refs' = [refs EXCEPT ![k] = refs[k] - 1]
  BY <1>7 DEF Leave, LastUser
<1>9. LastUser(r) => Users(k)' = {}
  BY <1>2, <1>4, <1>6, FS_EmptySet DEF LastUser
<1>10. \A j \in Recipients : locks'[j] = locks[j] \/ (j = k /\ Users(k)' = {} /\ locks'[j] = NoReply)
  BY <1>9 DEF Leave, IInv, TypeOK
<1>11. TypeOK'
  <2>1. queue[l] \in Seq(Replies) /\ i \in 1 .. Len(queue[l])
    BY <1>2, <1>3 DEF IInv, TypeOK
  <2>2. Without(queue[l], i) \in Seq(Replies)
    BY <2>1 DEF Without
  <2>3. queue' \in [Replies -> Seq(Replies)]
    BY <1>2, <1>3, <2>2 DEF IInv, TypeOK
  <2>4. locks' \in [Recipients -> Replies \cup {NoReply}]
    BY DEF Leave, IInv, TypeOK
  <2>5. refs' \in [Recipients -> Nat]
    BY <1>7, <1>8 DEF IInv, TypeOK
  <2> QED BY <1>1, <2>3, <2>4, <2>5 DEF IInv, TypeOK
<1>12. CountExact'
  <2> SUFFICES ASSUME NEW j \in Recipients
               PROVE  IsFiniteSet(Users(j)') /\ refs'[j] = Cardinality(Users(j)')
    BY DEF CountExact
  <2>1. CASE j = k
    BY <1>2, <1>4, <1>6, <1>8, <2>1 DEF IInv, TypeOK
  <2>2. CASE j # k
    BY <1>4, <1>8, <2>2 DEF IInv, TypeOK, CountExact
  <2> QED BY <2>1, <2>2
<1>13. \A q \in Replies : state'[q] = "using" => q # r /\ state[q] = "using" /\ q \in Users(Key(q))'
  BY <1>1 DEF IInv, TypeOK, Users
<1>14. SameLock'
  BY <1>10, <1>13 DEF IInv, SameLock, Key
<1>15. StartedHolds'
  <2> SUFFICES ASSUME NEW q \in Replies, state'[q] = "using", sent'[q] > 0
               PROVE  Holds(q)' /\ onAir'[Key(q)] = q
    BY DEF StartedHolds, Key
  <2>1. q # r /\ state[q] = "using" /\ sent[q] > 0 /\ Holds(q) /\ onAir[Key(q)] = q
    BY <1>13 DEF IInv, StartedHolds
  <2>2. CASE lockOf[q] # l
    BY <1>3, <2>1, <2>2 DEF Holds, IInv, TypeOK, SameLock
  <2>3. CASE lockOf[q] = l
    <3>1. queue[l] \in Seq(Replies) /\ i \in 1 .. Len(queue[l]) /\ queue[l][1] = q /\ i # 1
      BY <1>2, <1>3, <2>1, <2>3 DEF Holds, IInv, TypeOK
    <3>2. queue'[l] = Without(queue[l], i)
      BY <1>2, <1>3 DEF IInv, TypeOK
    <3>3. 1 \in 1 .. Len(queue[l]) - 1
      BY <3>1
    <3>4. 1 \in DOMAIN queue'[l] /\ queue'[l][1] = q
      BY <3>1, <3>2, <3>3 DEF Without
    <3> QED BY <2>1, <2>3, <3>4 DEF Holds
  <2> QED BY <2>1, <2>2, <2>3
<1>16. NoneSentYet'
  BY <1>1 DEF IInv, TypeOK, NoneSentYet
<1> QED BY <1>11, <1>12, <1>14, <1>15, <1>16 DEF IInv

LEMMA NextIInv == IInv /\ [Next]_vars => IInv'
<1> SUFFICES ASSUME IInv, [Next]_vars PROVE IInv'
  OBVIOUS
<1> USE KeyType, ParametersAssumption
<1>0. ASSUME UNCHANGED <<taskVars, tableVars, onAir>>, draining' \subseteq Replies,
             stopped' \in {"no", "draining", "cutting", "yes"}
      PROVE  IInv'
  <2>1. UNCHANGED <<state, lockOf, sent, locks, refs, queue, onAir>>
    BY <1>0 DEF taskVars, tableVars
  <2>2. TypeOK'
    BY <1>0, <2>1 DEF IInv, TypeOK
  <2>3. \A k \in Recipients : Users(k)' = Users(k)
    BY <2>1 DEF Users, Key
  <2>4. CountExact'
    BY <2>1, <2>3 DEF IInv, CountExact
  <2> QED BY <2>1, <2>2, <2>4 DEF IInv, SameLock, StartedHolds, NoneSentYet, Holds, Key
<1>1. ASSUME NEW r \in Replies, SendResponse(r) PROVE IInv'
  <2>1. /\ state[r] = "new" /\ state' = [state EXCEPT ![r] = "created"]
        /\ UNCHANGED <<lockOf, sent, locks, refs, queue, draining, stopped, onAir>>
    BY <1>1 DEF SendResponse, tableVars
  <2>2. TypeOK'
    BY <2>1 DEF IInv, TypeOK
  <2>3. \A k \in Recipients : Users(k)' = Users(k)
    BY <2>1 DEF IInv, TypeOK, Users, Key
  <2>4. CountExact'
    BY <2>1, <2>3 DEF IInv, CountExact
  <2>5. SameLock' /\ StartedHolds' /\ NoneSentYet'
    BY <2>1 DEF IInv, TypeOK, SameLock, StartedHolds, NoneSentYet, Holds, Key
  <2> QED BY <2>2, <2>4, <2>5 DEF IInv
<1>2. ASSUME NEW r \in Replies, TakeLock(r) PROVE IInv'
  <2> DEFINE k == Key(r)
             l == IF locks[k] = NoReply THEN r ELSE locks[k]
  <2>1. /\ state[r] = "created"
        /\ state' = [state EXCEPT ![r] = "using"]
        /\ lockOf' = [lockOf EXCEPT ![r] = l]
        /\ locks' = [locks EXCEPT ![k] = l]
        /\ refs' = [refs EXCEPT ![k] = @ + 1]
        /\ queue' = [queue EXCEPT ![l] = Append(@, r)]
        /\ UNCHANGED <<sent, draining, stopped, onAir>>
    BY <1>2 DEF TakeLock
  <2>2. l \in Replies /\ k \in Recipients
    BY DEF IInv, TypeOK
  <2>3. \A q \in Replies : state[q] = "using" /\ Key(q) = k => lockOf[q] = l
    BY DEF IInv, SameLock
  <2> HIDE DEF l
  <2>4. TypeOK'
    <3>1. queue[l] \in Seq(Replies)
      BY <2>2 DEF IInv, TypeOK
    <3>2. Append(queue[l], r) \in Seq(Replies)
      BY <3>1
    <3>3. queue' \in [Replies -> Seq(Replies)]
      BY <2>1, <2>2, <3>2 DEF IInv, TypeOK
    <3>4. locks' \in [Recipients -> Replies \cup {NoReply}]
      BY <2>1, <2>2 DEF IInv, TypeOK
    <3>5. refs' \in [Recipients -> Nat]
      BY <2>1, <2>2 DEF IInv, TypeOK
    <3>6. state' \in [Replies -> {"new", "created", "using", "ended"}] /\ lockOf' \in [Replies -> Replies \cup {NoReply}]
      BY <2>1, <2>2 DEF IInv, TypeOK
    <3> QED BY <2>1, <3>3, <3>4, <3>5, <3>6 DEF IInv, TypeOK
  <2>5. \A j \in Recipients : Users(j)' = IF j = k THEN Users(j) \cup {r} ELSE Users(j)
    BY <2>1 DEF Users, Key, IInv, TypeOK
  <2>6. CountExact'
    <3> SUFFICES ASSUME NEW j \in Recipients
                 PROVE  IsFiniteSet(Users(j)') /\ refs'[j] = Cardinality(Users(j)')
      BY DEF CountExact
    <3>1. CASE j = k
      <4>1. r \notin Users(k) /\ IsFiniteSet(Users(k)) /\ refs[k] = Cardinality(Users(k))
        BY <2>1, <2>2 DEF Users, IInv, CountExact
      <4>2. IsFiniteSet(Users(k) \cup {r}) /\ Cardinality(Users(k) \cup {r}) = refs[k] + 1
        BY <4>1, FS_AddElement
      <4> QED BY <2>1, <2>2, <2>5, <3>1, <4>2 DEF IInv, TypeOK
    <3>2. CASE j # k
      BY <2>1, <2>5, <3>2 DEF IInv, TypeOK, CountExact
    <3> QED BY <3>1, <3>2
  <2>7. SameLock'
    <3> SUFFICES ASSUME NEW q \in Replies, state'[q] = "using"
                 PROVE  lockOf'[q] \in Replies /\ lockOf'[q] = locks'[Key(q)]
      BY DEF SameLock, Key
    <3>1. CASE q = r
      BY <2>1, <2>2, <3>1 DEF IInv, TypeOK
    <3>2. CASE q # r
      <4>1. state[q] = "using" /\ lockOf[q] \in Replies /\ lockOf[q] = locks[Key(q)]
        BY <2>1, <3>2 DEF IInv, TypeOK, SameLock
      <4> QED BY <2>1, <2>3, <3>2, <4>1 DEF IInv, TypeOK
    <3> QED BY <3>1, <3>2
  <2>8. StartedHolds'
    <3> SUFFICES ASSUME NEW q \in Replies, state'[q] = "using", sent'[q] > 0
                 PROVE  Holds(q)' /\ onAir'[Key(q)] = q
      BY DEF StartedHolds, Key
    <3>1. q # r /\ state[q] = "using" /\ Holds(q) /\ onAir[Key(q)] = q
      BY <2>1 DEF IInv, TypeOK, NoneSentYet, StartedHolds
    <3>2. lockOf'[q] = lockOf[q] /\ lockOf[q] \in Replies /\ state'[q] = "using"
      BY <2>1, <3>1 DEF IInv, TypeOK, SameLock
    <3>3. CASE lockOf[q] # l
      BY <2>1, <3>1, <3>2, <3>3 DEF Holds, IInv, TypeOK
    <3>4. CASE lockOf[q] = l
      <4>1. queue[l] \in Seq(Replies) /\ 1 \in DOMAIN queue[l] /\ queue[l][1] = q
        BY <2>2, <3>1, <3>4 DEF Holds, IInv, TypeOK
      <4>2. queue'[l] = Append(queue[l], r)
        BY <2>1, <2>2 DEF IInv, TypeOK
      <4>3. 1 \in DOMAIN queue'[l] /\ queue'[l][1] = q
        BY <4>1, <4>2
      <4> QED BY <2>1, <3>1, <3>2, <3>4, <4>3 DEF Holds
    <3> QED BY <2>1, <3>1, <3>3, <3>4
  <2>9. NoneSentYet'
    BY <2>1 DEF IInv, TypeOK, NoneSentYet
  <2> QED BY <2>4, <2>6, <2>7, <2>8, <2>9 DEF IInv
<1>3. ASSUME NEW r \in Replies, SendChunk(r) PROVE IInv'
  <2>1. /\ Holds(r) /\ sent[r] < Chunks
        /\ sent' = [sent EXCEPT ![r] = @ + 1]
        /\ onAir' = [onAir EXCEPT ![Key(r)] = r]
        /\ UNCHANGED <<state, lockOf, locks, refs, queue, draining, stopped>>
    BY <1>3 DEF SendChunk, MaySend, MoreChunks, tableVars
  <2>2. TypeOK'
    <3>1. sent' \in [Replies -> 0 .. Chunks]
      BY <2>1 DEF IInv, TypeOK
    <3> QED BY <2>1, <3>1 DEF IInv, TypeOK
  <2>3. \A k \in Recipients : Users(k)' = Users(k)
    BY <2>1 DEF Users, Key
  <2>4. CountExact'
    BY <2>1, <2>3 DEF IInv, CountExact
  <2>5. StartedHolds'
    <3> SUFFICES ASSUME NEW q \in Replies, state[q] = "using", sent'[q] > 0
                 PROVE  Holds(q) /\ onAir'[Key(q)] = q
      BY <2>1 DEF StartedHolds, Holds, Key
    <3>1. CASE q = r
      BY <2>1, <3>1 DEF IInv, TypeOK
    <3>2. CASE q # r
      <4>1. Holds(q) /\ onAir[Key(q)] = q
        BY <2>1, <3>2 DEF IInv, TypeOK, StartedHolds
      <4>2. Key(q) # Key(r)
        BY <2>1, <3>2, <4>1, HoldersAgree DEF IInv
      <4> QED BY <2>1, <4>1, <4>2 DEF IInv, TypeOK
    <3> QED BY <3>1, <3>2
  <2>6. NoneSentYet'
    BY <2>1 DEF IInv, TypeOK, NoneSentYet, Holds
  <2> QED BY <2>1, <2>2, <2>4, <2>5, <2>6 DEF IInv, SameLock, Key
<1>4. ASSUME NEW r \in Replies, Finish(r) \/ StoreFails(r) PROVE IInv'
  BY <1>4, LeaveFacts DEF Finish, StoreFails, Holds
<1>5. ASSUME NEW r \in Replies, CutOff(r) PROVE IInv'
  <2>1. CASE state[r] = "using"
    BY <1>5, <2>1, LeaveFacts DEF CutOff
  <2>2. CASE state[r] # "using"
    <3>1. /\ state[r] = "created" /\ state' = [state EXCEPT ![r] = "ended"]
          /\ UNCHANGED <<lockOf, sent, locks, refs, queue, draining, stopped, onAir>>
      BY <1>5, <2>2 DEF CutOff, tableVars
    <3>2. TypeOK'
      BY <3>1 DEF IInv, TypeOK
    <3>3. \A k \in Recipients : Users(k)' = Users(k)
      BY <3>1 DEF IInv, TypeOK, Users, Key
    <3>4. CountExact'
      BY <3>1, <3>3 DEF IInv, CountExact
    <3>5. SameLock' /\ StartedHolds' /\ NoneSentYet'
      BY <3>1 DEF IInv, TypeOK, SameLock, StartedHolds, NoneSentYet, Holds, Key
    <3> QED BY <3>2, <3>4, <3>5 DEF IInv
  <2> QED BY <2>1, <2>2
<1>6. ASSUME StopBegins \/ DrainTimesOut \/ StopEnds PROVE IInv'
  <2>1. /\ UNCHANGED <<taskVars, tableVars, onAir>> /\ draining' \subseteq Replies
        /\ stopped' \in {"no", "draining", "cutting", "yes"}
    BY <1>6 DEF StopBegins, DrainTimesOut, StopEnds, Pending, IInv, TypeOK
  <2> QED BY <1>0, <2>1
<1>7. CASE UNCHANGED vars
  <2>1. /\ UNCHANGED <<taskVars, tableVars, onAir>> /\ draining' \subseteq Replies
        /\ stopped' \in {"no", "draining", "cutting", "yes"}
    BY <1>7 DEF vars, IInv, TypeOK
  <2> QED BY <1>0, <2>1
<1> QED BY <1>1, <1>2, <1>3, <1>4, <1>5, <1>6, <1>7 DEF Next, TaskStep

LEMMA Inductive == Spec => []IInv
BY InitIInv, NextIInv, PTL DEF Spec

(* However replies, their ends and a shutdown interleave, at most one      *)
(* reply to a station holds the station's lock (_send_chunks).             *)
THEOREM LocksExclude == Spec => []OneSenderPerRecipient
<1>1. IInv => OneSenderPerRecipient
  BY HoldersAgree DEF IInv, OneSenderPerRecipient
<1> QED BY <1>1, Inductive, PTL

(* ... and the chunks of one reply are never interleaved with another's. *)
THEOREM NeverInterleaved == Spec => []ChunksContiguous
<1>1. IInv => ChunksContiguous
  BY DEF IInv, StartedHolds, ChunksContiguous
<1> QED BY <1>1, Inductive, PTL

(* A recipient without users has no lock in the table. *)
NoSpareLock == \A k \in Recipients : Users(k) = {} => locks[k] = NoReply

LEMMA LeaveKeepsNoSpare ==
    ASSUME IInv, NoSpareLock, NEW r \in Replies, state[r] = "using", Leave(r)
    PROVE  NoSpareLock'
<1> DEFINE k == Key(r)
<1> USE KeyType
<1>1. \A j \in Recipients : Users(j)' = IF j = k THEN Users(k) \ {r} ELSE Users(j)
  BY DEF Leave, Users, Key, IInv, TypeOK
<1>2. IsFiniteSet(Users(k)) /\ refs[k] = Cardinality(Users(k)) /\ r \in Users(k)
  BY DEF Users, IInv, CountExact
<1>3. Cardinality(Users(k) \ {r}) = refs[k] - 1
  BY <1>2, FS_RemoveElement
<1>4. Users(k) \ {r} = {} => LastUser(r)
  BY <1>3, FS_EmptySet DEF LastUser
<1>5. locks' = [locks EXCEPT ![k] = IF LastUser(r) THEN NoReply ELSE @] /\ k \in Recipients
  BY DEF Leave
<1> QED
  <2> SUFFICES ASSUME NEW j \in Recipients, Users(j)' = {} PROVE locks'[j] = NoReply
    BY DEF NoSpareLock
  <2>1. CASE j = k
    BY <1>1, <1>4, <1>5, <2>1 DEF IInv, TypeOK
  <2>2. CASE j # k
    BY <1>1, <1>5, <2>2 DEF IInv, TypeOK, NoSpareLock
  <2> QED BY <2>1, <2>2

LEMMA NextNoSpare == IInv /\ NoSpareLock /\ [Next]_vars => NoSpareLock'
<1> SUFFICES ASSUME IInv, NoSpareLock, [Next]_vars PROVE NoSpareLock'
  OBVIOUS
<1> USE KeyType
<1>0. ASSUME UNCHANGED locks, \A r \in Replies : state[r] = "using" => state'[r] = "using"
      PROVE  NoSpareLock'
  <2>1. \A k \in Recipients : Users(k) \subseteq Users(k)'
    BY <1>0 DEF Users, Key
  <2> QED BY <1>0, <2>1 DEF NoSpareLock
<1>1. ASSUME NEW r \in Replies, SendResponse(r) PROVE NoSpareLock'
  BY <1>0, <1>1 DEF SendResponse, tableVars, IInv, TypeOK
<1>2. ASSUME NEW r \in Replies, TakeLock(r) PROVE NoSpareLock'
  <2> DEFINE k == Key(r)
  <2>1. /\ state' = [state EXCEPT ![r] = "using"] /\ k \in Recipients
        /\ \A j \in Recipients : j # k => locks'[j] = locks[j]
    BY <1>2 DEF TakeLock, IInv, TypeOK
  <2> SUFFICES ASSUME NEW j \in Recipients, Users(j)' = {} PROVE locks'[j] = NoReply
    BY DEF NoSpareLock
  <2>2. r \in Users(k)'
    BY <2>1 DEF Users, Key, IInv, TypeOK
  <2>3. Users(j) \subseteq Users(j)'
    BY <2>1 DEF Users, Key, IInv, TypeOK
  <2> QED BY <2>1, <2>2, <2>3 DEF NoSpareLock
<1>3. ASSUME NEW r \in Replies, SendChunk(r) PROVE NoSpareLock'
  BY <1>0, <1>3 DEF SendChunk, tableVars
<1>4. ASSUME NEW r \in Replies, Finish(r) \/ StoreFails(r) PROVE NoSpareLock'
  BY <1>4, LeaveKeepsNoSpare DEF Finish, StoreFails, Holds
<1>5. ASSUME NEW r \in Replies, CutOff(r) PROVE NoSpareLock'
  <2>1. CASE state[r] = "using"
    BY <1>5, <2>1, LeaveKeepsNoSpare DEF CutOff
  <2>2. CASE state[r] = "created"
    BY <1>0, <1>5, <2>2 DEF CutOff, tableVars, IInv, TypeOK
  <2> QED BY <1>5, <2>1, <2>2 DEF CutOff
<1>6. ASSUME StopBegins \/ DrainTimesOut \/ StopEnds \/ UNCHANGED vars PROVE NoSpareLock'
  BY <1>0, <1>6 DEF StopBegins, DrainTimesOut, StopEnds, vars, taskVars, tableVars
<1> QED BY <1>1, <1>2, <1>3, <1>4, <1>5, <1>6 DEF Next, TaskStep

(* For any number of replies, recipients and chunks, wherever shutdown     *)
(* cancels and whichever store fails: the locks exclude, the chunks stay   *)
(* together, and the tables hold what is in use and nothing else           *)
(* (_send_chunks).                                                         *)
THEOREM RepliesStaySound == Spec => []RepliesSound
<1>1. Init => NoSpareLock
  BY DEF Init, NoSpareLock
<1>2. IInv /\ NoSpareLock => NothingLeaks
  <2> SUFFICES ASSUME IInv, NoSpareLock, NEW k \in Recipients, NEW r \in Users(k)
               PROVE  locks[k] # NoReply
    BY DEF NothingLeaks, IInv, CountExact, NoSpareLock
  <2>1. locks[k] \in Replies
    BY DEF IInv, SameLock, Users
  <2> QED BY <2>1, ParametersAssumption
<1>3. IInv /\ NoSpareLock => RepliesSound
  BY <1>2, HoldersAgree
     DEF IInv, StartedHolds, RepliesSound, OneSenderPerRecipient, ChunksContiguous
<1> QED BY InitIInv, NextIInv, NextNoSpare, <1>1, <1>3, PTL DEF Spec
=============================================================================
