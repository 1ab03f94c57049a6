------------------------------ MODULE Commands ------------------------------
(***************************************************************************)
(* Chat commands: which message is executed and how often                  *)
(* (commands/routing.py, dedup.py, parsing.py, suppression.py), and the    *)
(* commands that change something: !kb (commands/admin_commands.py) with   *)
(* the curated blocklist that is fetched beside it (commands/handler.py),  *)
(* !group, and !topic (commands/topic_beacon.py).                          *)
(*                                                                         *)
(* A path is a task that feeds messages to _message_handler one after the  *)
(* other: "udp" and "ble" hear the mesh, "self" is our own users' POST.    *)
(* A message is a record [id, src, dst, target, op, arg] as the parser     *)
(* returns it; target is what extract_target_callsign finds.               *)
(***************************************************************************)
EXTENDS Integers, Sequences

CONSTANTS
    None,
    Agendas,      \* what the world may do, see the variable agenda
    Calls,        \* the call signs that are banned and unbanned
    Beacons,      \* names for the tasks of beacons
    IdTimeout,    \* MSG_ID_TIMEOUT_SECONDS
    ShortTimeout, \* COMMAND_THROTTLING
    LongTimeout   \* DEFAULT_THROTTLE_TIMEOUT

ASSUME CommandParameters ==
    /\ {IdTimeout, ShortTimeout, LongTimeout} \subseteq Nat
    /\ None \notin Calls /\ None \notin Beacons
    /\ \A a \in Agendas : a.ticks \in Nat /\ a.lists \in Seq(SUBSET Calls) \ {<<>>}

Paths == {"udp", "ble", "self"}

VARIABLES
    agenda,     \* what is still to come: <<path, message>> pairs, the curated
                \* lists of which the first is served, ticks of the clock
    now,
    processed,  \* processed_msg_ids: its entries <<id, time>>
    throttle,   \* command_throttle: its entries <<content hash, time>>
    task,       \* path -> the message in its handler and the await it stands at
    groupOn,    \* group_responses_enabled
    blocked,    \* blocked_callsigns
    stored,     \* the kickban table
    entries,    \* _sperrliste_entries
    etag,       \* the list that _sperrliste_etag belongs to, None when unset
    loader,     \* load_sperrliste: where it stands and its locals
    told,       \* the blocklist the web clients were sent last
    topics,     \* active_topics: group -> beacon, None when absent
    beacon,     \* beacon -> its group and the state of its task
    aired,      \* history: commands of our own that went on the air
    runs,       \* history: <<path, message, time>> of what was executed
    disputed    \* history: call signs and groups two tasks worked on at once

dedupVars == <<processed, throttle>>
banVars == <<blocked, stored, entries, etag, loader, told>>
topicVars == <<topics, beacon>>
commandVars == <<agenda, now, dedupVars, task, runs, groupOn, banVars, topicVars, aired, disputed>>

Messages == UNION {{e[2] : e \in a.coming} : a \in Agendas}
Groups == {m.arg : m \in {x \in Messages : x.op \in {"beacon", "silence"}}}

Ready == [pc |-> "ready", msg |-> None, on |-> None]
Waiting == [pc |-> "waiting", data |-> {}, before |-> {}, protected |-> {}]

\* A synthetic message gets an id of its own (_create_synthetic_message).
Id(p, m) == IF p = "self" THEN -m.id ELSE m.id

ThrottledCommands == {"time", "group", "kb", "topic"}
Command(m) ==
    CASE m.op \in {"ban", "unban", "clear"} -> "kb"
      [] m.op \in {"beacon", "silence"} -> "topic"
      [] m.op \in {"on", "off"} -> "group"
      [] OTHER -> m.op
Hash(m) ==
    IF Command(m) \in ThrottledCommands
    THEN <<m.src, m.dst, Command(m)>>
    ELSE <<m.src, m.dst, m.op, m.arg>>
ThrottleTimeout(h) == IF h[3] \in ThrottledCommands THEN ShortTimeout ELSE LongTimeout

\* build_app: the persisted bans are loaded before anything is subscribed.
CommandInit ==
    /\ agenda \in Agendas
    /\ now = 0
    /\ processed = {}
    /\ throttle = {}
    /\ task = [p \in Paths |-> Ready]
    /\ groupOn = FALSE
    /\ stored \in SUBSET Calls
    /\ blocked = stored
    /\ entries = {}
    /\ etag = None
    /\ loader = Waiting
    /\ told = stored
    /\ topics = [g \in Groups |-> None]
    /\ beacon = [b \in Beacons |-> [group |-> None, state |-> "none"]]
    /\ aired = {}
    /\ runs = {}
    /\ disputed = {}

-----------------------------------------------------------------------------
(* Which messages are executed *)

\* Mutant: an entry is forgotten a moment too early.
FreshIds_Early == {e \in processed : e[2] > now - IdTimeout}

\* _cleanup_msg_id_cache and _cleanup_throttle_cache.
FreshIds == {e \in processed : e[2] >= now - IdTimeout}
FreshThrottle == {e \in throttle : now - e[2] <= ThrottleTimeout(e[1])}

Remembered(entries_, key) == \E e \in entries_ : e[1] = key
Remember(entries_, key) == {e \in entries_ : e[1] # key} \cup {<<key, now>>}

\* Our call sign with another SSID is an administrator as well.
IsAdmin(station) == station \in {"me", "mate"}
IsGroup(dst) == dst = "group"
Broadcast(dst) == dst \in {"all", "none"}

\* should_suppress_outbound: does a command of ours stay in the house?
Suppressed(m) == m.src = "me" /\ (Broadcast(m.dst) \/ m.target \in {"none", "me"})

\* Mutant: a target is only looked at in commands of other stations.
ShouldExecute_OwnAlways(m) ==
    \/ m.src = "me"
    \/ m.dst = "me" /\ m.target \in {"none", "me"}
    \/ IsGroup(m.dst) /\ m.target = "me" /\ (groupOn \/ IsAdmin(m.src))

ShouldExecute(m) ==
    \/ m.src = "me" /\ (Broadcast(m.dst) \/ m.target \in {"none", "me"})
    \/ m.src # "me" /\ m.dst = "me" /\ m.target \in {"none", "me"}
    \/ m.src # "me" /\ IsGroup(m.dst) /\ m.target = "me" /\ (groupOn \/ IsAdmin(m.src))

\* The first returns of _message_handler, in its order.
Gated(m) == m.src \in blocked
Duplicate(p, m) == Remembered(FreshIds, Id(p, m))
SkippedEcho(p, m) == p = "udp" /\ m.src = "me"
Throttled(m) == Remembered(FreshThrottle, Hash(m))

Takes(p, m) ==
    /\ <<p, m>> \in agenda.coming
    /\ agenda' = [agenda EXCEPT !.coming = @ \ {<<p, m>>}]

Arrives(p, m) ==
    /\ task[p] = Ready
    /\ Takes(p, m)
    /\ p = "self" => Suppressed(m) \/ m.dst = "me"

\* A command of ours for another station leaves the house (_handle_outbound).
SendOut(m) ==
    /\ Takes("self", m)
    /\ ~Suppressed(m) /\ m.dst # "me"
    /\ aired' = aired \cup {m}
    /\ UNCHANGED <<now, dedupVars, task, runs, groupOn, banVars, topicVars, disputed>>

\* A banned station is ignored before its message is remembered.
IgnoreBlocked(p, m) ==
    /\ Arrives(p, m) /\ Gated(m)
    /\ UNCHANGED <<now, dedupVars, task, runs, groupOn, banVars, topicVars, aired, disputed>>

IgnoreDuplicate(p, m) ==
    /\ Arrives(p, m) /\ ~Gated(m) /\ Duplicate(p, m)
    /\ processed' = FreshIds
    /\ UNCHANGED <<now, throttle, task, runs, groupOn, banVars, topicVars, aired, disputed>>

Admitted(p, m) ==
    /\ Arrives(p, m) /\ ~Gated(m) /\ ~Duplicate(p, m)
    /\ processed' = Remember(FreshIds, Id(p, m))

Refuse(p, m) ==
    /\ Admitted(p, m)
    /\ SkippedEcho(p, m) \/ ~ShouldExecute(m)
    /\ UNCHANGED <<now, throttle, task, runs, groupOn, banVars, topicVars, aired, disputed>>

AnswerThrottled(p, m) ==
    /\ Admitted(p, m)
    /\ ~SkippedEcho(p, m) /\ ShouldExecute(m) /\ Throttled(m)
    /\ throttle' = FreshThrottle
    /\ UNCHANGED <<now, task, runs, groupOn, banVars, topicVars, aired, disputed>>

-----------------------------------------------------------------------------
(* The execution of a command *)

\* _parse_and_execute: the command begins ...
Begin(p, m) ==
    /\ Admitted(p, m)
    /\ ~SkippedEcho(p, m) /\ ShouldExecute(m) /\ ~Throttled(m)
    /\ runs' = runs \cup {<<p, m, now>>}

\* ... goes on to an await ...
GoOn(p, m, step) ==
    /\ task' = [task EXCEPT ![p] = [pc |-> step, msg |-> m, on |-> None]]
    /\ throttle' = FreshThrottle

\* ... and its content is marked once it has returned.
Return(p, m) ==
    /\ task' = [task EXCEPT ![p] = Ready]
    /\ throttle' = Remember(FreshThrottle, Hash(m))

Resumes(p, step) == task[p].pc = step
Ends(p) ==
    /\ task' = [task EXCEPT ![p] = Ready]
    /\ throttle' = Remember(throttle, Hash(task[p].msg))

\* Commands that only read: the store or the weather service answers later.
Read(p, m) ==
    /\ Begin(p, m) /\ m.op \in {"time", "stats"}
    /\ GoOn(p, m, "reading")
    /\ UNCHANGED <<now, groupOn, banVars, topicVars, aired, disputed>>

ReadEnds(p) ==
    /\ Resumes(p, "reading") /\ Ends(p)
    /\ UNCHANGED <<agenda, now, processed, runs, groupOn, banVars, topicVars, aired, disputed>>

AdminOps == {"ban", "unban", "clear", "beacon", "silence", "on", "off"}

\* Answered without a change: no administrator, or nothing to do.
Nothing(m) ==
    \/ ~IsAdmin(m.src)
    \/ m.op = "ban" /\ (m.arg = "mate" \/ m.arg \in blocked)
    \/ m.op = "unban" /\ m.arg \notin blocked
    \/ m.op = "silence" /\ topics[m.arg] = None

AnswerOnly(p, m) ==
    /\ Begin(p, m) /\ m.op \in AdminOps /\ Nothing(m)
    /\ Return(p, m)
    /\ UNCHANGED <<now, groupOn, banVars, topicVars, aired, disputed>>

SwitchGroup(p, m) ==
    /\ Begin(p, m) /\ m.op \in {"on", "off"} /\ IsAdmin(m.src)
    /\ groupOn' = (m.op = "on")
    /\ Return(p, m)
    /\ UNCHANGED <<now, banVars, topicVars, aired, disputed>>

-----------------------------------------------------------------------------
(* handle_kickban: memory first, then the table, then the web clients *)

Touched(m) == IF m.op = "clear" THEN Calls ELSE {m.arg}
KickbanRuns(p) == task[p].pc \in {"writing", "written"}
TouchedNow == UNION {Touched(task[p].msg) : p \in {q \in Paths : KickbanRuns(q)}}
Applying == loader.pc # "waiting"

Kickban(p, m) ==
    /\ Begin(p, m) /\ m.op \in {"ban", "unban", "clear"} /\ ~Nothing(m)
    /\ blocked' = IF m.op = "ban" THEN blocked \cup {m.arg} ELSE blocked \ Touched(m)
    /\ GoOn(p, m, "writing")
    /\ disputed' = disputed \cup (IF Applying THEN Touched(m) ELSE Touched(m) \cap TouchedNow)
    /\ UNCHANGED <<now, groupOn, stored, entries, etag, loader, told, topicVars, aired>>

Persisted(m) == IF m.op = "ban" THEN stored \cup {m.arg} ELSE stored \ Touched(m)

KickbanWrites(p) ==
    /\ Resumes(p, "writing")
    /\ stored' = Persisted(task[p].msg)
    /\ task' = [task EXCEPT ![p].pc = "written"]
    /\ UNCHANGED <<agenda, now, dedupVars, runs, groupOn, blocked, entries, etag, loader, told,
                   topicVars, aired, disputed>>

\* The exception becomes the answer; the memory stays as it is.
KickbanFails(p) ==
    /\ Resumes(p, "writing") /\ Ends(p)
    /\ disputed' = disputed \cup Touched(task[p].msg)
    /\ UNCHANGED <<agenda, now, processed, runs, groupOn, banVars, topicVars, aired>>

KickbanTells(p) ==
    /\ Resumes(p, "written") /\ Ends(p)
    /\ told' = blocked
    /\ UNCHANGED <<agenda, now, processed, runs, groupOn, blocked, stored, entries, etag, 
                   loader, topicVars, aired, disputed>>

-----------------------------------------------------------------------------
(* load_sperrliste: the curated list, refreshed for ever *)

Served == Head(agenda.lists)

UpstreamChanges ==
    /\ Len(agenda.lists) > 1
    /\ agenda' = [agenda EXCEPT !.lists = Tail(@)]
    /\ UNCHANGED <<now, dedupVars, task, runs, groupOn, banVars, topicVars, aired, disputed>>

Stale(data) == entries \ data

Lifted(data, protected) == Stale(data) \ protected

\* Mutant: nobody is told.
Announced_Never(before) == told
Announced(before) == IF blocked' # before THEN blocked' ELSE told

\* The end of _apply_sperrliste.
Apply(data, before, protected) ==
    /\ blocked' = (blocked \ Lifted(data, protected)) \cup data
    /\ entries' = data
    /\ told' = Announced(before)

\* A list is accepted: the etag is kept at once, a server may send none.
Fetched ==
    /\ loader = Waiting /\ etag # Served
    /\ etag' \in {Served, None}

FetchAndApply ==
    /\ Fetched /\ Stale(Served) = {}
    /\ Apply(Served, blocked, {})
    /\ disputed' = disputed \cup TouchedNow
    /\ UNCHANGED <<agenda, now, dedupVars, task, runs, groupOn, stored, loader, topicVars, aired>>

FetchAndAsk ==
    /\ Fetched /\ Stale(Served) # {}
    /\ loader' = [pc |-> "asking", data |-> Served, before |-> blocked, protected |-> {}]
    /\ disputed' = disputed \cup TouchedNow
    /\ UNCHANGED <<agenda, now, dedupVars, task, runs, groupOn, blocked, stored, entries, told,
                   topicVars, aired>>

\* _protected_kickbans: the worker thread reads the table ...
ReadProtected ==
    /\ loader.pc = "asking"
    /\ loader' = [loader EXCEPT !.pc = "asked", !.protected = stored]
    /\ UNCHANGED <<agenda, now, dedupVars, task, runs, groupOn, blocked, stored, entries, etag, 
                   told, topicVars, aired, disputed>>

\* ... or fails: everything banned now stays so, until the next start.
ApplyFinds(protected) ==
    /\ Apply(loader.data, loader.before, protected)
    /\ loader' = Waiting
    /\ UNCHANGED <<agenda, now, dedupVars, task, runs, groupOn, stored, etag, topicVars, aired>>

ReadProtectedFails ==
    /\ loader.pc = "asking" /\ ApplyFinds(blocked)
    /\ disputed' = disputed \cup Stale(loader.data)

ApplyList ==
    /\ loader.pc = "asked" /\ ApplyFinds(loader.protected)
    /\ UNCHANGED disputed

-----------------------------------------------------------------------------
(* handle_topic *)

Running(b) == beacon[b].state = "asleep"
Unused == {b \in Beacons : beacon[b].state = "none"}
Topic(p, m) == Begin(p, m) /\ m.op \in {"beacon", "silence"} /\ ~Nothing(m)

\* Mutant: the old beacon is not stopped before the new one starts.
MustStop_Never(g) == FALSE
MustStop(g) == topics[g] # None

\* _start_topic_beacon.
StartBeacon(g) ==
    \E b \in Unused :
    /\ beacon' = [beacon EXCEPT ![b] = [group |-> g, state |-> "asleep"]]
    /\ topics' = [topics EXCEPT ![g] = b]

\* What handle_topic does once the old beacon has ended.
AfterStop(m) ==
    IF m.op = "beacon" THEN StartBeacon(m.arg)
    ELSE topics' = [topics EXCEPT ![m.arg] = None] /\ UNCHANGED beacon

Stopping(g) == {p \in Paths : task[p].pc = "stopping" /\ task[p].msg.arg = g}
Dispute(g) == disputed' = IF Stopping(g) = {} THEN disputed ELSE disputed \cup {g}

\* No beacon to stop, or its task has ended already: no await.
TopicAtOnce(p, m) ==
    /\ Topic(p, m)
    /\ MustStop(m.arg) => beacon[topics[m.arg]].state = "ended"
    /\ AfterStop(m)
    /\ Return(p, m)
    /\ Dispute(m.arg)
    /\ UNCHANGED <<now, groupOn, banVars, aired>>

\* _stop_topic_beacon up to "await task".
TopicStops(p, m) ==
    LET b == topics[m.arg] IN
    /\ Topic(p, m) /\ MustStop(m.arg) /\ beacon[b].state # "ended"
    /\ beacon' = [beacon EXCEPT ![b].state = "cancelled"]
    /\ task' = [task EXCEPT ![p] = [pc |-> "stopping", msg |-> m, on |-> b]]
    /\ throttle' = FreshThrottle
    /\ Dispute(m.arg)
    /\ UNCHANGED <<now, groupOn, banVars, topics, aired>>

TopicStopped(p) ==
    /\ Resumes(p, "stopping") /\ beacon[task[p].on].state = "ended"
    /\ AfterStop(task[p].msg)
    /\ Ends(p)
    /\ UNCHANGED <<agenda, now, processed, runs, groupOn, banVars, aired, disputed>>

\* A beacon ends when it is cancelled, or wakes up and finds no entry.
BeaconEnds(b) ==
    /\ \/ beacon[b].state = "cancelled"
       \/ Running(b) /\ topics[beacon[b].group] = None
    /\ beacon' = [beacon EXCEPT ![b].state = "ended"]
    /\ UNCHANGED <<agenda, now, dedupVars, task, runs, groupOn, banVars, topics, aired, disputed>>

-----------------------------------------------------------------------------

Tick ==
    /\ agenda.ticks > 0
    /\ agenda' = [agenda EXCEPT !.ticks = @ - 1]
    /\ now' = now + 1
    /\ UNCHANGED <<dedupVars, task, runs, groupOn, banVars, topicVars, aired, disputed>>

\* _dedup_cleanup_loop, once an hour.
Cleanup ==
    /\ processed' = FreshIds /\ throttle' = FreshThrottle
    /\ UNCHANGED <<agenda, now, task, runs, groupOn, banVars, topicVars, aired, disputed>>

\* Nothing but the table outlives the process; clients connect again.
Restart ==
    /\ blocked' = stored /\ told' = stored
    /\ entries' = {} /\ etag' = None /\ loader' = Waiting
    /\ processed' = {} /\ throttle' = {}
    /\ runs' = {<<r[1], r[2], None>> : r \in runs}
    /\ task' = [p \in Paths |-> Ready]
    /\ groupOn' = FALSE
    /\ topics' = [g \in Groups |-> None]
    /\ beacon' = [b \in Beacons |-> IF b \in Unused THEN beacon[b] ELSE [beacon[b] EXCEPT !.state = "ended"]]
    /\ disputed' = {}
    /\ UNCHANGED <<agenda, now, stored, aired>>

Handle(p, m) ==
    \/ IgnoreBlocked(p, m) \/ IgnoreDuplicate(p, m) \/ Refuse(p, m) \/ AnswerThrottled(p, m)
    \/ Read(p, m) \/ AnswerOnly(p, m) \/ SwitchGroup(p, m) \/ Kickban(p, m)
    \/ TopicAtOnce(p, m) \/ TopicStops(p, m)

Resume(p) ==
    \/ ReadEnds(p) \/ KickbanWrites(p) \/ KickbanFails(p) \/ KickbanTells(p) \/ TopicStopped(p)

CommandNext ==
    \/ \E m \in Messages : SendOut(m) \/ \E p \in Paths : Handle(p, m)
    \/ \E p \in Paths : Resume(p)
    \/ \E b \in Beacons : BeaconEnds(b)
    \/ UpstreamChanges \/ FetchAndApply \/ FetchAndAsk
    \/ ReadProtected \/ ReadProtectedFails \/ ApplyList
    \/ Tick \/ Cleanup \/ Restart

CommandSpec == CommandInit /\ [][CommandNext]_commandVars

-----------------------------------------------------------------------------

CommandTypeOK ==
    /\ now \in Nat
    /\ \A e \in processed : e[2] \in 0 .. now
    /\ \A e \in throttle : e[2] \in 0 .. now
    /\ blocked \subseteq Calls /\ stored \subseteq Calls
    /\ entries \subseteq Calls /\ told \subseteq Calls
    /\ disputed \subseteq Calls \cup Groups
    /\ \A g \in Groups : topics[g] # None => beacon[topics[g]].group = g

AtRest == loader = Waiting /\ \A p \in Paths : ~KickbanRuns(p)

(* A message that comes over UDP and over Bluetooth, or once more over the *)
(* mesh, is executed once within MSG_ID_TIMEOUT_SECONDS, whatever the       *)
(* first copy is still waiting for (_is_duplicate_msg_id).                 *)
ExecutedOncePerWindow ==
    [][\A new \in runs' \ runs, old \in runs :
          new[3] # None /\ old[3] # None /\ Id(new[1], new[2]) = Id(old[1], old[2])
              => now - old[3] > IdTimeout]_commandVars

(* What should_suppress_outbound sends out under our call sign, to another  *)
(* station, is never executed here, not even when the node echoes it back  *)
(* over Bluetooth: a command runs in one place.                            *)
HereOrOnAir == \A m \in aired, r \in runs : m.src = "me" => r[2] # m

(* Between commands and refreshes memory and table agree: a ban in the     *)
(* table is enforced, and what is enforced is in the table or on the       *)
(* curated list.  Excepted are call signs that two tasks worked on at      *)
(* once, or for which a read or a write of the table failed, since the     *)
(* start.                                                                  *)
BansAgree ==
    AtRest =>
        \A c \in Calls \ disputed :
            /\ c \in stored => c \in blocked
            /\ c \in blocked => c \in stored \cup entries

(* Whoever changes the blocklist, the web clients end up with the list     *)
(* that is enforced (_broadcast_blocked_callsigns), with that exception.   *)
ClientsAreTold ==
    AtRest => \A c \in Calls \ disputed : c \in told <=> c \in blocked

(* Table, memory and clients have one blocklist.                           *)
OneBlocklist == BansAgree /\ ClientsAreTold

(* A beacon that still sends is the one active_topics lists for its group, *)
(* so that !topic delete reaches it; unless two !topic for one group       *)
(* overlapped.                                                             *)
BeaconsAreListed ==
    \A b \in Beacons : Running(b) /\ beacon[b].group \notin disputed => topics[beacon[b].group] = b
=============================================================================
