----------------------------- MODULE BLEService -----------------------------
(***************************************************************************)
(* The BLE service (ble_service/src/main.py, ble_adapter.py): the routes,  *)
(* the startup connect and the reconnect ladder, which all drive the one   *)
(* adapter through its operation lock, while BlueZ loses the link whenever *)
(* it likes.                                                               *)
(*                                                                         *)
(* A job is a request or a background task; an action is what it does from *)
(* one await to a later one.  A cancelled coroutine of this code unwinds   *)
(* without awaiting, so its end is part of the action that cancels it.     *)
(* Timers are untimed.  Left out: PINs, the register cache, the payloads.  *)
(***************************************************************************)
EXTENDS Integers

CONSTANTS
    Nodes,      \* MAC addresses
    Requests,   \* requests in flight at one time
    Loops,      \* names for the reconnect tasks alive at one time
    Attempts,   \* len(RECONNECT_DELAYS_S)
    Tries,      \* max_retries of connect; the stages of ensure_connected
    None,
    auto,       \* _startup_auto_connect
    AutoConnect \* BLE_AUTO_CONNECT

ASSUME ServiceAssumption ==
    /\ Attempts \in Nat \ {0}
    /\ Tries \in Nat \ {0}
    /\ AutoConnect \in BOOLEAN
    /\ auto \notin Loops
    /\ Requests \cap (Loops \cup {auto}) = {}
    /\ None \notin Nodes \cup Requests \cup Loops \cup {auto}

Background == Loops \cup {auto}
Jobs == Requests \cup Background
Address == Nodes \cup {None}

VARIABLES
    \* BlueZ
    links,        \* nodes with a connection at the BlueZ level
    signals,      \* Connected=False signals on their way to a handler
    \* BLEAdapter
    status,       \* _status.state
    mac,          \* _connected_mac
    iface,        \* node of dev_iface and props_iface
    chars,        \* node of read_char_iface and read_props_iface
    live,         \* is the bus of those proxies open?
    subscribed,   \* _device_props_handler is set
    attached,     \* _notify_handler_attached: "no", "yes", or "dead" if it was
                  \* set for an earlier proxy
    stale,        \* handlers left on the open bus by lost sessions:
                  \* [watch, notify : SUBSET Nodes]
    cancelConnect,
    holder,       \* of _operation_lock
    queue,        \* of its waiters: the pairs of an earlier and a later one
    \* ServiceState
    job,          \* job -> its operation, node, await, attempt and try
    userDisconnected,
    reconnecting,
    reconnectTask,
    lastMac,      \* last_connected_mac
    saved,        \* device_mac of the state file
    probe,        \* the request that armed pin_probe_deadline
    announced,    \* history: was "connected" the last event of the stream?
    quiet         \* history: "yes" when a disconnect was answered, the state
                  \* file removed, and nothing else ran when it began or was
                  \* asked for until now

bluezVars == <<links, signals>>
lockVars == <<holder, queue>>
busVars == <<live, stale>>
sessionVars == <<mac, iface, chars, subscribed, attached>>
adapterVars == <<status, sessionVars, busVars, cancelConnect>>
taskVars == <<reconnecting, reconnectTask>>
memoryVars == <<userDisconnected, lastMac, saved, probe, announced, quiet>>
serviceVars == <<bluezVars, lockVars, adapterVars, job, taskVars, memoryVars>>

Idle == [op |-> "none", node |-> None, pc |-> "idle", attempt |-> 0, try |-> 0]
Job(op, n, pc) == [op |-> op, node |-> n, pc |-> pc, attempt |-> 0, try |-> 0]

NoHandlers == [watch |-> {}, notify |-> {}]

(* lifespan: the startup task begins if the state file names a node.       *)
StartupJobs(n) ==
    [j \in Jobs |-> IF j = auto /\ AutoConnect /\ n # None THEN Job("auto", n, "sleep") ELSE Idle]

ServiceInit ==
    /\ links = {} /\ signals = {}
    /\ status = "disconnected"
    /\ mac = None /\ iface = None /\ chars = None
    /\ live = FALSE /\ subscribed = FALSE /\ cancelConnect = FALSE
    /\ attached = "no"
    /\ stale = NoHandlers
    /\ holder = None /\ queue = {}
    /\ saved = None /\ lastMac = None
    /\ job = StartupJobs(None)
    /\ userDisconnected = FALSE /\ reconnecting = FALSE
    /\ reconnectTask = None
    /\ probe = None
    /\ announced = FALSE /\ quiet = "no"

Running(j) == job[j].pc # "idle"
Connected == status = "connected"
Busy == holder # None
Initialising == {r \in Requests : job[r].op = "ensure" /\ job[r].pc = "init"}

-----------------------------------------------------------------------------
(* The bus and its handlers *)

(* Does any handler on the open bus hear that n was disconnected?          *)
Heard(n) == (subscribed /\ live /\ iface = n) \/ n \in stale.watch

(* A session given up on the open bus leaves its handlers there.           *)
Leftover ==
    [watch |-> stale.watch \cup (IF subscribed /\ live THEN {iface} ELSE {}),
     notify |-> stale.notify \cup (IF attached = "yes" /\ live THEN {chars} ELSE {})]

LinkDown(n) ==
    /\ links' = links \ {n}
    /\ signals' = IF n \in links /\ Heard(n) THEN signals \cup {n} ELSE signals

(* Dropping the bus takes its handlers and their undelivered signals along.*)
DropBus ==
    /\ live' = FALSE
    /\ stale' = NoHandlers
    /\ signals' = {}

(* The guard of reset_bus in _connect_and_initialize.                      *)
MayReset_IfIdle == ~Busy
MayReset == ~Busy /\ Initialising = {}

ResetBus == IF MayReset THEN DropBus ELSE UNCHANGED <<busVars, signals>>

(* _reset_state, and the fields _on_disconnect_detected clears             *)
ResetSession ==
    /\ mac' = None /\ iface' = None /\ chars' = None
    /\ subscribed' = FALSE
    /\ attached' = "no"

(* The head of _attempt_connection: new proxies, on the open bus or a new  *)
(* one.                                                                    *)
NewProxies(n, handlers) ==
    /\ iface' = n
    /\ live' = TRUE
    /\ stale' = handlers
    /\ subscribed' = FALSE

(* _disconnect_internal, for a node that is left, torn down or given up: it*)
(* unsubscribes, awaits StopNotify and Device1.Disconnect, which a dead bus*)
(* or an error makes useless, and drops the bus.                           *)
LeaveStarts ==
    /\ status' = "disconnecting"
    /\ subscribed' = FALSE
    /\ attached' = "no"
    /\ UNCHANGED <<mac, iface, chars, busVars>>

-----------------------------------------------------------------------------
(* The operation lock *)

Waiting == {j \in Jobs : job[j].pc = "wait"}
QueueWithout(S) == {p \in queue : p[1] \notin S /\ p[2] \notin S}

(* A call that takes the lock gets it at once or waits its turn.           *)
Call(j, rec) ==
    IF ~Busy /\ Waiting = {}
    THEN /\ holder' = j
         /\ queue' = queue
         /\ job' = [job EXCEPT ![j] = [rec EXCEPT !.pc = "enter"]]
    ELSE /\ queue' = queue \cup (Waiting \X {j})
         /\ holder' = holder
         /\ job' = [job EXCEPT ![j] = [rec EXCEPT !.pc = "wait"]]

MayEnter(j) ==
    \/ job[j].pc = "enter"
    \/ job[j].pc = "wait" /\ ~Busy /\ \A k \in Waiting : <<k, j>> \notin queue

Hold(j) ==
    /\ holder' = j
    /\ queue' = QueueWithout({j})

LetGo(j) ==
    /\ holder' = None
    /\ queue' = QueueWithout({j})

(* Cancelled jobs unwind: a Connect() already sent to BlueZ may still      *)
(* succeed, and a cleanup runs its finally.                                *)
Abandon(S) ==
    /\ links' \in {links, links \cup {job[j].node : j \in {k \in S : job[k].pc = "dial"}}}
    /\ IF \E j \in S : job[j].pc = "cleanup"
       THEN DropBus /\ ResetSession
       ELSE UNCHANGED <<busVars, signals, sessionVars>>

(* They give back the lock and their places.                               *)
HolderWithout(S) == IF holder \in S THEN None ELSE holder

Unwind(S) ==
    /\ Abandon(S)
    /\ holder' = HolderWithout(S)
    /\ queue' = QueueWithout(S)

-----------------------------------------------------------------------------
(* The retry loops *)

Step(j, p) == [job[j] EXCEPT !.pc = p]
GoesTo(j, p) == job' = [job EXCEPT ![j] = Step(j, p)]
JobEnds(j) == job' = [job EXCEPT ![j] = Idle]

(* The early returns and the end of _retry_connect.                        *)
LoopEnds(j) ==
    /\ JobEnds(j)
    /\ reconnecting' = FALSE

(* _auto_reconnect up to its first sleep                                   *)
LoopStarts(j) ==
    /\ job[j].pc = "start"
    /\ IF lastMac = None
       THEN JobEnds(j) /\ UNCHANGED <<reconnecting, announced>>
       ELSE IF userDisconnected
       THEN LoopEnds(j) /\ announced' = announced
       ELSE /\ job' = [job EXCEPT ![j] = [Job("reconnect", lastMac, "sleep") EXCEPT !.attempt = 1]]
            /\ reconnecting' = TRUE
            /\ announced' = FALSE
    /\ UNCHANGED <<bluezVars, lockVars, adapterVars, reconnectTask,
                   userDisconnected, lastMac, saved, probe, quiet>>

GivesUp == userDisconnected \/ Connected

(* After the sleep: give up, or call _connect_and_initialize.  The startup *)
(* loop counts and announces its attempt here, the ladder before sleeping. *)
LoopWakes(j) ==
    /\ job[j].pc = "sleep"
    /\ IF GivesUp
       THEN /\ LoopEnds(j)
            /\ UNCHANGED <<announced, lockVars, busVars, signals>>
       ELSE /\ ResetBus
            /\ IF j = auto
               THEN /\ Call(j, [job[j] EXCEPT !.attempt = @ + 1])
                    /\ reconnecting' = (reconnecting \/ job[j].attempt = 0)
                    /\ announced' = FALSE
               ELSE /\ Call(j, job[j])
                    /\ UNCHANGED <<reconnecting, announced>>
    /\ UNCHANGED <<links, status, sessionVars, cancelConnect, reconnectTask,
                   userDisconnected, lastMac, saved, probe, quiet>>

MoreAttempts(j) == job[j].attempt < Attempts
Sleeping(j, attempt) == [job[j] EXCEPT !.pc = "sleep", !.attempt = attempt, !.try = 0]

(* An attempt that failed, raised or timed out: the next one, or exhausted.*)
AttemptFails(j) ==
    \/ /\ ~MoreAttempts(j)
       /\ LoopEnds(j)
       /\ announced' = FALSE
    \/ /\ MoreAttempts(j)
       /\ j # auto /\ userDisconnected
       /\ LoopEnds(j)
       /\ announced' = announced
    \/ /\ MoreAttempts(j)
       /\ j # auto /\ ~userDisconnected
       /\ job' = [job EXCEPT ![j] = Sleeping(j, job[j].attempt + 1)]
       /\ announced' = FALSE
       /\ UNCHANGED reconnecting
    \/ /\ MoreAttempts(j)
       /\ j = auto
       /\ job' = [job EXCEPT ![j] = Sleeping(j, job[j].attempt)]
       /\ UNCHANGED <<reconnecting, announced>>

AttemptSucceeds(j) ==
    /\ LoopEnds(j)
    /\ saved' \in {saved, job[j].node}
    /\ announced' = TRUE

(* A connect that did not succeed: the request is answered, the loop goes  *)
(* on.                                                                     *)
Fails(j) ==
    IF j \in Background THEN AttemptFails(j) ELSE JobEnds(j) /\ UNCHANGED <<reconnecting, announced>>

-----------------------------------------------------------------------------
(* BLEAdapter.connect and ensure_connected, under the lock *)

Connects(j) == job[j].op \in {"connect", "ensure", "reconnect", "auto"}
Ensures(j) == job[j].op = "ensure"

Dialing(j) == [job[j] EXCEPT !.pc = "dial", !.try = @ + 1]

Dial(j, handlers) ==
    /\ NewProxies(job[j].node, handlers)
    /\ chars' = chars
    /\ attached' = IF attached = "no" THEN "no" ELSE "dead"
    /\ job' = [job EXCEPT ![j] = Dialing(j)]

(* The post-connect initialisation, with the PIN probe armed by ensure.    *)
Initialise(j) ==
    /\ GoesTo(j, "init")
    /\ probe' = IF Ensures(j) THEN j ELSE probe

AlreadyThere(j) ==
    /\ Connected
    /\ mac = job[j].node
    /\ LetGo(j)
    /\ IF Ensures(j) THEN Initialise(j) ELSE GoesTo(j, "notify") /\ probe' = probe
    /\ UNCHANGED <<status, sessionVars, busVars>>

LeaveFirst(j) ==
    /\ Connected
    /\ mac # job[j].node
    /\ Hold(j)
    /\ LeaveStarts
    /\ GoesTo(j, "leave")
    /\ UNCHANGED probe

DialAtOnce(j) ==
    /\ ~Connected
    /\ Hold(j)
    /\ status' = "connecting"
    /\ Dial(j, Leftover)
    /\ UNCHANGED <<mac, probe>>

EnterConnect(j) ==
    /\ Connects(j)
    /\ MayEnter(j)
    /\ cancelConnect' = FALSE
    /\ \/ AlreadyThere(j)
       \/ LeaveFirst(j)
       \/ DialAtOnce(j)
    /\ UNCHANGED <<bluezVars, taskVars, userDisconnected, lastMac, saved, announced, quiet>>

(* Has no lost session taken the proxies away in the meantime?  Looked at  *)
(* whenever the wait for the services asks BlueZ, and not again.           *)
StillThere(j) == iface = job[j].node

(* Device1.Connect answered; a connection that was there already has been  *)
(* disconnected first.                                                     *)
DialUp(j) ==
    LET n == job[j].node IN
    /\ job[j].pc = "dial"
    /\ StillThere(j)
    /\ links' = links \cup {n}
    /\ signals' = IF n \in links /\ Heard(n) THEN signals \cup {n} ELSE signals
    /\ GoesTo(j, "resolve")
    /\ UNCHANGED <<lockVars, adapterVars, taskVars, memoryVars>>

(* Anything in _attempt_connection raised: _cleanup_failed_connection.     *)
(* BlueZ may carry on with a Connect() that timed out here.                *)
DialFails(j) ==
    /\ job[j].pc \in {"dial", "resolve", "search", "pair"}
    /\ \/ iface # None /\ LinkDown(iface)
       \/ UNCHANGED bluezVars
       \/ /\ job[j].pc = "dial"
          /\ links' = links \cup {job[j].node}
          /\ signals' = signals
    /\ GoesTo(j, "cleanup")
    /\ UNCHANGED <<lockVars, adapterVars, taskVars, memoryVars>>

(* The question for ServicesResolved that will be answered with yes.       *)
Asks(j) ==
    /\ job[j].pc = "resolve"
    /\ StillThere(j)
    /\ GoesTo(j, "search")
    /\ UNCHANGED <<bluezVars, lockVars, adapterVars, taskVars, memoryVars>>

(* It was, and the read characteristic is found; the search for the other  *)
(* one begins.                                                             *)
ReadFound(j) ==
    /\ job[j].pc = "search"
    /\ job[j].node \in links
    /\ chars' = job[j].node
    /\ GoesTo(j, "pair")
    /\ UNCHANGED <<bluezVars, lockVars, status, mac, iface, subscribed, attached, busVars,
                   cancelConnect, taskVars, memoryVars>>

(* "Required GATT characteristics not found"                               *)
BothFound_Unchecked(j) == TRUE
BothFound(j) == chars # None

(* _attempt_connection returns and _finalize_successful_connection starts. *)
Resolved(j) ==
    /\ job[j].pc = "pair"
    /\ BothFound(j)
    /\ status' = "connected"
    /\ mac' = job[j].node
    /\ GoesTo(j, "name")
    /\ UNCHANGED <<bluezVars, lockVars, iface, chars, subscribed, attached, busVars, cancelConnect,
                   taskVars, memoryVars>>

(* The name is read, then the disconnect handler subscribed.               *)
NameRead(j) ==
    /\ job[j].pc = "name"
    /\ subscribed' = (iface # None)
    /\ GoesTo(j, "mtu")
    /\ UNCHANGED <<bluezVars, lockVars, status, mac, iface, chars, attached, busVars, cancelConnect,
                   taskVars, memoryVars>>

(* The MTU is read, and connect returns.                                   *)
MtuRead(j) ==
    /\ job[j].pc = "mtu"
    /\ GoesTo(j, "notify")
    /\ IF Ensures(j) THEN UNCHANGED lockVars ELSE LetGo(j)
    /\ UNCHANGED <<bluezVars, adapterVars, taskVars, memoryVars>>

(* Cancelled is looked at before every try of connect; ensure_connected     *)
(* repeats its stage after some errors only.                               *)
MayTryAgain(j) == job[j].try < Tries /\ (Ensures(j) \/ ~cancelConnect)

(* The end of the cleanup: the next try, or the end of the connect.        *)
TryAgain(j) ==
    /\ job[j].pc = "cleanup"
    /\ MayTryAgain(j)
    /\ signals' = {}
    /\ mac' = None /\ chars' = None
    /\ attached' = "no"
    /\ NewProxies(job[j].node, NoHandlers)
    /\ job' = [job EXCEPT ![j] = Dialing(j)]
    /\ status' = IF Ensures(j) THEN "connecting" ELSE status
    /\ UNCHANGED <<links, lockVars, cancelConnect, taskVars, memoryVars>>

ConnectFails(j) ==
    /\ job[j].pc = "cleanup"
    /\ Ensures(j) \/ ~MayTryAgain(j)
    /\ DropBus
    /\ ResetSession
    /\ status' = IF ~Ensures(j) /\ cancelConnect THEN "disconnected" ELSE "error"
    /\ LetGo(j)
    /\ Fails(j)
    /\ UNCHANGED <<links, cancelConnect, reconnectTask, userDisconnected, lastMac, saved, probe,
                   quiet>>

-----------------------------------------------------------------------------
(* start_notify, then the initialisation *)

MayNotify == Connected /\ live /\ chars \in links

NotifyStarts(j) ==
    /\ job[j].pc = "notify"
    /\ MayNotify
    /\ attached' = IF attached = "no" THEN "yes" ELSE attached
    /\ Initialise(j)
    /\ IF Ensures(j) THEN LetGo(j) ELSE UNCHANGED lockVars
    /\ UNCHANGED <<bluezVars, status, mac, iface, chars, subscribed, busVars, cancelConnect, taskVars,
                   userDisconnected, lastMac, saved, announced, quiet>>

(* start_notify raised, or the pairing it asked for failed: ensure_connected*)
(* tears the session down, the others leave it as it is.                   *)
NotifyFails(j) ==
    /\ job[j].pc = "notify"
    /\ IF Ensures(j)
       THEN /\ LeaveStarts
            /\ GoesTo(j, "teardown")
            /\ UNCHANGED <<reconnecting, announced>>
       ELSE /\ attached' \in {attached, "no"}
            /\ Fails(j)
            /\ UNCHANGED <<status, mac, iface, chars, subscribed, busVars>>
    /\ UNCHANGED <<bluezVars, lockVars, cancelConnect, reconnectTask, userDisconnected, lastMac,
                   saved, probe, quiet>>

(* After hello and the register queries.  Only ensure_connected looks      *)
(* whether the link is still there.                                        *)
Ready(j) == ~Ensures(j) \/ Connected

(* The finally of the route disarms the probe it has armed.                *)
ProbeAfter_Left(j) == IF Ready(j) THEN probe ELSE None
ProbeAfter(j) == IF probe = j THEN None ELSE probe

InitEnds(j) ==
    /\ job[j].pc = "init"
    /\ probe' = ProbeAfter(j)
    /\ IF j \in Background
       THEN AttemptSucceeds(j) /\ lastMac' = lastMac
       ELSE /\ JobEnds(j)
            /\ UNCHANGED <<reconnecting, announced>>
            /\ IF Ready(j)
               THEN lastMac' = job[j].node /\ saved' = job[j].node
               ELSE UNCHANGED <<lastMac, saved>>
    /\ UNCHANGED <<bluezVars, lockVars, adapterVars, reconnectTask, userDisconnected, quiet>>

-----------------------------------------------------------------------------
(* Its end: the link is gone, or stays.                                    *)
LinkGoes ==
    \/ iface # None /\ live /\ links' = links \ {iface}
    \/ links' = links

(* connect and ensure_connected then dial the other node.                  *)
LeavesForNext(j) ==
    /\ job[j].pc = "leave"
    /\ Connects(j)
    /\ LinkGoes
    /\ signals' = {}
    /\ mac' = None
    /\ status' = "connecting"
    /\ Dial(j, NoHandlers)
    /\ UNCHANGED <<lockVars, cancelConnect, taskVars, memoryVars>>

(* disconnect is answered; a failed ensure_connected puts its error back.  *)
LeaveEnds(j) ==
    /\ job[j].pc = "teardown" \/ (job[j].pc = "leave" /\ ~Connects(j))
    /\ LinkGoes
    /\ DropBus
    /\ ResetSession
    /\ status' = IF job[j].pc = "leave" THEN "disconnected" ELSE "error"
    /\ LetGo(j)
    /\ JobEnds(j)
    /\ quiet' = IF job[j].op = "disconnect" /\ quiet = "pending" THEN "yes" ELSE quiet
    /\ UNCHANGED <<cancelConnect, taskVars, userDisconnected, lastMac, saved, probe, announced>>

EnterDisconnect(j) ==
    /\ job[j].op = "disconnect"
    /\ MayEnter(j)
    /\ IF status = "disconnected"
       THEN /\ LetGo(j)
            /\ JobEnds(j)
            /\ quiet' = IF quiet = "pending" THEN "yes" ELSE quiet
            /\ UNCHANGED <<status, sessionVars, busVars>>
       ELSE /\ Hold(j)
            /\ LeaveStarts
            /\ GoesTo(j, "leave")
            /\ UNCHANGED quiet
    /\ UNCHANGED <<bluezVars, cancelConnect, taskVars, userDisconnected,
                   lastMac, saved, probe, announced>>

-----------------------------------------------------------------------------
(* A lost link is noticed *)

(* _on_disconnect_detected in the adapter; its bus stays open.             *)
LoseSession ==
    /\ status' = "disconnected"
    /\ ResetSession
    /\ stale' = Leftover
    /\ live' = live

LadderRunning == reconnectTask # None /\ Running(reconnectTask)

ScheduleReconnect ==
    IF LadderRunning
    THEN UNCHANGED <<job, reconnectTask>>
    ELSE \E l \in Loops :
            /\ ~Running(l)
            /\ job' = [job EXCEPT ![l] = Job("reconnect", None, "start")]
            /\ reconnectTask' = l

(* A PIN probe that has not expired takes the loss for a refused PIN.      *)
OnAdapterDisconnect ==
    /\ announced' = FALSE
    /\ probe' = IF userDisconnected THEN probe ELSE None
    /\ \/ /\ userDisconnected \/ probe # None
          /\ UNCHANGED <<job, reconnectTask>>
       \/ /\ ~userDisconnected
          /\ ScheduleReconnect

Detected ==
    /\ LoseSession
    /\ OnAdapterDisconnect
    /\ UNCHANGED <<links, lockVars, cancelConnect, reconnecting, userDisconnected, lastMac, saved,
                   quiet>>

SignalArrives(n) ==
    /\ n \in signals
    /\ signals' = signals \ {n}
    /\ IF status = "disconnected" \/ ~Heard(n)
       THEN UNCHANGED <<links, lockVars, adapterVars, job, taskVars, memoryVars>>
       ELSE Detected

(* A write (send, keepalive, hello) that BlueZ refuses with "Not connected"*)
WriteFails ==
    /\ Connected
    /\ live
    /\ chars \notin links
    /\ signals' = signals
    /\ Detected

LinkLost(n) ==
    /\ n \in links
    /\ LinkDown(n)
    /\ UNCHANGED <<lockVars, adapterVars, job, taskVars, memoryVars>>

-----------------------------------------------------------------------------
(* The deadlines around the adapter calls *)

(* ENSURE_CONNECTED_DEADLINE_S: cancelled wherever it is in the adapter.   *)
EnsureTimesOut(j) ==
    /\ Ensures(j)
    /\ job[j].pc \notin {"idle", "preempt", "init"}
    /\ Unwind({j})
    /\ JobEnds(j)
    /\ UNCHANGED <<status, cancelConnect, taskVars, memoryVars>>

(* connect_timeout of the startup loop                                     *)
AutoTimesOut ==
    /\ job[auto].pc \notin {"idle", "sleep"}
    /\ Unwind({auto})
    /\ AttemptFails(auto)
    /\ UNCHANGED <<status, cancelConnect, reconnectTask, userDisconnected, lastMac, saved, probe,
                   quiet>>

-----------------------------------------------------------------------------
(* The routes *)

Free(r) == r \in Requests /\ ~Running(r)

(* The background tasks that the state refers to and that still run.       *)
Referenced == {l \in {reconnectTask, auto} \ {None} : Running(l)}

CancelledJobs(S) == [j \in Jobs |-> IF j \in S THEN Idle ELSE job[j]]

StartConnect(r, n) ==
    /\ Free(r)
    /\ userDisconnected' = FALSE
    /\ ResetBus
    /\ Call(r, Job("connect", n, "idle"))
    /\ quiet' = "no"
    /\ UNCHANGED <<links, status, sessionVars, cancelConnect, taskVars, lastMac, saved, probe, announced>>

(* From the end of the gather: the busy guard, then the call.              *)
EnsureGoesOn(r, n) ==
    /\ reconnectTask' = None
    /\ reconnecting' = FALSE
    /\ IF Busy
       THEN JobEnds(r) /\ UNCHANGED <<userDisconnected, lockVars>>
       ELSE userDisconnected' = FALSE /\ Call(r, Job("ensure", n, "idle"))
    /\ UNCHANGED <<bluezVars, adapterVars, lastMac, saved, probe, announced>>

(* With nothing to cancel there is no gather to wait for.                  *)
StartEnsure(r, n) ==
    /\ Free(r)
    /\ quiet' = "no"
    /\ IF Referenced = {}
       THEN EnsureGoesOn(r, n)
       ELSE /\ Unwind(Referenced)
            /\ job' = [CancelledJobs(Referenced) EXCEPT ![r] = Job("ensure", n, "preempt")]
            /\ UNCHANGED <<status, cancelConnect, taskVars, userDisconnected, lastMac, saved, probe,
                           announced>>

Preempted(r) ==
    /\ job[r].pc = "preempt"
    /\ EnsureGoesOn(r, job[r].node)
    /\ quiet' = quiet

(* Nothing runs but r and the two tasks the state refers to: no request,   *)
(* and no loop scheduled while a gather waited, which reconnectTask forgets*)
NoOther(r) == \A j \in Jobs \ {r, reconnectTask, auto} : ~Running(j)

(* adapter.disconnect is called before the cancelled tasks let go.         *)
CallPast(S, r) ==
    IF ~Busy /\ Waiting \subseteq S
    THEN /\ holder' = r
         /\ queue' = {}
         /\ job' = [CancelledJobs(S) EXCEPT ![r] = Job("disconnect", None, "enter")]
    ELSE /\ holder' = HolderWithout(S)
         /\ queue' = QueueWithout(S) \cup ((Waiting \ S) \X {r})
         /\ job' = [CancelledJobs(S) EXCEPT ![r] = Job("disconnect", None, "wait")]

StartDisconnect(r) ==
    LET S == Referenced IN
    /\ Free(r)
    /\ userDisconnected' = TRUE
    /\ saved' \in {None, saved}
    /\ reconnecting' = FALSE
    /\ reconnectTask' = IF LadderRunning THEN None ELSE reconnectTask
    /\ Abandon(S)
    /\ IF status = "disconnected"
       THEN /\ holder' = HolderWithout(S)
            /\ queue' = QueueWithout(S)
            /\ job' = CancelledJobs(S)
            /\ quiet' = IF NoOther(r) /\ saved' = None THEN "yes" ELSE "no"
            /\ cancelConnect' = cancelConnect
       ELSE /\ CallPast(S, r)
            /\ quiet' = IF NoOther(r) /\ saved' = None THEN "pending" ELSE "no"
            /\ cancelConnect' = TRUE
    /\ UNCHANGED <<status, lastMac, probe, announced>>

CancelReconnect ==
    LET S == Referenced IN
    /\ userDisconnected' = TRUE
    /\ saved' \in {None, saved}
    /\ reconnecting' = FALSE
    /\ reconnectTask' = IF LadderRunning THEN None ELSE reconnectTask
    /\ Unwind(S)
    /\ job' = CancelledJobs(S)
    /\ announced' = FALSE
    /\ UNCHANGED <<status, cancelConnect, lastMac, probe, quiet>>

(* A stop, or a crash that leaves the link to BlueZ.                       *)
ServiceComesBack ==
    /\ links' \in {links, {}}
    /\ DropBus
    /\ ResetSession
    /\ status' = "disconnected"
    /\ cancelConnect' = FALSE
    /\ holder' = None /\ queue' = {}
    /\ saved' = saved /\ lastMac' = IF AutoConnect THEN saved ELSE None
    /\ job' = StartupJobs(saved)
    /\ userDisconnected' = FALSE /\ reconnecting' = FALSE
    /\ reconnectTask' = None
    /\ probe' = None
    /\ announced' = FALSE /\ quiet' = "no"

-----------------------------------------------------------------------------
JobStep(j) ==
    \/ LoopStarts(j) \/ LoopWakes(j)
    \/ EnterConnect(j) \/ DialUp(j) \/ DialFails(j)
    \/ Asks(j) \/ ReadFound(j) \/ Resolved(j) \/ NameRead(j) \/ MtuRead(j)
    \/ TryAgain(j) \/ ConnectFails(j)
    \/ NotifyStarts(j) \/ NotifyFails(j) \/ InitEnds(j)
    \/ LeavesForNext(j) \/ LeaveEnds(j)
    \/ EnterDisconnect(j)
    \/ Preempted(j)

Deadline == (\E r \in Requests : EnsureTimesOut(r)) \/ AutoTimesOut

Route ==
    \/ \E r \in Requests, n \in Nodes : StartConnect(r, n) \/ StartEnsure(r, n)
    \/ \E r \in Requests : StartDisconnect(r)
    \/ CancelReconnect

BlueZ == (\E n \in Nodes : SignalArrives(n) \/ LinkLost(n)) \/ WriteFails

(* A call that finds the lock free enters without an await.                *)
Entering == {j \in Jobs : job[j].pc = "enter"}

ServiceNext ==
    \/ \E j \in (IF Entering = {} THEN Jobs ELSE Entering) : JobStep(j)
    \/ Entering = {} /\ (Deadline \/ Route \/ BlueZ \/ ServiceComesBack)

ServiceSpec == ServiceInit /\ [][ServiceNext]_serviceVars

-----------------------------------------------------------------------------
(* Properties *)

UnderLock == {"enter", "dial", "resolve", "search", "pair", "cleanup", "name", "mtu", "leave",
              "teardown"}

(* Type correctness; and the operation lock is held by the one job that is *)
(* inside the adapter, and of two jobs that wait for it one came first.    *)
ServiceTypeOK ==
    /\ links \subseteq Nodes /\ signals \subseteq Nodes
    /\ status \in {"disconnected", "connecting", "connected", "disconnecting", "error"}
    /\ {mac, iface, chars, lastMac, saved} \subseteq Address
    /\ {live, subscribed, cancelConnect, userDisconnected, reconnecting} \subseteq BOOLEAN
    /\ attached \in {"no", "yes", "dead"}
    /\ stale \in [watch : SUBSET Nodes, notify : SUBSET Nodes]
    /\ job \in [Jobs -> [op : {"none", "connect", "ensure", "disconnect", "auto", "reconnect"},
                         node : Address,
                         pc : UnderLock \cup {"idle", "start", "sleep", "preempt", "wait", "notify", "init"},
                         attempt : 0 .. Attempts, try : 0 .. Tries]]
    /\ reconnectTask \in Loops \cup {None}
    /\ probe \in Requests \cup {None}
    /\ \A j \in Jobs :
        (job[j].pc \in UnderLock \/ (Ensures(j) /\ job[j].pc = "notify")) <=> holder = j
    /\ queue \subseteq Waiting \X Waiting
    /\ \A j, k \in Waiting : <<j, k>> \in queue <=> j # k /\ <<k, j>> \notin queue

(* What the adapter takes for its session is one node: the one it says it  *)
(* is connected to is the one whose characteristics it reads and writes,   *)
(* and its device proxies, which a late signal may have taken away during  *)
(* the search, are of no other one (_connected_mac, read_char_iface,       *)
(* dev_iface), although signals, deadlines and other jobs cut into every   *)
(* await of the connect.                                                   *)
OneSession == Connected => mac # None /\ chars = mac /\ iface \in {mac, None}

(* ServiceState.pin_probe_deadline "must be None outside an in-flight      *)
(* ensure_connected's post-connect init window": armed any longer it would *)
(* swallow a real loss of the link.                                        *)
ProbeOnlyDuringInit == probe # None => probe \in Initialising

(* Once /disconnect is answered and no other request is under way, nothing *)
(* brings the session back: no background task runs, the adapter is down   *)
(* and the state file names no node for the next start.                    *)
QuietAfterDisconnect ==
    quiet = "yes" =>
        /\ \A l \in Background : ~Running(l)
        /\ ~Connected
        /\ saved = None

(* The service says "reconnecting" only while a retry loop runs or one is  *)
(* being cancelled by ensure_connected.                                    *)
ReconnectingIsTrue ==
    reconnecting =>
        \/ \E l \in Background : Running(l)
        \/ \E r \in Requests : job[r].pc = "preempt"

(* The flags of ServiceState say what is going on (one lock, one retry     *)
(* loop, one probe).                                                       *)
FlagsAreTrue == ServiceTypeOK /\ ProbeOnlyDuringInit /\ ReconnectingIsTrue

(* The session is the one that was asked for, or none.                     *)
SessionIsWanted == OneSession /\ QuietAfterDisconnect

(* ServiceState.post_connect_init: a connect that does not wait for the    *)
(* lock never drops the bus under an ensure_connected that is initialising.*)
BusKeptForInit ==
    [][\A r \in Requests :
        r \in Initialising /\ r \in Initialising' /\ live /\ ~live'
            => \E j \in Jobs : holder = j]_serviceVars
=============================================================================
