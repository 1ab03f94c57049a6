# McApp in TLA+

McApp is a proxy between a MeshCom LoRa node and its web clients. It is one
asyncio process (`src/src/mcapp/`) that listens to the node over UDP and, through
a separate BLE service (`src/ble_service/`), over Bluetooth; stores what it hears in
SQLite; pushes it to browsers over SSE and Web Push; answers chat commands; and is
updated by a standalone runner (`src/scripts/update-runner.py`) that keeps three
slots and rolls back. This directory holds TLA+ models of that code, TLC
configurations that check them on small instances, and TLAPS proofs.

## 1. Inventory

The process is single threaded: a coroutine runs until it awaits, and everything
may have changed when it resumes. SQLite work runs in worker threads
(`asyncio.to_thread`), one transaction per call. `MessageRouter.publish` awaits each
subscriber in turn and swallows its exceptions. So the hard behaviours are: state
checked before an await and used after it, two tasks that both think they own an
entry, callbacks that arrive late or twice, cancellation in the middle of a
handler, and a crash between two writes.

| component | state | operations | talks to | hard part | correct when |
|---|---|---|---|---|---|
| Uptime ledger `storage/uptime.py` | state row, segment rows | beacon, heartbeat, reconcile, prune, read | ingest hook, heartbeat task | crash between writers, late copies | outages are stored once and hide no beacon |
| CTC ping `commands/ctcping.py` | `active_pings`, `ping_tests`, completing set, tasks | command, echo, ack, timeout, monitor, stop | command handler, router, response sender | echo, ack, timeout and monitor race over one ping | every sequence counted once, one summary |
| Link check `commands/linkcheck.py` | `link_sessions`, `link_cooldowns` | start, stop, echo, pong, driver, shutdown | SSE routes, router | stop racing the driver's own end | bounded concurrency, one driver per call sign |
| Response sender `commands/response.py` | per-recipient locks and reference counts | send, chunk, drain | router | lock object dropped while waited for | chunks of two answers never interleave |
| Command routing `commands/routing.py`, `dedup.py`, `suppression.py` | processed ids, throttle table | handle, dedup, throttle, suppress | all commands | check before await, mark after; one message over two paths | a command runs once, in one place |
| Topic beacons `commands/topic_beacon.py` | active topics, tasks | start, replace, delete, loop | router | replacing awaits the cancelled task | a beacon that sends is listed |
| Blocklist `commands/handler.py`, `admin_commands.py` | memory set, table, curated list with its etag | `!kb`, fetch, apply | storage, SSE | fetch and admin interleave, writes fail | memory, table and clients agree |
| Message router `main.py` | subscriptions, identity, register cache | publish, send, suppress, loop back | everything | awaits between subscribers | see the components it joins |
| Register hydration and reconciler `main.py` | two tasks, `cached_ble_registers` | schedule, arm, sweep, judge | BLE client, router | single flight across awaits, reconnect meanwhile | registers arrive in the end |
| BLE client `ble_client_remote.py` | status, event stream, grace timer | connect, ensure, disconnect, status, stream | BLE service, router | broken stream, answers overtaken by events | the client's picture becomes true |
| BLE service `ble_service/src/` | adapter session, operation lock, retry tasks, PIN probe, state file | connect, ensure, disconnect, cancel, startup connect, reconnect ladder, loss detection | BlueZ, the BLE client | tasks cancelled inside the adapter, late signals, writes after the lock is released | the session is the wanted one, a disconnect stays |
| UDP handler `udp_handler.py` | target address and its kind, cooldown | receive, learn, adopt, send | router, runtime state | strangers and doubles of our node | messages reach our node in the end |
| Runtime state `runtime_state.py`, `config_loader.py` | overlay file | read-merge-replace, load | UDP handler, router | two threads over one file | the file holds what is in use |
| Ingest `storage/ingest.py` | messages, ACKs, claims, signal log and buckets, positions, telemetry | store, confirm, mark, merge | SQLite, SSE | copies on two paths, out-of-order ACKs, restart | one row per transmission, status goes forward |
| Telemetry reconciliation `storage/telemetry_reconcile.py` | none | merge | ingest | which of two readings wins | no reading lost, order irrelevant |
| SSE `sse_handler.py`, `sse_routes/` | clients with queues | register, snapshot, broadcast, page, stop | browsers | broadcast during the snapshot, full queue | a browser that caught up misses nothing |
| Preferences `storage/prefs.py` | read cursors, lists | set, broadcast | SSE | several devices at once | browsers agree with the table |
| Push `push_delivery.py` | subscriptions and their cache, duplicate filter, windows, queue | submit, sweep, deliver, prune | Web Push, storage | cache read before a write and kept after it | one notification per message |
| Classifier `classifier/` | rules, version, jobs, markers | classify, edit, load, job, backfill | ingest, SSE | edits between the reads of one judgement | a version means what it says |
| Start and shutdown `main.py` | loops, tasks, transports | start, signals, ladder | everything | work that still comes in, transports that hang | the process ends and nothing outlives its client |
| Update launch, converge watchdog `sse_handler.py`, `system_converge.py` | args, trigger, attempt record | launch, probe, converge | systemd, runner | two files without a lock | an answered launch runs, one attempt per boot |
| Update runner, bootstrap `scripts/update-runner.py`, `bootstrap/` | slots, symlink, snapshots | update, rollback | systemd | failure between any two steps | what is linked can start |

Hazards are listed, each at its line, in `PROJECT.json`; those without a property
carry the reason.

## 2. Layout

One module per component or per group of components that share state, parameterised
by constants; `MC...` modules give the constants for TLC, `...Proofs` modules hold the
theorems. Three modules are composed of others:

* `Ingest` extends `Reconcile`, the pure merge it calls, and is shown to implement
  `MessageLog`, the promise of the messages table to its readers.
* `WebSide` puts `EventStream`, `WebPush` and `Classifier` on one event loop with one
  blocklist: a kickban is one step of the streams and the notifications alike. `Absent`
  declares the constant the three share.
* `Convergence` extends `Lifecycle`: the watchdog is a background loop that the ladder
  cancels, and a restart of the process drops users' half-done launches.

`Slots` begins where `Convergence` ends, at a runner that has taken up its args, and
`BLELink` sees of the service what `BLEService` announces.

An action is what the code does from one await to the next. History variables are
marked where they are declared. Operators of the form `Name_Variant` are not part of
the specifications: each is a plausible defect of `Name`, and the property named for it
in `PROJECT.json` is violated when it takes `Name`'s place.

Many modules have a variable *agenda* (also `scene`, `world`, `chores`, `plan`): a record
of what the environment will still do, in no fixed order — frames on each path,
requests, faults, restarts, ticks. Init picks one of a set of agendas, so that a run
is a sum of scenarios in which two or three things collide, in place of the product
of everything with everything. Every step of the environment takes its item from
the agenda; the program's own steps are never rationed.

A property is often a conjunction of named parts, each with its own comment.

## 3. Modules

**LinkUptime** (`storage/uptime.py`, `main.py`). `row` and `segments` are the two
tables, `inflight` the beacon writes handed to a worker thread. `BeaconArrives` stamps
a frame on the event loop if `is_uplink_time_beacon` accepts it, `RecordLinkBeacon`
commits any write in flight, `LinkUptimeTick` is the heartbeat, `ReconcileStartup` and
`StartServices` are the start, `Prune` the retention job, `Crash` any end of the
process. `CollectNonUp` and `ObservedMs` are the reader.

**CTCPing** (`commands/ctcping.py`). `active`, `acked`, `timers` are `active_pings` and
its timeout tasks, `present`, `status`, `counted`, `missed` are `ping_tests`. The sender
(`SendPing`), the deadline monitor, the completion task and `stop_ctcping` are
processes; `HandleEcho` and `HandleAck` are the mesh, which may lose, repeat and
reorder. `misled` is a history: the tests that took an echo of another test's probe, or
took one a second time. Payload sizes and texts are left out. The code's status `error` is
unreachable, since the send path swallows every exception.

**LinkCheck** (`commands/linkcheck.py`). `linkSessions` is the table, a driver's `pc` the
await it stands at, `wake` the event of its target, `stops` the requests waiting in
`stop_link_check`, `shutdown` the three stages of `stop_linkcheck`. A driver looks for its
session by target, so what it drives (`driver`) need not be the session it was created
for. `ready` is asyncio's ready queue of first driver steps and woken stops, first in first
out: a stop whose driver has ended resumes before a driver created later begins.
`crowded` is a history: the targets for which a second driver was let in.

**Response** (`commands/response.py`). `locks` and `refs` are the two tables of
`_send_chunks`, `lockOf` the lock object a task holds a reference to, which may no
longer be the one in the table, `queue` its waiters. A task can be cancelled at every
await, its store can raise, and the drain at shutdown can time out. Left out: how the
text is cut into chunks.

**Slots** (`scripts/update-runner.py`, `bootstrap/mcapp.sh`, `bootstrap/lib/deploy.sh`,
`bootstrap/lib/system.sh`, the systemd units). `current`, `tree`, `version`, `deployed`,
`etcSnap`, `dbSnap` are what is on disk, `running` the release the service executes,
which changes only when something restarts it. The runner and the bootstrap it starts
each choose a slot by the date it was deployed on; `deployed` is the order of those dates,
which recorded slot is no later than which. Every step may fail; systemd may kill the runner, the service may
be restarted and the power may fail between any two. What raises in the runner is caught by `run_update`
alone (`RunnerRaises`). A snapshot is taken as a whole or not at all, and a record or link
that cannot be written leaves the old one. `before` (history) is what the box was when
the run began. Left out: the web front end's
configuration, migration of old layouts, the `-dev` exception of the version
comparison. Killing the bootstrap ends bash; what a child of it may still do
afterwards is not modelled. A tree that tar left half extracted counts as complete
when it has `pyproject.toml` and `version.html`, as it does for the code.

**BLEService** (`ble_service/src/main.py`, `ble_adapter.py`). A job is a request
(`connect`, `ensure`, `disconnect`) or a background task (the startup connect `auto`, a
reconnect ladder); `job[j].pc` is the await it stands at, `holder` and `queue` are
`_operation_lock`; its waiters are served first come, first served, and `queue` holds
which of two came first. A call that finds the lock free goes on without an await, so while
a job is `Entering` nothing else moves. `iface`, `chars` and `live` are the device
proxies, the characteristics and their bus, `stale` the handlers that lost sessions left on the open bus, `signals` the
`Connected=False` signals still to be delivered. Cancelling (`Abandon`, `Unwind`) cuts a
job off at its await. Left out: `/scan`, `/pair`, `/unpair` and connecting by name (they
take the same lock), PINs and stale bonds, the register cache, the SSE stream.

**BLELink** (`ble_client_remote.py`, `main.py`). `svc` is the service as it answers and
announces, `client` the client's status, `sse` the event stream with its queue, replay
and grace timer, `cached` the register cache (a set of registers is the node it
describes), `user`, `hydration` and `reconciler` the three tasks that may be between two
awaits; each carries the list of steps it still has to do. `marks` notes two things
the properties except: a refresh whose answer had been overtaken, and a connection
that only such a refresh has noticed. `mislaid` notes that registers which would have
replaced another node's were lost on the air or with the stream. Left out: scan, pairing, PINs, sending.

**Commands** (`commands/routing.py`, `dedup.py`, `suppression.py`, `admin_commands.py`,
`handler.py`, `topic_beacon.py`). `task[p]` is the message in `_message_handler` for each of
the three paths with the await it stands at; `processed` and `throttle` are the caches
with their times; `blocked`, `stored`, `entries`, `etag` the four places of a ban, `loader`
the task that refreshes the curated list; `topics` and `beacon` the beacons. `disputed`
(history) collects call signs and groups that two tasks worked on at once or a failed
read or write touched. Parsing is a record per message.

**Ingest**, **Reconcile**, **MessageLog** (`storage/ingest.py`, `telemetry_reconcile.py`).
`task[p]` is the frame in `store_message` for each path, with the transactions it has
still to make and the rows it has found; `recent` are the claims, `accum` the readings
of unfinished buckets, both in memory; the tables are sets of rows. A statement may
fail, a restart may be a close or a crash, a conversation may be deleted. `MessageLog`
has one variable, a log whose entries are spaced by the window and whose status only
goes forward; the refinement maps rows to entries.

**NodeIdentity** (`udp_handler.py`, `runtime_state.py`, `config_loader.py`, `main.py`).
`target`, `me`, `position` are what is in use, `file` the overlay, `writer` the thread each
of the two learning tasks waits for, `node` the node as it is. A read that fails counts
as an empty file: a write then puts back its own entry alone (`ReadFails`), a start goes
on with `config.json` (`Restart`). `torn` (history) are the entries lost so, or to a
write that failed or was overlapped.

**EventStream** (`sse_handler.py`, `sse_routes/`, `storage/query.py`, `storage/prefs.py`).
A browser's client has a stage (registered, snapshot, state, live), a bounded queue and
what has been shown; `inbound` are messages between their insert and their broadcast,
`posts` cursor moves between the two. A query of the initial events may raise, after which
the stream goes on without the rest (`InitialFails`). `base`, `untold` and `barred` (history)
are the rows, the cursor and the banned senders since the browser connected. **WebPush** (`push_delivery.py`, `sse_routes/push.py`,
`sqlite_storage.py`) has the subscriptions with the cache and the writes the loop has
not noticed, windows, queue and delivery; `owed` and `ended` count what each message owes
each browser. **Classifier** (`classifier/`, `main.py`) has rules and version in the
database and in memory, edits, the message being judged on each lane, jobs and the
backfill; rules are the number of their edit, so that "judged by older rules" is a
comparison, and `NoRule` for a row that got its category by default, because the pipeline
raised. Edits, batches and the backfill's task can end of a statement that raises.

**Lifecycle** (`main.py`). `stage` walks along `Build`, then "up", then `Ladder`; `work` and
`up` are the kinds of tasks and the transports that are there, `late` (history) what was
started from outside after its rung. **Convergence** (`system_converge.py`,
`sse_handler.py`, `update-runner.py`, the path unit). `args` and `trigger` are the two files,
each written in its own step; `user[u]` and `dog` are the launchers, `runner` the entry of
the runner, `deaf` a path unit that gave up; `crossed` (history) are launches that another
writer, or the start of a runner, cut across.

## 4. Runs

| run | instance | shows |
|---|---|---|
| `uptime` | clock to 7, one crash, one unit of write delay | `LedgerSound`: rows typed, keyed uniquely, disjoint. `GapsAreSilent`: an outage hides no beacon. `ReportIsTrue`: the report counts no more than the window, and up time is backed by a beacon since the restart |
| `ctcping` | one test of two probes, two copies of everything, shutdown | `TestsSound`: one summary. `SummaryIsTrue`: nothing counted twice or left out, unless the test was misled. `EveryTestEnds` |
| `linkcheck` | three sessions, one of them of two attempts, over two targets, room for one | `DriversLimited`: one driver per target, and the cap, but for crowded targets. `ReportIsTrue`: an attempt is resolved by its own pong or one of an earlier ping to the same target, the status follows the attempts. `EverySessionEnds` |
| `response` | four replies to two stations, two chunks | `RepliesSound`: exclusion per station, chunks contiguous, no leak. `EveryReplyEnds` |
| `commands` | five agendas over three paths | `ExecutedOncePerWindow`, `HereOrOnAir`: a command runs once and in one place. `OneBlocklist`: memory, table and clients agree. `BeaconsAreListed` |
| `ingest` | six agendas over two paths, up to four ticks | `ImplementsLog`: the messages table implements `MessageLog`. `StatusAgrees`: what clients were told is in the table. `SignalsCounted`, `TelemetryKept`, `StationsKeepUp` |
| `blelink` | ten agendas, two nodes, two reconnect attempts | `MissingIsWorkedOn`, `CalmIsComplete`: missing registers have a task, or come, are the linked node's, and the client knows the link. `RegistersArrive` |
| `node` | five agendas | `OverlayKept`: the file holds what is in use. `SendsReachNode`: the target becomes and stays our node |
| `web` | eighteen scenarios, one component busy at a time | `ViewIsTrue`: a browser that caught up misses nothing. `NotifiedOnce`, `ListIsHonoured`: notifications. `VersionsAreTrue`, `JobEnds`: the classifier |
| `launch` | three ways to stop, five ways to launch, and both | `RegistersReaped`, `ShutdownEnds`: the ladder. `LaunchedRuns`, `OncePerBoot`, `DogSettles`: the launches |
| `ble` | two nodes, two requests, startup connect, one ladder, two attempts of two tries | `FlagsAreTrue`: the lock is given back, the probe is armed and "reconnecting" said only while it is so. `SessionIsWanted`: the session is the node whose characteristics are used, a disconnect stays. `BusKeptForInit` |
| `slots` | three slots, two releases, any number of runs | `ResultIsTrue`: a failure leaves the active slot or what was deployed, success means the offered release. `BoxSurvives`: what is linked can start, a rollback restores; both but for deployments in place |

Why the bounds are enough.

* *Ledger*: seven units fit a silence longer than the tolerance, a crash, a restart and a
  second silence; thresholds of one unit make every comparison meet its boundary; the
  four frames are the ones the filter tells apart.
* *Ping*: two probes are the least with a first that is late while the second is
  awaited; two copies reach every handler's duplicate path. *Link check*: two sessions
  contend for one target or for the cap, an attempt can follow another, and a third
  session is the one that a late stop robs or that two drivers drive. *Response*:
  three replies to one station are holder, waiter and newcomer, the three that a wrong
  count needs; the fourth is to another station.
* *Commands*: an agenda has up to six messages: both copies of a command with the
  echo of our own, a ban and its lifting on two paths beside two versions of the curated
  list, two `!topic` and a silence for one group. Timeouts of one and two ticks let a
  copy come before, at and after the limit.
* *Ingest*: two copies of a message beside node, peer and reply ACKs, readings in three
  buckets with a restart in between, two copies of a beacon with weather beside
  telemetry; the claims are pruned at two, so pruning happens in most traces. At
  most one statement fails.
* *BLELink*: each fault at most once or twice, and every pair of fault and command that
  touches the same state; with two attempts the stream's ladder has a last one and one
  that is not. *Node*: a stranger, a double with our call sign, a move and a
  replacement, positions on both sides of the least distance worth a write.
* *Web*: two browsers, a queue of two so that it overflows, pages of one row so that
  boundaries are crossed, two rows of one millisecond; two subscriptions and a delivery
  queue of two; batches of two over three rows, so that a batch is full, partial and
  empty, and can fail in whole or in part. A ban is given and lifted beside two visits of
  one browser; of the initial events and of the classifier's statements each kind raises
  once.
* *Launch*: two users and the watchdog are all pairs of writers; two quiet probes of
  three patient ones.
* *Slots*: three slots are the code's; two releases tell older from newer; the number
  of runs is not bounded.
* *BLE*: two requests overlap each other and a background task; two attempts and two
  tries have a last and one that is not; one ladder slot is enough because a second is
  only scheduled when the first is forgotten. The full product is out of reach, so
  `MCSmall` is a sum. Over one node: two requests and the ladder at their first tries, or
  one request beside the ladder and the startup connect with every try. Among the nodes:
  one request beside the ladder at first tries, while at most one node has a link or a
  handler that watches it, and one a handler or a pending signal.
  Symmetry is used on nodes and requests, and the run has no liveness property.

Assumed in passing runs. `Slow < DedupWindow` (Ingest): storing a frame takes less
time than the window. What happens without it is in section 6, and so is what the
exceptions in a property (`disputed`, `torn`, `crossed`, `mixed`, `muddled`, `lowered`, `excused`,
`marks`, `mislaid`, `late`, `crowded`, `misled`) stand for; each is as narrow as the
interleaving that causes it.

Fairness. In CTCPing, LinkCheck and Response every ready task and every expired timer
is run, because that is what the event loop does. In BLELink the same holds for the
client's tasks and for the service's announcements; in Convergence for the ladder, the
watchdog and the runner, whose steps systemd and timeouts bound; in WebSide for the
classifier's jobs. In NodeIdentity the threads finish and the cooldown expires, and two
assumptions are strong: our node is heard again and again at moments when the listener
is free, and its identity is read whenever it differs again and again; beacons and the
register poll are what justifies them. No step of the mesh, of a user or of a failing
disk is fair anywhere else. LinkUptime, Slots, BLEService, Commands and Ingest state no
fairness: their properties are safety properties. Deadlock checking is off because
these systems come to rest: no message, request or clock tick need follow, and every
agenda ends.

## 5. Proofs

The theorems hold for every value of the constants under the named assumptions of the
modules (`ParametersAssumption` and the like), which say no more than what the code's
constants satisfy; TLC evaluates them in the runs. One of them is worth a word:
`HorizonsAssumption` of LinkUptime says that a beacon's write takes no longer than the
tolerance of a gap, and that the window of a report and one tolerance fit into what the
retention keeps (12 minutes, and at most 365 of 400 days: `constants.py`,
`sse_routes/uptime.py`). Ingest assumes that NULL is no row id and no time
(`None \notin Nat`), and that a frame's weather has a reading for every field. The web side
assumes pages and batches of at least one row, times in `Nat`, finitely many browsers, and
that rows of an older version are there only when the program starts.
Safety theorems
are `Spec => []Inv` from an inductive invariant, which TLC checked before it was proved.

* `WebProofs` has the theorems of LinkUptime, whose report browsers read, and of the
  modules of the web side. For the ledger: `TypeCorrect`, `GapsNeverOverlap`, `BeaconWritesNeverCollide`,
  `LedgerStaysSound`, `GapsNeverHideABeacon`. Disjointness is not inductive alone: a late
  write could open a gap inside an old one. The invariant adds that `last_beacon_ms` is
  a high-water mark no row ends after (`HighWaterInv`), and that stamps lie at most
  `WriteDelay` behind the clock (`StampsInv`). `ReportStaysTrue` is about the reader.
  `last_beacon_ms` is the end of a row or a beacon of the present run, unless its dark
  row was pruned; what lies behind it in the window is covered by rows or has such an
  anchor within a tolerance. Since gaps are disjoint, the instants they cover are not
  counted twice, and they and the up time fit into what was observed.
  For the streams, `ViewStaysTrue`: of a connected client, every row it is to have has been
  shown, is in its queue, is about to be told, is a personal message of a sender banned
  since it connected or shares its millisecond (`Near`), and every page asked for, read or
  queued starts where the rows it has end (`Full`). The rows it is to have are those stored
  since it connected and, if its snapshot was read, those from the end of its pages on;
  so a snapshot that fails costs the older rows only. The stored cursor is there, in
  the queue, waits for its broadcast, or is the one of the connection (`TracksCursor`), and
  the blocklist is there or in the queue (`TracksList`); `StateStaysTrue` says so of cursor
  and blocklist alone. `ListStaysHonoured`: a task knows of a subscription what was
  so when it asked or later, and the cache what is so, but for what a write is changing.
  `NotifiesOnce`: a key that is owed to a browser lies in one position of one place (its
  window, the queue, the delivery in progress), or has come to its end (`Handed`); each
  step moves it, ends it or leaves it (`MovedStays`, `EndedStays`, `SameStays`), and
  a batch puts one delivery to the end of the queue or drops it (`BatchLies`). What is
  owed has been seen, and a handler that waits for the list holds a key nobody is owed
  (`SeenInv`), so a second copy finds it seen.
  `VersionsStayTrue`: the rules in memory are as young as the version says or somebody is on
  the way to load such (`MemoryTrue`); what is judged is stamped no younger than its rules
  (`TasksTrue`), and below the marked version there are only excused rows and those the
  backfill still has to reach (`MarkInv`).
* `NodeProofs` has the theorems of CTCPing and BLELink. For the ping tests, `TypeCorrect`,
  `NeverTwoSummaries`, `TestsStaySound`. The number of summaries is tied to the status, and a completion task that is sending has already
  moved the status (`SummaryInv`); so whichever of the three ends a test, the other two
  find it moved. `SummaryStaysTrue` says that the summary is true. A test that
  is not `misled` tracks a probe's id once (`OnceInv`), and what is settled is known to no
  entry that could still count for it (`SettledInv`); so every count is at most the number
  of its settled probes (`CountInv`), and a completion is queued only when the counts add up
  to `repeat_count`, which leaves no probe out (`FullInv`). Targets may be shared and copies
  of an echo may come at any time: `misled` are the tests that took such an echo. For the Bluetooth link, `MissingStaysWorkedOn`: whatever
  makes the client connected or empties the cache of a connected client leaves the
  reconciler armed, and one that is armed stops only when the registers are there or the
  link is not; this is inductive once the steps a task has left are known (`LinkShape`).
  `CalmStaysComplete`: a link that is up is known to the client, or the last word was
  marked as outdated (`Told`), or the client is going to be told, by a new stream, by an
  event in the queue or by the answer a command awaits (`Known`); in a calm state none of
  these is left. Its registers are its own because the service forgets those of another
  node when it is set to a new one and the new node's come last in the queue (`OwnInv`):
  what the cache ends up with is another node's only after a loss (`mislaid`).
* `LinkCheckProofs`: `NeverTwoDrivers`, `CapNeverExceeded`, `DriversStayLimited`. A driver past
  its first step holds its target's entry (`DriversHold`) unless the target is crowded, and a
  driver that has not begun finds its own session or, if that was stopped, none: the queue
  lets the stop's second pop come before whatever was created after it (`PopsFirst`), and
  once no pop is pending (`NoPops`) the entry is the newest session's. For the cap, the
  occupied entries are at most `MaxConcurrent` (`Capped`), what still waits fits into them
  (`PendingFits`), and drivers inject into them. `StatusStaysTrue`: an attempt that was given
  up is resolved late or not at all, one that was counted had been resolved before
  (`CountInv`), and a final status is set when no attempt can follow. `ReportStaysTrue` adds
  that the ids an attempt knows are those of a ping to its target, its own or an
  earlier one (`AttemptsInv`). None of them has a hypothesis beyond the parameters.
* `ChatProofs` has the theorems of Commands and Response. `RunsInOnePlace`: what was sent
  out was not suppressed, and what is ours and was run was (`PlaceInv`). `RunsOnce`: what
  was run is remembered, or was run longer ago than the window (`OnceInv`); admission and
  execution are one step, so no copy comes between them. `BeaconsStayListed`: a task
  that awaits a cancelled beacon awaits the listed one, alone (`Waits`).
  `BlocklistStaysOne` follows a ban through memory, table, list and clients: whoever is
  between two of them touches the call sign (`Touches`), and two that touch one have made
  it disputed; what the loader read before its await is still right for the others
  (`BanInv`). For the replies, `LocksExclude`, `NeverInterleaved`, `RepliesStaySound`: the
  reference count is exactly the number of users (`CountExact`), so the entry is removed
  only by the last, so all users share one lock object (`SameLock`), so a reply that has
  begun keeps the air (`StartedHolds`, `NoneSentYet`).
* `IngestProofs`: `IngestKeepsTheLog`, the refinement `ImplementsLog`: initial states are
  initial, and each of the actions is a step of `MessageLog` or none. The invariant
  (`IngestIsOrderly`) is about the two tasks between their steps: a frame holds its claim
  until it is stored, two frames past their claims are no copies of each other, and
  nothing is inserted beside a row that was not there when the table was looked at.
  `Slow < DedupWindow` is what keeps a claim alive so long. `OneRowInTheWindow` and
  `StatusGoesForward` follow for the table.
  `MergeLosesNothing`, `WhenOrderMatters`, `MergeIdempotent` are about the operators of
  `Reconcile`: what is chosen is at least as well founded as either reading
  (`ChooseBetter`), and a value is there exactly when its provenance says so. Between two
  copies that both have a field, the order of arrival matters unless the newer was measured:
  a row read back has lost the provenances.
  The tables beside the messages rest on the order of a call's steps: what a frame's plan
  holds comes in one order, and what was found puts a few steps in front of the rest
  (`Form`, `StepGoes`). So a task that has written something has the step that makes it
  good still to do, unless it was broken off, which `torn` or `excused` then say.
  `StationsKept`: a signal is of a station that is known late enough, or whose task still
  has its `_upsert_station_position` before it (`Noting`); the time of a station never
  goes back. `StatusesAgree`: what is announced is of a row that is marked and stays
  marked (rows are not unmarked, and a deletion excuses the id), and a marked row is
  announced or its task is about to. `EverySignalCounts`: what of a bucket waits in memory, or is on its way to
  the table in one task, is all of it (`AllCounted`, `CarriedOnce`), and nothing is
  counted that was not logged (`OnlyLogged`), in the stations that `torn` does not list. `NoReadingIsLost`: a task that has looked for the row near
  by knows what the table holds for its station until it writes, since a second task
  with weather of that station puts it into `torn` (`OneWet`). The row it replaces is
  older and has nothing the merge has not (`Dropping`), every other row of the station
  is a window away, for the row it found was the newest near by, and between the
  deletion and the insert the values are in the task (`TakenKept`).
* `ServiceProofs` has the theorems of Slots and BLEService. `SlotsAreOrderly`, and from it `ResultsAreTrue` and `BoxComesThrough`. Up
  to the switch of the link an update writes only the slot it chose, which is not the active
  one, or it deploys in place; bootstrap and runner choose the same slot if the bootstrap
  chooses at all, since nothing between their choices moves a date; the slot deployed to has
  its release, environment and record before it is linked; what was saved at the start stands until a rollback
  has restored it. For the BLE service, `FlagsStayTrue`, `SessionStaysWanted` and
  `BusStaysForInit`, from one invariant (`ServiceStaysOrderly`). Its parts: which awaits a
  job of each kind may stand at (`JobsFit`); the lock has the holder that is inside, and
  of two waiters one came first (`LockInv`; `CallKeeps`, `LetGoKeeps`, `LeaversLetGo` are what
  the actions do to it); a job that takes the adapter down or brings it up finds it not
  connected, so no second session is set beside one, and proxies and characteristics of
  an attempt are those of its node or were taken away by a late signal (`SessionInv`);
  whoever reconnects
  has a node to reconnect to (`LadderInv`); from a disconnect that found nothing else
  running until the next request nothing else runs and the user's wish is noted, so a
  signal that comes late starts no ladder (`QuietInv`). Most actions move one job, and
  `StepKeeps` says once what is left to be shown of such a step. Without its second
  guard, `MayReset` leaves `BusIsKept` unprovable, as TLC finds it violated.
* `NodeIdentityProofs`: `OverlayStaysTrue`. `OverlayKept` speaks of a file that a thread may
  be about to replace, so the invariant says what that thread carries: the value in use
  for its own entry (`WriteInv`) and, if it could read the file, what the file holds for
  the entries not torn (`MergeInv`). The position is compared with the last one handed to a write, which the
  file has unless that write was lost (`PersistedInv`).
* `ConvergenceProofs`: `WatchdogTriesOnce`, `AnsweredLaunchesAreKept`. The boot is noted before
  a file is written (`OnceInv`). For the launches, half-written args belong to a launch
  in progress or to one that was crossed (`HalfWritten`, `Written`), two that write at
  once have crossed (`WritersCross`), and a runner that removes the files removes
  nobody's but those it took (`NoneRemoved`). `ReapedBeforeTheLink` is about the ladder:
  from the stop of the Bluetooth client on no register task is at work but those that an
  event or a request started after their rung, whatever fails or hangs on the way.

Only model-checked: the liveness properties. Every invariant and every action property of
a run has its theorem.
Liveness under fairness is out of the prover's reach, and so is what a recursive
definition computes for every input.


## 6. What the models showed

What the code does where a property needs an exception or an assumption, or where a
stronger property is false. Each is an interleaving or fault that the models contain
or contained.

*Ledger.* Reconciliation at the start stores a row keyed by the last tick, but the tick
moves only at the first heartbeat: a second crash in between repeats the key, and the
service is refused its start from then on. In a ledger that has never heard a beacon,
silence is a gap until the first beacon turns it into up time. A dark row may overlap
a gap row. An outage that was open when the process stopped is hidden by a long
restart.

*CTC ping.* A copy of an echo that arrives after its ACK makes the answered ping active
again, and its timeout is counted as a loss. The echo carries no test id: of two tests
of one target the first takes the echoes of both. The test is `misled` then, and its summary
may be wrong. `stop_ctcping` does not wait for
handlers that are not background tasks.

*Link check.* A pong that arrives after its attempt was given up sets the event on which
the next attempt waits, which then ends at once. A late echo gives its id to a later
attempt, of the same session or of the next one for that target. A start that slips in between the end of a stopped driver and the return of
the stop is accepted, then loses its entry to the stop's second pop. Its driver dies of a KeyError, unless by then
there is yet another session for that target: it drives that one, beside that session's own
driver, so that two drivers send for one target (start 1, stop 1, driver 1 ends, start 2,
the stop pops 2's entry, start 3, drivers 2 and 3 both find session 3). Starts are accepted
during and after the shutdown ladder and get a driver that nobody reaps.

*Commands.* The throttle entry is written after the execution, so two copies with
different ids both run. A failed read of the table while the curated list is applied
lifts a ban until the next start. A ban lifted while the list is applied is put back
without a broadcast, since what was enforced before and after is the same; a ban given
at that time is in the table and not in memory. Overlapping `!kb` commands can leave
table and memory different, a failed write leaves the memory changed and the clients
untold. Two overlapping `!topic` for one group leave a beacon no list knows. Two own
messages in one millisecond share an id.

*Ingest.* An ACK that overtakes the insert of its message is lost for the table, though
the clients are told "sent". A failed insert leaves its claim behind, so the other copy
is refused for the window. A reading that arrives after its bucket was written replaces
the bucket with a count of one; a start reloads the current bucket only, by sender and
not by last hop. Two copies of a weather beacon handled at once can become two rows, or
one update can go to a row just replaced. A crash inside the replacement of a telemetry
row loses it. A derived value counts as measured once it has been stored.

*BLE link.* `refresh_status` may take over an answer that events have overtaken, and the
client says "disconnected" of a link that is up. A start on a connection that exists
schedules a hydration but no reconciler. Connecting to another node without a
disconnect leaves the old node's registers in the cache until the new one's arrive; when
those are lost they stay, and the reconciler, which only asks whether any are there, is
content (`mislaid`). A late greeting of the stream can wipe a
cache the reconciler has just completed.

*Node.* Overlapping writes lose one of two entries until it is learned anew; a failed
write is not repeated. A read that fails before a write empties the file of all other
entries, and an entry that does not change is not written again: the next start is back
at `config.json`. After a restart the target counts as configured again, so a
stranger may be taken for the node until our own is heard.

*Web.* A list of subscriptions read before a write and returned after the write was
noticed is cached, and stays until the next write. An answer 401, 403, 404 or 410
removes the subscription stored by then, even if it is fresher than the one the
delivery used; other errors lose the notification. Pages are cut by `timestamp <`, so
rows of the boundary's millisecond are skipped; `has_more` counts rows the blocklist
hides, and a page hidden as a whole leaves a browser no time to ask from. What was
hidden while a client was connected stays hidden after an unban until it reconnects. A
query of the initial events that raises leaves the client without history, or without
read cursors until one moves, although the stream goes on; the blocklist is read from
memory ahead of all queries and is never among what is missing.

*Classifier.* `classify` reads the rules at its start and the version at its end, so a row
can carry a version it was not judged by, which no job repairs. Loads that overtake
each other put back older rules, after which a job for the newer version does not end.
The version is raised by read and write, so two edits can raise it once, and of three
edits the last to write can lower it again (`lowered`). The marker of
a backfill is set when the job is scheduled: a restart before its end leaves rows
behind. A batch that fails as a whole ends the job with the rows behind it untouched, and
so does one that cannot be read. A message whose pipeline raises becomes "other" with the
current version, and no job of that version judges it again. An edit whose load fails
after its first half leaves the new version with the old rules.

*Start and shutdown.* Events of the stream or requests can arm a hydration or reconciler
after its rung. Replies are drained before the pings, whose completion can still send
a summary. An exception other than a timeout ends the ladder. A second signal later
than five seconds forces the exit in the middle of the ladder.

*Launch.* A launch asks for the runner's port, not for the trigger, so two launches within
the runner's start-up overwrite each other's args and are both answered "launched"; one
written between the runner's read and its unlink is lost. Half-written args make the
runner exit with the trigger in place. `run_converge` says of a failed converge that the
watchdog retries later, and `converge_watchdog` that its check covers an apt that was
offline; but a failed converge, one interrupted after its note, and one given up for
waiting too long all count as the attempt of the boot, and nothing is tried before the
next reboot.

*Slots.* For a box that is up to date, or that cannot ask which release there is, the
bootstrap deploys in place, as the comment in `deploy_app` wants it; the runner then records
and links the oldest other slot, with an older release in it or none, and reports success,
and the service starts from there the next time (the first exception of
`UpdateKeepsUsable`). A slot recorded as another release than lies in it is cleared while
it is the active one (`Mislabelled`, the second). Where the runner raises after the switch,
the update has failed and the new release stays linked. The slot a rollback is offered into may have been emptied by an interrupted
download. When the bootstrap is killed between linking and restarting, the health
checks pass on the old process. A manual rollback to a failed slot restores the
database of an earlier release. A broken archive in `restore_etc` leaves the service
stopped. A rollback goes to the newest date, not to the previous slot.

*BLE service.* A link lost while the ladder initialises it is announced as connected, and
nobody retries. A late signal of a lost session that arrives while the
characteristics of the next one are searched takes away the device proxies only:
the adapter goes on to "connected", subscribes to no loss of the link, and a disconnect
will leave the link up, since there is no proxy to ask. A state file that cannot be
removed at a disconnect names its node at the next start. After a lost link, `ensure_connected` dials on the same bus: the old
notification handler is still there and every notification is delivered twice. A link
lost while a cancelled task is being awaited schedules a ladder that `reconnect_task`
then forgets; it survives a later disconnect. The 28 s deadline leaves a half-open
session behind. `/connect` to the node already connected resets the bus and leaves a
session that hears nothing. A `/connect` that ends after `/disconnect` writes the state
file again.

## 7. Not modelled

* *Other chat commands*: answers read from tables, with no state that outlives a call.
* *BLE and APRS decoding*: pure functions of bytes; their cases are the firmware's formats.
* *The rest of the queries and the migrations*: SQL without effect on state, and steps that
  run once before anything else.
* *Bootstrap*: packages, users, units, the web server: idempotent shell over the host's
  state, of which a model would have to invent most. Its choice and filling of slots is in
  `Slots`. *Release scripts* and *tests*: not part of the running system.
* In Convergence the files of attempts and launches can be written. Where one cannot be,
  the watchdog logs it and is gone until the service starts again, and a request to
  launch is answered with an error.
* Within modelled components, `PROJECT.json` says what is left out; the larger parts are
  scanning, pairing, PINs and bonds of the BLE side, the runner's status server and its
  converge mode, the one-time backfills of ingest, the WebSocket bridge and keep-alives,
  deletion of a conversation as browsers see it, rule matching and templates of the
  classifier.
