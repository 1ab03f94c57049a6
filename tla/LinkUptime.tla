------------------------------ MODULE LinkUptime ------------------------------
(***************************************************************************)
(* The gateway-uptime ledger: three writers, one pruner and one reader of  *)
(* two SQLite tables (storage/uptime.py).  The tables survive a crash of   *)
(* the proxy; a write handed to a worker thread and not yet committed does *)
(* not.                                                                    *)
(*                                                                         *)
(* Time is the proxy's wall clock in abstract units and never steps back.  *)
(* A write is stamped with now_ms() on the event loop and committed later  *)
(* by a worker thread: two beacon copies (UDP and BLE tasks) may commit in *)
(* either order.                                                           *)
(***************************************************************************)
EXTENDS Integers, FiniteSets, FiniteSetsExt

CONSTANTS
    GapTolerance,   \* GAP_TOLERANCE_MS
    DarkThreshold,  \* DARK_THRESHOLD_MS
    WriteDelay,     \* longest stay of a write in its worker thread
    Window,         \* width of the widest window the reader is asked for
    Retention,      \* LINK_UPTIME_RETENTION_DAYS
    MaxTime,        \* bound on the clock
    MaxCrashes,     \* bound on the stops and crashes
    Frames          \* the inbound frames, records [cet, src_type, src, via]

ASSUME ParametersAssumption ==
    /\ GapTolerance \in Nat \ {0}
    /\ DarkThreshold \in Nat \ {0}
    /\ WriteDelay \in Nat
    /\ Window \in Nat \ {0}
    /\ Retention \in Nat
    /\ MaxTime \in Nat
    /\ MaxCrashes \in Nat

\* 12 minutes outlast any write, 400 days are kept of the 365 shown at most.
ASSUME HorizonsAssumption ==
    /\ WriteDelay <= GapTolerance
    /\ Window + GapTolerance <= Retention

\* SQL NULL in a column of times.
Null == -1

VARIABLES
    now,        \* wall clock
    phase,      \* "down", "boot" or "up": how far the process got
    row,        \* the columns of link_uptime_state, or NoRow
    segments,   \* rows of link_uptime_segments
    inflight,   \* stamps of beacon writes not committed yet
    heard,      \* history: stamps of all committed beacons
    crashes     \* stops and crashes so far

vars == <<now, phase, row, segments, inflight, heard, crashes>>

Time == Nat

Row == [first : Time, lastBeacon : Time \cup {Null},
        openUpStart : Time \cup {Null}, lastTick : Time \cup {Null}]

NoRow == [first |-> Null, lastBeacon |-> Null, openUpStart |-> Null, lastTick |-> Null]

Segment == [start : Time, end : Time, kind : {"gap", "dark"}]

Init ==
    /\ now = 0
    /\ phase = "down"
    /\ row = NoRow
    /\ segments = {}
    /\ inflight = {}
    /\ heard = {}
    /\ crashes = 0

-----------------------------------------------------------------------------
(* The gate of the ingest hook: our own node's relay of a {CET} beacon.  A *)
(* frame's via path has no hop left once the originator is excluded.       *)

IsUplinkTimeBeacon(m) ==
    /\ m.cet
    /\ m.src_type # "lora"
    /\ \A i \in DOMAIN m.via : m.via[i] = m.src[1]

(* INSERT OR IGNORE of the single state row. *)
SeededRow(t) == IF row = NoRow THEN [NoRow EXCEPT !.first = t] ELSE row

(* The ingest hook stamps an accepted beacon; everything else is ignored. *)
BeaconArrives(m) ==
    /\ phase = "up"
    /\ IsUplinkTimeBeacon(m)
    /\ inflight' = inflight \cup {now}
    /\ UNCHANGED <<now, phase, row, segments, heard, crashes>>

SilenceTooLong_OneLate(last, t) == t - last > GapTolerance + 1

(* A silence counts as an outage beyond the tolerance, not at it. *)
SilenceTooLong(last, t) == t - last > GapTolerance

OpenUpRun_KeepsBeacon(r, a) ==
    [r EXCEPT !.lastBeacon = IF @ = Null THEN a ELSE @, !.openUpStart = a]

(* A new up run opens at the beacon (or at the restart). *)
OpenUpRun(r, a) == [r EXCEPT !.lastBeacon = a, !.openUpStart = a]

ExtendUpRun_Forgets(r, a) == r

(* The open up run grows; a late copy never moves last_beacon_ms back. *)
ExtendUpRun(r, a) == IF a > r.lastBeacon THEN [r EXCEPT !.lastBeacon = a] ELSE r

(* record_link_beacon's worker, one transaction: first beacon, gap closed, *)
(* or run extended.  Its INSERT never hits a taken key (StartKeysUnique).  *)
RecordLinkBeacon(a) ==
    LET r == SeededRow(a)
    IN  /\ a \in inflight
        /\ inflight' = inflight \ {a}
        /\ heard' = heard \cup {a}
        /\ \/ /\ r.lastBeacon = Null
              /\ row' = OpenUpRun(r, a)
              /\ UNCHANGED segments
           \/ /\ r.lastBeacon # Null
              /\ SilenceTooLong(r.lastBeacon, a)
              /\ row' = OpenUpRun(r, a)
              /\ segments' = segments \cup
                    {[start |-> r.lastBeacon, end |-> a, kind |-> "gap"]}
           \/ /\ r.lastBeacon # Null
              /\ ~SilenceTooLong(r.lastBeacon, a)
              /\ row' = ExtendUpRun(r, a)
              /\ UNCHANGED segments
        /\ UNCHANGED <<now, phase, crashes>>

(* One round of the heartbeat task, started last.  A tick that fails is    *)
(* logged and the loop goes on: a round that changes nothing.              *)
LinkUptimeTick ==
    /\ phase = "up"
    /\ row' = [SeededRow(now) EXCEPT !.lastTick = now]
    /\ UNCHANGED <<now, phase, segments, inflight, heard, crashes>>

(* Three missed heartbeats; a ledger no heartbeat ever reached says nothing. *)
ProxyWasDown == row.lastTick # Null /\ now - row.lastTick > DarkThreshold

(* start_ms is the primary key of link_uptime_segments. *)
StartTaken(t) == \E s \in segments : s.start = t

(* reconcile_link_uptime_startup, the first thing a new process does with  *)
(* the ledger: nothing else of the process runs yet.  When its INSERT hits *)
(* a taken key the error leaves build_app, the process ends, and nothing   *)
(* has changed: no action.                                                 *)
ReconcileStartup ==
    /\ phase = "down"
    /\ phase' = "boot"
    /\ \/ /\ row = NoRow
          /\ row' = [NoRow EXCEPT !.first = now]
          /\ UNCHANGED segments
       \/ /\ row # NoRow
          /\ ~ProxyWasDown
          /\ UNCHANGED <<row, segments>>
       \/ /\ row # NoRow
          /\ ProxyWasDown
          /\ ~StartTaken(row.lastTick)
          /\ segments' = segments \cup
                {[start |-> row.lastTick, end |-> now, kind |-> "dark"]}
          /\ row' = OpenUpRun(row, now)
    /\ UNCHANGED <<now, inflight, heard, crashes>>

(* build_app opens the UDP and BLE listeners and main() starts the         *)
(* background tasks, the heartbeat among them.                             *)
StartServices ==
    /\ phase = "boot"
    /\ phase' = "up"
    /\ UNCHANGED <<now, row, segments, inflight, heard, crashes>>

(* A stop or a crash: the ledger has no shutdown hook. *)
Crash ==
    /\ phase # "down"
    /\ crashes < MaxCrashes
    /\ crashes' = crashes + 1
    /\ phase' = "down"
    /\ inflight' = {}
    /\ UNCHANGED <<now, row, segments, heard>>

Kept == {s \in segments : s.end >= now - Retention}

(* prune_messages, at boot and every night. *)
Prune ==
    /\ phase # "down"
    /\ segments' = Kept
    /\ segments' # segments
    /\ UNCHANGED <<now, phase, row, inflight, heard, crashes>>

Clock ==
    /\ now < MaxTime
    /\ \A a \in inflight : now + 1 - a <= WriteDelay
    /\ now' = now + 1
    /\ UNCHANGED <<phase, row, segments, inflight, heard, crashes>>

Next ==
    \/ \E m \in Frames : BeaconArrives(m)
    \/ \E a \in inflight : RecordLinkBeacon(a)
    \/ LinkUptimeTick
    \/ ReconcileStartup
    \/ StartServices
    \/ Crash
    \/ Prune
    \/ Clock

Spec == Init /\ [][Next]_vars

-----------------------------------------------------------------------------
(* The reader: get_link_uptime over the window that ends now.              *)

WindowStart == now - Window

Clip(s) == [s EXCEPT !.start = Max({@, WindowStart}), !.end = Min({@, now})]

(* Everything before the first observation is dark. *)
BeforeFirst ==
    {[start |-> WindowStart,
      end   |-> IF row.first = Null THEN now ELSE Min({row.first, now}),
      kind  |-> "dark"]}

(* Silence since the last beacon, or since the first observation when no   *)
(* beacon was ever heard, that no beacon has closed yet.                   *)
LiveTail ==
    IF row.lastBeacon = Null
    THEN IF row.first = Null THEN {}
         ELSE {[start |-> row.first, end |-> now,
                kind  |-> IF SilenceTooLong(row.first, now) THEN "gap" ELSE "dark"]}
    ELSE IF SilenceTooLong(row.lastBeacon, now)
         THEN {[start |-> row.lastBeacon, end |-> now, kind |-> "gap"]}
         ELSE {}

(* _collect_non_up_intervals: the three sources, clipped, empty ones       *)
(* dropped.                                                                *)
CollectNonUp ==
    {s \in {Clip(t) : t \in BeforeFirst \cup segments \cup LiveTail} : s.end > s.start}

(* _fill_up_segments: what no interval covers is up. *)
UpInstants ==
    {t \in WindowStart .. (now - 1) :
        ~ \E s \in CollectNonUp : s.start <= t /\ t < s.end}

\* The gaps, one by one: what two of them share counts twice.
GapInstants ==
    {g \in CollectNonUp \X (WindowStart .. (now - 1)) :
        g[1].kind = "gap" /\ g[1].start <= g[2] /\ g[2] < g[1].end}

UpMs == Cardinality(UpInstants)
GapMs == Cardinality(GapInstants)
ObservedMs == UpMs + GapMs

-----------------------------------------------------------------------------
(* Properties *)

TypeOK ==
    /\ now \in Time
    /\ phase \in {"down", "boot", "up"}
    /\ row \in Row \cup {NoRow}
    /\ segments \subseteq Segment
    /\ inflight \subseteq Time
    /\ heard \subseteq Time
    /\ crashes \in Nat

Overlap(s, t) == s.start < t.end /\ t.start < s.end

(* No stretch of time is stored as an outage twice, whatever order the     *)
(* beacon copies commit in and wherever the process crashes and restarts:  *)
(* two distinct gap rows never overlap (record_link_beacon anchors every   *)
(* gap on the last counted beacon).                                        *)
GapsDisjoint ==
    \A s, t \in segments :
        s.kind = "gap" /\ t.kind = "gap" /\ s # t => ~Overlap(s, t)

(* The primary key of link_uptime_segments is never violated: no beacon    *)
(* write ever fails on a row that starts where its gap starts.             *)
StartKeysUnique ==
    \A s, t \in segments : s.start = t.start => s = t

(* coverage_pct never exceeds 100: what the reader counts as observed (up  *)
(* plus gap, each summed on its own) fits in the window.                   *)
CoverageAtMostWindow == ObservedMs <= Window

(* A stored outage is real: no beacon that was counted is stamped inside   *)
(* it, but for copies still in a worker thread when the closing beacon     *)
(* committed.                                                              *)
GapsAreSilent ==
    \A s \in segments : s.kind = "gap" =>
        ~ \E b \in heard : s.start < b /\ b < s.end - WriteDelay

DarkEnds == {s.end : s \in {x \in segments : x.kind = "dark"}}

(* What a run of up instants may start from: a counted beacon, or the end  *)
(* of a dark stretch, which reconcile treats as one.                       *)
Anchors == heard \cup DarkEnds

Preceded(t) == \E a \in Anchors : a <= t
BackedUp(t) == \E a \in Anchors : a <= t /\ t - a < GapTolerance

(* From the last dark row on, every instant the reader calls up has an     *)
(* anchor less than GapTolerance before it: short restarts, lost writes,   *)
(* late copies and pruning never hide an outage once beacons have started  *)
(* (the gap rows and get_link_uptime's live tail together).                *)
UpIsBackedSinceRestart ==
    \A t \in UpInstants :
        Preceded(t) /\ (\A d \in DarkEnds : t >= d) => BackedUp(t)

(* The ledger's rows are sound: what one of them says no other repeats,    *)
(* contradicts or displaces (record_link_beacon and                        *)
(* reconcile_link_uptime_startup, which both insert).                      *)
LedgerSound == TypeOK /\ StartKeysUnique /\ GapsDisjoint

(* What get_link_uptime reports is neither more than the window nor more   *)
(* than the beacons account for.                                           *)
ReportIsTrue == CoverageAtMostWindow /\ UpIsBackedSinceRestart

=============================================================================
