------------------------------- MODULE Ingest -------------------------------
(***************************************************************************)
(* What the gateway keeps of the frames it hears (storage/ingest.py).      *)
(* Two tasks, one reading UDP datagrams and one reading notifications of   *)
(* the Bluetooth service, call store_message beside each other.  Each call *)
(* is a sequence of short transactions with an await at every one; the     *)
(* claims on transmissions and the readings of unfinished signal buckets   *)
(* are in memory, everything else is in tables.                            *)
(*                                                                         *)
(* A frame is a record [kind, id, src, hop, dst, radio, place, weather,    *)
(* echo, acks, ack]: hop is the station we received it from, radio says    *)
(* that it has a plausible signal, weather has a reading for every field.  *)
(***************************************************************************)
EXTENDS Reconcile, Sequences, FiniteSets

CONSTANTS
    Agendas,        \* what the world may do, see the variable agenda
    DedupWindow,    \* DEDUP_WINDOW_MS
    PruneAt,        \* _RECENT_INGEST_PRUNE_AT
    BucketSpan,     \* BUCKET_SECONDS
    MheardWindow,   \* MHEARD_THROTTLE_MS
    TeleWindow,     \* TELEMETRY_DEDUP_WINDOW_MS
    Delay,          \* how long a notification may be under way
    Slow            \* how long a frame may be in store_message

ASSUME IngestAssumption ==
    /\ {DedupWindow, PruneAt, BucketSpan, MheardWindow, TeleWindow} \subseteq Nat \ {0}
    /\ Delay \in Nat /\ Slow \in Nat /\ Slow < DedupWindow
    /\ None \notin Nat

Paths == {"udp", "ble"}

VARIABLES
    agenda,     \* what is still to come: <<path, frame>> pairs, ticks of the
                \* clock, restarts, faults of the database, talks to delete
    now,
    next,       \* the next row id
    task,       \* path -> the frame in store_message, its time, the steps it
                \* has still to do, and the rows it has found or computed
    recent,     \* _recent_ingest: <<key, time>>
    accum,      \* _bucket_accumulators: readings [hop, bucket, n]
    rows,       \* the table messages
    receipts,   \* the table message_acks
    signals,    \* the table signal_log; hop is not stored, for checking only
    buckets,    \* the table signal_buckets: [hop, bucket, of], of: the
                \* readings its averages and its count were made of
    tele,       \* the table telemetry
    seen,       \* station_positions.last_seen
    told,       \* history: <<id, status>> published as msg_status
    taken,      \* history: measured values [call, at, field] taken in
    excused,      \* history: ids whose ACK was broken off, or whose row was deleted
    torn        \* history: stations whose frames were broken off, came late
                \* or were worked on by both tasks at once

tables == <<rows, receipts, signals, buckets, tele, seen>>
memory == <<recent, accum>>
history == <<told, taken, excused, torn>>
vars == <<agenda, now, next, task, memory, tables, history>>

Frames == UNION {{e[2] : e \in a.coming} : a \in Agendas}
Talks == {f.dst : f \in Frames}

\* A heard line carries no id (is_mheard of _ingest_signal), and weather is
\* a reading for every field.
ASSUME AgendasAssumption ==
    /\ Agendas \subseteq [coming : SUBSET (Paths \X Frames), ticks : Nat, restarts : Nat,
                          faults : Nat, deletes : SUBSET Talks]
    /\ \A f \in Frames : f.kind = "mheard" => f.id = None
    /\ \A f \in Frames : f.weather \in Readings

Calls == {f.src : f \in Frames} \cup {f.hop : f \in Frames}
Idle == [frame |-> None, at |-> 0, todo |-> <<>>, found |-> None]

Init ==
    /\ agenda \in Agendas
    /\ now = 0
    /\ next = 1
    /\ task = [p \in Paths |-> Idle]
    /\ recent = {} /\ accum = {}
    /\ rows = {} /\ receipts = {} /\ signals = {} /\ buckets = {} /\ tele = {}
    /\ seen = [c \in Calls |-> None]
    /\ told = {} /\ taken = {} /\ excused = {} /\ torn = {}

-----------------------------------------------------------------------------
(* The order of the steps *)

Newest(S) == {r \in S : \A q \in S : q.at < r.at \/ (q.at = r.at /\ q.n <= r.n)}
Bucket(t) == (t \div BucketSpan) * BucketSpan
Later(s, t) == IF s = None \/ s < t THEN t ELSE s

\* store_telemetry, left at once when every reading is absent.
HasWeather(f) == \E w \in Fields : f.weather[w].prov # ABSENT
Weather(f) == IF HasWeather(f) THEN <<"recall">> ELSE <<>>

Signal(f) == IF f.radio THEN <<"log", "count", "signal">> ELSE <<>>
Place(f) == IF f.kind = "pos" /\ f.place THEN <<"place">> ELSE <<>>

\* A link-check payload is counted as a signal and not kept as a message.
Row(f) ==
    CASE f.kind = "mheard" -> <<"heard", "again", "insert">>
      [] f.kind = "probe" -> <<>>
      [] OTHER -> <<"insert">>

Kept(f) ==
    Signal(f) \o Place(f) \o (IF f.kind = "pos" THEN Weather(f) ELSE <<>>) \o Row(f)

Plan(f) ==
    CASE f.kind = "tele" -> Weather(f)
      [] f.kind = "ack" /\ f.ack = "peer" -> <<"sent", "acked">>
      [] f.kind = "ack" /\ f.ack # "peer" -> <<"sent">>
      [] OTHER ->
            (IF f.acks # None THEN <<"original">> ELSE <<>>)
            \o (IF f.id # None THEN <<"claim", "look">> ELSE <<>>)
            \o Kept(f)

Frame(p) == task[p].frame
At(p) == task[p].at
Found(p) == task[p].found
Busy(p) == task[p].todo # <<>>
Does(p, step) == Busy(p) /\ Head(task[p].todo) = step

\* The task goes on with other steps before, or instead of, the rest.
GoesOn(p, steps, found) ==
    task' = [task EXCEPT ![p] =
                IF steps = <<>> THEN Idle
                ELSE [frame |-> Frame(p), at |-> At(p), todo |-> steps, found |-> found]]
Rest(p) == Tail(task[p].todo)
Finishes(p) == GoesOn(p, Rest(p), None)

AtWork(c) == {p \in Paths : Busy(p) /\ c \in {Frame(p).src, Frame(p).hop}}
HandlesWeather(p) ==
    Busy(p) /\ \E i \in DOMAIN task[p].todo :
                   task[p].todo[i] \in {"recall", "add", "amend", "drop", "weather"}

\* The time is that of the reception: a notification was under way a while.
Stamps(p) == IF p = "udp" THEN {now} ELSE {t \in 0 .. now : now - t <= Delay}

\* Frames that _should_filter_message refuses never begin.
Arrive(p, f) ==
    /\ <<p, f>> \in agenda.coming /\ ~Busy(p)
    /\ Plan(f) # <<>>
    /\ agenda' = [agenda EXCEPT !.coming = @ \ {<<p, f>>}]
    /\ \E t \in Stamps(p) :
        task' = [task EXCEPT ![p] = [frame |-> f, at |-> t, todo |-> Plan(f), found |-> None]]
    /\ torn' = IF HasWeather(f) /\ \E q \in AtWork(f.src) : HandlesWeather(q)
               THEN torn \cup {f.src} ELSE torn
    /\ UNCHANGED <<now, next, memory, tables, told, taken, excused>>

-----------------------------------------------------------------------------
(* Deduplication *)

Key(f) == <<f.src, f.id>>

Pruned(t) ==
    IF Cardinality(recent) >= PruneAt
    THEN {e \in recent : e[2] > t - DedupWindow} ELSE recent

\* A copy of a position may still have weather the first one had not.
Duplicate(p) == GoesOn(p, IF Frame(p).kind = "pos" THEN Weather(Frame(p)) ELSE <<>>, None)

\* Mutant: nothing is claimed while the first copy is still being stored.
Claimed_Never(f, t) == FALSE
\* _claim_recent_ingest.
Claimed(f, t) == \E e \in recent : e[1] = Key(f) /\ t - e[2] <= DedupWindow

Claim(p) ==
    LET f == Frame(p) IN
    /\ Does(p, "claim") /\ ~Claimed(f, At(p))
    /\ recent' = {e \in Pruned(At(p)) : e[1] # Key(f)} \cup {<<Key(f), At(p)>>}
    /\ Finishes(p)
    /\ UNCHANGED <<agenda, now, next, accum, tables, history>>

RefuseClaimed(p) ==
    /\ Does(p, "claim") /\ Claimed(Frame(p), At(p))
    /\ Duplicate(p)
    /\ UNCHANGED <<agenda, now, next, memory, tables, history>>

\* The table knows what was claimed before the last start.
Stored(f, t) == \E r \in rows : <<r.src, r.id>> = Key(f) /\ r.at > t - DedupWindow

Look(p) ==
    /\ Does(p, "look")
    /\ IF Stored(Frame(p), At(p)) THEN Duplicate(p) ELSE Finishes(p)
    /\ UNCHANGED <<agenda, now, next, memory, tables, history>>

-----------------------------------------------------------------------------
(* _ingest_signal *)

LogSignal(p) ==
    /\ Does(p, "log")
    /\ signals' = signals \cup {[call |-> Frame(p).src, hop |-> Frame(p).hop, at |-> At(p), n |-> next]}
    /\ next' = next + 1
    /\ GoesOn(p, Rest(p), next)
    /\ UNCHANGED <<agenda, now, memory, rows, receipts, buckets, tele, seen, history>>

\* Mutant: the bucket that is still filling is completed as well.
Completed_Current(readings, hop, b) == {x \in readings : x.hop = hop /\ x.bucket <= b}
Completed(readings, hop, b) == {x \in readings : x.hop = hop /\ x.bucket < b}

\* The rows that a set of readings is averaged to.
AsRows(readings) ==
    {[hop |-> x.hop, bucket |-> x.bucket,
      of |-> {y.n : y \in {z \in readings : z.hop = x.hop /\ z.bucket = x.bucket}}] : x \in readings}

\* _accumulate_signal: a later bucket completes the earlier ones.
CountSignal(p) ==
    LET hop == Frame(p).hop
        b == Bucket(At(p))
        all == accum \cup {[hop |-> hop, bucket |-> b, n |-> Found(p)]}
        done == Completed(all, hop, b)
        late == \/ \E x \in accum \cup buckets : x.hop = hop /\ x.bucket > b
                \/ /\ \E x \in buckets : x.hop = hop /\ x.bucket = b
                   /\ \A x \in accum : x.hop = hop => x.bucket # b
    IN
    /\ Does(p, "count")
    /\ accum' = all \ done
    /\ torn' = IF late THEN torn \cup {hop} ELSE torn
    /\ IF done = {} THEN Finishes(p) ELSE GoesOn(p, <<"flush">> \o Rest(p), done)
    /\ UNCHANGED <<agenda, now, next, recent, tables, told, taken, excused>>

\* INSERT OR REPLACE.
Replaced(done) ==
    {x \in buckets : \A y \in done : <<x.hop, x.bucket>> # <<y.hop, y.bucket>>} \cup AsRows(done)

FlushBuckets(p) ==
    /\ Does(p, "flush")
    /\ buckets' = Replaced(Found(p))
    /\ Finishes(p)
    /\ UNCHANGED <<agenda, now, next, memory, rows, receipts, signals, tele, seen, history>>

\* Mutant: last_seen is what was written last.
LastSeen_Overwritten(c, t) == t
LastSeen(c, t) == Later(seen[c], t)

\* _upsert_station_position for a signal, a position, or the origin of an
\* mheard line; the other columns of the row are left out.
UpsertStation(p) ==
    /\ \E step \in {"signal", "place", "heard"} : Does(p, step)
    /\ seen' = [seen EXCEPT ![Frame(p).src] = LastSeen(Frame(p).src, At(p))]
    /\ Finishes(p)
    /\ UNCHANGED <<agenda, now, next, memory, rows, receipts, signals, buckets, tele, history>>

-----------------------------------------------------------------------------
(* The row of a message *)

\* _store_mheard: a line within the throttle renews the row before it.
Renew(p) ==
    LET old == Newest({r \in rows : r.kind = "mheard" /\ r.src = Frame(p).src
                                    /\ r.at > At(p) - MheardWindow})
    IN
    /\ Does(p, "again")
    /\ IF old = {}
       THEN Finishes(p) /\ UNCHANGED rows
       ELSE /\ GoesOn(p, <<>>, None)
            /\ rows' = (rows \ old) \cup {[r EXCEPT !.at = At(p)] : r \in old}
    /\ UNCHANGED <<agenda, now, next, memory, receipts, signals, buckets, tele, seen, history>>

\* Classified before, which takes a while and may fail without consequence.
InsertRow(p) ==
    /\ Does(p, "insert")
    /\ rows' = rows \cup {[n |-> next, id |-> Frame(p).id, src |-> Frame(p).src, at |-> At(p),
                           kind |-> Frame(p).kind, dst |-> Frame(p).dst, echo |-> Frame(p).echo,
                           status |-> [sent |-> FALSE, acked |-> FALSE]]}
    /\ next' = next + 1
    /\ Finishes(p)
    /\ UNCHANGED <<agenda, now, memory, receipts, signals, buckets, tele, seen, history>>

-----------------------------------------------------------------------------
(* _handle_ack, and the ":ackN" of a direct message *)

Texts(id) == {r \in rows : r.id = id /\ r.kind = "text"}
Marked(found, status) == (rows \ found) \cup {[r EXCEPT !.status[status] = TRUE] : r \in found}

MarkSent(p) ==
    LET f == Frame(p)
        hit == Newest(Texts(f.id))
        after == IF f.ack = "peer" THEN Rest(p)
                 ELSE IF hit # {} /\ f.ack \in {"node", "gateway"} THEN <<"receipt", "tell">>
                 ELSE <<"tell">>
    IN
    /\ Does(p, "sent")
    /\ rows' = Marked(hit, "sent")
    /\ GoesOn(p, after, [id |-> f.id, status |-> "sent"])
    /\ UNCHANGED <<agenda, now, next, memory, receipts, signals, buckets, tele, seen, history>>

\* Mutant: a peer's ACK is announced whether a row was marked or not.
Announced_Anyway(hit) == TRUE
Announced(hit) == hit # {}

MarkAcked(p) ==
    LET f == Frame(p)
        hit == Newest(Texts(f.id))
    IN
    /\ Does(p, "acked")
    /\ rows' = Marked(hit, "acked")
    /\ GoesOn(p, IF Announced(hit) THEN <<"receipt", "tell">> ELSE <<>>, [id |-> f.id, status |-> "acked"])
    /\ UNCHANGED <<agenda, now, next, memory, receipts, signals, buckets, tele, seen, history>>

\* _record_message_ack: INSERT OR IGNORE.
Receipt(p) ==
    /\ Does(p, "receipt")
    /\ receipts' = receipts \cup {<<Frame(p).id, Frame(p).ack, Frame(p).src>>}
    /\ GoesOn(p, Rest(p), Found(p))
    /\ UNCHANGED <<agenda, now, next, memory, rows, signals, buckets, tele, seen, history>>

Tell(p) ==
    /\ Does(p, "tell")
    /\ told' = told \cup {<<Found(p).id, Found(p).status>>}
    /\ Finishes(p)
    /\ UNCHANGED <<agenda, now, next, memory, tables, taken, excused, torn>>

FindOriginal(p) ==
    LET hit == Newest({r \in rows : r.kind = "text" /\ r.echo = Frame(p).acks}) IN
    /\ Does(p, "original")
    /\ IF hit = {} THEN Finishes(p)
       ELSE \E r \in hit : GoesOn(p, <<"confirm">> \o Rest(p), r)
    /\ UNCHANGED <<agenda, now, next, memory, tables, history>>

\* By the row's own id: it may have been deleted since.
Confirm(p) ==
    LET hit == {r \in rows : r.n = Found(p).n} IN
    /\ Does(p, "confirm")
    /\ rows' = Marked(hit, "acked")
    /\ GoesOn(p, IF hit = {} THEN Rest(p) ELSE <<"tell">> \o Rest(p),
                 [id |-> Found(p).id, status |-> "acked"])
    /\ UNCHANGED <<agenda, now, next, memory, receipts, signals, buckets, tele, seen, history>>

-----------------------------------------------------------------------------
(* store_telemetry *)

\* Mutant: the window is a millisecond short on the newer side.
Near_Older(c, t) == {r \in tele : r.call = c /\ r.at > t - TeleWindow /\ r.at <= t}
Near(c, t) == {r \in tele : r.call = c /\ r.at > t - TeleWindow /\ r.at < t + TeleWindow}

Writes(action) ==
    CASE action = "skip" -> <<>>
      [] action = "update" -> <<"amend">>
      [] action = "replace" -> <<"drop", "add">>

\* The latest row near by is read and merged with what came in.
Recall(p) ==
    LET f == Frame(p)
        row == Newest(Near(f.src, At(p)))
    IN
    /\ Does(p, "recall")
    /\ IF row = {}
       THEN GoesOn(p, <<"add", "weather">> \o Rest(p), [row |-> None, vals |-> values_for(f.weather)])
       ELSE \E r \in row :
            LET old == FromRow(r.vals)
                newer == At(p) > r.at
            IN GoesOn(p, Writes(Action(old, f.weather, newer)) \o <<"weather">> \o Rest(p),
                      [row |-> r.n, vals |-> values_for(Merge(old, f.weather, newer))])
    /\ UNCHANGED <<agenda, now, next, memory, tables, history>>

AddReading(p) ==
    /\ Does(p, "add")
    /\ tele' = tele \cup {[n |-> next, call |-> Frame(p).src, at |-> At(p), vals |-> Found(p).vals]}
    /\ next' = next + 1
    /\ GoesOn(p, Rest(p), Found(p))
    /\ UNCHANGED <<agenda, now, memory, rows, receipts, signals, buckets, seen, history>>

AmendReading(p) ==
    /\ Does(p, "amend")
    /\ tele' = {IF r.n = Found(p).row THEN [r EXCEPT !.vals = Found(p).vals] ELSE r : r \in tele}
    /\ GoesOn(p, Rest(p), Found(p))
    /\ UNCHANGED <<agenda, now, next, memory, rows, receipts, signals, buckets, seen, history>>

DropReading(p) ==
    /\ Does(p, "drop")
    /\ tele' = {r \in tele : r.n # Found(p).row}
    /\ GoesOn(p, Rest(p), Found(p))
    /\ UNCHANGED <<agenda, now, next, memory, rows, receipts, signals, buckets, seen, history>>

UpsertWeather(p) ==
    LET f == Frame(p) IN
    /\ Does(p, "weather")
    /\ seen' = [seen EXCEPT ![f.src] = LastSeen(f.src, At(p))]
    /\ taken' = taken \cup {<<f.src, At(p), w>> : w \in {v \in Fields : f.weather[v].prov = MEASURED}}
    /\ Finishes(p)
    /\ UNCHANGED <<agenda, now, next, memory, rows, receipts, signals, buckets, tele, told, excused, torn>>

-----------------------------------------------------------------------------
(* What goes wrong, and the rest of the world *)

\* What is unfinished when a call is broken off.
BrokenCalls(P) == {Frame(p).src : p \in P} \cup {Frame(p).hop : p \in P}
BrokenIds(P) == {Frame(p).id : p \in P} \cup
    UNION {{r.id : r \in {q \in rows : q.echo # None /\ q.echo = Frame(p).acks}} : p \in P}

\* A statement fails: the router logs it and the frame is done with, unless
\* it was the row of a message or of a receipt.
Fails(p) ==
    /\ Busy(p) /\ Head(task[p].todo) \notin {"claim", "count", "tell"}
    /\ agenda.faults > 0
    /\ agenda' = [agenda EXCEPT !.faults = @ - 1]
    /\ GoesOn(p, IF Does(p, "receipt") THEN Rest(p) ELSE <<>>, Found(p))
    /\ torn' = torn \cup BrokenCalls({p})
    /\ excused' = excused \cup BrokenIds({p})
    /\ UNCHANGED <<now, next, memory, tables, told, taken>>

\* _init_bucket_accumulators: only the bucket of the moment, by sender.
Reloaded ==
    {[hop |-> s.call, bucket |-> Bucket(s.at), n |-> s.n] : s \in {x \in signals : x.at >= Bucket(now)}}

\* The service is closed (_flush_all_accumulators) or dies, and starts again.
Restart(closed) ==
    LET busy == {p \in Paths : Busy(p)}
        kept == {x \in accum : closed /\ x.bucket < Bucket(now)}
        lost == (accum \ (Reloaded \cup kept)) \cup (Reloaded \ accum)
    IN
    /\ agenda.restarts > 0
    /\ agenda' = [agenda EXCEPT !.restarts = @ - 1]
    /\ buckets' = IF closed THEN Replaced(accum) ELSE buckets
    /\ accum' = Reloaded
    /\ recent' = {}
    /\ task' = [p \in Paths |-> Idle]
    /\ torn' = torn \cup BrokenCalls(busy) \cup {x.hop : x \in lost}
    /\ excused' = excused \cup BrokenIds(busy)
    /\ UNCHANGED <<now, next, rows, receipts, signals, tele, seen, told, taken>>

\* delete_messages_by_dst (storage/prefs.py).
DeleteTalk(d) ==
    /\ d \in agenda.deletes
    /\ agenda' = [agenda EXCEPT !.deletes = @ \ {d}]
    /\ rows' = {r \in rows : r.dst # d}
    /\ excused' = excused \cup {r.id : r \in rows \ rows'}
    /\ UNCHANGED <<now, next, task, memory, receipts, signals, buckets, tele, seen, told, taken, torn>>

Tick ==
    /\ agenda.ticks > 0
    /\ \A p \in Paths : Busy(p) => now - At(p) < Slow
    /\ agenda' = [agenda EXCEPT !.ticks = @ - 1]
    /\ now' = now + 1
    /\ UNCHANGED <<next, task, memory, tables, history>>

Step(p) ==
    \/ Claim(p) \/ RefuseClaimed(p) \/ Look(p)
    \/ LogSignal(p) \/ CountSignal(p) \/ FlushBuckets(p) \/ UpsertStation(p)
    \/ Renew(p) \/ InsertRow(p)
    \/ MarkSent(p) \/ MarkAcked(p) \/ Receipt(p) \/ Tell(p) \/ FindOriginal(p) \/ Confirm(p)
    \/ Recall(p) \/ AddReading(p) \/ AmendReading(p) \/ DropReading(p) \/ UpsertWeather(p)
    \/ Fails(p)

Next ==
    \/ \E e \in agenda.coming : Arrive(e[1], e[2])
    \/ \E p \in Paths : Step(p)
    \/ \E closed \in BOOLEAN : Restart(closed)
    \/ \E d \in Talks : DeleteTalk(d)
    \/ Tick

Spec == Init /\ [][Next]_vars

-----------------------------------------------------------------------------

AtRest == \A p \in Paths : ~Busy(p)

(* The table of messages implements the log that MessageLog describes:     *)
(* copies over both paths, a restart and the pruning of the claims never   *)
(* store a transmission twice within the window, and whatever ACKs come in *)
(* whatever order, a delivery status never goes back.                      *)
LogKeys == {<<f.src, f.id>> : f \in Frames}
LogTimes == UNION {0 .. a.ticks : a \in Agendas}
LogEntry(r) == [key |-> <<r.src, r.id>>, at |-> r.at, talk |-> r.dst, status |-> r.status]
Log == INSTANCE MessageLog WITH
    Keys <- LogKeys,
    Talks <- Talks,
    Times <- LogTimes,
    Window <- DedupWindow,
    log <- {LogEntry(r) : r \in {q \in rows : q.id # None}}
ImplementsLog == Log!Spec

(* What the clients were told of an acknowledgement and what the table     *)
(* says agree, both ways (_handle_ack, store_message), unless a statement  *)
(* failed in between or the conversation was deleted.  An ACK that comes   *)
(* before the row is neither kept nor announced.                           *)
StatusAgrees ==
    AtRest =>
        \A id \in {r.id : r \in {q \in rows : q.kind = "text"}} \ excused :
            (\E r \in Texts(id) : r.status.acked) <=> <<id, "acked">> \in told

(* While a bucket fills, all its readings wait in memory; once it is       *)
(* written, all of them are in its average, each once (_accumulate_signal, *)
(* _flush_completed_buckets); not for a station that torn lists.           *)
Logged(h, b) == {s.n : s \in {x \in signals : x.hop = h /\ Bucket(x.at) = b}}
Waiting(h, b) == {x.n : x \in {y \in accum : y.hop = h /\ y.bucket = b}}
Averaged(h, b) == UNION {x.of : x \in {y \in buckets : y.hop = h /\ y.bucket = b}}
SignalsCounted ==
    AtRest =>
        \A h \in Calls \ torn, b \in {Bucket(s.at) : s \in signals} :
            Logged(h, b) = IF Waiting(h, b) = {} THEN Averaged(h, b) ELSE Waiting(h, b)

(* Two telemetry rows of a station are never closer than the window in     *)
(* which the copies of one transmission are merged (store_telemetry).      *)
TelemetrySpaced ==
    \A r, s \in tele :
        r.call = s.call /\ r # s /\ r.call \notin torn => r.at - s.at >= TeleWindow \/ s.at - r.at >= TeleWindow

(* A measured value that was taken in is not lost when rows are merged,    *)
(* amended and replaced: a row from its time on has a value in its field.  *)
ReadingsKept ==
    AtRest =>
        \A v \in taken : v[1] \notin torn =>
            \E r \in tele : r.call = v[1] /\ r.at > v[2] - TeleWindow /\ r.vals[v[3]] # None

(* Copies of a transmission are merged into one row, and nothing measured  *)
(* is lost on the way.                                                     *)
TelemetryKept == TelemetrySpaced /\ ReadingsKept

(* station_positions knows a station at least as late as any table that    *)
(* has something of it, in whatever order the two paths finish.            *)
StationsKeepUp ==
    AtRest =>
        \A c \in Calls \ torn :
            /\ \A s \in signals : s.call = c => seen[c] # None /\ seen[c] >= s.at
            /\ \A v \in taken : v[1] = c => seen[c] # None /\ seen[c] >= v[2]
=============================================================================
