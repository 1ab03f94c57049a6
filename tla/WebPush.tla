------------------------------ MODULE WebPush ------------------------------
(***************************************************************************)
(* Notifications for browsers that are not looking (push_delivery.py,      *)
(* sse_routes/push.py and the subscriptions in sqlite_storage.py).         *)
(*                                                                         *)
(* The two tasks that receive messages hand every message to               *)
(* handle_mesh_message, which asks the storage for the subscriptions: from *)
(* its cache, or from the table in a thread.  The first message of a       *)
(* subscription is queued at once and opens a window; the others are       *)
(* collected in the window, and the sweep queues one summary of them.  One *)
(* task delivers the queue.  Requests of browsers and the delivery write   *)
(* the table in threads of their own, and each drops the cache when its    *)
(* own thread has answered.                                                *)
(***************************************************************************)
EXTENDS Absent, Integers, Sequences, SequencesExt, FiniteSets

CONSTANTS
    PushAgendas,   \* what the world does, see the variable world
    Endpoints,     \* browsers
    QueueMax       \* queue_maxsize

VARIABLES
    world,      \* messages yet to arrive, requests of browsers, unblockings,
                \* restarts and whether a stop is to come
    blocked,    \* senders on the blocklist
    subs,       \* push_subscriptions: who wants what, and how often that was written
    cache,      \* _push_subs_cache
    writing,    \* endpoints whose write is in the table and not yet noticed by the loop
    task,       \* path -> the message its handler is busy with
    seen,       \* the keys PushDedup remembers
    window,     \* endpoint -> the open coalescing window
    queue,      \* deliveries
    sending,    \* the delivery in progress
    running,    \* the drain and sweep tasks are there
    owed,       \* history: notifications a message owes an endpoint
    ended,      \* history: those delivered, failed or dropped by a full queue
    torn,       \* history: endpoints whose write a cached list does not show
    astray      \* history: endpoints a message passed by, or reached, wrongly

memory == <<cache, writing, task, seen, window, queue, sending, running>>
history == <<owed, ended, torn, astray>>
pushVars == <<world, blocked, subs, memory, history>>

Paths == {"udp", "ble"}
NoSub == [no |-> 0, wants |-> {}]
Nothing == [stage |-> "idle", message |-> None, asked |-> <<>>, rows |-> <<>>]

Keys == UNION {{m.key : m \in w.messages} : w \in PushAgendas}
NoCounts == [x \in Endpoints \X Keys |-> 0]

ASSUME PushAssumption ==
    /\ IsFiniteSet(Endpoints) /\ QueueMax \in Nat
    /\ \A w \in PushAgendas :
          DOMAIN w = {"messages", "requests", "gone", "blocked", "unblock", "ends"}
    /\ None \notin [buffer : Seq(Keys)] \cup [endpoint : Endpoints, keys : Seq(Keys)]

Use(what, x) ==
    /\ x \in world[what]
    /\ world' = [world EXCEPT ![what] = @ \ {x}]

ColdStart ==
    /\ cache = None
    /\ writing = {}
    /\ task = [p \in Paths |-> Nothing]
    /\ seen = {}
    /\ window = [e \in Endpoints |-> None]
    /\ queue = <<>>
    /\ sending = None
    /\ running = TRUE
    /\ owed = NoCounts
    /\ ended = NoCounts
    /\ torn = {}
    /\ astray = {}

PushInit ==
    /\ world \in PushAgendas
    /\ blocked = world.blocked
    /\ subs = [e \in Endpoints |-> NoSub]
    /\ ColdStart

-----------------------------------------------------------------------------
(* PushCoalescer and the queue *)

\* matches
Matches(sub, m) == m.kind \in sub.wants

Times(keys, k) == Cardinality({i \in DOMAIN keys : keys[i] = k})

\* The notifications that come to their end, by endpoint.
Finish(over) ==
    ended' = [x \in DOMAIN ended |->
                 IF x[1] \in DOMAIN over THEN ended[x] + Times(over[x[1]], x[2]) ELSE ended[x]]

Delivery(e, keys) == [endpoint |-> e, keys |-> keys]
Opened == [buffer |-> <<>>]

\* _enqueue, for one delivery to each endpoint of a batch: what a full queue has
\* no room for is dropped.
Enqueue(batch) ==
    \E order \in SetToSeqs(DOMAIN batch) :
       LET room == QueueMax - Len(queue)
           kept == IF Len(order) < room THEN Len(order) ELSE room
           dropped == DOMAIN batch \ {order[i] : i \in 1 .. kept} IN
       /\ queue' = queue \o [i \in 1 .. kept |-> Delivery(order[i], batch[order[i]])]
       /\ Finish([e \in dropped |-> batch[e]])

\* submit, for every row of the list; the order of the rows decides what a full
\* queue drops.
Submit(rows, m) ==
    LET hit == {e \in Endpoints : Matches(rows[e], m)}
        first == {e \in hit : window[e] = None} IN
    /\ window' = [e \in Endpoints |->
                    IF e \in first THEN Opened
                    ELSE IF e \in hit THEN [window[e] EXCEPT !.buffer = Append(@, m.key)]
                    ELSE window[e]]
    /\ owed' = [x \in DOMAIN owed |->
                    IF x[1] \in hit /\ x[2] = m.key THEN owed[x] + 1 ELSE owed[x]]
    /\ Enqueue([e \in first |-> <<m.key>>])

\* pop_expired
PopExpired(due) == window' = [e \in Endpoints |-> IF e \in due THEN None ELSE window[e]]

\* _sweep_loop: some windows are over; those that collected something are queued.
Sweep ==
    /\ running
    /\ \E due \in SUBSET {e \in Endpoints : window[e] # None} \ {{}} :
          /\ PopExpired(due)
          /\ Enqueue([e \in {d \in due : window[d].buffer # <<>>} |-> window[e].buffer])
    /\ UNCHANGED <<world, blocked, subs, cache, writing, task, seen, sending, running,
                   owed, torn, astray>>

-----------------------------------------------------------------------------
(* handle_mesh_message *)

\* The gates: is_eligible, is_sender_blocked and PushDedup.is_duplicate.
Passes(m) == m.eligible /\ m.sender \notin blocked /\ m.key \notin seen

\* Mutant: the key is remembered when the list is at hand, which a second copy
\* need not wait for.
Remembered_Late(m) == IF cache = None THEN seen ELSE seen \cup {m.key}

Remembered(m) == seen \cup {m.key}

\* What nobody is changing right now, with the count of its writes.
Settled == [e \in Endpoints |-> IF e \in writing THEN None ELSE subs[e].no]

\* Endpoints whose subscription stood as it is through the whole handling, and
\* which the list shows otherwise.
Mistaken(asked, rows) ==
    {e \in Endpoints \ torn : asked[e] # None /\ asked[e] = subs[e].no /\ e \notin writing
                              /\ rows[e] # subs[e]}

Arrive(path) ==
    /\ task[path] = Nothing
    /\ \E m \in world.messages :
          /\ m.path = path
          /\ Use("messages", m)
          /\ IF ~Passes(m) THEN UNCHANGED <<seen, task, window, queue, owed, ended, astray>>
             ELSE /\ seen' = Remembered(m)
                  /\ IF cache # None
                     THEN /\ Submit(cache, m)
                          /\ astray' = astray \cup Mistaken(Settled, cache)
                          /\ UNCHANGED task
                     ELSE /\ task' = [task EXCEPT ![path] =
                                         [stage |-> "ask", message |-> m, asked |-> Settled,
                                          rows |-> <<>>]]
                          /\ UNCHANGED <<window, queue, owed, ended, astray>>
    /\ UNCHANGED <<blocked, subs, cache, writing, sending, running, torn>>

\* list_push_subscriptions: the thread of _query reads the table ...
ListRead(path) ==
    /\ task[path].stage = "ask"
    /\ task' = [task EXCEPT ![path].stage = "fill", ![path].rows = subs]
    /\ UNCHANGED <<world, blocked, subs, cache, writing, seen, window, queue, sending, running,
                   history>>

\* ... and the loop keeps its answer, whatever was written since.
ListFill(path) ==
    LET t == task[path] IN
    /\ t.stage = "fill"
    /\ cache' = t.rows
    /\ torn' = {e \in Endpoints : t.rows[e] # subs[e] /\ e \notin writing}
    /\ Submit(t.rows, t.message)
    /\ astray' = astray \cup Mistaken(t.asked, t.rows)
    /\ task' = [task EXCEPT ![path] = Nothing]
    /\ UNCHANGED <<world, blocked, subs, writing, seen, sending, running>>

-----------------------------------------------------------------------------
(* The table *)

\* upsert_push_subscription and delete_push_subscription, up to the commit.
Write(e, wants) ==
    /\ e \notin writing
    /\ subs' = [subs EXCEPT ![e] = [no |-> @.no + 1, wants |-> wants]]
    /\ writing' = writing \cup {e}

\* POST /api/push/subscribe and /api/push/unsubscribe
Subscribe ==
    /\ \E r \in world.requests : Use("requests", r) /\ Write(r.endpoint, r.wants)
    /\ UNCHANGED <<blocked, cache, task, seen, window, queue, sending, running, history>>

\* Mutant: a new subscription leaves the cached list alone.
Invalidate_Deleted(e) ==
    IF subs[e].wants = {} THEN cache' = None /\ torn' = {} ELSE UNCHANGED <<cache, torn>>

\* _invalidate_push_subs_cache
Invalidate(e) == cache' = None /\ torn' = {}

Noticed(e) ==
    /\ e \in writing
    /\ Invalidate(e)
    /\ writing' = writing \ {e}
    /\ sending' = IF sending = Delivery(e, <<>>) THEN None ELSE sending
    /\ UNCHANGED <<world, blocked, subs, task, seen, window, queue, running,
                   owed, ended, astray>>

-----------------------------------------------------------------------------
(* _drain_loop and _deliver_one *)

Drain ==
    /\ running /\ sending = None /\ queue # <<>>
    /\ sending' = Head(queue)
    /\ queue' = Tail(queue)
    /\ UNCHANGED <<world, blocked, subs, cache, writing, task, seen, window, running, history>>

\* The push service takes it, or an error is logged and the notification is lost.
Delivered ==
    /\ running /\ sending # None /\ sending.keys # <<>>
    /\ Finish([e \in {sending.endpoint} |-> sending.keys])
    /\ sending' = None
    /\ UNCHANGED <<world, blocked, subs, cache, writing, task, seen, window, queue, running,
                   owed, torn, astray>>

\* The push service knows the endpoint no more: the subscription goes, whichever
\* one is stored by now; the task waits for that.
Gone ==
    /\ running /\ sending # None /\ sending.keys # <<>>
    /\ Use("gone", sending.endpoint)
    /\ Write(sending.endpoint, {})
    /\ Finish([e \in {sending.endpoint} |-> sending.keys])
    /\ sending' = Delivery(sending.endpoint, <<>>)
    /\ UNCHANGED <<blocked, cache, task, seen, window, queue, running, owed, torn, astray>>

-----------------------------------------------------------------------------
(* The blocklist, the stop and the restart *)

Unblock ==
    /\ \E s \in blocked : Use("unblock", s) /\ blocked' = blocked \ {s}
    /\ UNCHANGED <<subs, memory, history>>

\* stop: both tasks are cancelled; queue and windows stay where they are.
StopPush ==
    /\ running
    /\ Use("ends", "stop")
    /\ running' = FALSE
    /\ UNCHANGED <<blocked, subs, cache, writing, task, seen, window, queue, sending, history>>

\* A new process: the table is all there is.
RestartPush ==
    /\ Use("ends", "restart")
    /\ cache' = None
    /\ writing' = {}
    /\ task' = [p \in Paths |-> Nothing]
    /\ seen' = {}
    /\ window' = [e \in Endpoints |-> None]
    /\ queue' = <<>>
    /\ sending' = None
    /\ running' = TRUE
    /\ owed' = NoCounts
    /\ ended' = NoCounts
    /\ torn' = {}
    /\ astray' = {}
    /\ UNCHANGED <<blocked, subs>>

PushNext ==
    \/ \E p \in Paths : Arrive(p) \/ ListRead(p) \/ ListFill(p)
    \/ \E e \in Endpoints : Noticed(e)
    \/ Sweep \/ Subscribe \/ Drain \/ Delivered \/ Gone
    \/ Unblock \/ StopPush \/ RestartPush

-----------------------------------------------------------------------------
(* Properties *)

\* What is on its way to endpoint e: in its open window (-1), in the delivery in
\* progress (0) and in the n-th delivery of the queue.
Carried(e, n) ==
    IF n = -1 THEN IF window[e] = None THEN <<>> ELSE window[e].buffer
    ELSE LET d == IF n = 0 THEN sending ELSE queue[n] IN
         IF d # None /\ d.endpoint = e THEN d.keys ELSE <<>>

\* The places where key k is on its way to e.
OnItsWay(e, k) ==
    UNION {{n} \X {i \in DOMAIN Carried(e, n) : Carried(e, n)[i] = k} : n \in -1 .. Len(queue)}

\* A message notifies a browser at most once, alone or in one summary, however
\* many copies of it arrive on both paths; and none is lost but by a push service
\* that fails, a full queue or the stop (submit, pop_expired, _enqueue and
\* _deliver_one hand it on without a gap).
NotifiedOnce ==
    \A e \in Endpoints, k \in Keys :
        /\ owed[<<e, k>>] <= 1
        /\ Cardinality(OnItsWay(e, k)) + ended[<<e, k>>] = owed[<<e, k>>]

\* A message is matched against the subscriptions as they stand: a browser whose
\* request has been answered before the message arrived is not passed by, nor
\* notified after it unsubscribed, except while the cache holds a list that was
\* read before a write and kept after it (list_push_subscriptions,
\* _invalidate_push_subs_cache).
ListIsHonoured == astray = {}
=============================================================================
