------------------------------ MODULE BLELink ------------------------------
(***************************************************************************)
(* The link between McApp and the BLE service: the client with its event   *)
(* stream (ble_client_remote.py), the cache of the node's registers, and   *)
(* the two tasks of the router that fill it, the hydration and the         *)
(* reconciler (main.py).  The service is reduced to what it tells: module  *)
(* BLEService has its inside.                                              *)
(*                                                                         *)
(* A set of registers is the node it describes.  Every task is a record    *)
(* whose field todo lists the steps that are left, with one await between  *)
(* two of them; ans is the answer to the last request.                     *)
(***************************************************************************)
EXTENDS Integers, Sequences

CONSTANTS
    None,
    Nodes,        \* addresses of nodes
    Agendas,      \* what users and faults may do, see the variable agenda
    MaxAttempts   \* Len(RECONNECT_DELAYS_S)

\* connect BLE, POST ensure_connected, disconnect BLE, cancel_reconnect, info BLE.
UserCommands == {"connect", "ensure", "disconnect", "cancel", "info"}

ASSUME BLEAssumption ==
    /\ None \notin Nodes
    /\ MaxAttempts \in Nat \ {0}
    /\ Agendas \subseteq [coming : SUBSET (UserCommands \X Nodes),
                          drops : Nat, losses : Nat, faults : Nat,
                          breaks : Nat, restarts : Nat]

VARIABLES
    agenda,     \* the users' commands still to come, and how many links drop,
                \* answers of the node get lost, requests or attempts fail,
                \* streams break and services restart
    svc,        \* the service: link, reconnect task, caches, event queue
    client,     \* BLEClientRemote._status and _sse_lost_published
    sse,        \* _sse_loop: where it stands and what it holds
    cached,     \* cached_ble_registers
    user,       \* the command of a user that is being handled
    hydration,  \* _ble_hydration_task
    reconciler, \* _ble_reconcile_task
    marks,      \* history: exceptional things that happened to this connection
    mislaid     \* history: the registers that would replace another node's are lost

bleTasks == <<user, hydration, reconciler>>
bleVars == <<agenda, svc, client, sse, cached, bleTasks, marks>>
linkVars == <<bleVars, mislaid>>

Event(kind, node) == [kind |-> kind, node |-> node]
Idle == [todo |-> <<>>, node |-> None, ans |-> Event("none", None), skip |-> FALSE]
Program(todo) == [Idle EXCEPT !.todo = todo]
Runs(task) == task.todo # <<>>
At(task, step) == Runs(task) /\ Head(task.todo) = step
Step(task) == [task EXCEPT !.todo = Tail(@)]

\* Each of the two sleeps first: the first step is taken whenever it may be.
HydrationSteps == <<"ask", "weigh", "query", "ask", "inform">>
Hydrate(skip) == [Program(HydrationSteps) EXCEPT !.skip = skip]
Reconcile == Program(<<"ask", "judge">>)

\* schedule_ble_register_hydration and arm_ble_register_reconciler: one of each.
Scheduled(skip) == IF Runs(hydration) THEN hydration ELSE Hydrate(skip)
Armed == IF Runs(reconciler) THEN reconciler ELSE Reconcile

Spend(what) ==
    /\ agenda[what] > 0
    /\ agenda' = [agenda EXCEPT ![what] = @ - 1]

\* BLEClientRemote.start and requery_reused_ble_connection.
BLEInit ==
    /\ agenda \in Agendas
    /\ \E link \in {None} \cup Nodes, keeps \in BOOLEAN :
         /\ svc = [link |-> link, last |-> link, retry |-> None, attempt |-> 0,
                   gone |-> FALSE, mac |-> link, due |-> None, queue |-> <<>>,
                   regs |-> IF keeps THEN link ELSE None]
         /\ client = [state |-> IF link = None THEN "disconnected" ELSE "connected",
                      node |-> link, lost |-> FALSE]
         /\ hydration = IF link = None THEN Idle ELSE Hydrate(TRUE)
         /\ reconciler = IF link = None THEN Reconcile ELSE Idle
         /\ marks = IF link = None THEN {} ELSE {"unwatched"}
    /\ sse = [pc |-> "off", held |-> None]
    /\ cached = None
    /\ user = Idle
    /\ mislaid = FALSE

-----------------------------------------------------------------------------
(* The service *)

\* get_status: what an answer says at this moment.
Reported ==
    CASE svc.link # None -> Event("connected", svc.link)
      [] svc.link = None /\ svc.retry # None -> Event("reconnecting", svc.retry)
      [] OTHER -> Event("disconnected", None)

\* Mutant: the service keeps the registers it has, whosever they are.
Noted_Kept(n) == svc.regs

\* _note_register_cache_target: the registers of another node are forgotten.
Noted(n) == IF svc.mac \notin {None, n} THEN None ELSE svc.regs

\* A connection has been set up: the node begins to send its registers.
Linked(n) ==
    [svc EXCEPT !.link = n, !.last = n, !.mac = n, !.regs = Noted(n), !.due = n,
                !.retry = None, !.gone = FALSE]

\* _on_adapter_disconnect, with the begin of _auto_reconnect.
LinkDrops ==
    /\ svc.link # None
    /\ Spend("drops")
    /\ svc' = [svc EXCEPT
                !.link = None, !.due = None,
                !.retry = IF svc.gone THEN None ELSE svc.last,
                !.attempt = 1,
                !.queue = IF svc.gone
                          THEN Append(@, Event("disconnected", None))
                          ELSE @ \o <<Event("disconnected", None),
                                      Event("reconnecting", svc.last)>>]
    /\ UNCHANGED <<client, sse, cached, bleTasks, marks>>

\* _retry_connect: an attempt succeeds, or fails and is the last one or not.
Reconnected ==
    /\ svc.retry # None
    /\ svc' = [Linked(svc.retry) EXCEPT !.queue = Append(@, Event("connected", svc.retry))]
    /\ UNCHANGED <<agenda, client, sse, cached, bleTasks, marks>>

AttemptFails ==
    /\ svc.retry # None
    /\ Spend("faults")
    /\ svc' = IF svc.attempt < MaxAttempts
              THEN [svc EXCEPT !.attempt = @ + 1,
                               !.queue = Append(@, Event("reconnecting", svc.retry))]
              ELSE [svc EXCEPT !.retry = None,
                               !.queue = Append(@, Event("exhausted", svc.retry))]
    /\ UNCHANGED <<client, sse, cached, bleTasks, marks>>

\* The queue is bounded; a second copy of its last entry says nothing new.
Queued(q, e) == IF q # <<>> /\ q[Len(q)] = e THEN q ELSE Append(q, e)

\* notification_callback: the registers arrive, or the node's answer is lost.
Deliver ==
    /\ svc.due # None
    /\ svc' = [svc EXCEPT !.due = None, !.regs = svc.due,
                          !.queue = Queued(@, Event("registers", svc.due))]
    /\ UNCHANGED <<agenda, client, sse, cached, bleTasks, marks>>

LoseAnswer ==
    /\ svc.due # None
    /\ Spend("losses")
    /\ svc' = [svc EXCEPT !.due = None]
    /\ UNCHANGED <<client, sse, cached, bleTasks, marks>>

\* What a request does there: its new state and its answer.  Of the two ways to
\* connect only ensure_connected ends the reconnect task first.
Dialed(n, ensure) ==
    {[svc |-> Linked(n), ans |-> Event("ok", None)]}
    \cup {[svc |-> [svc EXCEPT !.link = None, !.due = None, !.gone = FALSE,
                               !.mac = n, !.regs = Noted(n),
                               !.retry = IF ensure THEN None ELSE @],
           ans |-> Event("failed", None)] : x \in {y \in {1} : svc.link # n /\ agenda.faults > 0}}
HungUp ==
    {[svc |-> [svc EXCEPT !.link = None, !.due = None, !.retry = None, !.gone = TRUE],
      ans |-> Event("ok", None)]}
Abandoned ==
    {[svc |-> [svc EXCEPT !.retry = None, !.gone = TRUE,
                          !.queue = Append(@, Event("disconnected", None))], ans |-> Event("ok", None)]}
Asked == {[svc |-> svc, ans |-> Reported]}
\* _query_ble_registers: send_command does nothing unless connected.
Queried ==
    {[svc |-> IF client.state = "connected" THEN [svc EXCEPT !.due = svc.link] ELSE svc,
      ans |-> Event("ok", None)]}

\* _request: served, or the request or its answer is lost for good.
Request(task, task_, outcomes) ==
    \/ \E o \in outcomes :
         /\ svc' = o.svc
         /\ task_ = [Step(task) EXCEPT !.ans = o.ans]
         /\ IF o.ans.kind = "failed" THEN Spend("faults") ELSE UNCHANGED agenda
    \/ /\ Spend("faults")
       /\ \/ UNCHANGED svc
          \/ \E o \in outcomes : svc' = o.svc
       /\ task_ = [Step(task) EXCEPT !.ans = Event("lost", None)]
-----------------------------------------------------------------------------
(* The client's picture of the link, and the cache that hangs on it *)

\* _clear_ble_cache_on_disconnect, called with the state the publisher has set.
Cleared(c) ==
    /\ cached' = None
    /\ reconciler' = IF c.state = "connected" THEN Armed ELSE reconciler

\* refresh_status: adopt an answer in silence; a lost one changes nothing.
Refreshed(ans) ==
    CASE ans.kind \in {"none", "lost"} -> client
      [] ans.kind = "connected" -> [client EXCEPT !.state = "connected", !.node = ans.node]
      [] ans.kind = "reconnecting" -> [client EXCEPT !.state = "connecting", !.node = ans.node]
      [] OTHER -> [client EXCEPT !.state = "disconnected", !.node = None]

\* History: was the last word on the link still true when it was heard?
Heard(true, seen) == IF true THEN seen \ {"outdated"} ELSE seen \cup {"outdated"}

\* The same with its history: "unwatched" is a connection found up by somebody
\* who arms no reconciler.
Adopt(ans, armed) ==
    LET c == Refreshed(ans)
        seen == IF ans.kind = "lost" THEN marks ELSE Heard(ans = Reported, marks) IN
    /\ client' = c
    /\ marks' = CASE c.state = "connected" /\ armed -> seen \ {"unwatched"}
                  [] c.state = "connected" /\ ~armed /\ client.state # "connected" ->
                       seen \cup {"unwatched"}
                  [] OTHER -> seen

\* Mutant: a reconnect that is seen arms no reconciler.
HandleStatus_Unarmed(e) ==
    LET up == e.kind = "connected" /\ client.state # "connected" IN
    /\ marks' = Heard(e.kind = Reported.kind \/ (e.kind = "exhausted" /\ Reported.kind = "disconnected"),
                    marks \ (IF up THEN {"unwatched"} ELSE {}))
    /\ \/ /\ e.kind = "reconnecting"
          /\ client' = [client EXCEPT !.state = "connecting"]
          /\ UNCHANGED <<cached, reconciler>>
       \/ /\ e.kind = "exhausted"
          /\ client' = [client EXCEPT !.state = "error"]
          /\ UNCHANGED <<cached, reconciler>>
       \/ /\ e.kind = "disconnected"
          /\ client' = [client EXCEPT !.state = "disconnected"]
          /\ IF client.state # "disconnected" THEN Cleared(client')
             ELSE UNCHANGED <<cached, reconciler>>
       \/ /\ up
          /\ client' = [client EXCEPT !.state = "connected", !.node = e.node]
          /\ UNCHANGED <<cached, reconciler>>
       \/ /\ e.kind = "connected" /\ ~up
          /\ UNCHANGED <<client, cached, reconciler>>

\* _handle_status, with _handle_connected_transition.
HandleStatus(e) ==
    LET up == e.kind = "connected" /\ client.state # "connected" IN
    /\ marks' = Heard(e.kind = Reported.kind \/ (e.kind = "exhausted" /\ Reported.kind = "disconnected"),
                    marks \ (IF up THEN {"unwatched"} ELSE {}))
    /\ \/ /\ e.kind = "reconnecting"
          /\ client' = [client EXCEPT !.state = "connecting"]
          /\ UNCHANGED <<cached, reconciler>>
       \/ /\ e.kind = "exhausted"
          /\ client' = [client EXCEPT !.state = "error"]
          /\ UNCHANGED <<cached, reconciler>>
       \/ /\ e.kind = "disconnected"
          /\ client' = [client EXCEPT !.state = "disconnected"]
          /\ IF client.state # "disconnected" THEN Cleared(client')
             ELSE UNCHANGED <<cached, reconciler>>
       \/ /\ up
          /\ client' = [client EXCEPT !.state = "connected", !.node = e.node]
          /\ reconciler' = Armed
          /\ UNCHANGED cached
       \/ /\ e.kind = "connected" /\ ~up
          /\ UNCHANGED <<client, cached, reconciler>>

\* The registers a node sends after the hello end with CONFFIN, which arms.
HandleEvent(e) ==
    IF e.kind = "registers"
    THEN cached' = e.node /\ reconciler' \in {reconciler, Armed} /\ UNCHANGED <<client, marks>>
    ELSE HandleStatus(e)

-----------------------------------------------------------------------------
(* The event stream *)

\* A new stream: the generator says at once how the link is, without a name.
Attach ==
    /\ sse.pc = "off"
    /\ sse' = [pc |-> "replay",
               held |-> Event(IF svc.link = None THEN "disconnected" ELSE "connected", None)]
    /\ client' = [client EXCEPT !.lost = FALSE]
    /\ hydration' = IF client.lost THEN Scheduled(TRUE) ELSE hydration
    /\ UNCHANGED <<agenda, svc, cached, user, reconciler, marks>>

\* _replay_cached_registers, a failing request is left at that.
Replay ==
    /\ sse.pc = "replay"
    /\ \/ /\ sse' = [sse EXCEPT !.pc = "greeting"]
          /\ cached' = IF svc.regs = None THEN cached ELSE svc.regs
          /\ UNCHANGED agenda
       \/ /\ Spend("faults")
          /\ sse' = [sse EXCEPT !.pc = "greeting"]
          /\ UNCHANGED cached
    /\ UNCHANGED <<svc, client, bleTasks, marks>>

Greet ==
    /\ sse.pc = "greeting"
    /\ HandleStatus(sse.held)
    /\ sse' = [pc |-> "listen", held |-> None]
    /\ UNCHANGED <<agenda, svc, user, hydration>>

Listen ==
    /\ sse.pc = "listen"
    /\ svc.queue # <<>>
    /\ HandleEvent(Head(svc.queue))
    /\ svc' = [svc EXCEPT !.queue = Tail(@)]
    /\ UNCHANGED <<agenda, sse, user, hydration>>

\* The stream ends with an error: _announce_link_lost_after_grace begins.
Broken ==
    sse' = IF client.state = "connected" THEN [pc |-> "grace", held |-> client.node]
           ELSE [pc |-> "off", held |-> None]

\* What had been taken from the queue for the old stream is lost with it.
Break ==
    /\ sse.pc \in {"replay", "greeting", "listen"}
    /\ Spend("breaks")
    /\ \E k \in 0..Len(svc.queue) : svc' = [svc EXCEPT !.queue = SubSeq(@, k + 1, Len(@))]
    /\ Broken
    /\ UNCHANGED <<client, cached, bleTasks, marks>>

\* The service starts anew and connects to the node it has saved.
Restart ==
    /\ Spend("restarts")
    /\ svc' = [svc EXCEPT
                !.last = IF svc.gone THEN None ELSE @,
                !.link = None, !.due = None, !.regs = None, !.mac = None, !.gone = FALSE,
                !.attempt = 1,
                !.retry = IF svc.gone THEN None ELSE svc.last,
                !.queue = IF svc.gone \/ svc.last = None THEN <<>>
                          ELSE <<Event("reconnecting", svc.last)>>]
    /\ IF sse.pc \in {"replay", "greeting", "listen"} THEN Broken ELSE UNCHANGED sse
    /\ UNCHANGED <<client, cached, bleTasks, marks>>

GraceOver ==
    /\ sse.pc = "grace"
    /\ sse' = [pc |-> "off", held |-> None]
    /\ IF client.state = "connected" /\ client.node = sse.held
       THEN /\ client' = [state |-> "disconnected", node |-> None, lost |-> TRUE]
            /\ Cleared(client')
            /\ marks' = Heard(Reported.kind = "disconnected", marks)
       ELSE UNCHANGED <<client, cached, reconciler, marks>>
    /\ UNCHANGED <<agenda, svc, user, hydration>>

-----------------------------------------------------------------------------
(* The tasks of the router, and what the users ask for *)

\* The steps of each command.
Programs ==
    [connect |-> <<"ask", "reuse", "dial", "dialed", "ask", "arrived", "ask", "informed">>,
     ensure |-> <<"engage", "dial", "dialed">>,
     disconnect |-> <<"leave", "hangup", "left">>,
     cancel |-> <<"abandon", "abandoned">>,
     info |-> <<"ask", "told">>]

Begin ==
    /\ ~Runs(user)
    /\ \E c \in agenda.coming :
         /\ agenda' = [agenda EXCEPT !.coming = @ \ {c}]
         /\ user' = [Program(Programs[c[1]]) EXCEPT !.node = c[2], !.skip = c[1] = "ensure"]
    /\ UNCHANGED <<svc, client, sse, cached, hydration, reconciler, marks>>

\* An await on the service, of whichever task.
Requests ==
    /\ \/ /\ UNCHANGED <<hydration, reconciler>>
          /\ \/ At(user, "ask") /\ Request(user, user', Asked)
             \/ At(user, "dial") /\ Request(user, user', Dialed(user.node, user.skip))
             \/ At(user, "hangup") /\ Request(user, user', HungUp)
             \/ At(user, "abandon") /\ Request(user, user', Abandoned)
       \/ /\ UNCHANGED <<user, reconciler>>
          /\ \/ At(hydration, "ask") /\ Request(hydration, hydration', Asked)
             \/ At(hydration, "query") /\ Request(hydration, hydration', Queried)
       \/ /\ UNCHANGED <<user, hydration>>
          /\ At(reconciler, "ask") /\ Request(reconciler, reconciler', Asked)
    /\ UNCHANGED <<client, sse, cached, marks>>

\* The handler of connect BLE looks at the link first; while it is being set up,
\* and for a time after a failure, BLEClientRemote.connect refuses.
Reuse ==
    /\ At(user, "reuse")
    /\ \/ /\ Refreshed(user.ans).state = "connected"
          /\ user' = [user EXCEPT !.todo = <<"ask", "informed">>]
          /\ Adopt(user.ans, FALSE)
       \/ /\ Refreshed(user.ans).state \in {"connecting", "error"}
          /\ user' = [user EXCEPT !.todo = <<"ask", "arrived", "ask", "informed">>]
          /\ Adopt(user.ans, FALSE)
       \/ /\ Refreshed(user.ans).state \notin {"connected", "connecting"}
          /\ user' = Step(user)
          /\ client' = [Refreshed(user.ans) EXCEPT !.state = "connecting"]
          /\ UNCHANGED marks
    /\ UNCHANGED <<agenda, svc, sse, cached, hydration, reconciler>>

Engage ==
    /\ At(user, "engage")
    /\ client' = [client EXCEPT !.state = "connecting"]
    /\ user' = Step(user)
    /\ UNCHANGED <<agenda, svc, sse, cached, hydration, reconciler, marks>>

\* The answer to a connect; the route of ensure_connected schedules at once.
Connected ==
    /\ At(user, "dialed")
    /\ user' = Step(user)
    /\ IF user.ans.kind = "ok"
       THEN /\ client' = [client EXCEPT !.state = "connected", !.node = user.node]
            /\ reconciler' = Armed
            /\ hydration' = IF user.skip THEN Scheduled(FALSE) ELSE hydration
            /\ marks' = Heard(svc.link = user.node, marks \ {"unwatched"})
       ELSE /\ client' = [client EXCEPT !.state = "error"]
            /\ marks' = Heard(svc.link = None, marks)
            /\ UNCHANGED <<reconciler, hydration>>
    /\ UNCHANGED <<agenda, svc, sse, cached>>

Arrived ==
    /\ At(user, "arrived")
    /\ Adopt(user.ans, FALSE)
    /\ user' = IF client'.state = "connected" THEN Step(user) ELSE Idle
    /\ UNCHANGED <<agenda, svc, sse, cached, hydration, reconciler>>

\* _handle_ble_info_command; after a connect both tasks are started anyway.
Tell(always) ==
    LET up == Refreshed(user.ans).state = "connected" IN
    /\ Adopt(user.ans, TRUE)
    /\ user' = Idle
    /\ cached' = IF up THEN cached ELSE None
    /\ reconciler' = IF always \/ up THEN Armed ELSE reconciler
    /\ hydration' = IF always \/ up THEN Scheduled(FALSE) ELSE hydration
    /\ UNCHANGED <<agenda, svc, sse>>

Inform ==
    \/ At(user, "told") /\ Tell(FALSE)
    \/ At(user, "informed") /\ Tell(TRUE)

Leave ==
    /\ At(user, "leave")
    /\ client' = [client EXCEPT !.state = "disconnecting"]
    /\ user' = Step(user)
    /\ UNCHANGED <<agenda, svc, sse, cached, hydration, reconciler, marks>>

\* The answer to a disconnect or a cancel_reconnect.
Left ==
    /\ At(user, "left") \/ At(user, "abandoned")
    /\ user' = Idle
    /\ IF user.ans.kind = "ok"
       THEN /\ client' = [client EXCEPT !.state = "disconnected", !.node = None]
            /\ Cleared(client')
       ELSE UNCHANGED <<client, cached, reconciler>>
    /\ marks' = Heard(user.ans.kind = "ok" /\ Reported.kind = "disconnected", marks)
    /\ UNCHANGED <<agenda, svc, sse, hydration>>

\* _run_ble_register_hydration after its refresh.
Weigh ==
    /\ At(hydration, "weigh")
    /\ Adopt(hydration.ans, FALSE)
    /\ hydration' = IF client'.state # "connected" \/ (hydration.skip /\ cached # None)
                    THEN Idle ELSE Step(hydration)
    /\ UNCHANGED <<agenda, svc, sse, cached, user, reconciler>>

\* Its last step tells the clients how the link is, and wipes when it is down.
Finish ==
    /\ At(hydration, "inform")
    /\ Adopt(hydration.ans, FALSE)
    /\ hydration' = Idle
    /\ cached' = IF client'.state = "connected" THEN cached ELSE None
    /\ UNCHANGED <<agenda, svc, sse, user, reconciler>>

\* BLE_REQUERY_TIMEOUT_S.
GiveUp ==
    /\ At(hydration, "query") \/ At(hydration, "inform")
    /\ Spend("faults")
    /\ hydration' = Idle
    /\ UNCHANGED <<svc, client, sse, cached, user, reconciler, marks>>

\* Mutant: the reconciler leaves once it has scheduled a hydration.
Judge_Once ==
    /\ At(reconciler, "judge")
    /\ Adopt(reconciler.ans, TRUE)
    /\ LET missing == client'.state = "connected" /\ cached = None IN
       /\ reconciler' = IF client'.state = "connecting" THEN Reconcile ELSE Idle
       /\ hydration' = IF missing THEN Scheduled(TRUE) ELSE hydration
    /\ UNCHANGED <<agenda, svc, sse, cached, user>>

\* _reconcile_check_once.
Judge ==
    /\ At(reconciler, "judge")
    /\ Adopt(reconciler.ans, TRUE)
    /\ LET missing == client'.state = "connected" /\ cached = None IN
       /\ reconciler' = IF client'.state = "connecting" \/ missing THEN Reconcile ELSE Idle
       /\ hydration' = IF missing THEN Scheduled(TRUE) ELSE hydration
    /\ UNCHANGED <<agenda, svc, sse, cached, user>>

Users == Begin \/ Reuse \/ Engage \/ Connected \/ Arrived \/ Inform \/ Leave \/ Left
Router == Weigh \/ Finish \/ GiveUp \/ Judge
Stream == Attach \/ Replay \/ Greet \/ Listen \/ GraceOver
Service == Reconnected \/ Deliver
World == LinkDrops \/ AttemptFails \/ LoseAnswer \/ Break \/ Restart

\* Whose registers the cache holds when everything in the queue has been heard.
Expected(n) ==
    \/ \E i \in 1 .. Len(svc.queue) :
         /\ svc.queue[i] = Event("registers", n)
         /\ \A j \in (i + 1) .. Len(svc.queue) : svc.queue[j].kind # "registers"
    \/ /\ \A i \in 1 .. Len(svc.queue) : svc.queue[i].kind # "registers"
       /\ cached = n

\* History: nothing is on its way any more that would replace the registers of
\* the node before, because the new one's answer or the stream with it was lost.
Foreign ==
    /\ svc.link # None /\ svc.due # svc.link
    /\ \E n \in Nodes \ {svc.link} : Expected(n)
Noticed == mislaid' = (Foreign' /\ (mislaid \/ LoseAnswer \/ Break))

BLENext ==
    \/ Users /\ Noticed
    \/ Router /\ Noticed
    \/ Requests /\ Noticed
    \/ Stream /\ Noticed
    \/ Service /\ Noticed
    \/ World /\ Noticed

BLEFairness ==
    /\ WF_bleVars(Stream)
    /\ WF_bleVars(Reconnected) /\ WF_bleVars(Deliver)
    /\ WF_bleVars(Users \/ (Requests /\ user' # user))
    /\ WF_bleVars((Weigh \/ Finish \/ Requests) /\ hydration' # hydration)
    /\ WF_bleVars((Judge \/ Requests) /\ reconciler' # reconciler)
BLESpec == BLEInit /\ [][BLENext]_linkVars /\ BLEFairness

-----------------------------------------------------------------------------
(* Properties *)

\* Nothing is under way any more.
Calm ==
    /\ sse.pc = "listen" /\ svc.queue = <<>> /\ svc.due = None
    /\ ~Runs(user) /\ ~Runs(hydration) /\ ~Runs(reconciler)

\* A connection whose registers are missing is in the reconciler's hands: every
\* way to CONNECTED and every wipe of the cache leaves it armed, except where only
\* a refresh that arms nothing has found the link (arm_ble_register_reconciler,
\* _handle_connected_transition, _reconcile_check_once).
MissingIsWorkedOn ==
    client.state = "connected" /\ cached = None => Runs(reconciler) \/ "unwatched" \in marks

\* When all is quiet, and the last word the client heard was true when it heard
\* it, a link that is up is known to be and its registers are there, whatever
\* was lost, broken or restarted before; another node's are there only when its
\* own were lost after these (_sse_loop, _run_ble_register_reconciler).
CalmIsComplete ==
    Calm /\ svc.link # None /\ marks = {}
        => client.state = "connected" /\ cached # None /\ (cached = svc.link \/ mislaid)

\* A link that stays up gets its own registers: the reconciler goes on until it
\* has some, over lost answers and broken streams, and those of the node before
\* stay only when the new one's were lost (_reconcile_check_once).
RegistersArrive ==
    svc.link # None ~> svc.link = None \/ cached = svc.link \/ mislaid \/ marks # {}

=============================================================================
