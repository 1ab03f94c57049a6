---------------------------- MODULE EventStream ----------------------------
(***************************************************************************)
(* What browsers see (sse_handler.py, sse_routes/stream.py and prefs.py,   *)
(* the history queries of storage/query.py, the blocklist decisions of     *)
(* main.py).                                                               *)
(*                                                                         *)
(* A browser holds one event stream.  Its client is registered for         *)
(* broadcasts first and then sent the history and the state, read one      *)
(* after the other; events that arrive meanwhile wait in the client's      *)
(* queue.  Beside it the two tasks that receive messages store and         *)
(* broadcast them, users move their read cursors, the blocklist changes,   *)
(* and browsers ask for older pages.                                       *)
(***************************************************************************)
EXTENDS Absent, Integers, Sequences, SequencesExt, FiniteSets, FiniteSetsExt

CONSTANTS
    StreamAgendas,   \* what the world does, see the variable scene
    Browsers,
    ClientQueue,     \* SSE_CLIENT_QUEUE_SIZE
    PageSize         \* DEFAULT_PAGE_SIZE: rows of a conversation in the snapshot or a page

VARIABLES
    scene,       \* messages, connections, drops, moves, bans, pages, stops and faults to come
    banned,      \* blocked_callsigns
    announcing,  \* the list has changed and is yet to be broadcast
    messages,    \* the rows of the conversation
    inbound,     \* path -> the message on its way through the router's subscribers
    cursor,      \* read_cursors: how far the conversation has been read
    posts,       \* moves that are stored and not yet broadcast
    client,      \* browser -> its client and what it has been shown
    stopping     \* shutdown_event

streamVars == <<scene, banned, announcing, messages, inbound, cursor, posts, client, stopping>>

Lanes == {"udp", "ble"}
Forever == 1000000   \* later than every message

ASSUME StreamAssumption ==
    /\ PageSize \in Nat \ {0}
    /\ \A a \in StreamAgendas :
          /\ DOMAIN a = {"history", "coming", "connects", "drops", "moves", "bans", "pages", "stops",
                       "faults"}
          /\ IsFiniteSet(a.history) /\ a.moves \subseteq Nat
          /\ \A row \in a.history \cup {copy.row : copy \in a.coming} : row.ts \in 0 .. Forever - 1

Idle == [stage |-> "idle", row |-> None]
NoPage == [before |-> None, rows |-> None]

\* shown: messages, known: the blocklist, told: the cursor, as the browser has
\* them; floor: the time it would ask the next older page for.  History: base, the
\* rows there were when it connected or got its snapshot; untold, the cursor there
\* was, until it has been told; barred, the senders banned since it connected.
Away == [stage |-> "away", connected |-> FALSE, queue |-> <<>>, shown |-> {}, base |-> {},
         floor |-> Forever, known |-> {}, told |-> 0, page |-> NoPage, untold |-> None, barred |-> {}]

Act(what, x) ==
    /\ x \in scene[what]
    /\ scene' = [scene EXCEPT ![what] = @ \ {x}]

StreamInit ==
    /\ scene \in StreamAgendas
    /\ banned = {}
    /\ announcing = FALSE
    /\ messages = scene.history
    /\ inbound = [l \in Lanes |-> Idle]
    /\ cursor = 0
    /\ posts = {}
    /\ client = [b \in Browsers |-> Away]
    /\ stopping = FALSE

-----------------------------------------------------------------------------
(* Broadcasts *)

Registered(c) == c.stage # "away"

Offered(c, event) ==
    IF ~Registered(c) \/ ~c.connected THEN c
    ELSE IF Len(c.queue) < ClientQueue THEN [c EXCEPT !.queue = Append(@, event)]
    ELSE [c EXCEPT !.connected = FALSE]

\* broadcast_event: a client whose queue is full is disconnected; it finds out
\* when it next looks at its stream.
Broadcast(event) == client' = [b \in Browsers |-> Offered(client[b], event)]

Message(row) == [type |-> "message", row |-> row]
Cursor(ts) == [type |-> "cursor", ts |-> ts]
Blocklist == [type |-> "blocklist", callsigns |-> banned]

-----------------------------------------------------------------------------
(* Messages come in *)

\* blocklist_decision; what is redirected goes to the spam group.
Decision(row) ==
    IF row.sender \notin banned THEN "pass" ELSE IF row.personal THEN "drop" ELSE "redirect"

\* The storage handler: a blocked sender's message is not kept.  The insert waits
\* for a thread.
Receive(lane) ==
    /\ inbound[lane] = Idle
    /\ \E copy \in scene.coming :
          /\ copy.lane = lane
          /\ Act("coming", copy)
          /\ inbound' = [inbound EXCEPT ![lane] =
                 [stage |-> IF Decision(copy.row) = "pass" THEN "store" ELSE "tell", row |-> copy.row]]
    /\ UNCHANGED <<banned, announcing, messages, cursor, posts, client, stopping>>

StoreRow(lane) ==
    /\ inbound[lane].stage = "store"
    /\ messages' = messages \cup {inbound[lane].row}
    /\ inbound' = [inbound EXCEPT ![lane].stage = "tell"]
    /\ UNCHANGED <<scene, banned, announcing, cursor, posts, client, stopping>>

\* _broadcast_handler
Tell(lane) ==
    LET row == inbound[lane].row IN
    /\ inbound[lane].stage = "tell"
    /\ IF Decision(row) = "drop" THEN UNCHANGED client ELSE Broadcast(Message(row))
    /\ inbound' = [inbound EXCEPT ![lane] = Idle]
    /\ UNCHANGED <<scene, banned, announcing, messages, cursor, posts, stopping>>

-----------------------------------------------------------------------------
(* A client's stream *)

\* GET /events: register_client, and the first events of initial_events, from memory.
Connect(b) ==
    /\ client[b] = Away
    /\ ~stopping
    /\ \E visit \in scene.connects : visit[1] = b /\ Act("connects", visit)
    /\ client' = [client EXCEPT ![b] =
           [Away EXCEPT !.stage = "snapshot", !.connected = TRUE, !.known = banned,
                        !.base = messages, !.untold = cursor, !.barred = banned]]
    /\ UNCHANGED <<banned, announcing, messages, inbound, cursor, posts, stopping>>

\* filter_history_row
Hidden(row) == Decision(row) = "drop"

\* The pages of the newest rows: the query leaves the order within a millisecond open.
Newest(rows) ==
    {page \in kSubset(Min({PageSize, Cardinality(rows)}), rows) :
        \A r \in page, o \in rows \ page : o.ts <= r.ts}

Visible(page) == {r \in page : ~Hidden(r)}
Floor(rows, default) == IF rows = {} THEN default ELSE Min({r.ts : r \in rows})

\* get_smart_initial_with_summary: the newest rows of the conversation, without
\* those the blocklist hides.
Snapshot(b) ==
    /\ client[b].stage = "snapshot"
    /\ \E page \in Newest(messages) :
          client' = [client EXCEPT ![b].stage = "state", ![b].shown = Visible(page),
                                   ![b].base = messages, ![b].floor = Floor(Visible(page), Forever)]
    /\ UNCHANGED <<scene, banned, announcing, messages, inbound, cursor, posts, stopping>>

\* get_read_cursors and the rest of initial_events
State(b) ==
    /\ client[b].stage = "state"
    /\ client' = [client EXCEPT ![b].stage = "live", ![b].told = cursor, ![b].untold = None]
    /\ UNCHANGED <<scene, banned, announcing, messages, inbound, cursor, posts, stopping>>

\* A query of either raises: the stream goes on without what is left of them.
InitialFails(b) ==
    /\ client[b].stage \in {"snapshot", "state"}
    /\ Act("faults", client[b].stage)
    /\ client' = [client EXCEPT ![b].stage = "live"]
    /\ UNCHANGED <<banned, announcing, messages, inbound, cursor, posts, stopping>>

\* What the browser makes of an event.  It keeps the later cursor.
Shown(c, event) ==
    CASE event.type = "message" -> [c EXCEPT !.shown = @ \cup {event.row}]
      [] event.type = "cursor" -> [c EXCEPT !.told = IF @ < event.ts THEN event.ts ELSE @]
      [] event.type = "blocklist" -> [c EXCEPT !.known = event.callsigns]
      [] event.type = "page" ->
            [c EXCEPT !.shown = @ \cup event.rows, !.floor = Floor(event.rows, @)]

\* The loop of event_generator.
Take(b) ==
    LET c == client[b] IN
    /\ c.stage = "live" /\ c.connected /\ ~stopping /\ c.queue # <<>>
    /\ client' = [client EXCEPT ![b] = [Shown(c, Head(c.queue)) EXCEPT !.queue = Tail(c.queue)]]
    /\ UNCHANGED <<scene, banned, announcing, messages, inbound, cursor, posts, stopping>>

\* The loop ends when the client has been disconnected or the server stops ...
Hangup(b) ==
    /\ client[b].stage = "live"
    /\ ~client[b].connected \/ stopping
    /\ client' = [client EXCEPT ![b] = Away]
    /\ UNCHANGED <<scene, banned, announcing, messages, inbound, cursor, posts, stopping>>

\* ... and wherever it is when the browser goes away.
Lost(b) ==
    /\ Registered(client[b])
    /\ Act("drops", b)
    /\ client' = [client EXCEPT ![b] = Away]
    /\ UNCHANGED <<banned, announcing, messages, inbound, cursor, posts, stopping>>

-----------------------------------------------------------------------------
(* Older pages: _handle_messages_page_command *)

AskPage(b) ==
    /\ client[b].stage = "live" /\ client[b].page = NoPage
    /\ Act("pages", b)
    /\ client' = [client EXCEPT ![b].page = [before |-> client[b].floor, rows |-> None]]
    /\ UNCHANGED <<banned, announcing, messages, inbound, cursor, posts, stopping>>

\* get_messages_page
PagesBefore(before) == Newest({m \in messages : m.ts < before})

ReadPage(b) ==
    LET p == client[b].page IN
    /\ p.before # None /\ p.rows = None
    /\ \E page \in PagesBefore(p.before) : client' = [client EXCEPT ![b].page.rows = Visible(page)]
    /\ UNCHANGED <<scene, banned, announcing, messages, inbound, cursor, posts, stopping>>

\* send_to: the answer goes through the queue of the client that asked.
SendPage(b) ==
    LET c == client[b] IN
    /\ c.page.rows # None
    /\ client' = [client EXCEPT ![b] =
           [Offered(c, [type |-> "page", rows |-> c.page.rows]) EXCEPT !.page = NoPage]]
    /\ UNCHANGED <<scene, banned, announcing, messages, inbound, cursor, posts, stopping>>

-----------------------------------------------------------------------------
(* Read cursors and the blocklist *)

\* Mutant: the last one to write wins.
Advance_Last(ts) == ts

\* set_read_cursor
Advance(ts) == Max({cursor, ts})

\* POST /api/read_cursor: the stored value, then the summary is read, then all
\* clients are told.
MoveCursor ==
    /\ \E m \in scene.moves :
          /\ Act("moves", m)
          /\ cursor' = Advance(m)
          /\ posts' = posts \cup {[move |-> m, stored |-> cursor']}
    /\ UNCHANGED <<banned, announcing, messages, inbound, client, stopping>>

TellCursor ==
    /\ \E p \in posts : Broadcast(Cursor(p.stored)) /\ posts' = posts \ {p}
    /\ UNCHANGED <<scene, banned, announcing, messages, inbound, cursor, stopping>>

\* A kickban of the commands.
Ban ==
    /\ ~announcing
    /\ \E s \in scene.bans :
          /\ Act("bans", s)
          /\ banned' = banned \cup {s}
          /\ client' = [b \in Browsers |-> IF Registered(client[b])
                                          THEN [client[b] EXCEPT !.barred = @ \cup {s}] ELSE client[b]]
    /\ announcing' = TRUE
    /\ UNCHANGED <<messages, inbound, cursor, posts, stopping>>

\* _broadcast_blocked_callsigns
Announce ==
    /\ announcing
    /\ announcing' = FALSE
    /\ Broadcast(Blocklist)
    /\ UNCHANGED <<scene, banned, messages, inbound, cursor, posts, stopping>>

\* stop_server
Stop ==
    /\ Act("stops", "stop")
    /\ stopping' = TRUE
    /\ UNCHANGED <<banned, announcing, messages, inbound, cursor, posts, client>>

StreamNext ==
    \/ \E l \in Lanes : Receive(l) \/ StoreRow(l) \/ Tell(l)
    \/ \E b \in Browsers : Connect(b) \/ Snapshot(b) \/ State(b) \/ InitialFails(b)
    \/ \E b \in Browsers : Take(b) \/ Hangup(b) \/ Lost(b)
    \/ \E b \in Browsers : AskPage(b) \/ ReadPage(b) \/ SendPage(b)
    \/ MoveCursor \/ TellCursor \/ Ban \/ Announce \/ Stop

-----------------------------------------------------------------------------
(* Properties *)

\* Nothing waits for this browser.
CaughtUp(b) ==
    /\ client[b].stage = "live" /\ client[b].connected
    /\ client[b].queue = <<>> /\ client[b].page = NoPage

Twin(row) == \E o \in messages : o # row /\ o.ts = row.ts

\* A browser that has caught up misses no message: it has been shown all that were
\* stored since it connected, also when its snapshot could not be read, and of those
\* before all from the end of its oldest page on.  Excepted are personal messages of
\* a sender that has been banned while it was connected and those that share their
\* millisecond with another (register_client, initial_events and the route that
\* goes on without them, broadcast_event, get_messages_page).
NoGap ==
    \A b \in Browsers : CaughtUp(b) =>
        \A row \in messages :
            \/ row \in client[b].shown
            \/ row.personal /\ row.sender \in client[b].barred
            \/ Twin(row)
            \/ row \in client[b].base /\ row.ts < client[b].floor
            \/ \E l \in Lanes : inbound[l] = [stage |-> "tell", row |-> row]

\* A browser that has caught up agrees with the server on the blocklist and on the
\* read cursor, whatever other browsers moved them meanwhile, unless the cursor could
\* not be read and has not moved since (set_read_cursor and its route,
\* _broadcast_blocked_callsigns, initial_events).
StateAgrees ==
    \A b \in Browsers : CaughtUp(b) =>
        /\ posts = {} => client[b].told = cursor \/ client[b].untold = cursor
        /\ ~announcing => client[b].known = banned

\* What a browser shows is what the server would show it now.
ViewIsTrue == NoGap /\ StateAgrees
=============================================================================
