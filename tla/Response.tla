------------------------------ MODULE Response ------------------------------
(***************************************************************************)
(* Replies to commands (commands/response.py).  Each reply is sent chunk   *)
(* by chunk by a task of its own; a lock per recipient keeps the chunks of *)
(* two replies to one station apart, and a reference count removes the     *)
(* lock once no task holds it or waits for it.                             *)
(*                                                                         *)
(* A reply creates at most one lock, so a lock is named by the reply that  *)
(* created it.  asyncio.Lock is first-in first-out: the queue of a lock is *)
(* its holder followed by those that wait.                                 *)
(***************************************************************************)
EXTENDS Integers, Sequences, FiniteSets

CONSTANTS
    Replies,
    RecipientOf,  \* the recipient of each reply
    LocalOnly,    \* the replies that stay in this station: to itself or to all
    Chunks,       \* chunks of a reply, after the cut to MAX_CHUNKS
    CanStop       \* does stop_pending_responses happen?

NoReply == <<>>

ASSUME ParametersAssumption ==
    /\ Chunks \in Nat \ {0}
    /\ CanStop \in BOOLEAN
    /\ NoReply \notin Replies
    /\ DOMAIN RecipientOf = Replies
    /\ LocalOnly \subseteq Replies

Recipients == {RecipientOf[r] : r \in Replies}

VARIABLES
    state,     \* task of a reply: "new", "created", "using" or "ended"
    lockOf,    \* the lock that the task took from the table
    sent,      \* chunks sent so far
    locks,     \* _response_locks: recipient -> lock or NoReply
    refs,      \* _response_lock_refs, 0 when absent
    queue,     \* lock -> its holder and waiters
    draining,  \* the tasks that stop_pending_responses waits for
    stopped,   \* stop_pending_responses: "no", "draining", "cutting" or "yes"
    onAir      \* history: the reply whose chunk went out last, by recipient

taskVars == <<state, lockOf, sent>>
tableVars == <<locks, refs, queue>>
vars == <<taskVars, tableVars, draining, stopped, onAir>>

Init ==
    /\ state = [r \in Replies |-> "new"]
    /\ lockOf = [r \in Replies |-> NoReply]
    /\ sent = [r \in Replies |-> 0]
    /\ locks = [k \in Recipients |-> NoReply]
    /\ refs = [k \in Recipients |-> 0]
    /\ queue = [l \in Replies |-> <<>>]
    /\ draining = {}
    /\ stopped = "no"
    /\ onAir = [k \in Recipients |-> NoReply]

Key(r) == RecipientOf[r]
Users(k) == {r \in Replies : state[r] = "using" /\ Key(r) = k}
Holds(r) == state[r] = "using" /\ 1 \in DOMAIN queue[lockOf[r]] /\ queue[lockOf[r]][1] = r

(* Cancelled tasks do nothing but leave. *)
Cancelled(r) == stopped = "cutting" /\ r \in draining

(* send_response hands the chunks to a background task. *)
SendResponse(r) ==
    /\ state[r] = "new"
    /\ state' = [state EXCEPT ![r] = "created"]
    /\ UNCHANGED <<lockOf, sent, tableVars, draining, stopped, onAir>>

(* _send_chunks up to the lock: setdefault, count, and get in line. *)
TakeLock(r) ==
    LET k == Key(r)
        l == IF locks[k] = NoReply THEN r ELSE locks[k]
    IN  /\ state[r] = "created" /\ ~Cancelled(r)
        /\ state' = [state EXCEPT ![r] = "using"]
        /\ lockOf' = [lockOf EXCEPT ![r] = l]
        /\ locks' = [locks EXCEPT ![k] = l]
        /\ refs' = [refs EXCEPT ![k] = @ + 1]
        /\ queue' = [queue EXCEPT ![l] = Append(@, r)]
        /\ UNCHANGED <<sent, draining, stopped, onAir>>

MaySend(r) == Holds(r)

MoreChunks(r) == sent[r] < Chunks

(* _transmit_chunks: one chunk, then the airtime pause. *)
SendChunk(r) ==
    /\ MaySend(r) /\ ~Cancelled(r)
    /\ MoreChunks(r)
    /\ sent' = [sent EXCEPT ![r] = @ + 1]
    /\ onAir' = [onAir EXCEPT ![Key(r)] = r]
    /\ UNCHANGED <<state, lockOf, tableVars, draining, stopped>>

LastUser_Always(r) == TRUE

LastUser(r) == refs[Key(r)] - 1 = 0

WithoutKept(q, i) == q

(* A queue without its i-th task. *)
Without(q, i) == [j \in 1 .. Len(q) - 1 |-> IF j < i THEN q[j] ELSE q[j + 1]]

(* The end of _send_chunks: out of the lock's queue, and the finally block *)
(* drops the reference, with the table entry when it was the last.         *)
Leave(r) ==
    LET k == Key(r)
        l == lockOf[r]
    IN  /\ state' = [state EXCEPT ![r] = "ended"]
        /\ \E i \in DOMAIN queue[l] :
            /\ queue[l][i] = r
            /\ queue' = [queue EXCEPT ![l] = Without(@, i)]
        /\ refs' = [refs EXCEPT ![k] = IF LastUser(r) THEN 0 ELSE @ - 1]
        /\ locks' = [locks EXCEPT ![k] = IF LastUser(r) THEN NoReply ELSE @]

Finish(r) ==
    /\ Holds(r) /\ ~Cancelled(r)
    /\ sent[r] = Chunks
    /\ Leave(r)
    /\ UNCHANGED <<lockOf, sent, draining, stopped, onAir>>

(* A chunk of a reply to ourselves is also stored; unlike the transports,  *)
(* whose errors are caught, a failing store ends the reply there and then. *)
StoreFails(r) ==
    /\ Holds(r) /\ ~Cancelled(r)
    /\ r \in LocalOnly
    /\ sent[r] > 0
    /\ Leave(r)
    /\ UNCHANGED <<lockOf, sent, draining, stopped, onAir>>

-----------------------------------------------------------------------------
(* Shutdown *)

Pending == {r \in Replies : state[r] \in {"created", "using"}}

(* stop_pending_responses waits for the tasks it finds ... *)
StopBegins ==
    /\ CanStop
    /\ stopped = "no"
    /\ stopped' = "draining"
    /\ draining' = Pending
    /\ UNCHANGED <<taskVars, tableVars, onAir>>

(* ... and after its timeout cancels those that are left. *)
DrainTimesOut ==
    /\ stopped = "draining"
    /\ stopped' = "cutting"
    /\ UNCHANGED <<taskVars, tableVars, draining, onAir>>

(* A cancelled task that never ran has nothing to give back; one that      *)
(* holds the lock or waits for it leaves.                                  *)
CutOff(r) ==
    /\ Cancelled(r)
    /\ \/ /\ state[r] = "created"
          /\ state' = [state EXCEPT ![r] = "ended"]
          /\ UNCHANGED tableVars
       \/ /\ state[r] = "using"
          /\ Leave(r)
    /\ UNCHANGED <<lockOf, sent, draining, stopped, onAir>>

StopEnds ==
    /\ stopped \in {"draining", "cutting"}
    /\ draining \cap Pending = {}
    /\ stopped' = "yes"
    /\ draining' = {}
    /\ UNCHANGED <<taskVars, tableVars, onAir>>

TaskStep(r) == TakeLock(r) \/ SendChunk(r) \/ Finish(r) \/ StoreFails(r) \/ CutOff(r)

Next ==
    \/ \E r \in Replies : SendResponse(r) \/ TaskStep(r)
    \/ StopBegins
    \/ DrainTimesOut
    \/ StopEnds

(* The event loop runs every task that is ready. *)
Fairness == (\A r \in Replies : WF_vars(TaskStep(r))) /\ WF_vars(StopEnds)

Spec == Init /\ [][Next]_vars /\ Fairness

-----------------------------------------------------------------------------
(* Properties *)

TypeOK ==
    /\ state \in [Replies -> {"new", "created", "using", "ended"}]
    /\ lockOf \in [Replies -> Replies \cup {NoReply}]
    /\ sent \in [Replies -> 0 .. Chunks]
    /\ locks \in [Recipients -> Replies \cup {NoReply}]
    /\ refs \in [Recipients -> Nat]
    /\ queue \in [Replies -> Seq(Replies)]
    /\ draining \subseteq Replies
    /\ stopped \in {"no", "draining", "cutting", "yes"}
    /\ onAir \in [Recipients -> Replies \cup {NoReply}]

(* Two replies to one station never hold their lock at the same time: the  *)
(* table entry is not replaced while a task still uses the old lock        *)
(* (_send_chunks' reference count).                                        *)
OneSenderPerRecipient ==
    \A q, r \in Replies : Holds(q) /\ Holds(r) /\ Key(q) = Key(r) => q = r

(* On the air the chunks of a reply are not interleaved with those of      *)
(* another reply to the same station.                                      *)
ChunksContiguous ==
    \A r \in Replies : state[r] = "using" /\ sent[r] > 0 => onAir[Key(r)] = r

(* The tables hold an entry for a recipient exactly as long as some task   *)
(* holds or waits for its lock, also after tasks were cancelled.           *)
NothingLeaks ==
    \A k \in Recipients :
        /\ refs[k] = Cardinality(Users(k))
        /\ locks[k] = NoReply <=> Users(k) = {}

(* The locks do what they are there for, and no more of them are kept than *)
(* are needed (_send_chunks' table of locks and its reference counts).     *)
RepliesSound == TypeOK /\ OneSenderPerRecipient /\ ChunksContiguous /\ NothingLeaks

(* Every reply whose task was created comes to its end: sent in full, cut  *)
(* off at shutdown, or given up when the store fails.                      *)
EveryReplyEnds == \A r \in Replies : state[r] = "created" ~> state[r] = "ended"

=============================================================================
