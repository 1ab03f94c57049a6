------------------------------ MODULE LinkCheck ------------------------------
(***************************************************************************)
(* The {ping}/{pong} link check (commands/linkcheck.py).  A session sends  *)
(* its pings one after the other; the node's echo tells the attempt its    *)
(* id, and a pong with that id resolves the attempt and wakes the driver.  *)
(* start, stop and shutdown race the drivers and each other.               *)
(*                                                                         *)
(* A session is named by a member of Sessions, in the order of the starts, *)
(* and its driver (driver_task) by the session it was created for, but the *)
(* driver finds the session it drives by target.  A ping id is the pair of *)
(* the session and the attempt it was sent for.  The echo and the pongs of *)
(* a ping that was sent may arrive any number of times, at any time, or    *)
(* never.  An action is what one task does between two awaits.  Timers are *)
(* untimed.                                                                *)
(***************************************************************************)
EXTENDS Integers, Sequences, FiniteSets

CONSTANTS
    Targets,
    Sessions,       \* one name per successful start_link_check
    MaxConcurrent,  \* _MAX_CONCURRENT_LINKCHECKS
    Total           \* count, by session

None == <<>>
NoSession == 0
Ids == Sessions \X (Nat \ {0})

ASSUME ParametersAssumption ==
    /\ MaxConcurrent \in Nat
    /\ Total \in [Sessions -> Nat \ {0}]
    /\ Sessions \subseteq Nat \ {NoSession}

(* LinkCheckAttempt: its id, the pong that resolved it, whether that came  *)
(* late, its timeout.                                                      *)
Attempt == [ping : Ids \cup {None}, pong : Ids \cup {None}, late : BOOLEAN, timedOut : BOOLEAN]
FreshAttempt == [ping |-> None, pong |-> None, late |-> FALSE, timedOut |-> FALSE]
Resolved(a) == a.pong # None

(* The locals of a driver: the session it found, the attempts it has begun,*)
(* the place of the last of them among the session's, its count of pongs.  *)
Driver == [session : Sessions \cup {NoSession}, turn : Nat, at : Nat, received : Nat]
Idle == [session |-> NoSession, turn |-> 0, at |-> 0, received |-> 0]

(* What the event loop has ready: the first step of a driver, or the rest  *)
(* of the stop that awaited it.                                            *)
Drive(s) == [step |-> "drive", session |-> s]
Pop(s) == [step |-> "pop", session |-> s]

VARIABLES
    linkSessions,  \* link_sessions: target -> session or NoSession
    target,        \* LinkCheckSession.target, None before the start
    status,        \* LinkCheckSession.status
    attempts,      \* LinkCheckSession.attempts
    driver,        \* the locals of the session's driver task
    pc,            \* where it awaits: "none", "created", "cancelled" (before
                   \* its first step), "sent", "waiting", "timeout", "done",
                   \* "stopping" or "dead"
    alarm,         \* what has ended its wait so far: "woken", "elapsed"
    wake,          \* _linkcheck_wake: target -> the driver waiting, or NoSession
    cooldown,      \* targets whose cooldown has not passed
    stops,         \* sessions whose driver a stop_link_check awaits
    ready,         \* first steps of drivers and woken stops, first-in first-out
    awaited,       \* the drivers stop_linkcheck awaits
    crowded,       \* history: targets started anew while an earlier driver
                   \* had not had its first step
    shutdown       \* stop_linkcheck: "no", "drivers", "strays" or "over"

sessionVars == <<target, status, attempts>>
vars == <<linkSessions, sessionVars, driver, pc, alarm, wake, cooldown, stops, ready,
          awaited, crowded, shutdown>>

Init ==
    /\ linkSessions = [t \in Targets |-> NoSession]
    /\ target = [s \in Sessions |-> None]
    /\ status = [s \in Sessions |-> "running"]
    /\ attempts = [s \in Sessions |-> <<>>]
    /\ driver = [s \in Sessions |-> Idle]
    /\ pc = [s \in Sessions |-> "none"]
    /\ alarm = [s \in Sessions |-> {}]
    /\ wake = [t \in Targets |-> NoSession]
    /\ cooldown = {}
    /\ stops = {}
    /\ ready = <<>>
    /\ awaited = {}
    /\ crowded = {}
    /\ shutdown = "no"

Pending(s) == pc[s] \in {"created", "cancelled"}
Driving(s) == pc[s] \in {"sent", "waiting", "timeout", "done", "stopping"}
Live(s) == Pending(s) \/ Driving(s)

-----------------------------------------------------------------------------
(* Start *)

Occupied == {t \in Targets : linkSessions[t] # NoSession}

StartAllowed_Running(t) ==
    /\ t \notin cooldown
    /\ Cardinality(Occupied) <= MaxConcurrent

(* The state-dependent part of start_link_check's validation ladder. *)
StartAllowed(t) ==
    /\ linkSessions[t] = NoSession
    /\ t \notin cooldown
    /\ Cardinality(Occupied) < MaxConcurrent

(* start_link_check: no await between the checks and the insert.           *)
(* Sessions are numbered in the order of their start.                      *)
StartLinkCheck(t, s) ==
    /\ pc[s] = "none"
    /\ \A q \in Sessions : q < s => pc[q] # "none"
    /\ StartAllowed(t)
    /\ linkSessions' = [linkSessions EXCEPT ![t] = s]
    /\ target' = [target EXCEPT ![s] = t]
    /\ pc' = [pc EXCEPT ![s] = "created"]
    /\ ready' = Append(ready, Drive(s))
    /\ crowded' = crowded \cup {u \in {t} : \E q \in Sessions : Pending(q) /\ target[q] = u}
    /\ UNCHANGED <<status, attempts, driver, alarm, wake, cooldown, stops, awaited, shutdown>>

-----------------------------------------------------------------------------
(* The driver *)

MoreAttempts(d, k) == status[d] = "running" /\ k < Total[d]

(* The top of the loop of the driver of s, which drives session d and has  *)
(* begun k attempts and counted n pongs: the next ping goes out, or the    *)
(* session gets its final status and linkcheck_done is sent.               *)
NextAttempt(s, d, k, n) ==
    \/ /\ MoreAttempts(d, k)
       /\ attempts' = [attempts EXCEPT ![d] = Append(@, FreshAttempt)]
       /\ driver' = [driver EXCEPT ![s] = [session |-> d, turn |-> k + 1,
                                           at |-> Len(attempts[d]) + 1, received |-> n]]
       /\ pc' = [pc EXCEPT ![s] = "sent"]
       /\ UNCHANGED status
    \/ /\ ~MoreAttempts(d, k)
       /\ status' = [status EXCEPT ![d] =
                        IF @ # "running" THEN @ ELSE IF n > 0 THEN "completed" ELSE "timeout"]
       /\ driver' = [driver EXCEPT ![s] = [Idle EXCEPT !.session = d]]
       /\ pc' = [pc EXCEPT ![s] = "done"]
       /\ UNCHANGED attempts

(* The task of s ends; a stop that awaits it is ready behind the queue. *)
TaskEnds(s, queue) ==
    /\ pc' = [pc EXCEPT ![s] = "dead"]
    /\ driver' = [driver EXCEPT ![s] = Idle]
    /\ alarm' = [alarm EXCEPT ![s] = {}]
    /\ stops' = stops \ {s}
    /\ ready' = IF s \in stops THEN Append(queue, Pop(s)) ELSE queue

(* The driver's first step looks the session up by target: a KeyError, or  *)
(* a cancellation before it, ends the task before its try block.           *)
DriverBegins(s) ==
    /\ ready # <<>> /\ Head(ready) = Drive(s)
    /\ LET d == linkSessions[target[s]]
       IN  \/ /\ pc[s] = "created" /\ d # NoSession
              /\ NextAttempt(s, d, 0, 0)
              /\ ready' = Tail(ready)
              /\ UNCHANGED <<alarm, stops>>
           \/ /\ pc[s] = "cancelled" \/ d = NoSession
              /\ TaskEnds(s, Tail(ready))
              /\ UNCHANGED <<attempts, status>>
    /\ UNCHANGED <<linkSessions, target, wake, cooldown, awaited, crowded, shutdown>>

(* The ping and linkcheck_sent are out: the driver waits on a new event. *)
AwaitPong(s) ==
    /\ pc[s] = "sent"
    /\ wake' = [wake EXCEPT ![target[s]] = s]
    /\ alarm' = [alarm EXCEPT ![s] = {}]
    /\ pc' = [pc EXCEPT ![s] = "waiting"]
    /\ UNCHANGED <<linkSessions, sessionVars, driver, cooldown, stops, ready, awaited,
                   crowded, shutdown>>

AttemptTimeout(s) ==
    /\ pc[s] = "waiting"
    /\ "elapsed" \notin alarm[s]
    /\ alarm' = [alarm EXCEPT ![s] = @ \cup {"elapsed"}]
    /\ UNCHANGED <<linkSessions, sessionVars, driver, pc, wake, cooldown, stops, ready,
                   awaited, crowded, shutdown>>

WaitOver_WakeOnly(s) == "woken" \in alarm[s]

WaitOver(s) == alarm[s] # {}

Current(s) == attempts[driver[s].session][driver[s].at]

Answered_InTime(s) == Resolved(Current(s)) /\ "elapsed" \notin alarm[s]

Answered(s) == Resolved(Current(s))

(* The wait ends: a resolved attempt is counted and the loop goes on, any  *)
(* other is marked and linkcheck_timeout is sent.                          *)
WaitEnds(s) ==
    /\ pc[s] = "waiting"
    /\ WaitOver(s)
    /\ wake' = [wake EXCEPT ![target[s]] = NoSession]
    /\ \/ /\ Answered(s)
          /\ NextAttempt(s, driver[s].session, driver[s].turn, driver[s].received + 1)
       \/ /\ ~Answered(s)
          /\ attempts' = [attempts EXCEPT ![driver[s].session][driver[s].at].timedOut = TRUE]
          /\ pc' = [pc EXCEPT ![s] = "timeout"]
          /\ UNCHANGED <<driver, status>>
    /\ UNCHANGED <<linkSessions, target, alarm, cooldown, stops, ready, awaited, crowded,
                   shutdown>>

TimeoutReported(s) ==
    /\ pc[s] = "timeout"
    /\ NextAttempt(s, driver[s].session, driver[s].turn, driver[s].received)
    /\ UNCHANGED <<linkSessions, target, alarm, wake, cooldown, stops, ready, awaited,
                   crowded, shutdown>>

(* The finally block, after linkcheck_done: the target's entries go,       *)
(* whosever they are.  No one finds a session again that has no driver     *)
(* left; what is kept of it here is how many pings it sent.                *)
DriverEnds(s) ==
    /\ pc[s] \in {"done", "stopping"}
    /\ attempts' = [d \in Sessions |->
            IF d = driver[s].session /\ \A q \in Sessions \ {s} : driver[q].session # d
            THEN [n \in DOMAIN attempts[d] |-> FreshAttempt] ELSE attempts[d]]
    /\ linkSessions' = [linkSessions EXCEPT ![target[s]] = NoSession]
    /\ wake' = [wake EXCEPT ![target[s]] = NoSession]
    /\ cooldown' = IF status[driver[s].session] = "stopped" THEN cooldown
                   ELSE cooldown \cup {target[s]}
    /\ TaskEnds(s, ready)
    /\ UNCHANGED <<target, status, awaited, crowded, shutdown>>

CooldownPasses(t) ==
    /\ t \in cooldown
    /\ cooldown' = cooldown \ {t}
    /\ UNCHANGED <<linkSessions, sessionVars, driver, pc, alarm, wake, stops, ready, awaited,
                   crowded, shutdown>>

-----------------------------------------------------------------------------
(* Frames of a ping that was sent *)

(* _handle_linkcheck_echo: the last attempt of the target's session learns *)
(* the id, unless it has one.                                              *)
HandleEcho(id) ==
    LET s == linkSessions[target[id[1]]]
        n == Len(attempts[s])
    IN  /\ s # NoSession /\ attempts[s] # <<>>
        /\ attempts[s][n].ping = None
        /\ attempts' = [attempts EXCEPT ![s][n].ping = id]
        /\ UNCHANGED <<linkSessions, target, status, driver, pc, alarm, wake, cooldown, stops,
                       ready, awaited, crowded, shutdown>>

Matches(s, n, id) == attempts[s][n].ping = id

(* attempt.late: given up, or answered after the timeout has passed. *)
TooLate(s, n) ==
    \/ attempts[s][n].timedOut
    \/ \E q \in Sessions : driver[q].session = s /\ driver[q].at = n /\ "elapsed" \in alarm[q]

(* _handle_linkcheck_pong for a copy heard over LoRa: an attempt with the  *)
(* id is resolved (an earlier one that has it too may be too old) and the  *)
(* target's event is set, whichever attempt a driver waits for.  Copies    *)
(* that came by another way, that are repeated or that are too old change  *)
(* nothing modelled here.                                                  *)
HandlePong(id) ==
    LET t == target[id[1]]
        s == linkSessions[t]
    IN  /\ s # NoSession
        /\ \E n \in DOMAIN attempts[s] :
            /\ Matches(s, n, id)
            /\ ~Resolved(attempts[s][n])
            /\ attempts' = [attempts EXCEPT ![s][n].pong = id, ![s][n].late = TooLate(s, n)]
        /\ alarm' = [q \in Sessions |-> IF q = wake[t] THEN alarm[q] \cup {"woken"} ELSE alarm[q]]
        /\ UNCHANGED <<linkSessions, target, status, driver, pc, wake, cooldown, stops, ready,
                       awaited, crowded, shutdown>>

-----------------------------------------------------------------------------
(* Stop and shutdown *)

(* What cancelling the drivers in S does: one that never ran will end at   *)
(* its first step, one that is already reporting its stop goes straight to *)
(* its finally block, any other reports that its session is stopped.  The  *)
(* sessions in marked are stopped by the caller.                           *)
CancelDrivers(S, marked) ==
    /\ pc' = [s \in Sessions |->
                IF s \notin S THEN pc[s]
                ELSE IF Pending(s) THEN "cancelled"
                ELSE IF Driving(s) THEN "stopping" ELSE pc[s]]
    /\ status' = [d \in Sessions |->
                IF d \in marked \/ \E s \in S : Driving(s) /\ driver[s].session = d
                THEN "stopped" ELSE status[d]]

(* stop_link_check up to its await, or to its end if the driver is done. *)
StopLinkCheck(t) ==
    LET s == linkSessions[t]
    IN  /\ s # NoSession
        /\ CancelDrivers({s}, {s})
        /\ \/ /\ Live(s)
              /\ stops' = stops \cup {s}
              /\ UNCHANGED linkSessions
           \/ /\ ~Live(s)
              /\ linkSessions' = [linkSessions EXCEPT ![t] = NoSession]
              /\ UNCHANGED stops
        /\ UNCHANGED <<target, attempts, driver, alarm, wake, cooldown, ready, awaited,
                       crowded, shutdown>>

(* ... and after it: the key is popped once more, whoever holds it now. *)
StopReturns ==
    /\ ready # <<>> /\ Head(ready).step = "pop"
    /\ ready' = Tail(ready)
    /\ linkSessions' = [linkSessions EXCEPT ![target[Head(ready).session]] = NoSession]
    /\ UNCHANGED <<sessionVars, driver, pc, alarm, wake, cooldown, stops, awaited, crowded,
                   shutdown>>

(* stop_linkcheck cancels the drivers in S and awaits them. *)
Reap(S) ==
    /\ CancelDrivers(S, {})
    /\ awaited' = S
    /\ UNCHANGED <<linkSessions, wake, cooldown>>

AwaitedEnded == \A s \in awaited : ~Live(s)

(* The tables are cleared, whatever they hold now. *)
TablesCleared ==
    /\ shutdown' = "over"
    /\ linkSessions' = [t \in Targets |-> NoSession]
    /\ wake' = [t \in Targets |-> NoSession]
    /\ cooldown' = {}

(* The drivers outside the table, if any, are reaped too; if there are     *)
(* none, the tables are cleared without a further await.                   *)
ReapStrays ==
    LET strays == {s \in Sessions : Live(s)}
    IN  \/ /\ strays # {}
           /\ shutdown' = "strays"
           /\ Reap(strays)
        \/ /\ strays = {}
           /\ TablesCleared
           /\ UNCHANGED <<status, pc, awaited>>

Tabled == {s \in Sessions : \E t \in Targets : linkSessions[t] = s}

ShutdownBegins ==
    /\ shutdown = "no"
    /\ \/ /\ Tabled # {}
          /\ shutdown' = "drivers"
          /\ Reap(Tabled)
       \/ Tabled = {} /\ ReapStrays
    /\ UNCHANGED <<target, attempts, driver, alarm, stops, ready, crowded>>

ShutdownReapsStrays ==
    /\ shutdown = "drivers"
    /\ AwaitedEnded
    /\ ReapStrays
    /\ UNCHANGED <<target, attempts, driver, alarm, stops, ready, crowded>>

(* The strays have ended. *)
ShutdownClears ==
    /\ shutdown = "strays"
    /\ AwaitedEnded
    /\ TablesCleared
    /\ UNCHANGED <<sessionVars, driver, pc, alarm, stops, ready, awaited, crowded>>

DriverStep(s) ==
    \/ DriverBegins(s)
    \/ AwaitPong(s)
    \/ AttemptTimeout(s)
    \/ WaitEnds(s)
    \/ TimeoutReported(s)
    \/ DriverEnds(s)

Next ==
    \/ \E t \in Targets, s \in Sessions : StartLinkCheck(t, s)
    \/ \E s \in Sessions : DriverStep(s)
    \/ \E t \in Targets : CooldownPasses(t) \/ StopLinkCheck(t)
    \/ \E s \in Sessions : \E n \in DOMAIN attempts[s] :
            HandleEcho(<<s, n>>) \/ HandlePong(<<s, n>>)
    \/ StopReturns
    \/ ShutdownBegins
    \/ ShutdownReapsStrays
    \/ ShutdownClears

(* The event loop runs every ready task and every expired timer; the mesh  *)
(* owes us no echo and no pong.                                            *)
Fairness ==
    /\ \A s \in Sessions : WF_vars(DriverStep(s))
    /\ WF_vars(StopReturns)
    /\ WF_vars(ShutdownReapsStrays \/ ShutdownClears)

Spec == Init /\ [][Next]_vars /\ Fairness

-----------------------------------------------------------------------------
(* Properties *)

TypeOK ==
    /\ linkSessions \in [Targets -> Sessions \cup {NoSession}]
    /\ target \in [Sessions -> Targets \cup {None}]
    /\ status \in [Sessions -> {"running", "completed", "timeout", "stopped"}]
    /\ attempts \in [Sessions -> Seq(Attempt)]
    /\ driver \in [Sessions -> Driver]
    /\ pc \in [Sessions -> {"none", "created", "cancelled", "sent", "waiting", "timeout",
                            "done", "stopping", "dead"}]
    /\ alarm \in [Sessions -> SUBSET {"woken", "elapsed"}]
    /\ wake \in [Targets -> Sessions \cup {NoSession}]
    /\ cooldown \subseteq Targets
    /\ stops \subseteq Sessions
    /\ ready \in Seq([step : {"drive", "pop"}, session : Sessions])
    /\ awaited \subseteq Sessions
    /\ crowded \subseteq Targets
    /\ shutdown \in {"no", "drivers", "strays", "over"}

(* Until shutdown has cleared the table, no target is pinged by two        *)
(* drivers at once, whatever starts, stops and restarts race               *)
(* (start_link_check: no await between the checks and the insert),         *)
(* unless a start was let in while an earlier driver of the target had not *)
(* had its first step: a stop's second pop can take that driver's entry,   *)
(* and it then drives whatever session it finds.                           *)
OneDriverPerTarget ==
    shutdown # "over" =>
        \A r, s \in Sessions :
            /\ Driving(r) /\ Driving(s)
            /\ target[r] = target[s] /\ target[s] \notin crowded
            => r = s

(* ... and never more drivers than the cap transmit, such targets aside. *)
CapHolds ==
    shutdown # "over" =>
        Cardinality({s \in Sessions : Driving(s) /\ target[s] \notin crowded}) <= MaxConcurrent

(* An attempt counts as heard only because of a pong to its own ping, or,  *)
(* since the echo is matched by position, to an earlier ping to the same   *)
(* target whose echo came late; never to another target or a later ping    *)
(* (_handle_linkcheck_echo, _handle_linkcheck_pong).                       *)
ResolvedByOwnPong ==
    \A s \in Sessions : \A n \in DOMAIN attempts[s] :
        LET id == attempts[s][n].pong
        IN  id # None =>
                /\ target[id[1]] = target[s]
                /\ id[1] < s \/ (id[1] = s /\ id[2] <= n)

(* The status that linkcheck_done reports follows the attempts: "timeout"  *)
(* only when no pong came in time, "completed" only when an attempt was    *)
(* resolved before it was given up, even if its pong came before the       *)
(* driver began to wait (_run_link_check_session).                         *)
StatusMatchesAttempts ==
    \A s \in Sessions : pc[s] = "done" /\ target[s] \notin crowded =>
        LET d == driver[s].session
        IN  /\ status[d] = "timeout" =>
                \A n \in DOMAIN attempts[d] : Resolved(attempts[d][n]) => attempts[d][n].late
            /\ status[d] = "completed" =>
                \E n \in DOMAIN attempts[d] :
                    Resolved(attempts[d][n]) /\ ~attempts[d][n].timedOut

(* Both limits of start_link_check: one driver for a target, and no more   *)
(* than the cap allows.                                                    *)
DriversLimited == OneDriverPerTarget /\ CapHolds

(* What a session reports is what was heard (_handle_linkcheck_pong,       *)
(* _finish_session).                                                       *)
ReportIsTrue == TypeOK /\ ResolvedByOwnPong /\ StatusMatchesAttempts

(* A session that starts leaves link_sessions, so its target can be        *)
(* checked again, whether or not the mesh answers.                         *)
EverySessionEnds == \A t \in Targets : linkSessions[t] # NoSession ~> linkSessions[t] = NoSession

=============================================================================
