----------------------------- MODULE Lifecycle -----------------------------
(***************************************************************************)
(* Start and end of the gateway's process (main.py).                       *)
(*                                                                         *)
(* build_app brings up one service after the other; the UDP handler        *)
(* listens before the others.  A signal or a q on the console sets the     *)
(* stop event; main then cancels the background loops and goes down a      *)
(* ladder, reaping one kind of task or stopping one transport at a time.   *)
(* While it waits on a rung, messages, events of the BLE stream and        *)
(* requests of browsers still come in over whatever has not been stopped.  *)
(***************************************************************************)
EXTENDS Integers, Sequences, SequencesExt, FiniteSets

CONSTANTS
    Agendas   \* what the world does, see the variable agenda

VARIABLES
    agenda,     \* starts: kinds of work that messages, events and requests will start;
                \* stops, signals: left; hung, broken: transports whose stop hangs or raises
    stage,      \* where main is
    waiting,    \* main awaits the tasks or the transport of its rung
    fresh,      \* the first signal is less than _FORCE_EXIT_WINDOW_S ago
    loops,      \* background loops that run
    work,       \* kinds of work there are tasks of
    up,         \* transports
    late,       \* history: kinds started from outside after their rung was begun
    exit        \* how the process ended

lifeVars == <<agenda, stage, waiting, fresh, loops, work, up, late, exit>>

Build == <<"storage", "rules", "cursors", "kickbans", "listen", "link", "serve">>
Opens == [listen |-> "udp", link |-> "ble", serve |-> "sse"]

\* Mutant: the hydration is reaped before the reconciler.
Ladder_HydrationFirst ==
    <<"loops", "beacons", "dedup", "responses", "linkcheck", "ctcping", "hydration", "reconciler",
      "ble", "udp", "sse">>

\* _cancel_background_tasks and _shutdown_services
Ladder ==
    <<"loops", "beacons", "dedup", "responses", "linkcheck", "ctcping", "reconciler", "hydration",
      "ble", "udp", "sse">>

BackgroundLoops == {"prune", "stats", "sperrliste", "converge", "heartbeat"}

Place(rung) == CHOOSE i \in DOMAIN Ladder : Ladder[i] = rung
Stopping == stage \in Range(Ladder)
Alive == stage # "gone"

\* The rung of this kind of work has been begun.
Passed(w) ==
    /\ Stopping
    /\ Place(w) < Place(stage) \/ (w = stage /\ waiting)

LifeInit ==
    /\ agenda \in Agendas
    /\ stage = Build[1]
    /\ waiting = FALSE /\ fresh = FALSE
    /\ loops = {} /\ work = {} /\ up = {} /\ late = {}
    /\ exit = "none"

-----------------------------------------------------------------------------
(* build_app *)

\* The command handler starts its cleanup task, the BLE client may find a link that
\* is up and have it hydrated.
BuildStep ==
    /\ stage \in Range(Build)
    /\ LET i == CHOOSE n \in DOMAIN Build : Build[n] = stage IN
          IF i < Len(Build)
          THEN stage' = Build[i + 1] /\ UNCHANGED loops
          ELSE stage' = "up" /\ loops' = BackgroundLoops     \* _start_background_tasks
    /\ up' = IF stage \in DOMAIN Opens THEN up \cup {Opens[stage]} ELSE up
    /\ work' \in CASE stage = "kickbans" -> {work \cup {"dedup"}}
                   [] stage = "link" -> {work, work \cup {"hydration"}}
                   [] OTHER -> {work}
    /\ UNCHANGED <<agenda, waiting, fresh, late, exit>>

\* Before the handlers are installed a signal ends the process.
KilledEarly ==
    /\ stage \in Range(Build)
    /\ "kill" \in agenda.stops
    /\ agenda' = [agenda EXCEPT !.stops = @ \ {"kill"}]
    /\ stage' = "gone" /\ exit' = "killed"
    /\ loops' = {} /\ work' = {} /\ up' = {} /\ late' = {}
    /\ UNCHANGED <<waiting, fresh>>

-----------------------------------------------------------------------------
(* The stop event *)

\* The first signal, or q on the console, which is no signal.
StopRequested ==
    /\ stage = "up"
    /\ \E how \in agenda.stops \ {"kill"} :
          /\ agenda' = [agenda EXCEPT !.stops = @ \ {how}]
          /\ fresh' = (how = "signal")
    /\ stage' = Head(Ladder)
    /\ UNCHANGED <<waiting, loops, work, up, late, exit>>

WindowOver ==
    /\ fresh
    /\ fresh' = FALSE
    /\ UNCHANGED <<agenda, stage, waiting, loops, work, up, late, exit>>

\* handle_shutdown once the event is set: a second signal is ignored in the window
\* and forces the exit after it.
SecondSignal ==
    /\ Stopping
    /\ agenda.signals > 0
    /\ agenda' = [agenda EXCEPT !.signals = @ - 1]
    /\ IF fresh THEN UNCHANGED <<stage, waiting, loops, work, up, late, exit>>
       ELSE /\ stage' = "gone" /\ exit' = "forced" /\ waiting' = FALSE
            /\ loops' = {} /\ work' = {} /\ up' = {} /\ late' = {}
    /\ UNCHANGED fresh

-----------------------------------------------------------------------------
(* The ladder *)

Gone(how) ==
    /\ stage' = "gone" /\ exit' = how
    /\ waiting' = FALSE /\ fresh' = FALSE
    /\ loops' = {} /\ work' = {} /\ up' = {} /\ late' = {}

\* All services stopped: main ends the process itself.
Onward ==
    IF stage = Last(Ladder) THEN Gone("clean")
    ELSE stage' = Ladder[Place(stage) + 1] /\ waiting' = FALSE /\ UNCHANGED <<fresh, exit>>

\* What there is of this kind is cancelled; the handle is forgotten first.
Descend ==
    /\ Stopping /\ ~waiting
    /\ waiting' = TRUE
    /\ loops' = IF stage = "loops" THEN {} ELSE loops
    /\ work' = work \ {stage}
    /\ UNCHANGED <<agenda, stage, fresh, up, late, exit>>

\* The cancelled tasks have ended, the transport has stopped.
Reaped ==
    /\ Stopping /\ waiting
    /\ stage \notin agenda.hung \cup agenda.broken
    /\ Onward
    /\ IF stage = Last(Ladder) THEN TRUE
       ELSE up' = up \ {stage} /\ UNCHANGED <<loops, work, late>>
    /\ UNCHANGED agenda

\* Mutant: a stop is awaited as long as it takes.
TimedOut_Never == {}

\* The rungs under wait_for
TimedOut == {"beacons", "ble", "udp", "sse"}

TimeOut ==
    /\ Stopping /\ waiting
    /\ stage \in agenda.hung \cap TimedOut
    /\ Onward
    /\ IF stage = Last(Ladder) THEN TRUE ELSE UNCHANGED <<loops, work, up, late>>
    /\ UNCHANGED agenda

\* Any other exception leaves main; asyncio.run ends what is left.
Raise ==
    /\ Stopping /\ waiting
    /\ stage \in agenda.broken
    /\ Gone("error")
    /\ UNCHANGED agenda

LadderStep == Descend \/ Reaped \/ TimeOut \/ Raise

-----------------------------------------------------------------------------
(* What goes on meanwhile *)

\* What it takes to start a kind of work from outside: chat commands come over the
\* radio, link checks and connects from browsers, events from the BLE stream.
Sources(w) ==
    CASE w \in {"beacons", "responses", "ctcping"} -> {"udp", "ble"}
      [] w = "linkcheck" -> {"sse", "udp", "ble"}
      [] w = "hydration" -> {"sse", "ble"}
      [] OTHER -> {"ble"}

StartWork ==
    \E w \in agenda.starts :
        /\ up \cap Sources(w) # {}
        /\ agenda' = [agenda EXCEPT !.starts = @ \ {w}]
        /\ work' = work \cup {w}
        /\ late' = IF Passed(w) /\ w \notin work THEN late \cup {w} ELSE late
        /\ UNCHANGED <<stage, waiting, fresh, loops, up, exit>>

\* A check of the reconciler finds registers missing and schedules a hydration.
Rehydrate ==
    /\ "reconciler" \in work /\ "hydration" \notin work
    /\ work' = work \cup {"hydration"}
    /\ late' = IF "reconciler" \in late THEN late \cup {"hydration"} ELSE late
    /\ UNCHANGED <<agenda, stage, waiting, fresh, loops, up, exit>>

EndWork ==
    \E w \in work \ {"dedup"} :
        /\ work' = work \ {w}
        /\ late' = late \ {w}
        /\ UNCHANGED <<agenda, stage, waiting, fresh, loops, up, exit>>

\* systemd starts the service again.
NewProcess ==
    /\ stage = "gone"
    /\ stage' = Build[1]
    /\ exit' = "none"
    /\ UNCHANGED <<agenda, waiting, fresh, loops, work, up, late>>

LifeNext ==
    \/ BuildStep \/ KilledEarly \/ StopRequested \/ WindowOver \/ SecondSignal
    \/ LadderStep \/ StartWork \/ Rehydrate \/ EndWork \/ NewProcess

-----------------------------------------------------------------------------
(* Properties *)

\* Once the BLE client is being stopped nothing hydrates registers over it any more,
\* but what an event or a request started after that work had been reaped
\* (_shutdown_services: the reconciler is cancelled first, since it can arm a fresh
\* sweep while the one before is torn down).
RegistersReaped ==
    Stopping /\ Place(stage) >= Place("ble") => work \cap {"reconciler", "hydration"} \subseteq late

\* A process that has been asked to stop ends, whatever transport hangs
\* (_shutdown_services).
ShutdownEnds == Stopping ~> ~Stopping
=============================================================================
