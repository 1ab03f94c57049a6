----------------------------- MODULE MCBLELink -----------------------------
(* Ten agendas: links that drop, streams that break, answers and requests *)
(* that get lost, a service that restarts, alone and beside a command.     *)
EXTENDS BLELink

Agenda(coming, drops, losses, faults, breaks, restarts) ==
    [coming |-> coming, drops |-> drops, losses |-> losses, faults |-> faults,
     breaks |-> breaks, restarts |-> restarts]

MCAgendas == {
    Agenda({}, 1, 0, 0, 1, 0),
    Agenda({<<"connect", "n1">>}, 1, 0, 0, 0, 0),
    Agenda({}, 0, 1, 1, 1, 0),
    Agenda({<<"ensure", "n1">>, <<"disconnect", "n1">>}, 0, 1, 0, 0, 0),
    Agenda({<<"connect", "n1">>, <<"info", "n1">>}, 0, 0, 0, 0, 0),
    Agenda({<<"ensure", "n2">>}, 0, 1, 0, 0, 0),
    Agenda({<<"info", "n2">>}, 0, 1, 0, 0, 1),
    Agenda({<<"cancel", "n1">>}, 1, 0, 1, 0, 0),
    Agenda({<<"connect", "n2">>}, 0, 0, 2, 0, 0),
    Agenda({<<"disconnect", "n1">>}, 0, 0, 1, 0, 0)
}
=============================================================================
