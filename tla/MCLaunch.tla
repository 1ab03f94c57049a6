------------------------------ MODULE MCLaunch ------------------------------
(* Pairs of what the process and what the launches go through. *)
EXTENDS Convergence

Course(starts, stops, signals, hung, broken) ==
    [starts |-> starts, stops |-> stops, signals |-> signals, hung |-> hung, broken |-> broken]
Plan(users, reboots, wakes, good, sane, strict) ==
    [users |-> users, reboots |-> reboots, wakes |-> wakes, good |-> good, sane |-> sane,
     strict |-> strict]

Still == Course({}, {}, 0, {}, {})
Stopped == Course({}, {"signal"}, 0, {}, {})
Courses == {
    Course({"reconciler", "hydration", "linkcheck"}, {"signal"}, 1, {"ble"}, {}),
    Course({"reconciler", "responses"}, {"console", "kill"}, 0, {}, {"udp"}),
    Course({"ctcping", "beacons"}, {"signal"}, 1, {"beacons", "sse"}, {})
}
\* A box that has been tried in this boot has nothing to launch.
Bored == Plan({}, 0, 0, TRUE, FALSE, FALSE)
Busy == {
    Plan({"ann", "bob"}, 0, 0, TRUE, TRUE, FALSE),
    Plan({"ann"}, 0, 0, FALSE, TRUE, TRUE),
    Plan({}, 1, 1, FALSE, TRUE, FALSE),
    Plan({}, 0, 1, TRUE, TRUE, FALSE),
    Plan({"ann"}, 0, 0, TRUE, FALSE, FALSE)
}
MCAgendas == Courses \cup {Still, Stopped}
MCPlans == Busy \cup {Bored}

MCInit ==
    /\ Init
    /\ \/ agenda \in Courses /\ plan = Bored
       \/ agenda = Still /\ plan \in Busy
       \/ agenda = Stopped /\ plan \in Busy /\ (plan.users = {} \/ ~plan.sane)

MCSpec == MCInit /\ [][Next]_vars /\ Fairness
=============================================================================
