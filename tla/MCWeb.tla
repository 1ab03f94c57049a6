------------------------------- MODULE MCWeb -------------------------------
(***************************************************************************)
(* In an initial state one of the three components has something to do, or *)
(* the ban of a stream's scenario can be lifted: a sum of scenarios in     *)
(* place of their product.                                                 *)
(***************************************************************************)
EXTENDS WebSide

\* Streams: rows, copies on their way, visits <<browser, time>>.
Row(ts, sender, personal) == [ts |-> ts, no |-> ts, sender |-> sender, personal |-> personal]
In(lane, row) == [lane |-> lane, row |-> row]
Stage(history_, coming, connects, drops, moves, bans, pages, stops) ==
    [history |-> history_, coming |-> coming, connects |-> connects, drops |-> drops,
     moves |-> moves, bans |-> bans, pages |-> pages, stops |-> stops, faults |-> {}]
With(set, agenda) == [agenda EXCEPT !.faults = set]

r1 == Row(1, "ann", FALSE)
r2 == Row(2, "bob", TRUE)
r3 == Row(3, "ann", FALSE)
r4 == Row(4, "bob", FALSE)
r5 == Row(5, "ann", FALSE)
twin == [r1 EXCEPT !.no = 9]
b1 == "b1"
b2 == "b2"

Banning == Stage({r1}, {In("udp", r2), In("ble", r4)}, {<<b1, 1>>, <<b1, 2>>}, {b1}, {}, {"bob"}, {b1}, {})

Streams == {
    Stage({r1}, {In("udp", r2), In("ble", r2), In("ble", r3)}, {<<b1, 1>>, <<b2, 1>>}, {}, {}, {"bob"}, {}, {}),
    Stage({r1, r2, r3}, {In("udp", r4), In("ble", r5)}, {<<b1, 1>>, <<b1, 2>>}, {b1}, {}, {"bob"}, {b1}, {"stop"}),
    Stage({r1, twin, r3}, {In("udp", r4)}, {<<b1, 1>>}, {}, {}, {}, {b1}, {}),
    Stage({r1}, {In("udp", r2)}, {<<b1, 1>>, <<b2, 1>>}, {}, {1, 2}, {}, {}, {}),
    With({"snapshot", "state"},
         Stage({r1}, {In("udp", r3)}, {<<b1, 1>>, <<b1, 2>>}, {b1}, {1}, {}, {b1}, {})),
    Banning
}
NoStage == Stage({}, {}, {}, {}, {}, {}, {}, {})

\* Notifications.
Copy(key, kind, path) ==
    [key |-> key, kind |-> kind, path |-> path, eligible |-> TRUE, sender |-> "ann"]
Req(e, wants) == [endpoint |-> e, wants |-> wants]
Duty(ms, requests, gone, barred, unblock, ends) ==
    [messages |-> ms, requests |-> requests, gone |-> gone, blocked |-> barred,
     unblock |-> unblock, ends |-> ends]

Duties == {
    Duty({Copy("k1", "dm", "udp"), Copy("k1", "dm", "ble"), Copy("k2", "group", "udp")},
         {Req("e1", {"dm"}), Req("e2", {"dm", "group"})}, {}, {}, {}, {}),
    Duty({Copy("k1", "dm", "udp"), Copy("k2", "dm", "udp"), Copy("k3", "dm", "ble")},
         {Req("e1", {"dm"}), Req("e1", {})}, {"e1"}, {}, {}, {}),
    Duty({Copy("k1", "dm", "udp"), Copy("k1", "dm", "ble")},
         {Req("e1", {"dm"}), Req("e1", {"group"})}, {}, {}, {}, {"stop", "restart"}),
    Duty({Copy("k1", "dm", "udp"), [Copy("k1", "dm", "ble") EXCEPT !.sender = "bob"],
          [Copy("k2", "dm", "udp") EXCEPT !.eligible = FALSE]},
         {Req("e1", {"dm"})}, {}, {"bob"}, {"bob"}, {})
}
NoDuty == Duty({}, {}, {}, {}, {}, {})
\* A ban that is lifted beside a stream.
Lift == Duty({}, {}, {}, {}, {"bob"}, {})

\* The classifier.
Chores(fresh, old, coming, edits, forced, jobs, stuck, restarts) ==
    [fresh |-> fresh, old |-> old, coming |-> coming, edits |-> edits, forced |-> forced,
     jobs |-> jobs, stuck |-> stuck, restarts |-> restarts, faults |-> {}]

Rulings == {
    Chores(TRUE, {1, 2, 3}, {4}, {}, {}, {}, {1}, {}),
    Chores(TRUE, {1, 2, 3}, {}, {}, {}, {}, {1, 2}, {}),
    Chores(TRUE, {1, 2}, {}, {"ann"}, {}, {"ann"}, {}, {}),
    Chores(TRUE, {1}, {4}, {"ann"}, {}, {}, {}, {"upgrade"}),
    Chores(FALSE, {}, {4}, {"ann"}, {"bob"}, {}, {}, {}),
    Chores(TRUE, {1, 2, 3}, {}, {}, {"bob"}, {}, {}, {"plain"}),
    With({"judge", "batch", "boot"}, Chores(TRUE, {1, 2, 3}, {4}, {}, {}, {}, {}, {"plain"})),
    With({"judge", "edit"}, Chores(FALSE, {}, {4}, {"ann"}, {"bob"}, {}, {}, {}))
}
NoRuling == Chores(FALSE, {}, {}, {}, {}, {}, {}, {})

MCStreamAgendas == Streams \cup {NoStage}
MCPushAgendas == Duties \cup {NoDuty, Lift}
MCRuleAgendas == Rulings \cup {NoRuling}

\* One at a time.
MCInit ==
    /\ WebInit
    /\ Cardinality({i \in 1..3 : <<scene # NoStage, world \notin {NoDuty, Lift}, chores # NoRuling>>[i]}) = 1
    /\ world = Lift => scene = Banning

MCSpec == MCInit /\ [][WebNext]_webVars /\ RuleFairness
=============================================================================
