----------------------------- MODULE MCCommands -----------------------------
(* Five agendas: copies and echoes of one command, bans beside a curated   *)
(* list that changes, a list that is cleared beside them, beacons of one   *)
(* group, and a mixture.                                                   *)
EXTENDS Commands, TLC

Msg(id, src, dst, target, op, arg) ==
    [id |-> id, src |-> src, dst |-> dst, target |-> target, op |-> op, arg |-> arg]

Time == Msg(1, "peer", "me", "none", "time", "")
Elsewhere == Msg(2, "me", "peer", "peer", "stats", "")
Here == Msg(3, "me", "peer", "me", "stats", "")
Asked == Msg(4, "peer", "group", "me", "stats", "")
On == Msg(5, "mate", "me", "none", "on", "")
Ban == Msg(6, "me", "all", "none", "ban", "peer")
BanAgain == Msg(7, "mate", "me", "none", "ban", "peer")
BanMate == Msg(8, "me", "all", "none", "ban", "mate")
Unban == Msg(9, "mate", "me", "none", "unban", "peer")
Clear == Msg(10, "me", "group", "none", "clear", "")
Begin1 == Msg(11, "mate", "me", "none", "beacon", "20")
Begin2 == Msg(12, "me", "all", "none", "beacon", "20")
Silence == Msg(13, "mate", "group", "me", "silence", "20")

Both(m) == {"udp", "ble"} \X {m}
Agenda(coming, lists, ticks) == [coming |-> coming, lists |-> lists, ticks |-> ticks]

MCAgendas == {
    Agenda(Both(Time) \cup {<<"self", Elsewhere>>, <<"self", Here>>} \cup Both(Elsewhere), <<{}>>, 3),
    Agenda({<<"self", Ban>>, <<"udp", Unban>>, <<"ble", BanAgain>>}, <<{"peer", "stranger"}, {"stranger"}>>, 0),
    Agenda({<<"self", Clear>>, <<"udp", Unban>>, <<"ble", BanAgain>>}, <<{"peer"}, {"stranger"}>>, 0),
    Agenda({<<"udp", Begin1>>, <<"self", Begin2>>, <<"ble", Silence>>}, <<{}>>, 0),
    Agenda({<<"udp", On>>, <<"self", Ban>>, <<"self", BanMate>>, <<"ble", Asked>>, <<"udp", Asked>>}, <<{}>>, 2)
}
=============================================================================
