------------------------------ MODULE MCIngest ------------------------------
(* Agendas: copies of one message beside its ACKs, signals over several    *)
(* buckets, a beacon with weather in two copies, and heard lines.          *)
EXTENDS Ingest, TLC

Dry == [f \in Fields |-> absent]
Nothing == [kind |-> "text", id |-> None, src |-> "a", hop |-> "a", dst |-> "all", radio |-> FALSE,
            place |-> FALSE, weather |-> Dry, echo |-> None, acks |-> None, ack |-> None]

Text == [Nothing EXCEPT !.id = 1, !.src = "me", !.echo = 7, !.dst = "b"]
Other == [Nothing EXCEPT !.id = 1, !.src = "c"]
Reply == [Nothing EXCEPT !.id = 2, !.acks = 7, !.dst = "me"]
Peer == [Nothing EXCEPT !.kind = "ack", !.id = 1, !.ack = "peer"]
Node == [Nothing EXCEPT !.kind = "ack", !.id = 1, !.ack = "node"]

Heard(id) == [Nothing EXCEPT !.id = id, !.radio = TRUE]
Relayed(id) == [Nothing EXCEPT !.id = id, !.radio = TRUE, !.hop = "b"]
Line == [Nothing EXCEPT !.kind = "mheard", !.radio = TRUE]
Probe == [Nothing EXCEPT !.kind = "probe", !.id = 9, !.radio = TRUE]

With(t, q) == [Dry EXCEPT !["temp"] = t, !["qfe"] = q]
Beacon == [Nothing EXCEPT !.kind = "pos", !.id = 3, !.place = TRUE]
Wet == [Beacon EXCEPT !.weather = With(measured(1), measured(1))]
Tele(t, q) == [Nothing EXCEPT !.kind = "tele", !.weather = With(t, q)]

Agenda(coming, ticks, restarts, faults, deletes) ==
    [coming |-> coming, ticks |-> ticks, restarts |-> restarts, faults |-> faults, deletes |-> deletes]

MCAgendas == {
    Agenda({<<"udp", Text>>, <<"ble", Text>>, <<"udp", Other>>, <<"udp", Peer>>, <<"ble", Node>>}, 1, 0, 0, {"b"}),
    Agenda({<<"udp", Text>>, <<"ble", Text>>, <<"udp", Reply>>, <<"ble", Reply>>}, 3, 1, 1, {}),
    Agenda({<<"udp", Heard(1)>>, <<"udp", Heard(3)>>, <<"ble", Line>>}, 4, 1, 0, {}),
    Agenda({<<"udp", Heard(1)>>, <<"udp", Relayed(2)>>, <<"udp", Relayed(4)>>}, 4, 1, 0, {}),
    Agenda({<<"udp", Probe>>, <<"ble", Line>>, <<"udp", Relayed(2)>>}, 3, 0, 1, {}),
    Agenda({<<"udp", Beacon>>, <<"ble", Wet>>, <<"udp", Tele(measured(2), derived(2))>>, <<"ble", Tele(absent, measured(3))>>},
           3, 0, 1, {})
}
=============================================================================
