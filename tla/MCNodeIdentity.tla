-------------------------- MODULE MCNodeIdentity --------------------------
(* A stranger, a double that uses our call sign, a node that moves and one *)
(* that is replaced, positions that drift, failing reads and writes, and   *)
(* restarts that read the overlay or cannot.                               *)
EXTENDS NodeIdentity

Agenda(datagrams, nodes, positions, failures, restarts) ==
    [datagrams |-> datagrams, nodes |-> nodes, positions |-> positions,
     failures |-> failures, restarts |-> restarts]

Stranger == <<"ip8", "stranger">>
Double == <<"ip9", "old">>
Moved == [ip |-> "ip2", call |-> "old"]
Replaced == [ip |-> "ip3", call |-> "new"]

MCAgendas == {
    Agenda({Stranger, Double}, {Moved}, {0}, {}, {"loaded"}),
    Agenda({Double}, {Replaced}, {0, 2, 4}, {}, {}),
    Agenda({Double, <<"ip8", "new">>}, {Replaced}, {0}, {"udp", "ble"}, {}),
    Agenda({}, {Moved, Replaced}, {}, {"ble"}, {"unread", "loaded"}),
    Agenda({}, {Moved}, {0, 4}, {"udp"}, {"loaded"})
}
=============================================================================
