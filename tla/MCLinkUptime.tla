----------------------------- MODULE MCLinkUptime -----------------------------
(* A small instance of LinkUptime: the three copies of one beacon that      *)
(* is_uplink_time_beacon tells apart.                                       *)
EXTENDS LinkUptime, Sequences

MCFrames ==
    { [cet |-> TRUE, src_type |-> "udp", src |-> <<"server">>, via |-> <<>>],
      [cet |-> TRUE, src_type |-> "ble_remote", src |-> <<"server">>, via |-> <<"server">>],
      [cet |-> TRUE, src_type |-> "lora", src |-> <<"far", "r1">>, via |-> <<"r1">>],
      [cet |-> FALSE, src_type |-> "udp", src |-> <<"peer">>, via |-> <<>>] }
=============================================================================
