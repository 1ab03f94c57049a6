------------------------------ MODULE MCCTCPing ------------------------------
(* One test of two probes. *)
EXTENDS CTCPing, TLC

CONSTANTS t1

OneTest == {t1}
TwoOnly == t1 :> 2
OwnTargets == t1 :> "A"
=============================================================================
