----------------------------- MODULE MCLinkCheck -----------------------------
(* Two targets; a session of two attempts between two of a single attempt. *)
EXTENDS LinkCheck, TLC

CONSTANTS a, b

MCTargets == {a, b}
MCSessions == 1 .. 3
MCTotal == <<1, 2, 1>>
=============================================================================
