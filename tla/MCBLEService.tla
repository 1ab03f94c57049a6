---------------------------- MODULE MCBLEService ----------------------------
EXTENDS BLEService, FiniteSets, TLC

(* Nodes and requests are interchangeable.                                 *)
MCSym == Permutations(Nodes) \cup Permutations(Requests)

Handlers == stale.watch \cup stale.notify
NodesInUse ==
    links \cup signals \cup Handlers
    \cup (({mac, iface, chars, saved, lastMac} \cup {job[j].node : j \in Jobs}) \ {None})

AtWork == {r \in Requests : Running(r)}
FirstTries == \A j \in Jobs : job[j].attempt <= 1 /\ job[j].try <= 1

(* Over one node: two requests and the ladder, each at its first try, or   *)
(* one request beside the ladder and the startup connect, with every try.  *)
OverOneNode ==
    /\ Cardinality(NodesInUse) <= 1
    /\ Cardinality(AtWork) <= 1 \/ (FirstTries /\ ~Running(auto))

(* Among several: one request beside the ladder, while at most one node    *)
(* has a link or a watching handler, and one a handler or a signal.        *)
AmongNodes ==
    /\ Cardinality(AtWork) <= 1 /\ FirstTries /\ ~Running(auto)
    /\ Cardinality(links \cup stale.watch) <= 1
    /\ Cardinality(Handlers \cup signals) <= 1

MCSmall == OverOneNode \/ AmongNodes
=============================================================================
