---------------------------- MODULE NodeIdentity ----------------------------
(***************************************************************************)
(* What McApp learns about its node while it runs: the address to send to  *)
(* (udp_handler.py), the node's call sign and its position (main.py), and  *)
(* the overlay file that carries all three over a restart                  *)
(* (runtime_state.py, config_loader.py).                                   *)
(*                                                                         *)
(* Two tasks learn: the UDP listener the address, the task of the BLE      *)
(* event stream the call sign and the position.  Each hands its news to a  *)
(* thread that reads the file, merges one entry and replaces the file, and *)
(* each waits for its own thread only.                                     *)
(***************************************************************************)
EXTENDS Integers

CONSTANTS
    None,
    Agendas,     \* what the world does, see the variable agenda
    Cooldown,    \* _TARGET_CHANGE_COOLDOWN_S
    MinDelta     \* GPS_PERSIST_MIN_DELTA_DEG

Unresolvable == "config"   \* the host name of config.json

ASSUME ParametersAssumption ==
    /\ Cooldown \in Nat \ {0} /\ MinDelta \in Nat \ {0}
    /\ None # Unresolvable
    /\ \A a \in Agendas :
        /\ DOMAIN a = {"datagrams", "nodes", "positions", "failures", "restarts"}
        /\ a.positions \subseteq Int
        /\ Unresolvable \notin {d[1] : d \in a.datagrams} \cup {n.ip : n \in a.nodes}

VARIABLES
    agenda,     \* datagrams of others, places and signs the node will yet have,
                \* positions, failing reads and writes, and restarts
    node,       \* our node as it is: its address and its call sign
    target,     \* target_address
    kind,       \* _target_kind
    cooling,    \* how long the last change of the target still counts as recent
    me,         \* my_callsign, of the router and everything it is applied to
    position,   \* lat, lon of the command handler and the weather; cached_gps from the first fix on
    persisted,  \* last_persisted_gps
    file,       \* runtime.json
    writer,     \* "udp" and "ble": the write each of the two tasks waits for
    torn        \* history: entries of the file a write has lost or a start not read

learned == <<target, kind, cooling, me, position, persisted>>
vars == <<agenda, node, learned, file, writer, torn>>

Keys == {"target", "call", "position"}
Empty == [k \in Keys |-> None]
NoWrite == [stage |-> "none", key |-> None, value |-> None, merged |-> Empty]

Spend(what, x) ==
    /\ x \in agenda[what]
    /\ agenda' = [agenda EXCEPT ![what] = @ \ {x}]

\* Config.load with what was read of the overlay, which wins over config.json; the
\* position is a pair there, and the command handler starts with it.
Starts(saved) ==
    /\ target' = IF saved["target"] = None THEN Unresolvable ELSE saved["target"]
    /\ kind' = "config"
    /\ cooling' = 0
    /\ me' = IF saved["call"] = None THEN "old" ELSE saved["call"]
    /\ position' = saved["position"]
    /\ persisted' = None

Init ==
    /\ agenda \in Agendas
    /\ node \in [ip : {"ip1"}, call : {"old", "new"}]
    /\ file \in {Empty, [target |-> "ip1", call |-> "old", position |-> None]}
    /\ target = IF file["target"] = None THEN Unresolvable ELSE "ip1"
    /\ kind = "config"
    /\ cooling = 0
    /\ me = "old"
    /\ position = None
    /\ persisted = None
    /\ writer = [w \in {"udp", "ble"} |-> NoWrite]
    /\ torn = {}

-----------------------------------------------------------------------------
(* save_runtime_state, in a thread *)

Save(w, key, value) ==
    writer' = [writer EXCEPT ![w] =
                  [stage |-> "read", key |-> key, value |-> value, merged |-> Empty]]

Merged(key, value) == [file EXCEPT ![key] = value]

\* load_runtime_state never raises: a file it cannot read is an empty one, and the
\* write will put back its own entry alone.
ReadFails(w) ==
    /\ writer[w].stage = "read"
    /\ Spend("failures", w)
    /\ writer' = [writer EXCEPT ![w].stage = "blind",
                                ![w].merged = [Empty EXCEPT ![writer[w].key] = writer[w].value]]
    /\ UNCHANGED <<node, learned, file, torn>>

ReadFile(w) ==
    /\ writer[w].stage = "read"
    /\ writer' = [writer EXCEPT ![w].stage = "replace",
                                ![w].merged = Merged(writer[w].key, writer[w].value)]
    /\ UNCHANGED <<agenda, node, learned, file, torn>>

\* What the other thread has read before, it will put back; what this one could not
\* read is gone.
ReplaceFile(w) ==
    /\ writer[w].stage \in {"replace", "blind"}
    /\ file' = writer[w].merged
    /\ LET lost == IF writer[w].stage = "blind" THEN Keys ELSE torn
       IN torn' = IF \E o \in {"udp", "ble"} \ {w} : writer[o].stage = "replace"
                  THEN lost \cup {writer[w].key} ELSE lost \ {writer[w].key}
    /\ writer' = [writer EXCEPT ![w] = NoWrite]
    /\ UNCHANGED <<agenda, node, learned>>

\* An OSError of the write is logged and forgotten.
WriteFails(w) ==
    /\ writer[w].stage \in {"replace", "blind"}
    /\ Spend("failures", w)
    /\ torn' = torn \cup {writer[w].key}
    /\ writer' = [writer EXCEPT ![w] = NoWrite]
    /\ UNCHANGED <<node, learned, file>>

-----------------------------------------------------------------------------
(* UDP *)

\* Mutant: a refused sender starts the cooldown anew.
Refuse_Prolongs == cooling' = Cooldown /\ UNCHANGED <<target, kind, writer>>

Refuse == UNCHANGED <<target, kind, cooling, writer>>

\* _adopt_target.
AdoptTarget(ip, as) ==
    \/ /\ ip = target
       /\ kind' = as
       /\ UNCHANGED <<target, cooling, writer>>
    \/ /\ ip # target
       /\ kind = "identified" /\ as = "identified" /\ cooling > 0
       /\ Refuse
    \/ /\ ip # target
       /\ ~(kind = "identified" /\ as = "identified" /\ cooling > 0)
       /\ target' = ip
       /\ kind' = as
       /\ cooling' = Cooldown
       /\ Save("udp", "target", ip)

\* _learn_target_from_source, for a source in our own network.
Learn(ip, src) ==
    \/ src = me /\ AdoptTarget(ip, "identified")
    \/ src # me /\ kind = "config" /\ AdoptTarget(ip, "first_seen")
    \/ src # me /\ kind # "config" /\ UNCHANGED <<target, kind, cooling, writer>>

\* Our node's own traffic, and that of others.
Hear ==
    /\ writer["udp"].stage = "none"
    /\ \/ Learn(node.ip, node.call) /\ UNCHANGED agenda
       \/ \E d \in agenda.datagrams : Spend("datagrams", d) /\ Learn(d[1], d[2])
    /\ UNCHANGED <<node, me, position, persisted, file, torn>>

Tick ==
    /\ cooling > 0
    /\ cooling' = cooling - 1
    /\ UNCHANGED <<agenda, node, target, kind, me, position, persisted, file, writer, torn>>

-----------------------------------------------------------------------------
(* BLE *)

\* _detect_node_identity with apply_callsign.
DetectIdentity ==
    /\ writer["ble"].stage = "none"
    /\ node.call # me
    /\ me' = node.call
    /\ Save("ble", "call", node.call)
    /\ UNCHANGED <<agenda, node, target, kind, cooling, position, persisted, file, torn>>

Near(p, q) == p # None /\ q # None /\ p - q < MinDelta /\ q - p < MinDelta

\* Mutant: compared with the last fix instead of the last that was written.
Worth_Drifts(p) == ~Near(p, position)

Worth(p) == ~Near(p, persisted)

\* _cache_gps.
CachePosition ==
    /\ writer["ble"].stage = "none"
    /\ \E p \in agenda.positions :
         /\ Spend("positions", p)
         /\ position' = p
         /\ IF Worth(p) THEN persisted' = p /\ Save("ble", "position", p)
            ELSE UNCHANGED <<persisted, writer>>
    /\ UNCHANGED <<node, target, kind, cooling, me, file, torn>>

-----------------------------------------------------------------------------
(* The world *)

NodeMoves ==
    /\ \E n \in agenda.nodes : Spend("nodes", n) /\ node' = n
    /\ UNCHANGED <<learned, file, writer, torn>>

\* The file is replaced in one step: a crash leaves the one or the other.  A start
\* that cannot read it goes on with config.json alone.
Restart ==
    /\ \/ Spend("restarts", "loaded") /\ Starts(file) /\ torn' = {}
       \/ Spend("restarts", "unread") /\ Starts(Empty) /\ torn' = Keys
    /\ writer' = [w \in {"udp", "ble"} |-> NoWrite]
    /\ UNCHANGED <<node, file>>

Next ==
    \/ \E w \in {"udp", "ble"} :
         ReadFile(w) \/ ReadFails(w) \/ ReplaceFile(w) \/ WriteFails(w)
    \/ Hear \/ Tick
    \/ DetectIdentity \/ CachePosition
    \/ NodeMoves \/ Restart

Fairness ==
    /\ \A w \in {"udp", "ble"} : WF_vars(ReadFile(w) \/ ReplaceFile(w))
    /\ SF_vars(Hear /\ agenda' = agenda)
    /\ SF_vars(DetectIdentity)
    /\ WF_vars(Tick)
Spec == Init /\ [][Next]_vars /\ Fairness

-----------------------------------------------------------------------------
(* Properties *)

Known(k) ==
    CASE k = "target" -> IF target = Unresolvable THEN None ELSE target
      [] k = "call" -> IF me = "old" /\ file[k] = None THEN None ELSE me
      [] OTHER -> position

\* What has been learned and written survives a restart: unless the write failed,
\* another overlapped it or put back a file it could not read, or the start could not
\* read it (torn), the file holds what is in use, the position to within the distance
\* that is worth a write (save_runtime_state, load_runtime_state, _cache_gps).
OverlayKept ==
    \A k \in Keys \ torn :
        writer[IF k = "target" THEN "udp" ELSE "ble"].stage = "none" =>
            \/ file[k] = Known(k)
            \/ k = "position" /\ Near(file[k], position)

\* However others disturb it, the messages go to our node in the end, also after
\* it got another address or was replaced by one with another call sign
\* (_learn_target_from_source, _adopt_target, _detect_node_identity).
SendsReachNode == <>[](target = node.ip)
=============================================================================
