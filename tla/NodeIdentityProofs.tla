------------------------- MODULE NodeIdentityProofs -------------------------
(***************************************************************************)
(* For any traffic, moves, positions, failures and restarts: what a write  *)
(* of the overlay puts back is what the file holds, or torn lists it, so   *)
(* the file holds what has been learned.                                   *)
(***************************************************************************)
EXTENDS NodeIdentity, TLAPS

Writers == {"udp", "ble"}

(* The task that learns an entry. *)
TaskOf(k) == IF k = "target" THEN "udp" ELSE "ble"

Pending(k) == writer[TaskOf(k)].stage # "none" /\ writer[TaskOf(k)].key = k

(* What an entry is in memory. *)
InUse(k) == IF k = "target" THEN target ELSE IF k = "call" THEN me ELSE position

Good(k) == file[k] = Known(k) \/ (k = "position" /\ Near(file[k], position))

AgendaInv ==
    /\ DOMAIN agenda = {"datagrams", "nodes", "positions", "failures", "restarts"}
    /\ Unresolvable \notin {d[1] : d \in agenda.datagrams} \cup {n.ip : n \in agenda.nodes}
    /\ node.ip # Unresolvable

WriterType ==
    /\ DOMAIN writer = Writers
    /\ \A w \in Writers :
        /\ DOMAIN writer[w] = {"stage", "key", "value", "merged"}
        /\ writer[w].stage \in {"none", "read", "replace", "blind"}
    /\ DOMAIN file = Keys
    /\ file["target"] # Unresolvable

(* A write is under way for what is in use; meanwhile its task learns      *)
(* nothing.                                                                *)
WriteInv ==
    \A w \in Writers : writer[w].stage # "none" =>
        /\ writer[w].key \in Keys /\ TaskOf(writer[w].key) = w
        /\ writer[w].value = InUse(writer[w].key)
        /\ writer[w].key = "target" => writer[w].value # Unresolvable

(* What a write is about to put back: its own entry and, if it could read  *)
(* the file, the others.                                                   *)
MergeInv ==
    \A w \in Writers :
        /\ writer[w].stage \in {"replace", "blind"} =>
             /\ DOMAIN writer[w].merged = Keys
             /\ writer[w].merged[writer[w].key] = writer[w].value
             /\ writer[w].merged["target"] # Unresolvable
        /\ writer[w].stage = "replace" =>
             \A k \in Keys \ torn : k # writer[w].key => writer[w].merged[k] = file[k]

(* The position is compared with the last one handed to a write.           *)
PersistedInv ==
    /\ Pending("position") => persisted = position
    /\ "position" \notin torn /\ ~Pending("position") /\ persisted # None
            => file["position"] = persisted

KeptInv == \A k \in Keys \ torn : ~Pending(k) => Good(k)

IInv == AgendaInv /\ WriterType /\ WriteInv /\ MergeInv /\ PersistedInv /\ KeptInv

LEMMA GoodIs ==
    /\ Good("target") <=> file["target"] = (IF target = Unresolvable THEN None ELSE target)
    /\ Good("call") <=> file["call"] = (IF me = "old" /\ file["call"] = None THEN None ELSE me)
    /\ Good("position") <=> file["position"] = position \/ Near(file["position"], position)
BY DEF Good, Known

\* The same of the next state.
LEMMA GoodNext ==
    /\ Good("target")' <=> file'["target"] = (IF target' = Unresolvable THEN None ELSE target')
    /\ Good("call")' <=>
           file'["call"] = (IF me' = "old" /\ file'["call"] = None THEN None ELSE me')
    /\ Good("position")' <=> file'["position"] = position' \/ Near(file'["position"], position')
BY DEF Good, Known, Near

LEMMA NearIsSymmetric == \A p, q : Near(p, q) => Near(q, p)
BY DEF Near

LEMMA InitIInv == Init => IInv
<1> SUFFICES ASSUME Init PROVE IInv
  OBVIOUS
<1>1. AgendaInv
  BY ParametersAssumption DEF Init, AgendaInv, Unresolvable
<1>2. \A w \in Writers : writer[w] = NoWrite
  BY DEF Init, Writers
<1>3. WriterType
  <2>1. DOMAIN file = Keys /\ file["target"] \in {None, "ip1"}
    BY DEF Init, Empty, Keys
  <2>2. file["target"] # Unresolvable
    BY <2>1, ParametersAssumption DEF Unresolvable
  <2>3. DOMAIN writer = Writers
    BY DEF Init, Writers
  <2>4. DOMAIN NoWrite = {"stage", "key", "value", "merged"} /\ NoWrite.stage = "none"
    BY DEF NoWrite
  <2> QED BY <1>2, <2>1, <2>2, <2>3, <2>4 DEF WriterType
<1>4. \A k \in Keys : Good(k)
  <2>1. file["target"] \in {None, "ip1"} /\ file["call"] \in {None, "old"} /\ file["position"] = None
    BY DEF Init, Empty, Keys
  <2>2. "ip1" # Unresolvable
    BY DEF Unresolvable
  <2> QED BY <2>1, <2>2, GoodIs, ParametersAssumption DEF Init, Keys
<1> QED
  BY <1>1, <1>2, <1>3, <1>4 DEF Init, IInv, WriteInv, MergeInv, PersistedInv, KeptInv, NoWrite,
                                 Pending, TaskOf, Writers

(* A task that waits for nothing hands entry k to its write. *)
LEMMA SaveStep ==
    ASSUME IInv, AgendaInv', NEW k \in Keys, writer[TaskOf(k)].stage = "none",
           Save(TaskOf(k), k, InUse(k)'), UNCHANGED <<file, torn>>,
           \A j \in Keys \ {k} : InUse(j)' = InUse(j),
           k = "target" => target' # Unresolvable,
           IF k = "position" THEN persisted' = position' ELSE UNCHANGED persisted
    PROVE  IInv'
<1> DEFINE w == TaskOf(k)
<1>1. w \in Writers
  BY DEF TaskOf, Writers
<1>2. /\ writer' = [writer EXCEPT ![w] = writer'[w]]
      /\ writer'[w] = [stage |-> "read", key |-> k, value |-> InUse(k)', merged |-> Empty]
  BY <1>1 DEF Save, NoWrite, IInv, WriterType
<1>3. WriterType'
  BY <1>1, <1>2 DEF IInv, WriterType
<1>4. \A v \in Writers : v # w => writer'[v] = writer[v]
  BY <1>1, <1>2 DEF IInv, WriterType
<1>5. WriteInv'
  <2> SUFFICES ASSUME NEW v \in Writers, (writer[v].stage # "none")'
               PROVE  (/\ writer[v].key \in Keys /\ TaskOf(writer[v].key) = v
                       /\ writer[v].value = InUse(writer[v].key)
                       /\ writer[v].key = "target" => writer[v].value # Unresolvable)'
    BY DEF WriteInv
  <2>1. CASE v = w
    BY <1>2, <2>1 DEF InUse
  <2>2. CASE v # w
    <3>1. /\ writer'[v] = writer[v] /\ writer[v].key \in Keys /\ TaskOf(writer[v].key) = v
          /\ writer[v].value = InUse(writer[v].key)
          /\ writer[v].key = "target" => writer[v].value # Unresolvable
      BY <1>4, <2>2 DEF IInv, WriteInv
    <3>2. writer[v].key # k
      BY <2>2, <3>1
    <3> QED BY <3>1, <3>2 DEF InUse
  <2> QED BY <2>1, <2>2
<1>6. MergeInv'
  BY <1>2, <1>4 DEF IInv, MergeInv
<1>7. \A j \in Keys \ {k} : Pending(j)' = Pending(j)
  BY <1>1, <1>2, <1>4 DEF Pending, TaskOf, Writers
<1>8. Pending(k)'
  BY <1>2 DEF Pending
<1>9. PersistedInv'
  <2>1. CASE k = "position"
    BY <1>8, <2>1 DEF PersistedInv
  <2>2. CASE k # "position"
    BY <1>7, <2>2 DEF IInv, PersistedInv, InUse, Keys
  <2> QED BY <2>1, <2>2
<1>10. KeptInv'
  <2> SUFFICES ASSUME NEW j \in Keys \ torn, ~Pending(j)' PROVE Good(j)'
    BY DEF KeptInv
  <2>1. j # k /\ Good(j) /\ InUse(j)' = InUse(j)
    BY <1>7, <1>8 DEF IInv, KeptInv
  <2> QED BY <2>1, GoodIs, GoodNext DEF InUse, Keys
<1> QED BY <1>3, <1>5, <1>6, <1>9, <1>10 DEF IInv

LEMMA NextIInv == IInv /\ [Next]_vars => IInv'
<1> SUFFICES ASSUME IInv, [Next]_vars PROVE IInv'
  OBVIOUS
<1>0. ASSUME UNCHANGED <<target, me, position, persisted, file, writer, torn>>, AgendaInv'
      PROVE  IInv'
  <2>1. \A k \in Keys : Good(k)' = Good(k)
    BY <1>0 DEF Good, Known
  <2> QED BY <1>0, <2>1 DEF IInv, WriterType, WriteInv, MergeInv, PersistedInv, KeptInv, Pending, InUse
<1>1. ASSUME NEW w \in Writers, ReadFile(w) \/ ReadFails(w) PROVE IInv'
  <2>0. PICK stage \in {"replace", "blind"}, seen \in {file, Empty} :
          /\ stage = "replace" => seen = file
          /\ writer' = [writer EXCEPT ![w].stage = stage,
                                      ![w].merged = [seen EXCEPT ![writer[w].key] = writer[w].value]]
    BY <1>1 DEF ReadFile, ReadFails, Merged
  <2>1. /\ writer[w].stage = "read" /\ UNCHANGED <<node, learned, file, torn>> /\ AgendaInv'
        /\ writer' = [writer EXCEPT ![w] = writer'[w]]
        /\ writer'[w] = [writer[w] EXCEPT !.stage = stage,
                              !.merged = [seen EXCEPT ![writer[w].key] = writer[w].value]]
    BY <1>1, <2>0 DEF ReadFile, ReadFails, Spend, IInv, AgendaInv, WriterType
  <2>2. \A v \in Writers : v # w => writer'[v] = writer[v]
    BY <2>1 DEF IInv, WriterType
  <2>3. /\ writer'[w].stage = stage /\ writer'[w].key = writer[w].key
        /\ writer'[w].value = writer[w].value
        /\ writer'[w].merged = [seen EXCEPT ![writer[w].key] = writer[w].value]
        /\ DOMAIN writer'[w] = {"stage", "key", "value", "merged"}
    BY <2>1 DEF IInv, WriterType
  <2>4. WriterType'
    <3>1. DOMAIN writer' = Writers /\ file' = file
      BY <2>1 DEF IInv, WriterType
    <3>2. \A v \in Writers : /\ DOMAIN writer'[v] = {"stage", "key", "value", "merged"}
                             /\ writer'[v].stage \in {"none", "read", "replace", "blind"}
      BY <2>2, <2>3 DEF IInv, WriterType
    <3> QED BY <3>1, <3>2 DEF IInv, WriterType
  <2>5. \A k \in Keys : Pending(k)' = Pending(k)
    BY <2>1, <2>2, <2>3 DEF Pending, TaskOf, Writers
  <2>6. WriteInv'
    <3>1. \A v \in Writers : /\ (writer[v].key)' = writer[v].key
                             /\ (writer[v].value)' = writer[v].value
                             /\ (writer[v].stage # "none")' => writer[v].stage # "none"
      BY <2>1, <2>2, <2>3
    <3> QED BY <2>1, <3>1 DEF IInv, WriteInv, InUse, learned
  <2>7. MergeInv'
    <3>1. writer[w].key \in Keys /\ (writer[w].key = "target" => writer[w].value # Unresolvable)
      BY <2>1 DEF IInv, WriteInv
    <3>2. /\ DOMAIN writer'[w].merged = Keys
          /\ writer'[w].merged[writer[w].key] = writer[w].value
          /\ writer'[w].merged["target"] # Unresolvable
          /\ \A k \in Keys : k # writer[w].key => writer'[w].merged[k] = seen[k]
      <4>1. DOMAIN seen = Keys /\ seen["target"] # Unresolvable
        BY ParametersAssumption DEF IInv, WriterType, Empty, Keys
      <4> QED BY <2>3, <3>1, <4>1 DEF Keys
    <3>3. file' = file /\ torn' = torn
      BY <2>1
    <3>4. stage = "replace" => \A k \in Keys \ torn' :
                                   k # writer'[w].key => writer'[w].merged[k] = file'[k]
      <4>1. stage = "replace" => seen = file
        BY <2>0
      <4> QED BY <2>3, <3>2, <3>3, <4>1
    <3> SUFFICES ASSUME NEW v \in Writers
                 PROVE  (/\ writer[v].stage \in {"replace", "blind"} =>
                              /\ DOMAIN writer[v].merged = Keys
                              /\ writer[v].merged[writer[v].key] = writer[v].value
                              /\ writer[v].merged["target"] # Unresolvable
                         /\ writer[v].stage = "replace" =>
                              \A k \in Keys \ torn :
                                  k # writer[v].key => writer[v].merged[k] = file[k])'
      BY DEF MergeInv
    <3>5. CASE v = w
      BY <2>3, <3>2, <3>4, <3>5
    <3>6. CASE v # w
      BY <2>2, <3>3, <3>6 DEF IInv, MergeInv
    <3> QED BY <3>5, <3>6
  <2>8. PersistedInv' /\ KeptInv'
    BY <2>1, <2>5, GoodIs, GoodNext DEF IInv, PersistedInv, KeptInv, learned, Keys
  <2> QED BY <2>1, <2>4, <2>6, <2>7, <2>8 DEF IInv
<1>2. ASSUME NEW w \in Writers, ReplaceFile(w) PROVE IInv'
  <2>0. PICK k : k = writer[w].key
    OBVIOUS
  <2>1. /\ writer[w].stage \in {"replace", "blind"} /\ UNCHANGED <<agenda, node, learned>>
        /\ file' = writer[w].merged
        /\ writer' = [writer EXCEPT ![w] = NoWrite]
        /\ \A j \in Keys : j \in torn => j \in torn' \cup {k}
        /\ writer[w].stage = "blind" => Keys \subseteq torn' \cup {k}
        /\ (\E o \in Writers \ {w} : writer[o].stage = "replace") => k \in torn'
    <3>1. PICK lost : /\ lost = IF writer[w].stage = "blind" THEN Keys ELSE torn
                      /\ torn' = IF \E o \in Writers \ {w} : writer[o].stage = "replace"
                                 THEN lost \cup {k} ELSE lost \ {k}
      BY <1>2, <2>0 DEF ReplaceFile, Writers
    <3>2. writer[w].stage \in {"replace", "blind"} /\ UNCHANGED <<agenda, node, learned>>
          /\ file' = writer[w].merged /\ writer' = [writer EXCEPT ![w] = NoWrite]
      BY <1>2 DEF ReplaceFile
    <3>3. /\ \A j \in Keys : j \in torn => j \in lost
          /\ writer[w].stage = "blind" => Keys \subseteq lost
      BY <3>1
    <3> QED BY <3>1, <3>2, <3>3
  <2>2. \A v \in Writers : v # w => writer'[v] = writer[v]
    BY <2>1 DEF IInv, WriterType
  <2>3. writer'[w] = NoWrite /\ DOMAIN NoWrite = {"stage", "key", "value", "merged"}
        /\ NoWrite.stage = "none"
    BY <2>1 DEF NoWrite, IInv, WriterType
  <2>4. /\ k \in Keys /\ TaskOf(k) = w /\ file'[k] = InUse(k) /\ DOMAIN file' = Keys
        /\ file'["target"] # Unresolvable
        /\ k = "target" => InUse(k) # Unresolvable
        /\ \A j \in Keys \ torn' : j # k => file'[j] = file[j]
    BY <2>0, <2>1 DEF IInv, WriteInv, MergeInv
  <2>5. WriterType'
    BY <2>1, <2>2, <2>3, <2>4 DEF IInv, WriterType
  <2>6. WriteInv'
    BY <2>1, <2>2, <2>3 DEF IInv, WriteInv, InUse, learned, NoWrite
  <2>7. MergeInv'
    <3> SUFFICES ASSUME NEW v \in Writers, v # w, writer[v].stage = "replace",
                        NEW j \in Keys \ torn', j # writer[v].key
                 PROVE  writer[v].merged[j] = file'[j]
      BY <2>2, <2>3 DEF IInv, MergeInv
    <3>2. j \in Keys \ torn /\ j # k
      BY <2>1
    <3> QED BY <2>4, <3>2 DEF IInv, MergeInv
  <2>8. \A j \in Keys \ {k} : Pending(j)' = Pending(j)
    BY <2>0, <2>1, <2>2, <2>3, <2>4 DEF Pending, TaskOf, Writers
  <2>9. ~Pending(k)' /\ Pending(k)
    BY <2>0, <2>1, <2>3, <2>4 DEF Pending
  <2>10. \A j \in Keys \ torn' : j # k => j \notin torn
    BY <2>1
  <2>11. PersistedInv'
    <3>1. CASE k = "position"
      BY <2>1, <2>4, <2>9, <3>1 DEF IInv, PersistedInv, InUse, learned
    <3>2. CASE k # "position"
      BY <2>1, <2>4, <2>8, <2>10, <3>2 DEF IInv, PersistedInv, learned, Keys
    <3> QED BY <3>1, <3>2
  <2>12. KeptInv'
    <3> SUFFICES ASSUME NEW j \in Keys \ torn', ~Pending(j)' PROVE Good(j)'
      BY DEF KeptInv
    <3>1. CASE j = k
      BY <2>1, <2>4, <3>1, GoodNext, ParametersAssumption DEF InUse, learned, Keys
    <3>2. CASE j # k
      <4>1. Good(j) /\ file'[j] = file[j]
        BY <2>4, <2>8, <2>10, <3>2 DEF IInv, KeptInv
      <4> QED BY <2>1, <4>1, GoodIs, GoodNext DEF learned, Keys
    <3> QED BY <3>1, <3>2
  <2> QED BY <2>1, <2>5, <2>6, <2>7, <2>11, <2>12 DEF IInv, AgendaInv
<1>3. ASSUME NEW w \in Writers, WriteFails(w) PROVE IInv'
  <2>0. PICK k : k = writer[w].key
    OBVIOUS
  <2>1. /\ writer[w].stage # "none" /\ UNCHANGED <<node, learned, file>>
        /\ Spend("failures", w) /\ torn' = torn \cup {k}
        /\ writer' = [writer EXCEPT ![w] = NoWrite]
    BY <1>3, <2>0 DEF WriteFails
  <2>2. \A v \in Writers : v # w => writer'[v] = writer[v]
    BY <2>1 DEF IInv, WriterType
  <2>3. writer'[w] = NoWrite /\ DOMAIN NoWrite = {"stage", "key", "value", "merged"}
        /\ NoWrite.stage = "none"
    BY <2>1 DEF NoWrite, IInv, WriterType
  <2>4. k \in Keys /\ TaskOf(k) = w
    BY <2>0, <2>1 DEF IInv, WriteInv
  <2>5. AgendaInv'
    BY <2>1 DEF Spend, IInv, AgendaInv
  <2>6. WriterType'
    BY <2>1, <2>2, <2>3 DEF IInv, WriterType
  <2>7. WriteInv' /\ MergeInv'
    BY <2>1, <2>2, <2>3 DEF IInv, WriteInv, MergeInv, InUse, learned
  <2>8. \A j \in Keys \ {k} : Pending(j)' = Pending(j)
    BY <2>0, <2>1, <2>2, <2>3, <2>4 DEF Pending, TaskOf, Writers
  <2>9. PersistedInv'
    <3>1. ~Pending(k)'
      BY <2>3, <2>4 DEF Pending
    <3> QED BY <2>1, <2>4, <2>8, <3>1 DEF IInv, PersistedInv, learned, Keys
  <2>10. KeptInv'
    <3> SUFFICES ASSUME NEW j \in Keys \ torn', ~Pending(j)' PROVE Good(j)'
      BY DEF KeptInv
    <3>1. j # k /\ Good(j)
      BY <2>1, <2>8 DEF IInv, KeptInv
    <3> QED BY <2>1, <3>1, GoodIs, GoodNext DEF learned, Keys
  <2> QED BY <2>5, <2>6, <2>7, <2>9, <2>10 DEF IInv
<1>4. CASE Hear
  <2>1. /\ writer["udp"].stage = "none" /\ UNCHANGED <<node, me, position, persisted, file, torn>>
    BY <1>4 DEF Hear
  <2>2. AgendaInv'
    BY <1>4 DEF Hear, Spend, IInv, AgendaInv
  <2>3. PICK ip : ip # Unresolvable /\ \E src : Learn(ip, src)
    BY <1>4 DEF Hear, Spend, IInv, AgendaInv
  <2>4. \/ UNCHANGED <<target, writer>>
        \/ target' = ip /\ Save("udp", "target", ip)
    BY <2>3 DEF Learn, AdoptTarget, Refuse
  <2>5. CASE UNCHANGED <<target, writer>>
    BY <1>0, <2>1, <2>2, <2>5
  <2>6. CASE target' = ip /\ Save("udp", "target", ip)
    <3>1. /\ "target" \in Keys /\ TaskOf("target") = "udp" /\ InUse("target")' = ip
          /\ \A j \in Keys \ {"target"} : InUse(j)' = InUse(j)
      BY <2>1, <2>6 DEF Keys, TaskOf, InUse
    <3> QED BY <2>1, <2>2, <2>3, <2>6, <3>1, SaveStep
  <2> QED BY <2>4, <2>5, <2>6
<1>5. CASE Tick \/ NodeMoves
  <2>1. UNCHANGED <<target, me, position, persisted, file, writer, torn>>
    BY <1>5 DEF Tick, NodeMoves, learned
  <2>2. AgendaInv'
    BY <1>5 DEF Tick, NodeMoves, Spend, IInv, AgendaInv
  <2> QED BY <1>0, <2>1, <2>2
<1>6. CASE DetectIdentity
  <2>1. /\ writer["ble"].stage = "none" /\ me' = node.call /\ Save("ble", "call", node.call)
        /\ UNCHANGED <<agenda, node, target, position, persisted, file, torn>>
    BY <1>6 DEF DetectIdentity
  <2>2. /\ "call" \in Keys /\ TaskOf("call") = "ble" /\ InUse("call")' = node.call
        /\ \A j \in Keys \ {"call"} : InUse(j)' = InUse(j)
    BY <2>1 DEF Keys, TaskOf, InUse
  <2>3. AgendaInv'
    BY <2>1 DEF IInv, AgendaInv
  <2> QED BY <2>1, <2>2, <2>3, SaveStep
<1>7. CASE CachePosition
  <2>1. PICK p : /\ Spend("positions", p) /\ position' = p
                 /\ IF Worth(p) THEN persisted' = p /\ Save("ble", "position", p)
                    ELSE UNCHANGED <<persisted, writer>>
    BY <1>7 DEF CachePosition
  <2>2. writer["ble"].stage = "none" /\ UNCHANGED <<node, target, me, file, torn>>
    BY <1>7 DEF CachePosition
  <2>3. AgendaInv'
    BY <2>1, <2>2 DEF Spend, IInv, AgendaInv
  <2>4. CASE Worth(p)
    <3>1. /\ "position" \in Keys /\ TaskOf("position") = "ble" /\ InUse("position")' = p
          /\ \A j \in Keys \ {"position"} : InUse(j)' = InUse(j)
      BY <2>1, <2>2 DEF Keys, TaskOf, InUse
    <3> QED BY <2>1, <2>2, <2>3, <2>4, <3>1, SaveStep
  <2>5. CASE ~Worth(p)
    <3>1. UNCHANGED <<persisted, writer>> /\ Near(p, persisted) /\ persisted # None
      BY <2>1, <2>5 DEF Worth, Near
    <3>2. ~Pending("position") /\ \A j \in Keys : Pending(j)' = Pending(j)
      BY <2>2, <3>1 DEF Pending, TaskOf
    <3>3. PersistedInv'
      BY <2>2, <3>1, <3>2 DEF IInv, PersistedInv, Keys
    <3>4. "position" \notin torn => Good("position")'
      BY <2>1, <2>2, <3>1, <3>2, NearIsSymmetric, GoodNext DEF IInv, PersistedInv
    <3>5. KeptInv'
      BY <2>2, <3>2, <3>4, GoodIs, GoodNext DEF IInv, KeptInv, Keys
    <3>6. WriteInv'
      BY <2>2, <3>1 DEF IInv, WriteInv, InUse, TaskOf, Writers
    <3>7. WriterType' /\ MergeInv'
      BY <2>2, <3>1 DEF IInv, WriterType, MergeInv
    <3> QED BY <2>3, <3>3, <3>5, <3>6, <3>7 DEF IInv
  <2> QED BY <2>4, <2>5
<1>8. CASE Restart
  <2>1. /\ (Starts(file) /\ torn' = {}) \/ (Starts(Empty) /\ torn' = Keys)
        /\ UNCHANGED <<node, file>> /\ \E r : Spend("restarts", r)
        /\ writer' = [w \in Writers |-> NoWrite]
    BY <1>8 DEF Restart, Writers
  <2>2. AgendaInv'
    BY <2>1 DEF Spend, IInv, AgendaInv
  <2>3. \A w \in Writers : writer'[w] = NoWrite
    BY <2>1
  <2>4. WriterType'
    BY <2>1, <2>3 DEF IInv, WriterType, NoWrite
  <2>5. \A k \in Keys : ~Pending(k)'
    BY <2>3 DEF Pending, NoWrite, TaskOf, Writers
  <2>6. PersistedInv'
    BY <2>1, <2>5 DEF PersistedInv, Starts, Keys
  <2>7. \A k \in Keys \ torn' : Good(k)'
    BY <2>1, GoodNext, ParametersAssumption DEF Starts, Keys, IInv, WriterType
  <2> QED BY <2>2, <2>3, <2>4, <2>6, <2>7 DEF IInv, WriteInv, MergeInv, KeptInv, NoWrite
<1>9. CASE UNCHANGED vars
  BY <1>0, <1>9 DEF vars, learned, IInv, AgendaInv
<1> QED
  BY <1>1, <1>2, <1>3, <1>4, <1>5, <1>6, <1>7, <1>8, <1>9 DEF Next, Writers

(* Whatever is heard, moves, fails and restarts: what was learned and      *)
(* neither lost by a write nor left unread by a start is what the next     *)
(* start will read (save_runtime_state, _cache_gps, Config.load).          *)
THEOREM OverlayStaysTrue == Spec => []OverlayKept
<1>1. IInv => OverlayKept
  BY DEF IInv, KeptInv, Pending, Good, TaskOf, OverlayKept
<1> QED BY InitIInv, NextIInv, <1>1, PTL DEF Spec
=============================================================================
