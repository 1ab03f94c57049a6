--------------------------- MODULE LinkCheckProofs ---------------------------
(***************************************************************************)
(* For any number of targets, sessions and attempts: until shutdown has    *)
(* cleared the table, no target is pinged by two drivers, and no more      *)
(* drivers transmit than the cap allows; and what a session reports is     *)
(* what was heard.                                                         *)
(***************************************************************************)
EXTENDS LinkCheck, FiniteSetTheorems, TLAPS

Pcs == {"none", "created", "cancelled", "sent", "waiting", "timeout", "done", "stopping", "dead"}
Handles == [step : {"drive", "pop"}, session : Sessions]

TableType ==
    /\ linkSessions \in [Targets -> Sessions \cup {NoSession}]
    /\ target \in [Sessions -> Targets \cup {None}]
    /\ pc \in [Sessions -> Pcs]
    /\ driver \in [Sessions -> Driver]
    /\ stops \subseteq Sessions
    /\ ready \in Seq(Handles)
    /\ crowded \subseteq Targets
    /\ \A s \in Sessions : pc[s] # "none" => target[s] \in Targets

(* An entry of the table is a session that was started for that target. *)
EntriesFit ==
    \A t \in Targets : linkSessions[t] # NoSession =>
        target[linkSessions[t]] = t /\ pc[linkSessions[t]] # "none"

(* A driver that drives found a session of its target, its own unless the  *)
(* target is crowded.                                                      *)
SessionsFit ==
    \A s \in Sessions :
        /\ ~Driving(s) => driver[s].session = NoSession
        /\ Driving(s) =>
            /\ driver[s].session \in Sessions
            /\ target[driver[s].session] = target[s] /\ pc[driver[s].session] # "none"
            /\ target[s] \notin crowded => driver[s].session = s

(* A driver before its first step can lose its entry, but only to a start  *)
(* that crowds the target.                                                 *)
PendingFits ==
    \A s \in Sessions : Pending(s) /\ target[s] \notin crowded =>
        /\ linkSessions[target[s]] \in {s, NoSession}
        /\ \A r \in Sessions : Pending(r) /\ target[r] = target[s] => r = s

(* A stop awaits a driver that it cancelled. *)
StopsFit == \A s \in stops : pc[s] \in {"cancelled", "stopping"}

(* The queue holds the first step of a driver that awaits it, once. *)
QueueFits(q) ==
    /\ \A i \in DOMAIN q :
        /\ q[i].step = "drive" => Pending(q[i].session)
        /\ q[i].step = "pop" => pc[q[i].session] # "none"
    /\ \A i, j \in DOMAIN q : q[i] = q[j] /\ q[i].step = "drive" => i = j

(* A driver that is past its first step holds its target's entry ... *)
DriversHold ==
    \A s \in Sessions : Driving(s) /\ target[s] \notin crowded => linkSessions[target[s]] = s

(* ... and no stop is left that could pop it: the stops that were ready    *)
(* when the driver was created are ahead of its first step, and none comes *)
(* after it.                                                               *)
PopsFirst(q) ==
    \A i, j \in DOMAIN q :
        /\ i < j /\ q[i].step = "drive" /\ q[j].step = "pop"
        /\ target[q[i].session] = target[q[j].session]
        => target[q[i].session] \in crowded

NoPops(q) ==
    \A i \in DOMAIN q : \A s \in Sessions :
        q[i].step = "pop" /\ Driving(s) /\ target[s] = target[q[i].session] => target[s] \in crowded

IInv ==
    /\ TableType /\ EntriesFit /\ SessionsFit /\ PendingFits /\ StopsFit /\ QueueFits(ready)
    /\ shutdown # "over" => DriversHold /\ PopsFirst(ready) /\ NoPops(ready)

LEMMA InitIInv == Init => IInv
<1> SUFFICES ASSUME Init PROVE IInv
  OBVIOUS
<1>1. TableType
  BY DEF Init, TableType, Pcs, Driver, Idle, Handles
<1>2. \A s \in Sessions : ~Driving(s) /\ ~Pending(s) /\ driver[s].session = NoSession
  BY DEF Init, Driving, Pending, Idle
<1>3. ready = <<>> /\ DOMAIN ready = {} /\ stops = {} /\ \A t \in Targets : linkSessions[t] = NoSession
  BY DEF Init
<1> QED
  BY <1>1, <1>2, <1>3
  DEF IInv, EntriesFit, SessionsFit, PendingFits, StopsFit, QueueFits, DriversHold, PopsFirst, NoPops

-----------------------------------------------------------------------------
(* The queue *)

LEMMA AppendFacts ==
    ASSUME NEW S, NEW q \in Seq(S), NEW e \in S, NEW r, r = Append(q, e)
    PROVE  /\ r \in Seq(S) /\ Len(q) \in Nat
           /\ DOMAIN q = 1 .. Len(q) /\ DOMAIN r = 1 .. Len(q) + 1
           /\ \A i \in DOMAIN q : i \in DOMAIN r /\ r[i] = q[i]
           /\ \A i \in DOMAIN r : i \in DOMAIN q \/ i = Len(q) + 1
           /\ Len(q) + 1 \in DOMAIN r /\ r[Len(q) + 1] = e
OBVIOUS

LEMMA TailFacts ==
    ASSUME NEW S, NEW q \in Seq(S), q # <<>>, NEW r, r = Tail(q)
    PROVE  /\ r \in Seq(S)
           /\ \A i \in DOMAIN r : i \in Nat /\ i >= 1 /\ i + 1 \in DOMAIN q /\ r[i] = q[i + 1]
           /\ 1 \in DOMAIN q /\ Head(q) = q[1] /\ Head(q) \in S
OBVIOUS

(* What holds of the queue holds of its rest. *)
LEMMA TailKeeps ==
    ASSUME TableType, ready # <<>>, NEW r, r = Tail(ready)
    PROVE  /\ r \in Seq(Handles)
           /\ QueueFits(ready) => QueueFits(r)
           /\ PopsFirst(ready) => PopsFirst(r)
           /\ NoPops(ready) => NoPops(r)
<1>1. ready \in Seq(Handles)
  BY DEF TableType
<1>2. /\ r \in Seq(Handles)
      /\ \A i \in DOMAIN r : i \in Nat /\ i >= 1 /\ i + 1 \in DOMAIN ready /\ r[i] = ready[i + 1]
  BY <1>1, TailFacts
<1>3. QueueFits(ready) => QueueFits(r)
  <2> SUFFICES ASSUME QueueFits(ready) PROVE QueueFits(r)
    OBVIOUS
  <2>1. ASSUME NEW i \in DOMAIN r
        PROVE  /\ r[i].step = "drive" => Pending(r[i].session)
               /\ r[i].step = "pop" => pc[r[i].session] # "none"
    BY <1>2, <2>1 DEF QueueFits
  <2>2. ASSUME NEW i \in DOMAIN r, NEW j \in DOMAIN r, r[i] = r[j], r[i].step = "drive"
        PROVE  i = j
    <3>1. i + 1 = j + 1
      BY <1>2, <2>2 DEF QueueFits
    <3> QED BY <1>2, <3>1
  <2> QED BY <2>1, <2>2 DEF QueueFits
<1>4. PopsFirst(ready) => PopsFirst(r)
  <2> SUFFICES ASSUME PopsFirst(ready), NEW i \in DOMAIN r, NEW j \in DOMAIN r, i < j,
                      r[i].step = "drive", r[j].step = "pop",
                      target[r[i].session] = target[r[j].session]
               PROVE  target[r[i].session] \in crowded
    BY DEF PopsFirst
  <2>1. i + 1 < j + 1
    BY <1>2
  <2> QED BY <1>2, <2>1 DEF PopsFirst
<1>5. NoPops(ready) => NoPops(r)
  BY <1>2 DEF NoPops
<1> QED BY <1>2, <1>3, <1>4, <1>5

-----------------------------------------------------------------------------
(* Until shutdown has cleared the table, a target that is not crowded has  *)
(* one driver at most.                                                     *)
LEMMA Alone ==
    ASSUME IInv, shutdown # "over", NEW r \in Sessions, NEW s \in Sessions, Live(r), Live(s),
           target[r] = target[s], target[s] \notin crowded
    PROVE  r = s
<1>1. DriversHold /\ PendingFits
  BY DEF IInv
<1>2. NoSession \notin Sessions
  BY ParametersAssumption
<1>3. ~(Pending(r) /\ Driving(r)) /\ ~(Pending(s) /\ Driving(s))
  BY DEF Pending, Driving
<1>4. CASE Pending(r) /\ Pending(s)
  BY <1>1, <1>4 DEF PendingFits
<1>5. CASE Driving(r) /\ Driving(s)
  BY <1>1, <1>5 DEF DriversHold
<1>6. CASE Driving(r) /\ Pending(s)
  BY <1>1, <1>2, <1>3, <1>6 DEF DriversHold, PendingFits
<1>7. CASE Pending(r) /\ Driving(s)
  BY <1>1, <1>2, <1>3, <1>7 DEF DriversHold, PendingFits
<1> QED BY <1>4, <1>5, <1>6, <1>7 DEF Live

(* A step that leaves every driver before its first step, past it or at    *)
(* its end as it was, and that pops no entry of a driver that drives.      *)
LEMMA PhasesStay ==
    ASSUME IInv, UNCHANGED <<target, crowded>>,
           pc' \in [Sessions -> Pcs], driver' \in [Sessions -> Driver],
           \A s \in Sessions :
              /\ Pending(s)' <=> Pending(s)
              /\ Driving(s)' <=> Driving(s)
              /\ pc'[s] = "none" <=> pc[s] = "none"
              /\ driver'[s].session = driver[s].session,
           stops' \subseteq Sessions, \A s \in stops' : pc'[s] \in {"cancelled", "stopping"},
           ready' = ready \/ (ready # <<>> /\ ready' = Tail(ready)),
           linkSessions' \in [Targets -> Sessions \cup {NoSession}],
           \A t \in Targets : linkSessions'[t] \in {linkSessions[t], NoSession},
           shutdown' # "over" =>
              /\ shutdown # "over"
              /\ \A s \in Sessions : Driving(s) /\ target[s] \notin crowded =>
                    linkSessions'[target[s]] = linkSessions[target[s]]
    PROVE  IInv'
<1>0. /\ TableType /\ EntriesFit /\ SessionsFit /\ PendingFits /\ QueueFits(ready)
      /\ NoSession \notin Sessions
  BY ParametersAssumption DEF IInv
<1>1. PICK q : q = ready'
  OBVIOUS
<1>2. /\ q \in Seq(Handles) /\ QueueFits(q)
      /\ shutdown # "over" => PopsFirst(q) /\ NoPops(q)
  BY <1>0, <1>1, TailKeeps DEF TableType, IInv
<1>3. TableType'
  BY <1>0, <1>1, <1>2 DEF TableType
<1>4. EntriesFit'
  <2> SUFFICES ASSUME NEW t \in Targets, linkSessions'[t] # NoSession
               PROVE  target[linkSessions'[t]] = t /\ pc'[linkSessions'[t]] # "none"
    BY DEF EntriesFit
  <2>1. linkSessions'[t] = linkSessions[t] /\ linkSessions[t] \in Sessions
    BY <1>0 DEF TableType
  <2> QED BY <1>0, <2>1 DEF EntriesFit
<1>5. SessionsFit'
  <2> SUFFICES ASSUME NEW s \in Sessions
               PROVE  /\ ~Driving(s) => driver[s].session = NoSession
                      /\ Driving(s) =>
                          /\ driver[s].session \in Sessions
                          /\ target[driver[s].session] = target[s] /\ pc'[driver[s].session] # "none"
                          /\ target[s] \notin crowded => driver[s].session = s
    BY DEF SessionsFit
  <2> QED BY <1>0 DEF SessionsFit
<1>6. PendingFits'
  <2> SUFFICES ASSUME NEW s \in Sessions, Pending(s), target[s] \notin crowded
               PROVE  /\ linkSessions'[target[s]] \in {s, NoSession}
                      /\ \A r \in Sessions : Pending(r) /\ target[r] = target[s] => r = s
    BY DEF PendingFits
  <2>1. target[s] \in Targets
    BY <1>0 DEF TableType, Pending
  <2> QED BY <1>0, <2>1 DEF PendingFits
<1>7. StopsFit'
  BY DEF StopsFit
<1>8. QueueFits(ready)'
  <2>1. \A i \in DOMAIN q : q[i] \in Handles /\ q[i].session \in Sessions
    <3>1. \A i \in DOMAIN q : q[i] \in Handles
      BY <1>2
    <3> QED BY <3>1 DEF Handles
  <2>2. QueueFits(q)'
    BY <1>2, <2>1 DEF QueueFits
  <2> QED BY <1>1, <2>2 DEF QueueFits
<1>9. ASSUME shutdown' # "over" PROVE (DriversHold /\ PopsFirst(ready) /\ NoPops(ready))'
  <2>1. DriversHold'
    BY <1>0, <1>9 DEF IInv, DriversHold
  <2>2. PopsFirst(ready)'
    BY <1>1, <1>2, <1>9 DEF PopsFirst
  <2>3. NoPops(ready)'
    BY <1>1, <1>2, <1>9 DEF NoPops
  <2> QED BY <2>1, <2>2, <2>3
<1> QED BY <1>3, <1>4, <1>5, <1>6, <1>7, <1>8, <1>9 DEF IInv

(* A driver's task ends, at its first step or in its finally block. *)
LEMMA EndKeeps ==
    ASSUME IInv, NEW s \in Sessions, Live(s), NEW q, TaskEnds(s, q),
           q \in Seq(Handles), QueueFits(q), \A i \in DOMAIN q : q[i] # Drive(s),
           shutdown # "over" => PopsFirst(q) /\ NoPops(q),
           UNCHANGED <<target, crowded, shutdown>>,
           \/ linkSessions' = linkSessions
           \/ Driving(s) /\ linkSessions' = [linkSessions EXCEPT ![target[s]] = NoSession]
    PROVE  IInv'
<1>0. /\ TableType /\ EntriesFit /\ SessionsFit /\ PendingFits /\ StopsFit
      /\ NoSession \notin Sessions /\ target[s] \in Targets /\ pc[s] # "none"
  BY ParametersAssumption DEF IInv, TableType, Live, Pending, Driving
<1>1. /\ pc' = [pc EXCEPT ![s] = "dead"] /\ driver' = [driver EXCEPT ![s] = Idle]
      /\ stops' = stops \ {s}
      /\ ready' = IF s \in stops THEN Append(q, Pop(s)) ELSE q
  BY DEF TaskEnds
<1>2. /\ ~Driving(s)' /\ ~Pending(s)' /\ pc'[s] # "none" /\ driver'[s].session = NoSession
      /\ \A r \in Sessions \ {s} : /\ Driving(r)' <=> Driving(r)
                                   /\ Pending(r)' <=> Pending(r)
                                   /\ pc'[r] = pc[r] /\ driver'[r] = driver[r]
  BY <1>0, <1>1 DEF TableType, Driving, Pending, Idle
<1>3. linkSessions' \in [Targets -> Sessions \cup {NoSession}]
      /\ \A t \in Targets : linkSessions'[t] \in {linkSessions[t], NoSession}
  BY <1>0 DEF TableType
<1>4. Drive(s) \in Handles /\ Pop(s) \in Handles /\ Pop(s).step = "pop" /\ Pop(s).session = s
  BY DEF Drive, Pop, Handles
<1>5. \A i \in DOMAIN q : q[i] \in Handles /\ q[i].session \in Sessions
  <2>1. \A i \in DOMAIN q : q[i] \in Handles
    OBVIOUS
  <2> QED BY <2>1 DEF Handles
<1>6. \A i \in DOMAIN q : q[i].step = "drive" => q[i].session # s
  <2>1. \A i \in DOMAIN q : q[i] \in Handles /\ q[i] # Drive(s)
    OBVIOUS
  <2> QED BY <2>1 DEF Handles, Drive
<1>7. PICK r : r = ready'
  OBVIOUS
<1>8. /\ r \in Seq(Handles)
      /\ \A i \in DOMAIN q : i \in DOMAIN r /\ r[i] = q[i]
      /\ \A i \in DOMAIN r : \/ i \in DOMAIN q /\ r[i] = q[i]
                             \/ r[i] = Pop(s) /\ \A j \in DOMAIN q : j < i
  <2>1. CASE s \in stops
    <3>1. /\ r \in Seq(Handles) /\ Len(q) \in Nat
          /\ DOMAIN q = 1 .. Len(q) /\ DOMAIN r = 1 .. Len(q) + 1
          /\ \A i \in DOMAIN q : i \in DOMAIN r /\ r[i] = q[i]
          /\ \A i \in DOMAIN r : i \in DOMAIN q \/ i = Len(q) + 1
          /\ Len(q) + 1 \in DOMAIN r /\ r[Len(q) + 1] = Pop(s)
      BY <1>1, <1>4, <1>7, <2>1, AppendFacts
    <3> QED BY <3>1
  <2>2. CASE s \notin stops
    BY <1>1, <1>7, <2>2
  <2> QED BY <2>1, <2>2
<1>9. TableType'
  BY <1>0, <1>1, <1>3, <1>7, <1>8 DEF TableType, Pcs, Driver, Idle
<1>10. EntriesFit'
  <2> SUFFICES ASSUME NEW t \in Targets, linkSessions'[t] # NoSession
               PROVE  target[linkSessions'[t]] = t /\ pc'[linkSessions'[t]] # "none"
    BY DEF EntriesFit
  <2>1. linkSessions'[t] = linkSessions[t] /\ linkSessions[t] \in Sessions
    BY <1>0, <1>3 DEF TableType
  <2> QED BY <1>0, <1>2, <2>1 DEF EntriesFit
<1>11. SessionsFit'
  BY <1>0, <1>2 DEF SessionsFit
<1>12. PendingFits'
  <2> SUFFICES ASSUME NEW r1 \in Sessions, Pending(r1)', target[r1] \notin crowded
               PROVE  /\ linkSessions'[target[r1]] \in {r1, NoSession}
                      /\ \A r2 \in Sessions : Pending(r2)' /\ target[r2] = target[r1] => r2 = r1
    BY DEF PendingFits
  <2>1. target[r1] \in Targets /\ Pending(r1)
    BY <1>0, <1>2 DEF TableType, Pending
  <2> QED BY <1>0, <1>2, <1>3, <2>1 DEF PendingFits
<1>13. StopsFit'
  BY <1>0, <1>1, <1>2 DEF StopsFit, TableType
<1>14. QueueFits(r)'
  <2>1. ASSUME NEW i \in DOMAIN r
        PROVE  /\ r[i].step = "drive" => Pending(r[i].session)'
               /\ r[i].step = "pop" => pc'[r[i].session] # "none"
    <3>1. CASE i \in DOMAIN q /\ r[i] = q[i]
      BY <1>2, <1>5, <1>6, <3>1 DEF QueueFits
    <3>2. CASE r[i] = Pop(s)
      BY <1>2, <1>4, <3>2
    <3> QED BY <1>8, <3>1, <3>2
  <2>2. ASSUME NEW i \in DOMAIN r, NEW j \in DOMAIN r, r[i] = r[j], r[i].step = "drive"
        PROVE  i = j
    <3>1. r[i] # Pop(s) /\ r[j] # Pop(s)
      BY <1>4, <2>2
    <3>2. i \in DOMAIN q /\ j \in DOMAIN q /\ r[i] = q[i] /\ r[j] = q[j]
      BY <1>8, <3>1
    <3> QED BY <2>2, <3>2 DEF QueueFits
  <2> QED BY <2>1, <2>2 DEF QueueFits
<1>15. ASSUME shutdown' # "over" PROVE (DriversHold /\ PopsFirst(r) /\ NoPops(r))'
  <2>1. \A u \in Sessions \ {s} : Live(u) /\ target[u] = target[s] => target[s] \in crowded
    BY <1>15, Alone
  <2>2. DriversHold /\ PopsFirst(q) /\ NoPops(q)
    BY <1>15 DEF IInv
  <2>3. DriversHold'
    <3> SUFFICES ASSUME NEW u \in Sessions, Driving(u)', target[u] \notin crowded
                 PROVE  linkSessions'[target[u]] = u
      BY DEF DriversHold
    <3>1. u # s /\ Driving(u) /\ Live(u) /\ target[u] \in Targets
      BY <1>0, <1>2 DEF Live, TableType, Driving
    <3>2. target[u] # target[s] /\ linkSessions[target[u]] = u
      BY <2>1, <2>2, <3>1 DEF DriversHold
    <3> QED BY <1>0, <3>1, <3>2 DEF TableType
  <2>4. PopsFirst(r)'
    <3> SUFFICES ASSUME NEW i \in DOMAIN r, NEW j \in DOMAIN r, i < j,
                        r[i].step = "drive", r[j].step = "pop",
                        target[r[i].session] = target[r[j].session]
                 PROVE  target[r[i].session] \in crowded
      BY DEF PopsFirst
    <3>1. i \in DOMAIN q /\ r[i] = q[i]
      BY <1>4, <1>8
    <3>2. CASE j \in DOMAIN q /\ r[j] = q[j]
      BY <2>2, <3>1, <3>2 DEF PopsFirst
    <3>3. CASE r[j] = Pop(s)
      <4>1. q[i].session \in Sessions \ {s} /\ Live(q[i].session)
        BY <1>5, <1>6, <3>1 DEF QueueFits, Live
      <4> QED BY <1>4, <2>1, <3>1, <3>3, <4>1
    <3> QED BY <1>8, <3>2, <3>3
  <2>5. NoPops(r)'
    <3> SUFFICES ASSUME NEW i \in DOMAIN r, NEW u \in Sessions, r[i].step = "pop", Driving(u)',
                        target[u] = target[r[i].session]
                 PROVE  target[u] \in crowded
      BY DEF NoPops
    <3>1. u # s /\ Driving(u) /\ Live(u)
      BY <1>2 DEF Live
    <3>2. CASE i \in DOMAIN q /\ r[i] = q[i]
      BY <2>2, <3>1, <3>2 DEF NoPops
    <3>3. CASE r[i] = Pop(s)
      BY <1>4, <2>1, <3>1, <3>3
    <3> QED BY <1>8, <3>2, <3>3
  <2> QED BY <2>3, <2>4, <2>5
<1>16. QueueFits(ready)' /\ (shutdown' # "over" => (DriversHold /\ PopsFirst(ready) /\ NoPops(ready))')
  BY <1>7, <1>14, <1>15 DEF QueueFits, PopsFirst, NoPops
<1> QED BY <1>9, <1>10, <1>11, <1>12, <1>13, <1>16 DEF IInv

LEMMA CancelFacts ==
    ASSUME TableType, NEW S \in SUBSET Sessions, NEW marked, CancelDrivers(S, marked)
    PROVE  /\ pc' \in [Sessions -> Pcs]
           /\ \A s \in Sessions : /\ Pending(s)' <=> Pending(s)
                                  /\ Driving(s)' <=> Driving(s)
                                  /\ pc'[s] = "none" <=> pc[s] = "none"
                                  /\ pc[s] \in {"cancelled", "stopping"} => pc'[s] = pc[s]
           /\ \A s \in S : Live(s) => pc'[s] \in {"cancelled", "stopping"}
BY DEF TableType, Pcs, CancelDrivers, Pending, Driving, Live

LEMMA ReapKeeps ==
    ASSUME IInv, NEW S \in SUBSET Sessions, Reap(S), shutdown # "over",
           UNCHANGED <<target, driver, stops, ready, crowded>>
    PROVE  IInv'
<1>1. TableType /\ StopsFit
  BY DEF IInv
<1>2. CancelDrivers(S, {}) /\ linkSessions' = linkSessions
  BY DEF Reap
<1>3. \A s \in stops : pc'[s] \in {"cancelled", "stopping"}
  BY <1>1, <1>2, CancelFacts DEF TableType, StopsFit
<1> QED BY <1>1, <1>2, <1>3, CancelFacts, PhasesStay DEF TableType

LEMMA NextAttemptFacts ==
    ASSUME TableType, NEW s \in Sessions, NEW d \in Sessions, NEW k \in Nat, NEW n \in Nat,
           attempts[d] \in Seq(Attempt), NextAttempt(s, d, k, n)
    PROVE  \E q \in {"sent", "done"}, v \in Driver :
              /\ pc' = [pc EXCEPT ![s] = q] /\ driver' = [driver EXCEPT ![s] = v]
              /\ v.session = d
<1>1. Len(attempts[d]) + 1 \in Nat /\ k + 1 \in Nat
  OBVIOUS
<1>2. CASE MoreAttempts(d, k)
  <2> DEFINE v == [session |-> d, turn |-> k + 1, at |-> Len(attempts[d]) + 1, received |-> n]
  <2>1. v \in Driver /\ v.session = d
    BY <1>1 DEF Driver
  <2> QED BY <1>2, <2>1 DEF NextAttempt
<1>3. CASE ~MoreAttempts(d, k)
  <2> DEFINE v == [Idle EXCEPT !.session = d]
  <2>1. v \in Driver /\ v.session = d
    BY DEF Driver, Idle
  <2> QED BY <1>3, <2>1 DEF NextAttempt
<1> QED BY <1>2, <1>3

-----------------------------------------------------------------------------
(* The attempts: one that was given up can only be resolved late, and the  *)
(* ids it carries are those of its own ping or of an earlier one to the    *)
(* same target.                                                            *)

Started(s) == pc[s] # "none"

OwnId(id, s, n) ==
    id # None =>
        /\ Started(id[1]) /\ target[id[1]] = target[s]
        /\ id[1] < s \/ (id[1] = s /\ id[2] <= n)

GoodAttempt(a, s, n) ==
    /\ a \in Attempt
    /\ Resolved(a) /\ a.timedOut => a.late
    /\ OwnId(a.ping, s, n) /\ OwnId(a.pong, s, n)

AttemptsFit ==
    /\ attempts \in [Sessions -> Seq(Attempt)]
    /\ \A s \in Sessions : \A n \in DOMAIN attempts[s] :
          Started(s) /\ GoodAttempt(attempts[s][n], s, n)
    /\ \A s \in Sessions : pc[s] \in {"sent", "waiting"} =>
          driver[s].at \in DOMAIN attempts[driver[s].session]

LEMMA StartKeeps ==
    ASSUME IInv, NEW t \in Targets, NEW s \in Sessions, StartLinkCheck(t, s)
    PROVE  IInv'
<1>0. /\ TableType /\ EntriesFit /\ SessionsFit /\ PendingFits /\ StopsFit /\ QueueFits(ready)
      /\ NoSession \notin Sessions
  BY ParametersAssumption DEF IInv
<1>1. /\ pc[s] = "none" /\ linkSessions[t] = NoSession
      /\ linkSessions' = [linkSessions EXCEPT ![t] = s]
      /\ target' = [target EXCEPT ![s] = t]
      /\ pc' = [pc EXCEPT ![s] = "created"]
      /\ crowded \subseteq crowded' /\ crowded' \subseteq crowded \cup {t}
      /\ \A q \in Sessions : Pending(q) /\ target[q] = t => t \in crowded'
      /\ UNCHANGED <<driver, stops, shutdown>>
  BY DEF StartLinkCheck, StartAllowed
<1>2. /\ Pending(s)' /\ ~Driving(s)' /\ ~Driving(s) /\ ~Pending(s) /\ pc'[s] # "none" /\ target'[s] = t
      /\ \A r \in Sessions \ {s} : /\ Driving(r)' <=> Driving(r)
                                   /\ Pending(r)' <=> Pending(r)
                                   /\ pc'[r] = pc[r] /\ target'[r] = target[r]
  BY <1>0, <1>1 DEF TableType, Driving, Pending
<1>3. PICK r : r = ready'
  OBVIOUS
<1>4. Drive(s) \in Handles /\ Drive(s).step = "drive" /\ Drive(s).session = s
  BY DEF Drive, Handles
<1>5. /\ r \in Seq(Handles)
      /\ \A i \in DOMAIN r : \/ i \in DOMAIN ready /\ r[i] = ready[i]
                             \/ r[i] = Drive(s) /\ i = Len(ready) + 1 /\ \A j \in DOMAIN ready : j < i
      /\ \A i \in DOMAIN r : i <= Len(ready) + 1
  <2>1. r = Append(ready, Drive(s)) /\ ready \in Seq(Handles)
    BY <1>0, <1>3 DEF StartLinkCheck, TableType
  <2>2. /\ r \in Seq(Handles) /\ Len(ready) \in Nat
        /\ DOMAIN ready = 1 .. Len(ready) /\ DOMAIN r = 1 .. Len(ready) + 1
        /\ \A i \in DOMAIN ready : i \in DOMAIN r /\ r[i] = ready[i]
        /\ \A i \in DOMAIN r : i \in DOMAIN ready \/ i = Len(ready) + 1
        /\ Len(ready) + 1 \in DOMAIN r /\ r[Len(ready) + 1] = Drive(s)
    BY <1>4, <2>1, AppendFacts
  <2> QED BY <2>2
<1>6. \A i \in DOMAIN ready : ready[i].session \in Sessions \ {s} /\ ready[i].step \in {"drive", "pop"}
  <2>1. \A i \in DOMAIN ready : ready[i] \in Handles
    BY <1>0 DEF TableType
  <2>2. \A i \in DOMAIN ready : ready[i].session \in Sessions /\ ready[i].step \in {"drive", "pop"}
    BY <2>1 DEF Handles
  <2> QED BY <1>0, <1>1, <1>2, <2>2 DEF QueueFits
<1>7. TableType'
  BY <1>0, <1>1, <1>2, <1>3, <1>5 DEF TableType, Pcs
<1>8. EntriesFit'
  <2> SUFFICES ASSUME NEW u \in Targets, linkSessions'[u] # NoSession
               PROVE  target'[linkSessions'[u]] = u /\ pc'[linkSessions'[u]] # "none"
    BY DEF EntriesFit
  <2>1. CASE u = t
    BY <1>0, <1>1, <1>2, <2>1 DEF TableType
  <2>2. CASE u # t
    <3>1. linkSessions'[u] = linkSessions[u] /\ linkSessions[u] \in Sessions
      BY <1>0, <1>1, <2>2 DEF TableType
    <3>2. linkSessions[u] # s /\ target[linkSessions[u]] = u /\ pc[linkSessions[u]] # "none"
      BY <1>0, <1>1, <3>1 DEF EntriesFit
    <3> QED BY <1>2, <3>1, <3>2
  <2> QED BY <2>1, <2>2
<1>9. SessionsFit'
  <2> SUFFICES ASSUME NEW r1 \in Sessions
               PROVE  /\ ~Driving(r1)' => driver[r1].session = NoSession
                      /\ Driving(r1)' =>
                          /\ driver[r1].session \in Sessions
                          /\ target'[driver[r1].session] = target'[r1]
                          /\ pc'[driver[r1].session] # "none"
                          /\ target'[r1] \notin crowded' => driver[r1].session = r1
    BY <1>1 DEF SessionsFit
  <2>1. CASE ~Driving(r1)
    BY <1>0, <1>2, <2>1 DEF SessionsFit
  <2>2. CASE Driving(r1)
    <3>1. /\ r1 # s /\ driver[r1].session \in Sessions \ {s}
          /\ target[driver[r1].session] = target[r1] /\ pc[driver[r1].session] # "none"
          /\ target[r1] \notin crowded => driver[r1].session = r1
      BY <1>0, <1>1, <1>2, <2>2 DEF SessionsFit
    <3> QED BY <1>1, <1>2, <2>2, <3>1
  <2> QED BY <2>1, <2>2
<1>10. PendingFits'
  <2> SUFFICES ASSUME NEW r1 \in Sessions, Pending(r1)', target'[r1] \notin crowded'
               PROVE  /\ linkSessions'[target'[r1]] \in {r1, NoSession}
                      /\ \A r2 \in Sessions : Pending(r2)' /\ target'[r2] = target'[r1] => r2 = r1
    BY DEF PendingFits
  <2>1. \A q \in Sessions : Pending(q) /\ target[q] = target'[r1] => target'[r1] # t
    BY <1>1
  <2>2. CASE r1 = s
    BY <1>0, <1>1, <1>2, <2>1, <2>2 DEF TableType
  <2>3. CASE r1 # s
    <3>1. target[r1] \in Targets \ {t} /\ Pending(r1) /\ target[r1] \notin crowded /\ target'[r1] = target[r1]
      BY <1>0, <1>1, <1>2, <2>1, <2>3 DEF TableType, Pending
    <3> QED BY <1>0, <1>1, <1>2, <3>1 DEF PendingFits, TableType
  <2> QED BY <2>2, <2>3
<1>11. StopsFit'
  BY <1>0, <1>1, <1>2 DEF StopsFit, TableType
<1>12. QueueFits(r)'
  <2>1. ASSUME NEW i \in DOMAIN r
        PROVE  /\ r[i].step = "drive" => Pending(r[i].session)'
               /\ r[i].step = "pop" => pc'[r[i].session] # "none"
    <3>1. CASE i \in DOMAIN ready /\ r[i] = ready[i]
      BY <1>0, <1>2, <1>6, <3>1 DEF QueueFits
    <3>2. CASE r[i] = Drive(s)
      BY <1>2, <1>4, <3>2
    <3> QED BY <1>5, <3>1, <3>2
  <2>2. ASSUME NEW i \in DOMAIN r, NEW j \in DOMAIN r, r[i] = r[j], r[i].step = "drive"
        PROVE  i = j
    <3>1. CASE i \in DOMAIN ready /\ r[i] = ready[i] /\ j \in DOMAIN ready /\ r[j] = ready[j]
      BY <1>0, <2>2, <3>1 DEF QueueFits
    <3>2. CASE r[i] = Drive(s) \/ r[j] = Drive(s)
      <4>1. r[i].session = s /\ r[j].session = s
        BY <1>4, <2>2, <3>2
      <4>2. i = Len(ready) + 1 /\ j = Len(ready) + 1
        BY <1>5, <1>6, <4>1
      <4> QED BY <4>2
    <3> QED BY <1>5, <3>1, <3>2
  <2> QED BY <2>1, <2>2 DEF QueueFits
<1>13. ASSUME shutdown' # "over" PROVE (DriversHold /\ PopsFirst(r) /\ NoPops(r))'
  <2>0. DriversHold /\ PopsFirst(ready) /\ NoPops(ready)
    BY <1>1, <1>13 DEF IInv
  <2>1. DriversHold'
    <3> SUFFICES ASSUME NEW u \in Sessions, Driving(u)', target'[u] \notin crowded'
                 PROVE  linkSessions'[target'[u]] = u
      BY DEF DriversHold
    <3>1. u # s /\ Driving(u) /\ target'[u] = target[u] /\ target[u] \notin crowded
      BY <1>1, <1>2
    <3>2. linkSessions[target[u]] = u /\ u # NoSession
      BY <1>0, <2>0, <3>1 DEF DriversHold
    <3> QED BY <1>0, <1>1, <3>1, <3>2 DEF TableType
  <2>2. PopsFirst(r)'
    <3> SUFFICES ASSUME NEW i \in DOMAIN r, NEW j \in DOMAIN r, i < j,
                        r[i].step = "drive", r[j].step = "pop",
                        target'[r[i].session] = target'[r[j].session]
                 PROVE  target'[r[i].session] \in crowded'
      BY DEF PopsFirst
    <3>1. j \in DOMAIN ready /\ r[j] = ready[j]
      BY <1>4, <1>5
    <3>2. i \in DOMAIN ready /\ r[i] = ready[i]
      BY <1>5, <3>1
    <3>3. r[i].session \in Sessions \ {s} /\ r[j].session \in Sessions \ {s}
      BY <1>6, <3>1, <3>2
    <3>4. target[r[i].session] \in crowded
      BY <1>2, <2>0, <3>1, <3>2, <3>3 DEF PopsFirst
    <3> QED BY <1>1, <1>2, <3>3, <3>4
  <2>3. NoPops(r)'
    <3> SUFFICES ASSUME NEW i \in DOMAIN r, NEW u \in Sessions, r[i].step = "pop", Driving(u)',
                        target'[u] = target'[r[i].session]
                 PROVE  target'[u] \in crowded'
      BY DEF NoPops
    <3>1. u # s /\ Driving(u) /\ i \in DOMAIN ready /\ r[i] = ready[i]
      BY <1>2, <1>4, <1>5
    <3>2. r[i].session \in Sessions \ {s}
      BY <1>6, <3>1
    <3>3. target[u] \in crowded
      BY <1>2, <2>0, <3>1, <3>2 DEF NoPops
    <3> QED BY <1>1, <1>2, <3>1, <3>3
  <2> QED BY <2>1, <2>2, <2>3
<1>14. QueueFits(ready)' /\ (shutdown' # "over" => (DriversHold /\ PopsFirst(ready) /\ NoPops(ready))')
  BY <1>3, <1>12, <1>13 DEF QueueFits, PopsFirst, NoPops
<1> QED BY <1>7, <1>8, <1>9, <1>10, <1>11, <1>14 DEF IInv

LEMMA BeginKeeps ==
    ASSUME IInv, AttemptsFit, NEW s \in Sessions, DriverBegins(s)
    PROVE  IInv'
<1>0. /\ TableType /\ EntriesFit /\ SessionsFit /\ PendingFits /\ StopsFit /\ QueueFits(ready)
      /\ NoSession \notin Sessions
  BY ParametersAssumption DEF IInv
<1> DEFINE d == linkSessions[target[s]]
<1>1. /\ ready # <<>> /\ Head(ready) = Drive(s)
      /\ UNCHANGED <<linkSessions, target, crowded, shutdown>>
  BY DEF DriverBegins
<1>2. PICK r : r = Tail(ready)
  OBVIOUS
<1>3. /\ r \in Seq(Handles) /\ QueueFits(r)
      /\ shutdown # "over" => PopsFirst(r) /\ NoPops(r)
  BY <1>0, <1>1, <1>2, TailKeeps DEF IInv
<1>4. /\ \A i \in DOMAIN r : i \in Nat /\ i >= 1 /\ i + 1 \in DOMAIN ready /\ r[i] = ready[i + 1]
      /\ 1 \in DOMAIN ready /\ ready[1] = Drive(s)
  BY <1>0, <1>1, <1>2, TailFacts DEF TableType
<1>5. Drive(s).step = "drive" /\ Drive(s).session = s
  BY DEF Drive
<1>6. \A i \in DOMAIN r : r[i] # Drive(s)
  <2> SUFFICES ASSUME NEW i \in DOMAIN r, r[i] = Drive(s) PROVE FALSE
    OBVIOUS
  <2>1. i + 1 = 1
    BY <1>0, <1>4, <1>5 DEF QueueFits
  <2> QED BY <1>4, <2>1
<1>7. Pending(s) /\ Live(s) /\ target[s] \in Targets
  BY <1>0, <1>4, <1>5 DEF QueueFits, Live, Pending, TableType
<1>8. CASE /\ pc[s] = "created" /\ d # NoSession
           /\ NextAttempt(s, d, 0, 0)
           /\ ready' = Tail(ready)
           /\ UNCHANGED stops
  <2>1. /\ d \in Sessions /\ target[d] = target[s] /\ pc[d] # "none"
        /\ target[s] \notin crowded => d = s
    BY <1>0, <1>7, <1>8 DEF TableType, EntriesFit, PendingFits
  <2>2. PICK q \in {"sent", "done"}, v \in Driver :
           pc' = [pc EXCEPT ![s] = q] /\ driver' = [driver EXCEPT ![s] = v] /\ v.session = d
    BY <1>0, <1>8, <2>1, NextAttemptFacts DEF AttemptsFit
  <2>3. /\ Driving(s)' /\ ~Pending(s)' /\ pc'[s] # "none" /\ driver'[s].session = d
        /\ \A u \in Sessions \ {s} : /\ Driving(u)' <=> Driving(u)
                                     /\ Pending(u)' <=> Pending(u)
                                     /\ pc'[u] = pc[u] /\ driver'[u] = driver[u]
    BY <1>0, <2>2 DEF TableType, Driving, Pending
  <2>4. TableType'
    BY <1>0, <1>1, <1>2, <1>3, <1>8, <2>2 DEF TableType, Pcs
  <2>5. EntriesFit' /\ StopsFit'
    BY <1>0, <1>1, <1>8, <2>3 DEF TableType, EntriesFit, StopsFit
  <2>6. SessionsFit'
    <3> SUFFICES ASSUME NEW u \in Sessions
                 PROVE  /\ ~Driving(u)' => driver'[u].session = NoSession
                        /\ Driving(u)' =>
                            /\ driver'[u].session \in Sessions
                            /\ target[driver'[u].session] = target[u]
                            /\ pc'[driver'[u].session] # "none"
                            /\ target[u] \notin crowded => driver'[u].session = u
      BY <1>1 DEF SessionsFit
    <3>1. \A e \in Sessions : pc[e] # "none" => pc'[e] # "none"
      BY <2>3
    <3> QED BY <1>0, <2>1, <2>3, <3>1 DEF SessionsFit
  <2>7. PendingFits'
    BY <1>0, <1>1, <2>3 DEF PendingFits
  <2>8. \A i \in DOMAIN r : r[i] \in Handles /\ r[i].session \in Sessions
    <3>1. \A i \in DOMAIN r : r[i] \in Handles
      BY <1>3
    <3> QED BY <3>1 DEF Handles
  <2>9. \A i \in DOMAIN r : r[i].step = "drive" => r[i].session # s
    BY <1>6, <2>8 DEF Handles, Drive
  <2>10. QueueFits(r)'
    BY <1>3, <2>3, <2>8, <2>9 DEF QueueFits
  <2>11. ASSUME shutdown' # "over" PROVE (DriversHold /\ PopsFirst(r) /\ NoPops(r))'
    <3>0. DriversHold /\ PopsFirst(ready) /\ PopsFirst(r) /\ NoPops(r)
      BY <1>1, <1>3, <2>11 DEF IInv
    <3>1. DriversHold'
      BY <1>1, <2>1, <2>3, <3>0 DEF DriversHold
    <3>2. PopsFirst(r)'
      BY <1>1, <3>0 DEF PopsFirst
    <3>3. NoPops(r)'
      <4> SUFFICES ASSUME NEW i \in DOMAIN r, NEW u \in Sessions, r[i].step = "pop", Driving(u)',
                          target[u] = target[r[i].session]
                   PROVE  target[u] \in crowded
        BY <1>1 DEF NoPops
      <4>1. CASE u = s
        <5>1. 1 < i + 1
          BY <1>4
        <5> QED BY <1>4, <1>5, <3>0, <4>1, <5>1 DEF PopsFirst
      <4>2. CASE u # s
        BY <2>3, <3>0, <4>2 DEF NoPops
      <4> QED BY <4>1, <4>2
    <3> QED BY <3>1, <3>2, <3>3
  <2>12. QueueFits(ready)' /\ (shutdown' # "over" => (DriversHold /\ PopsFirst(ready) /\ NoPops(ready))')
    BY <1>2, <1>8, <2>10, <2>11 DEF QueueFits, PopsFirst, NoPops
  <2> QED BY <2>4, <2>5, <2>6, <2>7, <2>12 DEF IInv
<1>9. CASE TaskEnds(s, Tail(ready))
  BY <1>1, <1>2, <1>3, <1>6, <1>7, <1>9, EndKeeps
<1> QED BY <1>8, <1>9 DEF DriverBegins

LEMMA NextIInv == IInv /\ AttemptsFit /\ [Next]_vars => IInv'
<1> SUFFICES ASSUME IInv, AttemptsFit, [Next]_vars PROVE IInv'
  OBVIOUS
<1>0. /\ TableType /\ EntriesFit /\ SessionsFit /\ StopsFit
      /\ linkSessions \in [Targets -> Sessions \cup {NoSession}]
      /\ pc \in [Sessions -> Pcs] /\ driver \in [Sessions -> Driver] /\ stops \subseteq Sessions
      /\ \A s \in stops : pc[s] \in {"cancelled", "stopping"}
  BY DEF IInv, TableType, StopsFit
<1>1. ASSUME UNCHANGED <<linkSessions, target, pc, driver, stops, ready, crowded, shutdown>>
      PROVE  IInv'
  BY <1>0, <1>1, PhasesStay DEF Pending, Driving
(* A driver that drives goes on with the session it has. *)
<1>2. ASSUME NEW s \in Sessions, Driving(s), pc[s] # "stopping",
             NEW q \in {"sent", "waiting", "timeout", "done"},
             pc' = [pc EXCEPT ![s] = q], driver' \in [Sessions -> Driver],
             \A r \in Sessions : driver'[r].session = driver[r].session,
             UNCHANGED <<linkSessions, target, stops, ready, crowded, shutdown>>
      PROVE  IInv'
  <2>1. /\ pc' \in [Sessions -> Pcs]
        /\ \A r \in Sessions : /\ Pending(r)' <=> Pending(r)
                               /\ Driving(r)' <=> Driving(r)
                               /\ pc'[r] = "none" <=> pc[r] = "none"
                               /\ pc[r] \in {"cancelled", "stopping"} => pc'[r] = pc[r]
    BY <1>0, <1>2 DEF Pcs, Pending, Driving
  <2> QED BY <1>0, <1>2, <2>1, PhasesStay
<1>3. ASSUME NEW s \in Sessions, Driving(s), pc[s] # "stopping", NEW k \in Nat, NEW n \in Nat,
             NextAttempt(s, driver[s].session, k, n),
             UNCHANGED <<linkSessions, target, stops, ready, crowded, shutdown>>
      PROVE  IInv'
  <2>1. driver[s].session \in Sessions
    BY <1>0, <1>3 DEF SessionsFit
  <2>2. PICK q \in {"sent", "done"}, v \in Driver :
           /\ pc' = [pc EXCEPT ![s] = q] /\ driver' = [driver EXCEPT ![s] = v]
           /\ v.session = driver[s].session
    BY <1>0, <1>3, <2>1, NextAttemptFacts DEF AttemptsFit
  <2>3. driver' \in [Sessions -> Driver] /\ \A r \in Sessions : driver'[r].session = driver[r].session
    BY <1>0, <2>2
  <2> QED BY <1>2, <1>3, <2>2, <2>3
<1>4. ASSUME NEW s \in Sessions, AwaitPong(s) PROVE IInv'
  <2>1. Driving(s) /\ pc[s] # "stopping"
    BY <1>4 DEF AwaitPong, Driving
  <2> QED BY <1>0, <1>2, <1>4, <2>1 DEF AwaitPong, sessionVars
<1>5. ASSUME NEW s \in Sessions, WaitEnds(s) PROVE IInv'
  <2>1. /\ Driving(s) /\ pc[s] # "stopping"
        /\ UNCHANGED <<linkSessions, target, stops, ready, crowded, shutdown>>
    BY <1>5 DEF WaitEnds, Driving
  <2>2. CASE NextAttempt(s, driver[s].session, driver[s].turn, driver[s].received + 1)
    <3>1. driver[s].turn \in Nat /\ driver[s].received + 1 \in Nat
      BY <1>0 DEF Driver
    <3> QED BY <1>3, <2>1, <2>2, <3>1
  <2>3. CASE pc' = [pc EXCEPT ![s] = "timeout"] /\ driver' = driver
    BY <1>0, <1>2, <2>1, <2>3
  <2> QED BY <1>5, <2>2, <2>3 DEF WaitEnds
<1>6. ASSUME NEW s \in Sessions, TimeoutReported(s) PROVE IInv'
  <2>1. /\ Driving(s) /\ pc[s] # "stopping"
        /\ UNCHANGED <<linkSessions, target, stops, ready, crowded, shutdown>>
        /\ NextAttempt(s, driver[s].session, driver[s].turn, driver[s].received)
    BY <1>6 DEF TimeoutReported, Driving
  <2>2. driver[s].turn \in Nat /\ driver[s].received \in Nat
    BY <1>0 DEF Driver
  <2> QED BY <1>3, <2>1, <2>2
<1>7. ASSUME NEW s \in Sessions, DriverEnds(s) PROVE IInv'
  <2>1. /\ Driving(s) /\ Live(s) /\ TaskEnds(s, ready)
        /\ linkSessions' = [linkSessions EXCEPT ![target[s]] = NoSession]
        /\ UNCHANGED <<target, crowded, shutdown>>
    BY <1>7 DEF DriverEnds, Driving, Live
  <2>2. /\ ready \in Seq(Handles) /\ QueueFits(ready)
        /\ shutdown # "over" => PopsFirst(ready) /\ NoPops(ready)
    BY DEF IInv, TableType
  <2>3. \A i \in DOMAIN ready : ready[i] # Drive(s)
    BY <2>1, <2>2 DEF QueueFits, Drive, Pending, Driving
  <2> QED BY <2>1, <2>2, <2>3, EndKeeps
<1>8. ASSUME NEW t \in Targets, StopLinkCheck(t) PROVE IInv'
  <2> DEFINE s == linkSessions[t]
  <2>1. /\ s \in Sessions /\ target[s] = t /\ CancelDrivers({s}, {s})
        /\ UNCHANGED <<target, driver, ready, crowded, shutdown>>
    BY <1>0, <1>8 DEF StopLinkCheck, EntriesFit
  <2>2. {s} \in SUBSET Sessions
    BY <2>1
  <2>3. /\ pc' \in [Sessions -> Pcs]
        /\ \A r \in Sessions : /\ Pending(r)' <=> Pending(r)
                               /\ Driving(r)' <=> Driving(r)
                               /\ pc'[r] = "none" <=> pc[r] = "none"
                               /\ pc[r] \in {"cancelled", "stopping"} => pc'[r] = pc[r]
        /\ Live(s) => pc'[s] \in {"cancelled", "stopping"}
    BY <1>0, <2>1, <2>2, CancelFacts
  <2>4. CASE Live(s) /\ stops' = stops \cup {s} /\ linkSessions' = linkSessions
    <3>1. stops' \subseteq Sessions /\ \A c \in stops' : pc'[c] \in {"cancelled", "stopping"}
      BY <1>0, <2>1, <2>3, <2>4
    <3> QED BY <1>0, <2>1, <2>3, <2>4, <3>1, PhasesStay
  <2>5. CASE ~Live(s) /\ linkSessions' = [linkSessions EXCEPT ![t] = NoSession] /\ stops' = stops
    <3>1. \A c \in stops' : pc'[c] \in {"cancelled", "stopping"}
      BY <1>0, <2>3, <2>5
    <3>2. linkSessions' \in [Targets -> Sessions \cup {NoSession}]
          /\ \A u \in Targets : linkSessions'[u] \in {linkSessions[u], NoSession}
      BY <1>0, <2>5
    <3>3. ASSUME shutdown' # "over", NEW r \in Sessions, Driving(r), target[r] \notin crowded
          PROVE  linkSessions'[target[r]] = linkSessions[target[r]]
      <4>1. linkSessions[target[r]] = r
        BY <2>1, <3>3 DEF IInv, DriversHold
      <4>2. target[r] # t
        BY <2>5, <3>3, <4>1 DEF Live
      <4> QED BY <1>0, <2>5, <4>2
    <3> QED BY <1>0, <2>1, <2>3, <2>5, <3>1, <3>2, <3>3, PhasesStay
  <2> QED BY <1>8, <2>4, <2>5 DEF StopLinkCheck
<1>9. ASSUME StopReturns PROVE IInv'
  <2> DEFINE c == Head(ready).session
  <2>1. /\ ready # <<>> /\ Head(ready).step = "pop" /\ ready' = Tail(ready)
        /\ linkSessions' = [linkSessions EXCEPT ![target[c]] = NoSession]
        /\ UNCHANGED <<target, pc, driver, stops, crowded, shutdown>>
    BY <1>9 DEF StopReturns, sessionVars
  <2>2. 1 \in DOMAIN ready /\ Head(ready) = ready[1]
    BY <2>1, TailFacts DEF IInv, TableType
  <2>3. linkSessions' \in [Targets -> Sessions \cup {NoSession}]
        /\ \A u \in Targets : linkSessions'[u] \in {linkSessions[u], NoSession}
    BY <1>0, <2>1
  <2>4. ASSUME shutdown' # "over", NEW r \in Sessions, Driving(r), target[r] \notin crowded
        PROVE  linkSessions'[target[r]] = linkSessions[target[r]]
    <3>1. target[r] # target[c]
      BY <2>1, <2>2, <2>4 DEF IInv, NoPops
    <3>2. target[r] \in Targets
      BY <1>0, <2>4 DEF TableType, Driving
    <3> QED BY <1>0, <2>1, <3>1, <3>2
  <2> QED BY <1>0, <2>1, <2>3, <2>4, PhasesStay DEF Pending, Driving
<1>10. ASSUME TablesCleared, UNCHANGED <<target, pc, driver, stops, ready, crowded>> PROVE IInv'
  <2>1. shutdown' = "over" /\ linkSessions' = [t \in Targets |-> NoSession]
    BY <1>10 DEF TablesCleared
  <2> QED BY <1>0, <1>10, <2>1, PhasesStay DEF Pending, Driving
<1>11. ASSUME ReapStrays, shutdown # "over", UNCHANGED <<target, driver, stops, ready, crowded>>
       PROVE  IInv'
  <2>1. {s \in Sessions : Live(s)} \in SUBSET Sessions
    OBVIOUS
  <2> QED BY <1>10, <1>11, <2>1, ReapKeeps DEF ReapStrays
<1>12. ASSUME ShutdownBegins PROVE IInv'
  <2>1. shutdown # "over" /\ UNCHANGED <<target, driver, stops, ready, crowded>>
    BY <1>12 DEF ShutdownBegins
  <2>2. Tabled \in SUBSET Sessions
    BY DEF Tabled
  <2> QED BY <1>11, <1>12, <2>1, <2>2, ReapKeeps DEF ShutdownBegins
<1>13. ASSUME ShutdownReapsStrays PROVE IInv'
  BY <1>11, <1>13 DEF ShutdownReapsStrays
<1>14. ASSUME ShutdownClears PROVE IInv'
  BY <1>10, <1>14 DEF ShutdownClears, sessionVars
<1>15. ASSUME NEW s \in Sessions, DriverStep(s) PROVE IInv'
  <2>1. CASE AttemptTimeout(s)
    BY <1>1, <2>1 DEF AttemptTimeout, sessionVars
  <2> QED BY <1>4, <1>5, <1>6, <1>7, <1>15, <2>1, BeginKeeps DEF DriverStep
<1>16. ASSUME NEW t \in Targets, CooldownPasses(t) PROVE IInv'
  BY <1>1, <1>16 DEF CooldownPasses, sessionVars
<1>17. ASSUME NEW id, HandleEcho(id) PROVE IInv'
  BY <1>1, <1>17 DEF HandleEcho
<1>18. ASSUME NEW id, HandlePong(id) PROVE IInv'
  BY <1>1, <1>18 DEF HandlePong
<1>19. CASE UNCHANGED vars
  BY <1>1, <1>19 DEF vars, sessionVars
<1> QED
  BY <1>8, <1>9, <1>12, <1>13, <1>14, <1>15, <1>16, <1>17, <1>18, <1>19, StartKeeps DEF Next

-----------------------------------------------------------------------------
(* The cap: a start adds one entry to a table that is not full, everything *)
(* else only removes entries, and each driver holds an entry of its own.   *)

Capped == IsFiniteSet(Occupied) /\ Cardinality(Occupied) <= MaxConcurrent

LEMMA InitCapped == Init => Capped
<1> SUFFICES ASSUME Init PROVE Capped
  OBVIOUS
<1>1. Occupied = {}
  BY DEF Init, Occupied
<1> QED BY <1>1, FS_EmptySet, ParametersAssumption DEF Capped

LEMMA FewerIsCapped ==
    ASSUME Capped, Occupied' \subseteq Occupied
    PROVE  Capped'
<1>1. IsFiniteSet(Occupied) /\ Cardinality(Occupied) <= MaxConcurrent
  BY DEF Capped
<1>2. IsFiniteSet(Occupied') /\ Cardinality(Occupied') <= Cardinality(Occupied)
  BY <1>1, FS_Subset
<1>3. Cardinality(Occupied') \in Nat /\ Cardinality(Occupied) \in Nat
  BY <1>1, <1>2, FS_CardinalityType
<1> QED BY <1>1, <1>2, <1>3, ParametersAssumption DEF Capped

LEMMA NextCapped == IInv /\ Capped /\ [Next]_vars => Capped'
<1> SUFFICES ASSUME IInv, Capped, [Next]_vars PROVE Capped'
  OBVIOUS
<1>0. linkSessions \in [Targets -> Sessions \cup {NoSession}]
  BY DEF IInv, TableType
<1>1. ASSUME NEW t \in Targets, NEW s \in Sessions, StartLinkCheck(t, s) PROVE Capped'
  <2>1. Occupied' = Occupied \cup {t}
    BY <1>0, <1>1, ParametersAssumption DEF StartLinkCheck, Occupied
  <2>2. t \notin Occupied /\ Cardinality(Occupied) < MaxConcurrent
    BY <1>1 DEF StartLinkCheck, StartAllowed, Occupied
  <2>3. IsFiniteSet(Occupied) /\ Cardinality(Occupied) \in Nat
    BY FS_CardinalityType DEF Capped
  <2>4. IsFiniteSet(Occupied') /\ Cardinality(Occupied') = Cardinality(Occupied) + 1
    BY <2>1, <2>2, <2>3, FS_AddElement
  <2> QED BY <2>2, <2>3, <2>4, ParametersAssumption DEF Capped
<1>2. ASSUME UNCHANGED linkSessions PROVE Capped'
  BY <1>2, FewerIsCapped DEF Occupied
<1>3. ASSUME linkSessions' = [t \in Targets |-> NoSession] PROVE Capped'
  BY <1>3, FewerIsCapped DEF Occupied
<1>4. ASSUME NEW t, linkSessions' = [linkSessions EXCEPT ![t] = NoSession] PROVE Capped'
  BY <1>0, <1>4, FewerIsCapped DEF Occupied
<1>5. ASSUME NEW s \in Sessions, DriverStep(s) PROVE Capped'
  <2>1. CASE DriverEnds(s)
    BY <1>4, <2>1 DEF DriverEnds
  <2>2. CASE ~DriverEnds(s)
    BY <1>2, <1>5, <2>2 DEF DriverStep, DriverBegins, AwaitPong, AttemptTimeout, WaitEnds,
                            TimeoutReported
  <2> QED BY <2>1, <2>2
<1>6. ASSUME NEW t \in Targets, CooldownPasses(t) \/ StopLinkCheck(t) PROVE Capped'
  BY <1>2, <1>4, <1>6 DEF CooldownPasses, StopLinkCheck
<1>7. ASSUME NEW id, HandleEcho(id) PROVE Capped'
  BY <1>2, <1>7 DEF HandleEcho
<1>8. ASSUME NEW id, HandlePong(id) PROVE Capped'
  BY <1>2, <1>8 DEF HandlePong
<1>9. ASSUME StopReturns PROVE Capped'
  BY <1>4, <1>9 DEF StopReturns
<1>10. ASSUME ReapStrays PROVE Capped'
  BY <1>2, <1>3, <1>10 DEF ReapStrays, Reap, TablesCleared
<1>11. ASSUME ShutdownBegins PROVE Capped'
  BY <1>2, <1>10, <1>11 DEF ShutdownBegins, Reap
<1>12. ASSUME ShutdownReapsStrays PROVE Capped'
  BY <1>10, <1>12 DEF ShutdownReapsStrays
<1>13. ASSUME ShutdownClears PROVE Capped'
  BY <1>3, <1>13 DEF ShutdownClears, TablesCleared
<1>14. CASE UNCHANGED vars
  BY <1>2, <1>14 DEF vars
<1> QED
  BY <1>1, <1>5, <1>6, <1>7, <1>8, <1>9, <1>11, <1>12, <1>13, <1>14 DEF Next

-----------------------------------------------------------------------------
(* Sessions are numbered as they start, so the entry of a target is its    *)
(* newest session: an echo never brings an id to an older one.             *)

InOrder == \A q, s \in Sessions : q < s /\ Started(s) => Started(q)

EntriesNewest ==
    \A s \in Sessions : Started(s) /\ linkSessions[target[s]] # NoSession =>
        s <= linkSessions[target[s]]

AttemptsInv == AttemptsFit /\ InOrder /\ EntriesNewest

LEMMA InitAttempts == Init => AttemptsInv
<1> SUFFICES ASSUME Init PROVE AttemptsInv
  OBVIOUS
<1>1. /\ \A s \in Sessions : pc[s] = "none" /\ attempts[s] = <<>>
      /\ attempts \in [Sessions -> Seq(Attempt)]
  BY DEF Init
<1> QED BY <1>1 DEF AttemptsInv, AttemptsFit, InOrder, EntriesNewest, Started

LEMMA FreshIsAttempt == FreshAttempt \in Attempt
BY DEF FreshAttempt, Attempt

LEMMA FreshIsGood == ASSUME NEW s, NEW n PROVE GoodAttempt(FreshAttempt, s, n)
BY FreshIsAttempt DEF FreshAttempt, GoodAttempt, OwnId, Resolved

LEMMA AttemptTypes ==
    ASSUME AttemptsFit, NEW s \in Sessions
    PROVE  /\ attempts[s] \in Seq(Attempt) /\ Len(attempts[s]) \in Nat
           /\ DOMAIN attempts[s] = 1 .. Len(attempts[s])
           /\ \A n \in DOMAIN attempts[s] : attempts[s][n] \in Attempt
BY DEF AttemptsFit

(* The newest session of a target stays the newest as long as no session   *)
(* starts.                                                                 *)
LEMMA OrderStays ==
    ASSUME IInv, InOrder, EntriesNewest, target' = target,
           \A s \in Sessions : Started(s)' <=> Started(s),
           \A t \in Targets : linkSessions'[t] \in {linkSessions[t], NoSession}
    PROVE  InOrder' /\ EntriesNewest'
<1>1. \A s \in Sessions : Started(s) => target[s] \in Targets
  BY DEF IInv, TableType, Started
<1> QED BY <1>1 DEF InOrder, EntriesNewest

(* Attempts are added and changed so that they stay good, and none goes.   *)
LEMMA AttemptsMove ==
    ASSUME IInv, AttemptsFit,
           \A s \in Sessions : Started(s) => Started(s)' /\ target'[s] = target[s],
           attempts' \in [Sessions -> Seq(Attempt)],
           \A s \in Sessions : \A n \in DOMAIN attempts[s] : n \in DOMAIN attempts'[s],
           \A s \in Sessions : \A n \in DOMAIN attempts'[s] :
              \/ n \in DOMAIN attempts[s] /\ attempts'[s][n] = attempts[s][n]
              \/ Started(s) /\ GoodAttempt(attempts'[s][n], s, n),
           \A s \in Sessions : pc'[s] \in {"sent", "waiting"} =>
              \/ pc[s] \in {"sent", "waiting"} /\ driver'[s] = driver[s]
              \/ driver'[s].at \in DOMAIN attempts'[driver'[s].session]
    PROVE  AttemptsFit'
<1>1. ASSUME NEW s \in Sessions, NEW n \in DOMAIN attempts'[s]
      PROVE  (Started(s) /\ GoodAttempt(attempts[s][n], s, n))'
  <2>1. Started(s) /\ GoodAttempt(attempts'[s][n], s, n)
    BY <1>1 DEF AttemptsFit
  <2>2. PICK a : a = attempts'[s][n]
    OBVIOUS
  <2>3. a \in Attempt /\ (Resolved(a) /\ a.timedOut => a.late)
    BY <2>1, <2>2 DEF GoodAttempt
  <2>4. ASSUME NEW id \in Ids \cup {None}, OwnId(id, s, n) PROVE OwnId(id, s, n)'
    <3>1. id # None => id[1] \in Sessions
      BY <2>4 DEF Ids
    <3> QED BY <2>1, <2>4, <3>1 DEF OwnId
  <2>5. a.ping \in Ids \cup {None} /\ a.pong \in Ids \cup {None}
    BY <2>3 DEF Attempt
  <2>6. OwnId(a.ping, s, n)' /\ OwnId(a.pong, s, n)'
    BY <2>1, <2>2, <2>4, <2>5 DEF GoodAttempt
  <2> QED BY <2>1, <2>2, <2>3, <2>6 DEF GoodAttempt, OwnId, Resolved
<1>2. ASSUME NEW s \in Sessions, pc'[s] \in {"sent", "waiting"}
      PROVE  driver'[s].at \in DOMAIN attempts'[driver'[s].session]
  <2>1. CASE pc[s] \in {"sent", "waiting"} /\ driver'[s] = driver[s]
    <3>1. driver[s].session \in Sessions /\ driver[s].at \in DOMAIN attempts[driver[s].session]
      BY <2>1 DEF IInv, SessionsFit, Driving, AttemptsFit
    <3> QED BY <2>1, <3>1
  <2> QED BY <1>2, <2>1
<1> QED BY <1>1, <1>2 DEF AttemptsFit

LEMMA AttemptsStay ==
    ASSUME IInv, AttemptsFit, attempts' = attempts,
           \A s \in Sessions : Started(s) => Started(s)' /\ target'[s] = target[s],
           \A s \in Sessions : pc'[s] \in {"sent", "waiting"} =>
              pc[s] \in {"sent", "waiting"} /\ driver'[s] = driver[s]
    PROVE  AttemptsFit'
<1>1. attempts' \in [Sessions -> Seq(Attempt)]
  BY DEF AttemptsFit
<1> QED BY <1>1, AttemptsMove

(* One attempt of a session is changed by its driver or by a frame. *)
LEMMA AttemptChanges ==
    ASSUME IInv, AttemptsFit, NEW d \in Sessions, NEW n \in DOMAIN attempts[d], NEW a,
           GoodAttempt(a, d, n), attempts' = [attempts EXCEPT ![d][n] = a], target' = target,
           \A s \in Sessions : Started(s) => Started(s)',
           \A s \in Sessions : pc'[s] \in {"sent", "waiting"} =>
              pc[s] \in {"sent", "waiting"} /\ driver'[s] = driver[s]
    PROVE  /\ AttemptsFit'
           /\ DOMAIN attempts'[d] = DOMAIN attempts[d] /\ Len(attempts'[d]) = Len(attempts[d])
           /\ attempts'[d][n] = a
           /\ \A m \in DOMAIN attempts[d] : m # n => attempts'[d][m] = attempts[d][m]
           /\ \A s \in Sessions \ {d} : attempts'[s] = attempts[s]
<1>1. attempts[d] \in Seq(Attempt) /\ a \in Attempt /\ attempts \in [Sessions -> Seq(Attempt)] /\ Started(d)
  BY DEF AttemptsFit, GoodAttempt
<1>2. /\ attempts'[d] = [attempts[d] EXCEPT ![n] = a]
      /\ \A s \in Sessions \ {d} : attempts'[s] = attempts[s]
  BY <1>1
<1>3. /\ attempts'[d] \in Seq(Attempt) /\ Len(attempts'[d]) = Len(attempts[d])
      /\ DOMAIN attempts'[d] = DOMAIN attempts[d]
      /\ attempts'[d][n] = a
      /\ \A m \in DOMAIN attempts[d] : m # n => attempts'[d][m] = attempts[d][m]
  BY <1>1, <1>2
<1>4. attempts' \in [Sessions -> Seq(Attempt)]
  BY <1>1, <1>2, <1>3
<1>5. AttemptsFit'
  BY <1>1, <1>2, <1>3, <1>4, AttemptsMove
<1> QED BY <1>2, <1>3, <1>5

(* The next ping, or the end of the loop. *)
LEMMA NextAttemptAttempts ==
    ASSUME IInv, AttemptsFit, NEW s \in Sessions, NEW d \in Sessions, Started(d), Started(s),
           NEW k \in Nat, NEW n \in Nat, NextAttempt(s, d, k, n), target' = target
    PROVE  /\ AttemptsFit'
           /\ \A q \in Sessions \ {d} : attempts'[q] = attempts[q]
           /\ \/ /\ attempts' = attempts /\ pc'[s] = "done"
              \/ /\ Len(attempts'[d]) = Len(attempts[d]) + 1
                 /\ DOMAIN attempts'[d] = 1 .. Len(attempts[d]) + 1
                 /\ \A m \in DOMAIN attempts[d] : attempts'[d][m] = attempts[d][m]
                 /\ attempts'[d][Len(attempts[d]) + 1] = FreshAttempt
                 /\ pc'[s] = "sent" /\ MoreAttempts(d, k) /\ status' = status
                 /\ driver'[s].at = Len(attempts[d]) + 1 /\ driver'[s].received = n
<1>0. TableType /\ attempts \in [Sessions -> Seq(Attempt)]
  BY DEF IInv, AttemptsFit
<1>1. CASE /\ MoreAttempts(d, k)
           /\ attempts' = [attempts EXCEPT ![d] = Append(@, FreshAttempt)]
           /\ driver' = [driver EXCEPT ![s] = [session |-> d, turn |-> k + 1,
                                               at |-> Len(attempts[d]) + 1, received |-> n]]
           /\ pc' = [pc EXCEPT ![s] = "sent"]
           /\ status' = status
  <2>1. PICK r : r = Append(attempts[d], FreshAttempt)
    OBVIOUS
  <2>2. /\ r \in Seq(Attempt) /\ Len(attempts[d]) \in Nat
        /\ DOMAIN attempts[d] = 1 .. Len(attempts[d]) /\ DOMAIN r = 1 .. Len(attempts[d]) + 1
        /\ Len(r) = Len(attempts[d]) + 1
        /\ \A i \in DOMAIN attempts[d] : i \in DOMAIN r /\ r[i] = attempts[d][i]
        /\ r[Len(attempts[d]) + 1] = FreshAttempt
    <3>1. attempts[d] \in Seq(Attempt)
      BY <1>0
    <3> QED BY <2>1, <3>1, FreshIsAttempt
  <2>3. attempts'[d] = r /\ \A q \in Sessions \ {d} : attempts'[q] = attempts[q]
    BY <1>0, <1>1, <2>1
  <2>4. attempts' \in [Sessions -> Seq(Attempt)]
    BY <1>0, <1>1, <2>1, <2>2
  <2>5. /\ pc'[s] = "sent" /\ driver'[s].session = d /\ driver'[s].at = Len(attempts[d]) + 1
        /\ driver'[s].received = n
        /\ \A q \in Sessions \ {s} : pc'[q] = pc[q] /\ driver'[q] = driver[q]
    BY <1>0, <1>1 DEF TableType
  <2>6. \A q \in Sessions : Started(q) => Started(q)'
    BY <2>5 DEF Started
  <2>7. \A q \in Sessions : \A m \in DOMAIN attempts[q] : m \in DOMAIN attempts'[q]
    BY <2>2, <2>3
  <2>8. ASSUME NEW q \in Sessions, NEW m \in DOMAIN attempts'[q]
        PROVE  \/ m \in DOMAIN attempts[q] /\ attempts'[q][m] = attempts[q][m]
               \/ Started(q) /\ GoodAttempt(attempts'[q][m], q, m)
    <3>1. CASE q = d
      <4>1. m \in DOMAIN attempts[d] \/ m = Len(attempts[d]) + 1
        BY <2>2, <2>3, <2>8, <3>1
      <4> QED BY <2>2, <2>3, <3>1, <4>1, FreshIsGood
    <3>2. CASE q # d
      BY <2>3, <2>8, <3>2
    <3> QED BY <3>1, <3>2
  <2>9. ASSUME NEW q \in Sessions, pc'[q] \in {"sent", "waiting"}
        PROVE  \/ pc[q] \in {"sent", "waiting"} /\ driver'[q] = driver[q]
               \/ driver'[q].at \in DOMAIN attempts'[driver'[q].session]
    BY <2>2, <2>3, <2>5, <2>9
  <2>10. AttemptsFit'
    BY <1>1, <2>4, <2>6, <2>7, <2>8, <2>9, AttemptsMove
  <2> QED BY <1>1, <2>2, <2>3, <2>5, <2>10
<1>2. CASE /\ attempts' = attempts
           /\ pc' = [pc EXCEPT ![s] = "done"]
           /\ driver' = [driver EXCEPT ![s] = [Idle EXCEPT !.session = d]]
  <2>1. /\ pc'[s] = "done"
        /\ \A q \in Sessions \ {s} : pc'[q] = pc[q] /\ driver'[q] = driver[q]
    BY <1>0, <1>2 DEF TableType
  <2>2. \A q \in Sessions : Started(q) => Started(q)'
    BY <2>1 DEF Started
  <2> QED BY <1>2, <2>1, <2>2, AttemptsStay
<1> QED BY <1>1, <1>2 DEF NextAttempt

(* The session a driver finds at its first step. *)
LEMMA BeginFacts ==
    ASSUME IInv, NEW s \in Sessions, DriverBegins(s), linkSessions[target[s]] # NoSession
    PROVE  /\ linkSessions[target[s]] \in Sessions /\ Started(linkSessions[target[s]])
           /\ target[linkSessions[target[s]]] = target[s] /\ target[s] \in Targets
           /\ target[s] \notin crowded => linkSessions[target[s]] = s
<1>1. TableType /\ EntriesFit /\ PendingFits /\ QueueFits(ready)
  BY DEF IInv
<1>2. /\ 1 \in DOMAIN ready /\ ready[1] = Drive(s)
  BY <1>1, TailFacts DEF DriverBegins, TableType
<1>3. Pending(s) /\ target[s] \in Targets
  BY <1>1, <1>2 DEF QueueFits, Drive, Pending, TableType
<1> QED BY <1>1, <1>3 DEF TableType, EntriesFit, PendingFits, Started

(* The session in whose attempts a frame is looked up. *)
LEMMA FrameFacts ==
    ASSUME IInv, AttemptsInv, NEW r \in Sessions, NEW m \in DOMAIN attempts[r],
           NEW s, s = linkSessions[target[r]], s # NoSession
    PROVE  /\ s \in Sessions /\ Started(s) /\ Started(r) /\ target[s] = target[r]
           /\ <<r, m>> \in Ids /\ r <= s /\ attempts[s] \in Seq(Attempt)
<1>1. Started(r) /\ m \in Nat \ {0}
  BY AttemptTypes DEF AttemptsInv, AttemptsFit
<1>2. target[r] \in Targets /\ s \in Sessions
  BY <1>1 DEF IInv, TableType, Started
<1>3. Started(s) /\ target[s] = target[r] /\ r <= s
  BY <1>1, <1>2 DEF IInv, EntriesFit, Started, AttemptsInv, EntriesNewest
<1> QED BY <1>1, <1>2, <1>3 DEF Ids, AttemptsInv, AttemptsFit

(* A frame changes one attempt: it learns an id, or is resolved. *)
FrameStep(s, n, a) ==
    /\ GoodAttempt(a, s, n)
    /\ attempts' = [attempts EXCEPT ![s][n] = a]
    /\ a.timedOut = attempts[s][n].timedOut
    /\ Resolved(attempts[s][n]) => Resolved(a)
    /\ UNCHANGED <<linkSessions, target, status, pc, driver, crowded>>

LEMMA EchoFacts ==
    ASSUME IInv, AttemptsInv, NEW r \in Sessions, NEW m \in DOMAIN attempts[r], HandleEcho(<<r, m>>)
    PROVE  \E s \in Sessions : \E n \in DOMAIN attempts[s] : \E a : FrameStep(s, n, a)
<1>1. PICK s : s = linkSessions[target[r]]
  OBVIOUS
<1>2. PICK n : n = Len(attempts[s])
  OBVIOUS
<1>3. PICK id : id = <<r, m>>
  OBVIOUS
<1>4. /\ s # NoSession /\ attempts[s] # <<>>
      /\ attempts' = [attempts EXCEPT ![s][n].ping = id]
      /\ UNCHANGED <<linkSessions, target, status, pc, driver, crowded>>
  BY <1>1, <1>2, <1>3 DEF HandleEcho
<1>5. /\ s \in Sessions /\ Started(s) /\ Started(r) /\ target[s] = target[r]
      /\ id \in Ids /\ r <= s /\ attempts[s] \in Seq(Attempt)
  BY <1>1, <1>3, <1>4, FrameFacts
<1>6. n \in DOMAIN attempts[s] /\ attempts[s][n] \in Attempt /\ n \in Nat
  BY <1>2, <1>4, <1>5
<1>7. GoodAttempt(attempts[s][n], s, n)
  BY <1>5, <1>6 DEF AttemptsInv, AttemptsFit
<1> DEFINE a == [attempts[s][n] EXCEPT !.ping = id]
<1>8. /\ a \in Attempt /\ a.ping = id /\ a.pong = attempts[s][n].pong
      /\ a.timedOut = attempts[s][n].timedOut /\ a.late = attempts[s][n].late
  BY <1>5, <1>6 DEF Attempt
<1>9. r < s \/ (r = s /\ m <= n)
  <2>1. r \in Nat /\ s \in Nat
    BY <1>5, ParametersAssumption
  <2>2. r = s => m \in 1 .. n
    BY <1>2, <1>5
  <2> QED BY <1>5, <2>1, <2>2
<1>10. OwnId(id, s, n)
  BY <1>3, <1>5, <1>9 DEF OwnId
<1>11. GoodAttempt(a, s, n)
  BY <1>7, <1>8, <1>10 DEF GoodAttempt, Resolved
<1>12. attempts' = [attempts EXCEPT ![s][n] = a]
  BY <1>4
<1> QED BY <1>4, <1>5, <1>6, <1>8, <1>11, <1>12 DEF FrameStep, Resolved

LEMMA PongFacts ==
    ASSUME IInv, AttemptsInv, NEW r \in Sessions, NEW m \in DOMAIN attempts[r], HandlePong(<<r, m>>)
    PROVE  \E s \in Sessions : \E n \in DOMAIN attempts[s] : \E a : FrameStep(s, n, a)
<1>1. PICK s : s = linkSessions[target[r]]
  OBVIOUS
<1>3. PICK id : id = <<r, m>>
  OBVIOUS
<1>4. s # NoSession /\ UNCHANGED <<linkSessions, target, status, pc, driver, crowded>>
  BY <1>1, <1>3 DEF HandlePong
<1>5. PICK n \in DOMAIN attempts[s] :
         /\ Matches(s, n, id) /\ ~Resolved(attempts[s][n])
         /\ attempts' = [attempts EXCEPT ![s][n].pong = id, ![s][n].late = TooLate(s, n)]
  BY <1>1, <1>3 DEF HandlePong
<1>6. s \in Sessions /\ Started(s) /\ id \in Ids /\ attempts[s] \in Seq(Attempt)
  BY <1>1, <1>3, <1>4, FrameFacts
<1>7. GoodAttempt(attempts[s][n], s, n) /\ attempts[s][n] \in Attempt
  BY <1>5, <1>6 DEF AttemptsInv, AttemptsFit, GoodAttempt
<1>8. PICK l : l = TooLate(s, n)
  OBVIOUS
<1>9. l \in BOOLEAN /\ (attempts[s][n].timedOut => l)
  BY <1>8 DEF TooLate
<1> DEFINE a == [attempts[s][n] EXCEPT !.pong = id, !.late = l]
<1>10. /\ a \in Attempt /\ a.ping = attempts[s][n].ping /\ a.pong = id
       /\ a.timedOut = attempts[s][n].timedOut /\ a.late = l
  BY <1>6, <1>7, <1>9 DEF Attempt
<1>11. attempts' = [attempts EXCEPT ![s][n] = a]
  <2>1. attempts \in [Sessions -> Seq(Attempt)]
    BY DEF AttemptsInv, AttemptsFit
  <2> QED BY <2>1, <1>5, <1>6, <1>7, <1>8
<1>12. GoodAttempt(a, s, n)
  BY <1>5, <1>7, <1>9, <1>10 DEF GoodAttempt, Matches
<1>13. FrameStep(s, n, a)
  BY <1>4, <1>5, <1>10, <1>11, <1>12 DEF FrameStep
<1> QED BY <1>5, <1>6, <1>13

(* An attempt is given up. *)
LEMMA GiveUpFacts ==
    ASSUME IInv, AttemptsInv, NEW s \in Sessions, WaitEnds(s), ~Answered(s)
    PROVE  /\ driver[s].session \in Sessions
           /\ driver[s].at \in DOMAIN attempts[driver[s].session]
           /\ \E a : /\ GoodAttempt(a, driver[s].session, driver[s].at)
                     /\ attempts' = [attempts EXCEPT ![driver[s].session][driver[s].at] = a]
                     /\ a.timedOut = TRUE
                     /\ ~Resolved(attempts[driver[s].session][driver[s].at])
<1>1. PICK d : d = driver[s].session
  OBVIOUS
<1>2. PICK n : n = driver[s].at
  OBVIOUS
<1>3. pc[s] = "waiting" /\ attempts' = [attempts EXCEPT ![d][n].timedOut = TRUE]
      /\ ~Resolved(attempts[d][n])
  BY <1>1, <1>2 DEF WaitEnds, Answered, Current
<1>4. d \in Sessions /\ n \in DOMAIN attempts[d]
  BY <1>1, <1>2, <1>3 DEF IInv, SessionsFit, Driving, AttemptsInv, AttemptsFit
<1>5. GoodAttempt(attempts[d][n], d, n) /\ attempts[d][n] \in Attempt
  BY <1>4 DEF AttemptsInv, AttemptsFit, GoodAttempt
<1> DEFINE a == [attempts[d][n] EXCEPT !.timedOut = TRUE]
<1>6. /\ a \in Attempt /\ a.ping = attempts[d][n].ping /\ a.pong = attempts[d][n].pong
      /\ a.timedOut = TRUE
  BY <1>5 DEF Attempt
<1>7. GoodAttempt(a, d, n)
  BY <1>3, <1>5, <1>6 DEF GoodAttempt, Resolved
<1>8. attempts' = [attempts EXCEPT ![d][n] = a]
  BY <1>3
<1> QED BY <1>1, <1>2, <1>3, <1>4, <1>6, <1>7, <1>8

LEMMA NextAttempts == IInv /\ AttemptsInv /\ [Next]_vars => AttemptsInv'
<1> SUFFICES ASSUME IInv, AttemptsInv, [Next]_vars PROVE AttemptsInv'
  OBVIOUS
<1>0. /\ TableType /\ SessionsFit /\ AttemptsFit /\ InOrder /\ EntriesNewest
      /\ linkSessions \in [Targets -> Sessions \cup {NoSession}]
      /\ pc \in [Sessions -> Pcs] /\ driver \in [Sessions -> Driver]
  BY DEF IInv, TableType, AttemptsInv
<1>1. ASSUME attempts' = attempts, target' = target,
             \A s \in Sessions : Started(s)' <=> Started(s),
             \A t \in Targets : linkSessions'[t] \in {linkSessions[t], NoSession},
             \A s \in Sessions : pc'[s] \in {"sent", "waiting"} =>
                pc[s] \in {"sent", "waiting"} /\ driver'[s] = driver[s]
      PROVE  AttemptsInv'
  BY <1>0, <1>1, OrderStays, AttemptsStay DEF AttemptsInv
<1>2. ASSUME UNCHANGED <<attempts, target, pc, driver>>,
             \A t \in Targets : linkSessions'[t] \in {linkSessions[t], NoSession}
      PROVE  AttemptsInv'
  BY <1>1, <1>2 DEF Started
<1>3. ASSUME NEW t \in Targets, NEW s \in Sessions, StartLinkCheck(t, s) PROVE AttemptsInv'
  <2>1. /\ ~Started(s) /\ \A q \in Sessions : q < s => Started(q)
        /\ linkSessions' = [linkSessions EXCEPT ![t] = s]
        /\ target' = [target EXCEPT ![s] = t]
        /\ pc' = [pc EXCEPT ![s] = "created"]
        /\ UNCHANGED <<attempts, driver>>
    BY <1>3 DEF StartLinkCheck, Started
  <2>2. /\ Started(s)' /\ target'[s] = t
        /\ \A q \in Sessions \ {s} : pc'[q] = pc[q] /\ target'[q] = target[q]
                                     /\ (Started(q)' <=> Started(q))
    BY <1>0, <2>1 DEF Started, TableType
  <2>3. AttemptsFit'
    <3>1. \A q \in Sessions : pc'[q] \in {"sent", "waiting"} => pc[q] \in {"sent", "waiting"}
      BY <1>0, <2>1
    <3> QED BY <1>0, <2>1, <2>2, <3>1, AttemptsStay
  <2>4. \A q \in Sessions : Started(q) => q < s
    <3> SUFFICES ASSUME NEW q \in Sessions, Started(q) PROVE q < s
      OBVIOUS
    <3>1. q # s /\ ~(s < q)
      BY <1>0, <2>1 DEF InOrder
    <3> QED BY <3>1, ParametersAssumption
  <2>5. InOrder'
    BY <1>0, <2>1, <2>2, <2>4 DEF InOrder
  <2>6. EntriesNewest'
    <3> SUFFICES ASSUME NEW q \in Sessions, Started(q)', linkSessions'[target'[q]] # NoSession
                 PROVE  q <= linkSessions'[target'[q]]
      BY DEF EntriesNewest
    <3>1. s \in Nat /\ q \in Nat /\ q <= s
      BY <2>2, <2>4, ParametersAssumption
    <3>2. CASE target'[q] = t
      BY <1>0, <2>1, <3>1, <3>2
    <3>3. CASE target'[q] # t
      <4>1. q # s /\ target'[q] = target[q] /\ Started(q) /\ target[q] \in Targets
        BY <1>0, <2>2, <3>3 DEF TableType, Started
      <4> QED BY <1>0, <2>1, <3>3, <4>1 DEF EntriesNewest
    <3> QED BY <3>2, <3>3
  <2> QED BY <2>3, <2>5, <2>6 DEF AttemptsInv
<1>4. ASSUME NEW s \in Sessions, NEW d \in Sessions, Started(d), Started(s),
             NEW k \in Nat, NEW n \in Nat, NextAttempt(s, d, k, n), UNCHANGED <<linkSessions, target>>
      PROVE  AttemptsInv'
  <2>1. AttemptsFit'
    BY <1>0, <1>4, NextAttemptAttempts
  <2>2. \E q \in {"sent", "done"} : pc' = [pc EXCEPT ![s] = q]
    BY <1>4 DEF NextAttempt
  <2>3. \A q \in Sessions : Started(q)' <=> Started(q)
    BY <1>0, <1>4, <2>2 DEF Started
  <2> QED BY <1>0, <1>4, <2>1, <2>3, OrderStays DEF AttemptsInv
<1>5. ASSUME NEW s \in Sessions, Driving(s), NEW k \in Nat, NEW n \in Nat,
             NextAttempt(s, driver[s].session, k, n), UNCHANGED <<linkSessions, target>>
      PROVE  AttemptsInv'
  BY <1>0, <1>4, <1>5 DEF SessionsFit, Started, Driving
<1>6. ASSUME NEW s \in Sessions, DriverBegins(s) PROVE AttemptsInv'
  <2>1. CASE linkSessions[target[s]] # NoSession /\ pc[s] = "created"
             /\ NextAttempt(s, linkSessions[target[s]], 0, 0)
    BY <1>4, <1>6, <2>1, BeginFacts DEF DriverBegins, Started
  <2>2. CASE TaskEnds(s, Tail(ready)) /\ UNCHANGED attempts
    <3>1. /\ pc'[s] = "dead" /\ pc[s] # "none"
          /\ \A q \in Sessions \ {s} : pc'[q] = pc[q] /\ driver'[q] = driver[q]
      <4>1. 1 \in DOMAIN ready /\ ready[1] = Drive(s)
        BY <1>0, <1>6, TailFacts DEF DriverBegins, TableType
      <4>2. Pending(s)
        BY <4>1 DEF IInv, QueueFits, Drive
      <4> QED BY <1>0, <2>2, <4>2 DEF TaskEnds, Pending
    <3>2. \A q \in Sessions : Started(q)' <=> Started(q)
      BY <3>1 DEF Started
    <3> QED BY <1>1, <1>6, <2>2, <3>1, <3>2 DEF DriverBegins
  <2> QED BY <1>6, <2>1, <2>2 DEF DriverBegins
<1>7. ASSUME NEW s \in Sessions, AwaitPong(s) PROVE AttemptsInv'
  <2>1. pc[s] = "sent" /\ pc' = [pc EXCEPT ![s] = "waiting"]
        /\ UNCHANGED <<linkSessions, attempts, target, driver>>
    BY <1>7 DEF AwaitPong, sessionVars
  <2>2. \A q \in Sessions : Started(q)' <=> Started(q)
    BY <1>0, <2>1 DEF Started
  <2> QED BY <1>0, <1>1, <2>1, <2>2
<1>8. ASSUME NEW s \in Sessions, WaitEnds(s) PROVE AttemptsInv'
  <2>1. Driving(s) /\ UNCHANGED <<linkSessions, target>>
    BY <1>8 DEF WaitEnds, Driving
  <2>2. CASE Answered(s)
    <3>1. driver[s].turn \in Nat /\ driver[s].received + 1 \in Nat
      BY <1>0 DEF Driver
    <3> QED BY <1>5, <1>8, <2>1, <2>2, <3>1 DEF WaitEnds
  <2>3. CASE ~Answered(s)
    <3>1. PICK d, n, a : /\ d \in Sessions /\ n \in DOMAIN attempts[d] /\ GoodAttempt(a, d, n)
                         /\ attempts' = [attempts EXCEPT ![d][n] = a]
      BY <1>8, <2>3, GiveUpFacts
    <3>2. pc' = [pc EXCEPT ![s] = "timeout"] /\ driver' = driver /\ pc[s] = "waiting"
      BY <1>8, <2>3 DEF WaitEnds
    <3>3. \A q \in Sessions : Started(q)' <=> Started(q)
      BY <1>0, <3>2 DEF Started
    <3>4. \A q \in Sessions : pc'[q] \in {"sent", "waiting"} => pc[q] \in {"sent", "waiting"}
      BY <1>0, <3>2
    <3>5. AttemptsFit'
      BY <1>0, <2>1, <3>1, <3>2, <3>3, <3>4, AttemptChanges
    <3> QED BY <1>0, <2>1, <3>3, <3>5, OrderStays DEF AttemptsInv
  <2> QED BY <2>2, <2>3
<1>9. ASSUME NEW s \in Sessions, TimeoutReported(s) PROVE AttemptsInv'
  <2>1. driver[s].turn \in Nat /\ driver[s].received \in Nat /\ Driving(s)
    BY <1>0, <1>9 DEF Driver, TimeoutReported, Driving
  <2> QED BY <1>5, <1>9, <2>1 DEF TimeoutReported
<1>10. ASSUME NEW s \in Sessions, DriverEnds(s) PROVE AttemptsInv'
  <2>1. /\ pc[s] # "none" /\ TaskEnds(s, ready) /\ target' = target
        /\ linkSessions' = [linkSessions EXCEPT ![target[s]] = NoSession]
    BY <1>10 DEF DriverEnds
  <2>2. /\ pc'[s] = "dead"
        /\ \A q \in Sessions \ {s} : pc'[q] = pc[q] /\ driver'[q] = driver[q]
    BY <1>0, <2>1 DEF TaskEnds
  <2>3. \A q \in Sessions : Started(q)' <=> Started(q)
    BY <2>1, <2>2 DEF Started
  <2>4. \A d \in Sessions : attempts'[d] \in {[n \in DOMAIN attempts[d] |-> FreshAttempt], attempts[d]}
    BY <1>10 DEF DriverEnds
  <2>5. ASSUME NEW d \in Sessions
        PROVE  /\ attempts'[d] \in Seq(Attempt) /\ DOMAIN attempts'[d] = DOMAIN attempts[d]
               /\ \A n \in DOMAIN attempts[d] : attempts'[d][n] \in {attempts[d][n], FreshAttempt}
    <3>1. /\ attempts[d] \in Seq(Attempt) /\ Len(attempts[d]) \in Nat
          /\ DOMAIN attempts[d] = 1 .. Len(attempts[d])
      BY <1>0, AttemptTypes
    <3>2. [n \in DOMAIN attempts[d] |-> FreshAttempt] \in Seq(Attempt)
      BY <3>1, FreshIsAttempt
    <3> QED BY <2>4, <3>1, <3>2
  <2>6. attempts' \in [Sessions -> Seq(Attempt)]
    <3>1. attempts' = [d \in Sessions |-> attempts'[d]]
      BY <1>10 DEF DriverEnds
    <3> QED BY <2>5, <3>1
  <2>7. \A d \in Sessions : \A n \in DOMAIN attempts'[d] :
            \/ n \in DOMAIN attempts[d] /\ attempts'[d][n] = attempts[d][n]
            \/ Started(d) /\ GoodAttempt(attempts'[d][n], d, n)
    BY <1>0, <2>5, FreshIsGood DEF AttemptsFit
  <2>8. AttemptsFit'
    BY <1>0, <2>1, <2>2, <2>3, <2>5, <2>6, <2>7, AttemptsMove
  <2> QED BY <1>0, <2>1, <2>3, <2>8, OrderStays DEF AttemptsInv
<1>11. ASSUME NEW S \in SUBSET Sessions, NEW marked, CancelDrivers(S, marked),
              UNCHANGED <<attempts, target, driver>>,
              \A t \in Targets : linkSessions'[t] \in {linkSessions[t], NoSession}
       PROVE  AttemptsInv'
  <2>1. \A s \in Sessions : /\ Started(s)' <=> Started(s)
                            /\ pc'[s] \in {"sent", "waiting"} => pc'[s] = pc[s]
    BY <1>0, <1>11 DEF CancelDrivers, Started, Pending, Driving
  <2> QED BY <1>1, <1>11, <2>1
<1>12. ASSUME NEW t \in Targets, StopLinkCheck(t) PROVE AttemptsInv'
  <2>1. PICK s : s = linkSessions[t] /\ s # NoSession
    BY <1>12 DEF StopLinkCheck
  <2>2. s \in Sessions /\ CancelDrivers({s}, {s})
    BY <1>0, <1>12, <2>1 DEF StopLinkCheck
  <2>3. {s} \in SUBSET Sessions
    BY <2>2
  <2>4. \A u \in Targets : linkSessions'[u] \in {linkSessions[u], NoSession}
    BY <1>0, <1>12 DEF StopLinkCheck
  <2> QED BY <1>11, <1>12, <2>2, <2>3, <2>4 DEF StopLinkCheck
<1>13. ASSUME NEW s \in Sessions, NEW n \in DOMAIN attempts[s], NEW a, FrameStep(s, n, a)
       PROVE  AttemptsInv'
  <2>1. \A q \in Sessions : Started(q)' <=> Started(q)
    BY <1>13 DEF FrameStep, Started
  <2>2. AttemptsFit'
    BY <1>0, <1>13, <2>1, AttemptChanges DEF FrameStep
  <2> QED BY <1>0, <1>13, <2>1, <2>2, OrderStays DEF FrameStep, AttemptsInv
<1>14. ASSUME NEW r \in Sessions, NEW m \in DOMAIN attempts[r],
              HandleEcho(<<r, m>>) \/ HandlePong(<<r, m>>)
       PROVE  AttemptsInv'
  BY <1>13, <1>14, EchoFacts, PongFacts
<1>15. ASSUME ReapStrays, UNCHANGED <<attempts, target, driver>> PROVE AttemptsInv'
  <2>1. {s \in Sessions : Live(s)} \in SUBSET Sessions
    OBVIOUS
  <2>2. CASE Reap({s \in Sessions : Live(s)})
    BY <1>11, <1>15, <2>1, <2>2 DEF Reap
  <2>3. CASE TablesCleared /\ UNCHANGED pc
    BY <1>2, <1>15, <2>3 DEF TablesCleared
  <2> QED BY <1>15, <2>2, <2>3 DEF ReapStrays
<1>16. ASSUME ShutdownBegins PROVE AttemptsInv'
  <2>1. Tabled \in SUBSET Sessions /\ UNCHANGED <<attempts, target, driver>>
    BY <1>16 DEF Tabled, ShutdownBegins
  <2>2. CASE Reap(Tabled)
    BY <1>11, <2>1, <2>2 DEF Reap
  <2> QED BY <1>15, <1>16, <2>1, <2>2 DEF ShutdownBegins
<1>17. CASE ShutdownReapsStrays
  BY <1>15, <1>17 DEF ShutdownReapsStrays
<1>18. CASE ShutdownClears
  BY <1>2, <1>18 DEF ShutdownClears, TablesCleared, sessionVars
<1>19. CASE StopReturns
  <2>1. \A u \in Targets : linkSessions'[u] \in {linkSessions[u], NoSession}
    BY <1>0, <1>19 DEF StopReturns
  <2> QED BY <1>2, <1>19, <2>1 DEF StopReturns, sessionVars
<1>20. ASSUME NEW t \in Targets, CooldownPasses(t) PROVE AttemptsInv'
  BY <1>2, <1>20 DEF CooldownPasses, sessionVars
<1>21. ASSUME NEW s \in Sessions, DriverStep(s) PROVE AttemptsInv'
  <2>1. CASE AttemptTimeout(s)
    BY <1>2, <2>1 DEF AttemptTimeout, sessionVars
  <2> QED BY <1>6, <1>7, <1>8, <1>9, <1>10, <1>21, <2>1 DEF DriverStep
<1>22. CASE UNCHANGED vars
  BY <1>2, <1>22 DEF vars, sessionVars
<1> QED
  BY <1>3, <1>12, <1>14, <1>16, <1>17, <1>18, <1>19, <1>20, <1>21, <1>22 DEF Next

-----------------------------------------------------------------------------
(* Types of what only reports and timers use. *)

TimersTyped ==
    /\ status \in [Sessions -> {"running", "completed", "timeout", "stopped"}]
    /\ alarm \in [Sessions -> SUBSET {"woken", "elapsed"}]
    /\ wake \in [Targets -> Sessions \cup {NoSession}]
    /\ cooldown \subseteq Targets
    /\ awaited \subseteq Sessions
    /\ shutdown \in {"no", "drivers", "strays", "over"}

LEMMA InitTimers == Init => TimersTyped
BY DEF Init, TimersTyped

LEMMA NextTimers == IInv /\ TimersTyped /\ [Next]_vars => TimersTyped'
<1> SUFFICES ASSUME IInv, TimersTyped, [Next]_vars PROVE TimersTyped'
  OBVIOUS
<1>0. /\ linkSessions \in [Targets -> Sessions \cup {NoSession}]
      /\ \A s \in Sessions : pc[s] # "none" => target[s] \in Targets
  BY DEF IInv, TableType
<1>1. ASSUME NEW s \in Sessions, NEW d, NEW k, NEW n, NextAttempt(s, d, k, n)
      PROVE  status' \in [Sessions -> {"running", "completed", "timeout", "stopped"}]
  BY <1>1 DEF NextAttempt, TimersTyped
<1>2. ASSUME NEW S \in SUBSET Sessions, NEW marked, CancelDrivers(S, marked)
      PROVE  status' \in [Sessions -> {"running", "completed", "timeout", "stopped"}]
  BY <1>2 DEF CancelDrivers, TimersTyped
<1>3. ASSUME NEW s \in Sessions, NEW q, TaskEnds(s, q)
      PROVE  alarm' \in [Sessions -> SUBSET {"woken", "elapsed"}]
  BY <1>3 DEF TaskEnds, TimersTyped
<1>4. ASSUME NEW t \in Targets, NEW s \in Sessions, StartLinkCheck(t, s) PROVE TimersTyped'
  BY <1>4 DEF StartLinkCheck, TimersTyped
<1>5. ASSUME NEW s \in Sessions, DriverStep(s) PROVE TimersTyped'
  <2>1. CASE DriverBegins(s)
    BY <1>1, <1>3, <2>1 DEF DriverBegins, TimersTyped
  <2>2. CASE AwaitPong(s)
    BY <1>0, <2>2 DEF AwaitPong, TimersTyped, sessionVars
  <2>3. CASE AttemptTimeout(s)
    BY <2>3 DEF AttemptTimeout, TimersTyped, sessionVars
  <2>4. CASE WaitEnds(s)
    BY <1>1, <2>4 DEF WaitEnds, TimersTyped
  <2>5. CASE TimeoutReported(s)
    BY <1>1, <2>5 DEF TimeoutReported, TimersTyped
  <2>6. CASE DriverEnds(s)
    BY <1>0, <1>3, <2>6 DEF DriverEnds, TimersTyped
  <2> QED BY <1>5, <2>1, <2>2, <2>3, <2>4, <2>5, <2>6 DEF DriverStep
<1>6. ASSUME NEW t \in Targets, CooldownPasses(t) PROVE TimersTyped'
  BY <1>6 DEF CooldownPasses, TimersTyped, sessionVars
<1>7. ASSUME NEW t \in Targets, StopLinkCheck(t) PROVE TimersTyped'
  <2>1. PICK s : s = linkSessions[t] /\ s # NoSession /\ CancelDrivers({s}, {s})
    BY <1>7 DEF StopLinkCheck
  <2>2. {s} \in SUBSET Sessions
    BY <1>0, <2>1
  <2> QED BY <1>2, <1>7, <2>1, <2>2 DEF StopLinkCheck, TimersTyped
<1>8. ASSUME NEW id, HandleEcho(id) PROVE TimersTyped'
  BY <1>8 DEF HandleEcho, TimersTyped
<1>9. ASSUME NEW id, HandlePong(id) PROVE TimersTyped'
  <2>1. /\ UNCHANGED <<status, wake, cooldown, awaited, shutdown>>
        /\ \E w : alarm' = [q \in Sessions |-> IF q = w THEN alarm[q] \cup {"woken"} ELSE alarm[q]]
    BY <1>9 DEF HandlePong
  <2> QED BY <2>1 DEF TimersTyped
<1>10. CASE StopReturns
  BY <1>10 DEF StopReturns, TimersTyped, sessionVars
<1>11. ASSUME TablesCleared, UNCHANGED <<status, alarm, awaited>> PROVE TimersTyped'
  BY <1>11 DEF TablesCleared, TimersTyped
<1>12. ASSUME NEW S \in SUBSET Sessions, Reap(S), alarm' = alarm,
              shutdown' \in {"drivers", "strays"}
       PROVE  TimersTyped'
  BY <1>2, <1>12 DEF Reap, TimersTyped
<1>13. ASSUME ReapStrays, alarm' = alarm PROVE TimersTyped'
  <2>1. {s \in Sessions : Live(s)} \in SUBSET Sessions
    OBVIOUS
  <2> QED BY <1>11, <1>12, <1>13, <2>1 DEF ReapStrays
<1>14. CASE ShutdownBegins
  <2>1. Tabled \in SUBSET Sessions
    BY DEF Tabled
  <2> QED BY <1>12, <1>13, <1>14, <2>1 DEF ShutdownBegins
<1>15. CASE ShutdownReapsStrays
  BY <1>13, <1>15 DEF ShutdownReapsStrays
<1>16. CASE ShutdownClears
  BY <1>11, <1>16 DEF ShutdownClears, sessionVars
<1>17. CASE UNCHANGED vars
  BY <1>17 DEF vars, sessionVars, TimersTyped
<1> QED
  BY <1>4, <1>5, <1>6, <1>7, <1>8, <1>9, <1>10, <1>14, <1>15, <1>16, <1>17 DEF Next

-----------------------------------------------------------------------------
(* The count of a session on a target that is not crowded: its driver has  *)
(* counted a pong only if an attempt was resolved before it was given up,  *)
(* and none only if it gave up every attempt before the one it awaits.     *)

GivenUp(s, n) == attempts[s][n].timedOut
Heard(s) == \E n \in DOMAIN attempts[s] : Resolved(attempts[s][n]) /\ ~GivenUp(s, n)
AllGivenUp(s) == \A n \in DOMAIN attempts[s] : GivenUp(s, n)

Counting(s) ==
    /\ Pending(s) => Len(attempts[s]) = 0
    /\ Pending(s) \/ pc[s] \in {"sent", "waiting", "timeout"} =>
        status[s] \notin {"timeout", "completed"}
    /\ pc[s] \in {"sent", "waiting"} =>
        /\ driver[s].at = Len(attempts[s])
        /\ \A n \in DOMAIN attempts[s] : n = driver[s].at => ~GivenUp(s, n)
        /\ driver[s].received = 0 =>
            \A n \in DOMAIN attempts[s] : n # driver[s].at => GivenUp(s, n)
    /\ pc[s] = "timeout" /\ driver[s].received = 0 => AllGivenUp(s)
    /\ pc[s] \in {"sent", "waiting", "timeout"} /\ driver[s].received # 0 => Heard(s)
    /\ pc[s] = "done" /\ status[s] = "timeout" => AllGivenUp(s)
    /\ pc[s] = "done" /\ status[s] = "completed" => Heard(s)

CountInv ==
    /\ \A s \in Sessions : ~Started(s) => status[s] = "running"
    /\ \A s \in Sessions : target[s] \notin crowded => Counting(s)

LEMMA InitCount == Init => CountInv
<1> SUFFICES ASSUME Init PROVE CountInv
  OBVIOUS
<1>1. \A s \in Sessions : pc[s] = "none" /\ status[s] = "running"
  BY DEF Init
<1> QED BY <1>1 DEF CountInv, Counting, Pending

(* A session that is left alone, that is stopped, that is told of a frame  *)
(* or that begins to wait.                                                 *)
LEMMA CountStands ==
    ASSUME NEW s \in Sessions, Counting(s),
           \/ pc'[s] \in {pc[s], "stopping", "dead"}
           \/ pc[s] = "created" /\ pc'[s] = "cancelled"
           \/ pc[s] = "sent" /\ pc'[s] = "waiting",
           status'[s] \in {status[s], "stopped"},
           pc'[s] # "dead" =>
              /\ driver'[s] = driver[s]
              /\ Len(attempts'[s]) = Len(attempts[s])
              /\ DOMAIN attempts'[s] = DOMAIN attempts[s]
              /\ \A n \in DOMAIN attempts[s] :
                    /\ attempts'[s][n].timedOut = attempts[s][n].timedOut
                    /\ attempts[s][n].pong # None => attempts'[s][n].pong # None
    PROVE  Counting(s)'
<1>1. CASE pc'[s] \in {"stopping", "dead"}
  BY <1>1 DEF Counting, Pending
<1>2. CASE pc'[s] \notin {"stopping", "dead"}
  <2>1. AllGivenUp(s) => AllGivenUp(s)'
    BY <1>2 DEF AllGivenUp, GivenUp
  <2>2. Heard(s) => Heard(s)'
    BY <1>2 DEF Heard, GivenUp, Resolved
  <2>3. pc'[s] \in {"sent", "waiting"} =>
            /\ driver'[s].at = Len(attempts'[s])
            /\ \A n \in DOMAIN attempts'[s] : n = driver'[s].at => ~attempts'[s][n].timedOut
            /\ driver'[s].received = 0 =>
                \A n \in DOMAIN attempts'[s] : n # driver'[s].at => attempts'[s][n].timedOut
    BY <1>2 DEF Counting, GivenUp
  <2> QED BY <1>2, <2>1, <2>2, <2>3 DEF Counting, Pending, GivenUp
<1> QED BY <1>1, <1>2

(* What the driver of s does to the session d it drives concerns no other  *)
(* session of a target that is not crowded.                                *)
LEMMA OthersCount ==
    ASSUME CountInv, NEW s \in Sessions, NEW d \in Sessions, target[d] = target[s],
           Started(s), Started(d),
           target[s] \notin crowded => d = s /\ Counting(s)',
           UNCHANGED <<target, crowded>>,
           Started(s)',
           \A r \in Sessions \ {s} : pc'[r] = pc[r] /\ driver'[r] = driver[r],
           \A r \in Sessions \ {d} : attempts'[r] = attempts[r] /\ status'[r] = status[r]
    PROVE  CountInv'
<1>1. ASSUME NEW r \in Sessions, ~Started(r)' PROVE status'[r] = "running"
  BY <1>1 DEF CountInv, Started
<1>2. ASSUME NEW r \in Sessions, target[r] \notin crowded PROVE Counting(r)'
  <2>1. CASE r = s
    BY <1>2, <2>1
  <2>2. CASE r # s
    <3>1. r # d
      BY <1>2, <2>2
    <3> QED BY <1>2, <2>2, <3>1, CountStands DEF CountInv
  <2> QED BY <2>1, <2>2
<1> QED BY <1>1, <1>2 DEF CountInv

(* Nothing happens to a session but what CountStands allows. *)
LEMMA AllCountsStand ==
    ASSUME CountInv, UNCHANGED <<target, crowded>>,
           \A s \in Sessions :
              /\ Started(s)' <=> Started(s)
              /\ \/ pc'[s] \in {pc[s], "stopping", "dead"}
                 \/ pc[s] = "created" /\ pc'[s] = "cancelled"
                 \/ pc[s] = "sent" /\ pc'[s] = "waiting"
              /\ status'[s] \in {status[s], "stopped"}
              /\ ~Started(s) => status'[s] = status[s]
              /\ pc'[s] # "dead" /\ target[s] \notin crowded =>
                  /\ driver'[s] = driver[s]
                  /\ Len(attempts'[s]) = Len(attempts[s])
                  /\ DOMAIN attempts'[s] = DOMAIN attempts[s]
                  /\ \A n \in DOMAIN attempts[s] :
                        /\ attempts'[s][n].timedOut = attempts[s][n].timedOut
                        /\ attempts[s][n].pong # None => attempts'[s][n].pong # None
    PROVE  CountInv'
<1>1. ASSUME NEW s \in Sessions, target[s] \notin crowded PROVE Counting(s)'
  BY <1>1, CountStands DEF CountInv
<1>2. ASSUME NEW s \in Sessions, ~Started(s)' PROVE status'[s] = "running"
  BY <1>2 DEF CountInv
<1> QED BY <1>1, <1>2 DEF CountInv

(* The driver of s goes on with its own session. *)
LEMMA NextCounting ==
    ASSUME IInv, AttemptsInv, NEW s \in Sessions, Started(s),
           NEW k \in Nat, NEW n \in Nat, NextAttempt(s, s, k, n), target' = target,
           status[s] \notin {"timeout", "completed"},
           n = 0 => AllGivenUp(s), n # 0 => Heard(s),
           status \in [Sessions -> {"running", "completed", "timeout", "stopped"}]
    PROVE  Counting(s)'
<1>0. attempts[s] \in Seq(Attempt) /\ Len(attempts[s]) \in Nat
      /\ DOMAIN attempts[s] = 1 .. Len(attempts[s])
  BY AttemptTypes DEF AttemptsInv
<1>1. CASE attempts' = attempts /\ pc'[s] = "done"
  <2>1. /\ AllGivenUp(s) => AllGivenUp(s)'
        /\ Heard(s) => Heard(s)'
    BY <1>1 DEF AllGivenUp, GivenUp, Heard, Resolved
  <2>2. status'[s] = "timeout" => n = 0
    BY <1>1 DEF NextAttempt
  <2>3. status'[s] = "completed" => n # 0
    BY <1>1 DEF NextAttempt
  <2> QED BY <1>1, <2>1, <2>2, <2>3 DEF Counting, Pending
<1>2. CASE /\ Len(attempts'[s]) = Len(attempts[s]) + 1
           /\ DOMAIN attempts'[s] = 1 .. Len(attempts[s]) + 1
           /\ \A m \in DOMAIN attempts[s] : attempts'[s][m] = attempts[s][m]
           /\ attempts'[s][Len(attempts[s]) + 1] = FreshAttempt
           /\ pc'[s] = "sent" /\ status' = status
           /\ driver'[s].at = Len(attempts[s]) + 1 /\ driver'[s].received = n
  <2>1. \A m \in DOMAIN attempts'[s] : m = driver'[s].at => ~attempts'[s][m].timedOut
    BY <1>2 DEF FreshAttempt
  <2>2. \A m \in DOMAIN attempts'[s] : m # driver'[s].at => m \in DOMAIN attempts[s]
    BY <1>0, <1>2
  <2>3. n = 0 => \A m \in DOMAIN attempts'[s] : m # driver'[s].at => attempts'[s][m].timedOut
    BY <1>2, <2>2 DEF AllGivenUp, GivenUp
  <2>4. \A m \in DOMAIN attempts[s] : m \in DOMAIN attempts'[s]
    BY <1>0, <1>2
  <2>5. n # 0 => Heard(s)'
    BY <1>2, <2>4 DEF Heard, GivenUp, Resolved
  <2> QED BY <1>2, <2>1, <2>3, <2>5 DEF Counting, Pending, GivenUp
<1>3. \/ attempts' = attempts /\ pc'[s] = "done"
      \/ /\ Len(attempts'[s]) = Len(attempts[s]) + 1
         /\ DOMAIN attempts'[s] = 1 .. Len(attempts[s]) + 1
         /\ \A m \in DOMAIN attempts[s] : attempts'[s][m] = attempts[s][m]
         /\ attempts'[s][Len(attempts[s]) + 1] = FreshAttempt
         /\ pc'[s] = "sent" /\ status' = status
         /\ driver'[s].at = Len(attempts[s]) + 1 /\ driver'[s].received = n
  <2>1. AttemptsFit
    BY DEF AttemptsInv
  <2> QED BY <2>1, NextAttemptAttempts
<1> QED BY <1>1, <1>2, <1>3


LEMMA NextCount ==
    IInv /\ AttemptsInv /\ TimersTyped /\ CountInv /\ [Next]_vars => CountInv'
<1> SUFFICES ASSUME IInv, AttemptsInv, TimersTyped, CountInv, [Next]_vars PROVE CountInv'
  OBVIOUS
<1>0. /\ TableType /\ SessionsFit /\ AttemptsFit
      /\ linkSessions \in [Targets -> Sessions \cup {NoSession}]
      /\ pc \in [Sessions -> Pcs] /\ driver \in [Sessions -> Driver]
      /\ attempts \in [Sessions -> Seq(Attempt)]
      /\ status \in [Sessions -> {"running", "completed", "timeout", "stopped"}]
      /\ target \in [Sessions -> Targets \cup {None}]
  BY DEF IInv, TableType, AttemptsInv, AttemptsFit, TimersTyped
<1>1. ASSUME UNCHANGED <<target, crowded, status, attempts, driver>>,
             \A s \in Sessions : \/ pc'[s] = pc[s]
                                 \/ pc[s] = "sent" /\ pc'[s] = "waiting"
      PROVE  CountInv'
  BY <1>1, AllCountsStand DEF Started
<1>2. ASSUME NEW S \in SUBSET Sessions, NEW marked \in SUBSET Sessions, CancelDrivers(S, marked),
             \A s \in marked : Started(s), UNCHANGED <<target, attempts, driver, crowded>>
      PROVE  CountInv'
  <2>1. ASSUME NEW s \in Sessions
        PROVE  /\ Started(s)' <=> Started(s)
               /\ pc'[s] \in {pc[s], "stopping"} \/ (pc[s] = "created" /\ pc'[s] = "cancelled")
               /\ status'[s] \in {status[s], "stopped"}
               /\ ~Started(s) => status'[s] = status[s]
    <3>1. /\ pc'[s] \in {pc[s], "stopping"} \/ (pc[s] = "created" /\ pc'[s] = "cancelled")
          /\ pc'[s] = "none" <=> pc[s] = "none"
      BY <1>2 DEF CancelDrivers, Pending, Driving
    <3>2. status'[s] = IF s \in marked \/ \E q \in S : Driving(q) /\ driver[q].session = s
                       THEN "stopped" ELSE status[s]
      BY <1>2 DEF CancelDrivers
    <3>3. \A q \in S : Driving(q) /\ driver[q].session = s => Started(s)
      BY <1>0 DEF SessionsFit, Started
    <3> QED BY <1>2, <3>1, <3>2, <3>3 DEF Started
  <2> QED BY <1>2, <2>1, AllCountsStand
<1>3. ASSUME NEW t \in Targets, NEW s \in Sessions, StartLinkCheck(t, s) PROVE CountInv'
  <2>1. /\ pc[s] = "none" /\ target' = [target EXCEPT ![s] = t]
        /\ pc' = [pc EXCEPT ![s] = "created"] /\ crowded \subseteq crowded'
        /\ UNCHANGED <<status, attempts, driver>>
    BY <1>3 DEF StartLinkCheck
  <2>2. /\ pc'[s] = "created"
        /\ \A r \in Sessions \ {s} : pc'[r] = pc[r] /\ target'[r] = target[r]
    BY <1>0, <2>1
  <2>3. Len(attempts[s]) = 0 /\ status[s] = "running"
    <3>1. \A n \in DOMAIN attempts[s] : FALSE
      BY <1>0, <2>1 DEF AttemptsFit, Started
    <3>2. Len(attempts[s]) \in Nat /\ DOMAIN attempts[s] = 1 .. Len(attempts[s])
      BY <1>0, AttemptTypes
    <3>3. Len(attempts[s]) = 0
      BY <3>1, <3>2
    <3> QED BY <2>1, <3>3 DEF CountInv, Started
  <2>4. Counting(s)'
    BY <2>1, <2>2, <2>3 DEF Counting, Pending
  <2>5. ASSUME NEW r \in Sessions, target'[r] \notin crowded' PROVE Counting(r)'
    <3>1. CASE r # s
      BY <2>1, <2>2, <2>5, <3>1, CountStands DEF CountInv
    <3> QED BY <2>4, <3>1
  <2>6. ASSUME NEW r \in Sessions, ~Started(r)' PROVE status'[r] = "running"
    BY <2>1, <2>2, <2>6 DEF CountInv, Started
  <2> QED BY <2>5, <2>6 DEF CountInv
(* The driver of s, which drives d, sends the next ping or reports. *)
<1>4. ASSUME NEW s \in Sessions, NEW d \in Sessions, Started(s), Started(d),
             target[d] = target[s], target[s] \notin crowded => d = s,
             NEW k \in Nat, NEW n \in Nat, NextAttempt(s, d, k, n), UNCHANGED <<target, crowded>>,
             target[s] \notin crowded =>
                /\ status[s] \notin {"timeout", "completed"}
                /\ n = 0 => AllGivenUp(s)
                /\ n # 0 => Heard(s)
      PROVE  CountInv'
  <2>1. /\ Started(s)'
        /\ \A r \in Sessions \ {s} : pc'[r] = pc[r] /\ driver'[r] = driver[r]
        /\ \A r \in Sessions \ {d} : attempts'[r] = attempts[r] /\ status'[r] = status[r]
    BY <1>0, <1>4 DEF NextAttempt, Started
  <2>2. target[s] \notin crowded => Counting(s)'
    BY <1>0, <1>4, NextCounting
  <2> QED BY <1>4, <2>1, <2>2, OthersCount
<1>5. ASSUME NEW s \in Sessions, Driving(s)
      PROVE  /\ driver[s].session \in Sessions /\ Started(driver[s].session) /\ Started(s)
             /\ target[driver[s].session] = target[s]
             /\ target[s] \notin crowded => driver[s].session = s /\ Counting(s)
             /\ driver[s].turn \in Nat /\ driver[s].received \in Nat
  BY <1>0, <1>5 DEF SessionsFit, CountInv, Started, Driving, Driver
<1>6. ASSUME NEW s \in Sessions, DriverBegins(s) PROVE CountInv'
  <2>1. Pending(s) /\ UNCHANGED <<target, crowded>>
    <3>1. 1 \in DOMAIN ready /\ ready[1] = Drive(s)
      BY <1>0, <1>6, TailFacts DEF DriverBegins, TableType
    <3> QED BY <1>6, <3>1 DEF DriverBegins, IInv, QueueFits, Drive
  <2>2. CASE linkSessions[target[s]] # NoSession /\ NextAttempt(s, linkSessions[target[s]], 0, 0)
    <3>1. /\ linkSessions[target[s]] \in Sessions /\ Started(linkSessions[target[s]])
          /\ target[linkSessions[target[s]]] = target[s]
          /\ target[s] \notin crowded => linkSessions[target[s]] = s
      BY <1>6, <2>2, BeginFacts
    <3>2. target[s] \notin crowded => status[s] \notin {"timeout", "completed"} /\ AllGivenUp(s)
      <4>1. Len(attempts[s]) = 0 => \A n \in DOMAIN attempts[s] : FALSE
        BY <1>0, AttemptTypes
      <4> QED BY <2>1, <4>1 DEF CountInv, Counting, AllGivenUp
    <3> QED BY <1>4, <2>1, <2>2, <3>1, <3>2 DEF Started, Pending
  <2>3. CASE TaskEnds(s, Tail(ready)) /\ UNCHANGED <<attempts, status>>
    <3>1. /\ pc'[s] = "dead" /\ pc[s] # "none"
          /\ \A r \in Sessions \ {s} : pc'[r] = pc[r] /\ driver'[r] = driver[r]
      BY <1>0, <2>1, <2>3 DEF TaskEnds, Pending
    <3> QED BY <2>1, <2>3, <3>1, AllCountsStand DEF Started
  <2> QED BY <1>6, <2>2, <2>3 DEF DriverBegins
<1>7. ASSUME NEW s \in Sessions, AwaitPong(s) PROVE CountInv'
  <2>1. pc[s] = "sent" /\ pc' = [pc EXCEPT ![s] = "waiting"]
    BY <1>7 DEF AwaitPong
  <2>2. \A r \in Sessions : \/ pc'[r] = pc[r]
                            \/ pc[r] = "sent" /\ pc'[r] = "waiting"
    BY <1>0, <2>1
  <2> QED BY <1>1, <1>7, <2>2 DEF AwaitPong, sessionVars
<1>8. ASSUME NEW s \in Sessions, WaitEnds(s) PROVE CountInv'
  <2>1. pc[s] = "waiting" /\ Driving(s) /\ UNCHANGED <<target, crowded>>
    BY <1>8 DEF WaitEnds, Driving
  <2>2. driver[s].at \in DOMAIN attempts[driver[s].session]
    BY <1>0, <2>1 DEF AttemptsFit
  <2>3. CASE Answered(s)
    <3>1. NextAttempt(s, driver[s].session, driver[s].turn, driver[s].received + 1)
      BY <1>8, <2>3 DEF WaitEnds
    <3>2. driver[s].received + 1 \in Nat /\ driver[s].received + 1 # 0
      BY <1>5, <2>1
    <3>3. target[s] \notin crowded => status[s] \notin {"timeout", "completed"} /\ Heard(s)
      <4> SUFFICES ASSUME target[s] \notin crowded
                   PROVE  status[s] \notin {"timeout", "completed"} /\ Heard(s)
        OBVIOUS
      <4>1. driver[s].session = s /\ Counting(s)
        BY <1>5, <2>1
      <4>2. Resolved(attempts[s][driver[s].at]) /\ ~GivenUp(s, driver[s].at)
        BY <2>1, <2>2, <2>3, <4>1 DEF Answered, Current, Counting
      <4> QED BY <2>1, <2>2, <4>1, <4>2 DEF Counting, Heard
    <3> QED BY <1>4, <1>5, <2>1, <3>1, <3>2, <3>3
  <2>4. CASE ~Answered(s)
    <3>1. PICK d, n, a : /\ d = driver[s].session /\ n = driver[s].at
                         /\ GoodAttempt(a, d, n)
                         /\ attempts' = [attempts EXCEPT ![d][n] = a]
                         /\ a.timedOut = TRUE /\ ~Resolved(attempts[d][n])
      BY <1>8, <2>4, GiveUpFacts
    <3>2. /\ pc'[s] = "timeout" /\ driver' = driver /\ status' = status
          /\ \A r \in Sessions \ {s} : pc'[r] = pc[r]
      BY <1>0, <1>8, <2>4 DEF WaitEnds
    <3>3. d \in Sessions /\ n \in DOMAIN attempts[d] /\ attempts[d] \in Seq(Attempt)
      BY <1>0, <1>5, <2>1, <2>2, <3>1
    <3>4. /\ DOMAIN attempts'[d] = DOMAIN attempts[d]
          /\ attempts'[d][n] = a
          /\ \A m \in DOMAIN attempts[d] : m # n => attempts'[d][m] = attempts[d][m]
          /\ \A r \in Sessions \ {d} : attempts'[r] = attempts[r]
      BY <1>0, <3>1, <3>3
    <3>5. target[s] \notin crowded => Counting(s)'
      <4> SUFFICES ASSUME target[s] \notin crowded PROVE Counting(s)'
        OBVIOUS
      <4>1. d = s /\ Counting(s)
        BY <1>5, <2>1, <3>1
      <4>2. driver[s].received = 0 => AllGivenUp(s)'
        BY <2>1, <3>1, <3>4, <4>1 DEF Counting, AllGivenUp, GivenUp
      <4>3. Heard(s) => Heard(s)'
        BY <3>1, <3>4, <4>1 DEF Heard, GivenUp, Resolved
      <4> QED BY <2>1, <3>2, <4>1, <4>2, <4>3 DEF Counting, Pending
    <3> QED BY <1>5, <2>1, <3>1, <3>2, <3>3, <3>4, <3>5, OthersCount DEF Started
  <2> QED BY <2>3, <2>4
<1>9. ASSUME NEW s \in Sessions, TimeoutReported(s) PROVE CountInv'
  <2>1. /\ pc[s] = "timeout" /\ Driving(s) /\ UNCHANGED <<target, crowded>>
        /\ NextAttempt(s, driver[s].session, driver[s].turn, driver[s].received)
    BY <1>9 DEF TimeoutReported, Driving
  <2>2. target[s] \notin crowded =>
            /\ status[s] \notin {"timeout", "completed"}
            /\ driver[s].received = 0 => AllGivenUp(s)
            /\ driver[s].received # 0 => Heard(s)
    BY <1>5, <2>1 DEF Counting
  <2> QED BY <1>4, <1>5, <2>1, <2>2
<1>10. ASSUME NEW s \in Sessions, DriverEnds(s) PROVE CountInv'
  <2>1. /\ Driving(s) /\ TaskEnds(s, ready) /\ UNCHANGED <<target, crowded, status>>
    BY <1>10 DEF DriverEnds, Driving
  <2>2. /\ pc'[s] = "dead" /\ pc[s] # "none"
        /\ \A r \in Sessions \ {s} : pc'[r] = pc[r] /\ driver'[r] = driver[r]
    BY <1>0, <2>1 DEF TaskEnds, Driving
  <2>3. \A r \in Sessions : r # driver[s].session => attempts'[r] = attempts[r]
    BY <1>10 DEF DriverEnds
  <2>4. \A r \in Sessions \ {s} : target[r] \notin crowded => r # driver[s].session
    BY <1>5, <2>1
  <2> QED BY <2>1, <2>2, <2>3, <2>4, AllCountsStand DEF Started
<1>11. ASSUME NEW t \in Targets, StopLinkCheck(t) PROVE CountInv'
  <2>1. PICK s : s = linkSessions[t] /\ s # NoSession
    BY <1>11 DEF StopLinkCheck
  <2>2. s \in Sessions /\ CancelDrivers({s}, {s}) /\ Started(s)
    BY <1>0, <1>11, <2>1 DEF StopLinkCheck, IInv, EntriesFit, Started
  <2>3. {s} \in SUBSET Sessions
    BY <2>2
  <2> QED BY <1>2, <1>11, <2>2, <2>3 DEF StopLinkCheck
<1>12. ASSUME NEW s \in Sessions, NEW n \in DOMAIN attempts[s], NEW a, FrameStep(s, n, a)
       PROVE  CountInv'
  <2>1. /\ attempts[s] \in Seq(Attempt) /\ a \in Attempt
        /\ attempts' = [attempts EXCEPT ![s][n] = a]
        /\ a.timedOut = attempts[s][n].timedOut
        /\ Resolved(attempts[s][n]) => Resolved(a)
        /\ UNCHANGED <<target, status, pc, driver, crowded>>
    BY <1>0, <1>12 DEF FrameStep, GoodAttempt
  <2>2. /\ DOMAIN attempts'[s] = DOMAIN attempts[s] /\ Len(attempts'[s]) = Len(attempts[s])
        /\ attempts'[s][n] = a
        /\ \A m \in DOMAIN attempts[s] : m # n => attempts'[s][m] = attempts[s][m]
        /\ \A r \in Sessions \ {s} : attempts'[r] = attempts[r]
    BY <1>0, <1>12, <2>1
  <2>3. ASSUME NEW r \in Sessions, NEW m \in DOMAIN attempts[r]
        PROVE  /\ attempts'[r][m].timedOut = attempts[r][m].timedOut
               /\ attempts[r][m].pong # None => attempts'[r][m].pong # None
    BY <2>1, <2>2, <2>3 DEF Resolved
  <2> QED BY <2>1, <2>2, <2>3, AllCountsStand DEF Started
<1>13. ASSUME NEW r \in Sessions, NEW m \in DOMAIN attempts[r],
              HandleEcho(<<r, m>>) \/ HandlePong(<<r, m>>)
       PROVE  CountInv'
  BY <1>12, <1>13, EchoFacts, PongFacts
<1>14. ASSUME NEW S \in SUBSET Sessions, Reap(S), UNCHANGED <<target, attempts, driver, crowded>>
       PROVE  CountInv'
  BY <1>2, <1>14 DEF Reap
<1>15. ASSUME ReapStrays, UNCHANGED <<target, attempts, driver, crowded>> PROVE CountInv'
  <2>1. {s \in Sessions : Live(s)} \in SUBSET Sessions
    OBVIOUS
  <2> QED BY <1>1, <1>14, <1>15, <2>1 DEF ReapStrays
<1>16. CASE ShutdownBegins
  <2>1. Tabled \in SUBSET Sessions
    BY DEF Tabled
  <2> QED BY <1>14, <1>15, <1>16, <2>1 DEF ShutdownBegins
<1>17. CASE ShutdownReapsStrays
  BY <1>15, <1>17 DEF ShutdownReapsStrays
<1>18. CASE ShutdownClears
  BY <1>1, <1>18 DEF ShutdownClears, sessionVars
<1>19. CASE StopReturns
  BY <1>1, <1>19 DEF StopReturns, sessionVars
<1>20. ASSUME NEW t \in Targets, CooldownPasses(t) PROVE CountInv'
  BY <1>1, <1>20 DEF CooldownPasses, sessionVars
<1>21. ASSUME NEW s \in Sessions, DriverStep(s) PROVE CountInv'
  <2>1. CASE AttemptTimeout(s)
    BY <1>1, <2>1 DEF AttemptTimeout, sessionVars
  <2> QED BY <1>6, <1>7, <1>8, <1>9, <1>10, <1>21, <2>1 DEF DriverStep
<1>22. CASE UNCHANGED vars
  BY <1>1, <1>22 DEF vars, sessionVars
<1> QED
  BY <1>3, <1>11, <1>13, <1>16, <1>17, <1>18, <1>19, <1>20, <1>21, <1>22 DEF Next

-----------------------------------------------------------------------------
(* The whole invariant, and what follows from it. *)

AllInv == IInv /\ Capped /\ AttemptsInv /\ TimersTyped /\ CountInv

LEMMA SpecKeepsAll == Spec => []AllInv
<1>1. Init => AllInv
  BY InitIInv, InitCapped, InitAttempts, InitTimers, InitCount DEF AllInv
<1>2. AllInv /\ [Next]_vars => AllInv'
  BY NextIInv, NextCapped, NextAttempts, NextTimers, NextCount DEF AllInv, AttemptsInv
<1> QED BY <1>1, <1>2, PTL DEF Spec

(* Until shutdown has cleared the table, no target is pinged by two        *)
(* drivers at once, unless a start was let in while an earlier driver of   *)
(* the target had not had its first step (start_link_check).               *)
THEOREM NeverTwoDrivers == Spec => []OneDriverPerTarget
<1>1. AllInv => OneDriverPerTarget
  BY Alone DEF AllInv, OneDriverPerTarget, Live
<1> QED BY <1>1, SpecKeepsAll, PTL

(* ... and no more drivers than the cap transmit (_MAX_CONCURRENT_LINKCHECKS). *)
THEOREM CapNeverExceeded == Spec => []CapHolds
<1> DEFINE Steady == {s \in Sessions : Driving(s) /\ target[s] \notin crowded}
<1>1. ASSUME AllInv, shutdown # "over" PROVE Cardinality(Steady) <= MaxConcurrent
  <2>1. /\ TableType /\ DriversHold /\ IsFiniteSet(Occupied)
        /\ Cardinality(Occupied) <= MaxConcurrent
    BY <1>1 DEF AllInv, IInv, Capped
  <2> DEFINE g == [s \in Steady |-> target[s]]
  <2>2. g \in Injection(Steady, Occupied)
    <3>1. g \in [Steady -> Occupied]
      BY <2>1, ParametersAssumption DEF TableType, DriversHold, Occupied, Driving
    <3>2. \A r, s \in Steady : g[r] = g[s] => r = s
      BY <2>1 DEF DriversHold
    <3> QED BY <3>1, <3>2 DEF Injection, IsInjective
  <2>3. IsFiniteSet(Steady) /\ Cardinality(Steady) <= Cardinality(Occupied)
    BY <2>1, <2>2, FS_Injection
  <2>4. Cardinality(Steady) \in Nat /\ Cardinality(Occupied) \in Nat
    BY <2>1, <2>3, FS_CardinalityType
  <2> QED BY <2>1, <2>3, <2>4, ParametersAssumption
<1>2. AllInv => CapHolds
  BY <1>1 DEF CapHolds
<1> QED BY <1>2, SpecKeepsAll, PTL

(* Both limits of start_link_check hold at all times. *)
THEOREM DriversStayLimited == Spec => []DriversLimited
BY NeverTwoDrivers, CapNeverExceeded, PTL DEF DriversLimited

(* The status that linkcheck_done reports follows the attempts             *)
(* (_run_link_check_session), whatever echoes and pongs come late.         *)
THEOREM StatusStaysTrue == Spec => []StatusMatchesAttempts
<1>1. ASSUME AllInv, NEW s \in Sessions, pc[s] = "done", target[s] \notin crowded
      PROVE  LET d == driver[s].session
             IN  /\ status[d] = "timeout" =>
                      \A n \in DOMAIN attempts[d] : Resolved(attempts[d][n]) => attempts[d][n].late
                 /\ status[d] = "completed" =>
                      \E n \in DOMAIN attempts[d] :
                          Resolved(attempts[d][n]) /\ ~attempts[d][n].timedOut
  <2>1. driver[s].session = s /\ Counting(s)
    BY <1>1 DEF AllInv, IInv, SessionsFit, Driving, CountInv
  <2>2. \A n \in DOMAIN attempts[s] : Resolved(attempts[s][n]) /\ GivenUp(s, n) => attempts[s][n].late
    BY <1>1 DEF AllInv, AttemptsInv, AttemptsFit, GoodAttempt, GivenUp
  <2> QED BY <1>1, <2>1, <2>2 DEF Counting, AllGivenUp, Heard, GivenUp
<1>2. AllInv => StatusMatchesAttempts
  BY <1>1 DEF StatusMatchesAttempts
<1> QED BY <1>2, SpecKeepsAll, PTL

(* What a session reports is what was heard: an attempt is resolved by a   *)
(* pong to its own ping or to an earlier one to the same target, and the   *)
(* final status follows the attempts (_handle_linkcheck_pong,              *)
(* _finish_session).                                                       *)
THEOREM ReportStaysTrue == Spec => []ReportIsTrue
<1>1. AllInv => ResolvedByOwnPong
  BY DEF AllInv, AttemptsInv, AttemptsFit, GoodAttempt, OwnId, ResolvedByOwnPong
<1>2. AllInv => TypeOK
  BY DEF AllInv, IInv, TableType, AttemptsInv, AttemptsFit, TimersTyped, TypeOK, Pcs, Handles
<1> QED BY <1>1, <1>2, StatusStaysTrue, SpecKeepsAll, PTL DEF ReportIsTrue

=============================================================================
