----------------------------- MODULE NodeProofs -----------------------------
(***************************************************************************)
(* What goes on with the node: the ping tests it transmits, and the BLE    *)
(* link to it.                                                             *)
(*                                                                         *)
(* For any number of tests, probes and copies, with or without a shutdown: *)
(* the tables stay well typed, no test is summed up twice, and the summary *)
(* of a test that took no echo but the first of its own probes is true.    *)
(*                                                                         *)
(* For any nodes, commands and faults: a connection without registers is   *)
(* in the reconciler's hands, and when all is quiet a link that is up is   *)
(* known to be and has its registers.                                      *)
(***************************************************************************)
EXTENDS CTCPing, BLELink, FiniteSetTheorems, TLAPS

(* The number of summaries follows the status, and a completion task that  *)
(* is sending one has already moved the status away from running.          *)
SummaryInv ==
    /\ \A t \in Tests :
        summaries[t] = IF status[t] \in {"new", "running"} THEN 0 ELSE 1
    /\ \A t \in Tests : completer[t] = "summary" => status[t] \notin {"new", "running"}

IInv == TypeOK /\ SummaryInv

LEMMA InitIInv == Init => IInv
BY ParametersAssumption DEF Init, IInv, TypeOK, SummaryInv, Ids, Seqs

PingType ==
    /\ active \subseteq Ids
    /\ testOf \in [Ids -> Tests \cup {NoTest}]
    /\ acked \subseteq active

CompletionType ==
    /\ completing \subseteq Tests
    /\ completer \in [Tests -> {"none", "queued", "summary"}]

LEMMA DropType ==
    ASSUME TypeOK, NEW i \in Ids, Drop(i)
    PROVE  PingType'
BY DEF TypeOK, Drop, PingType

LEMMA TriggerType ==
    ASSUME TypeOK, NEW t \in Tests, NEW ok, NEW ko, TriggerCompletion(t, ok, ko)
    PROVE  /\ CompletionType'
           /\ \A u \in Tests : completer'[u] = "summary" => completer[u] = "summary"
<1>1. CASE CheckTestCompletion(t, ok, ko) /\ t \notin completing
  <2>1. completing' = completing \cup {t} /\ completer' = [completer EXCEPT ![t] = "queued"]
    BY <1>1 DEF TriggerCompletion
  <2> QED BY <2>1 DEF TypeOK, CompletionType
<1>2. CASE ~(CheckTestCompletion(t, ok, ko) /\ t \notin completing)
  <2>1. completing' = completing /\ completer' = completer
    BY <1>2 DEF TriggerCompletion
  <2> QED BY <2>1 DEF TypeOK, CompletionType
<1> QED BY <1>1, <1>2

LEMMA RepeatBound ==
    \A t \in Tests : \A n \in 0 .. Total : n < RepeatOf[t] => n + 1 \in 0 .. Total
BY ParametersAssumption, RepeatAssumption

LEMMA NextIInv == IInv /\ [Next]_vars => IInv'
<1> SUFFICES ASSUME IInv, [Next]_vars PROVE IInv'
  OBVIOUS
<1> USE ParametersAssumption
<1> USE DEF IInv
<1>1. ASSUME NEW t \in Tests, StartPingTest(t) PROVE IInv'
  <2>1. TypeOK'
    BY <1>1 DEF StartPingTest, TypeOK, pingVars, netVars
  <2>2. SummaryInv'
    BY <1>1 DEF StartPingTest, TypeOK, SummaryInv
  <2> QED BY <2>1, <2>2
<1>2. ASSUME NEW t \in Tests, SendPing(t) PROVE IInv'
  <2>1. TypeOK'
    <3>1. sender' \in [Tests -> 0 .. Total]
      <4>1. sender[t] < RepeatOf[t] /\ sender' = [sender EXCEPT ![t] = @ + 1]
        BY <1>2 DEF SendPing, MoreToSend
      <4>2. sender[t] + 1 \in 0 .. Total
        <5>1. sender[t] \in 0 .. Total
          BY DEF TypeOK
        <5> QED BY <4>1, <5>1, RepeatBound
      <4> QED BY <4>1, <4>2 DEF TypeOK
    <3>2. echoes' \in [Ids -> 0 .. Copies] /\ acks' \in [Ids -> 0 .. Copies]
      <4>1. Copies \in 0 .. Copies
        OBVIOUS
      <4>2. PICK i : /\ echoes' = [echoes EXCEPT ![i] = Copies]
                     /\ acks' = [acks EXCEPT ![i] = Copies]
        BY <1>2, Zenon DEF SendPing
      <4> QED BY <4>1, <4>2 DEF TypeOK
    <3> QED BY <1>2, <3>1, <3>2 DEF SendPing, TypeOK, sessionVars, pingVars
  <2>2. SummaryInv'
    BY <1>2 DEF SendPing, SummaryInv, sessionVars
  <2> QED BY <2>1, <2>2
<1>3. ASSUME NEW t \in Tests, StartMonitor(t) PROVE IInv'
  BY <1>3 DEF StartMonitor, TypeOK, SummaryInv, sessionVars, pingVars, netVars
<1>4. ASSUME NEW t \in Tests, CompleteTest(t) PROVE IInv'
  <2>1. CASE MayComplete(t)
    <3>1. /\ status' = [status EXCEPT ![t] = "completing"]
          /\ monitor' = [monitor EXCEPT ![t] = IF @ = "waiting" THEN "done" ELSE @]
          /\ completer' = [completer EXCEPT ![t] = "summary"]
          /\ summaries' = [summaries EXCEPT ![t] = @ + 1]
          /\ completing' = completing
      BY <1>4, <2>1 DEF CompleteTest
    <3>2. TypeOK'
      BY <1>4, <3>1 DEF CompleteTest, TypeOK, pingVars, netVars
    <3>3. SummaryInv'
      BY <2>1, <3>1 DEF MayComplete, TypeOK, SummaryInv
    <3> QED BY <3>2, <3>3
  <2>2. CASE ~MayComplete(t)
    <3>1. /\ completer' = [completer EXCEPT ![t] = "none"]
          /\ completing' = completing \ {t}
          /\ UNCHANGED <<status, monitor, summaries>>
      BY <1>4, <2>2 DEF CompleteTest
    <3>2. TypeOK'
      BY <1>4, <3>1 DEF CompleteTest, TypeOK, pingVars, netVars
    <3>3. SummaryInv'
      BY <3>1 DEF TypeOK, SummaryInv
    <3> QED BY <3>2, <3>3
  <2> QED BY <2>1, <2>2
<1>5. ASSUME NEW t \in Tests, CompleteTestEnds(t) PROVE IInv'
  <2>1. TypeOK'
    BY <1>5 DEF CompleteTestEnds, TypeOK, pingVars, netVars
  <2>2. SummaryInv'
    BY <1>5 DEF CompleteTestEnds, TypeOK, SummaryInv
  <2> QED BY <2>1, <2>2
<1>6. ASSUME NEW t \in Tests, MonitorFires(t) PROVE IInv'
  <2>1. CASE MonitorActs(t)
    <3>1. /\ status' = [status EXCEPT ![t] = "timeout"]
          /\ monitor' = [monitor EXCEPT ![t] = "summary"]
          /\ summaries' = [summaries EXCEPT ![t] = @ + 1]
          /\ completer' = completer
      BY <1>6, <2>1 DEF MonitorFires
    <3>2. TypeOK'
      <4>1. /\ status' \in [Tests -> {"new", "running", "completing", "completed", "timeout"}]
            /\ monitor' \in [Tests -> {"none", "waiting", "summary", "done"}]
            /\ summaries' \in [Tests -> Nat]
        BY <3>1 DEF TypeOK
      <4>2. UNCHANGED <<present, started, counted, missed, doneSeqs, missedSeqs, sender, sending,
                        completer, completing, pingVars, netVars, stopped>>
        BY <1>6 DEF MonitorFires
      <4> QED BY <4>1, <4>2 DEF TypeOK, pingVars, netVars
    <3>3. SummaryInv'
      BY <2>1, <3>1 DEF MonitorActs, TypeOK, SummaryInv
    <3> QED BY <3>2, <3>3
  <2>2. CASE ~MonitorActs(t)
    <3>1. /\ monitor' = [monitor EXCEPT ![t] = "done"]
          /\ UNCHANGED <<status, summaries, completer>>
      BY <1>6, <2>2 DEF MonitorFires
    <3>2. TypeOK'
      BY <1>6, <3>1 DEF MonitorFires, TypeOK, pingVars, netVars
    <3>3. SummaryInv'
      BY <3>1 DEF SummaryInv
    <3> QED BY <3>2, <3>3
  <2> QED BY <2>1, <2>2
<1>7. ASSUME NEW t \in Tests, MonitorEnds(t) PROVE IInv'
  BY <1>7 DEF MonitorEnds, TypeOK, SummaryInv, pingVars, netVars
<1>8. ASSUME NEW i \in Ids, HandleEcho(i) PROVE IInv'
  <2>1. PingType' /\ timers' \in [Ids -> Nat]
    <3>1. CASE i \in active
      BY <1>8, <3>1 DEF HandleEcho, TypeOK, PingType
    <3>2. CASE i \notin active
      <4>1. TrackPing(i) /\ acked' = acked
        BY <1>8, <3>2 DEF HandleEcho
      <4> QED BY <4>1 DEF TrackPing, TypeOK, PingType
    <3> QED BY <3>1, <3>2
  <2>2. TypeOK'
    <3>1. echoes' \in [Ids -> 0 .. Copies]
      BY <1>8 DEF HandleEcho, TypeOK
    <3>2. misled' \subseteq Tests
      <4>1. CASE i \in active
        BY <1>8, <4>1 DEF HandleEcho, TypeOK
      <4>2. CASE i \notin active
        <5>1. PICK t \in Tests \cup {NoTest} :
                misled' = misled \cup {u \in {t} \ {NoTest} : u # i[1] \/ echoes[i] < Copies}
          BY <1>8, <4>2 DEF HandleEcho, TrackPing
        <5> QED BY <5>1 DEF TypeOK
      <4> QED BY <4>1, <4>2
    <3>3. UNCHANGED <<acks, stopped, acking>>
      BY <1>8 DEF HandleEcho
    <3> QED BY <1>8, <2>1, <3>1, <3>2, <3>3 DEF HandleEcho, TypeOK, PingType, sessionVars, taskVars
  <2> QED BY <1>8, <2>2 DEF HandleEcho, SummaryInv, sessionVars, taskVars
<1>9. ASSUME NEW i \in Ids, HandleAck(i) PROVE IInv'
  <2>1. PingType' /\ doneSeqs' \in [Tests -> SUBSET Seqs] /\ acking' \subseteq [id : Ids, test : Tests]
    <3>1. CASE ~Unresolved(i)
      <4>1. UNCHANGED <<active, testOf, acked, acking, doneSeqs>>
        BY <1>9, <3>1 DEF HandleAck
      <4> QED BY <4>1 DEF TypeOK, PingType
    <3>2. CASE Unresolved(i) /\ AckCounts(i)
      <4>1. /\ doneSeqs' = [doneSeqs EXCEPT ![testOf[i]] = @ \cup {i[2]}]
            /\ acked' = acked \cup {i}
            /\ acking' = acking \cup {[id |-> i, test |-> testOf[i]]}
            /\ UNCHANGED <<active, testOf>>
        BY <1>9, <3>2 DEF HandleAck
      <4>2. testOf[i] \in Tests /\ i[2] \in Seqs /\ i \in active
        BY <3>2 DEF AckCounts, Unresolved, TypeOK, Ids
      <4>3. PingType'
        BY <4>1, <4>2 DEF TypeOK, PingType
      <4>4. doneSeqs' \in [Tests -> SUBSET Seqs]
        BY <4>1, <4>2 DEF TypeOK
      <4>5. acking' \subseteq [id : Ids, test : Tests]
        BY <4>1, <4>2 DEF TypeOK
      <4> QED BY <4>3, <4>4, <4>5
    <3>3. CASE Unresolved(i) /\ ~AckCounts(i)
      <4>1. Drop(i) /\ UNCHANGED <<acking, doneSeqs>>
        BY <1>9, <3>3 DEF HandleAck
      <4> QED BY <4>1, DropType DEF TypeOK
    <3> QED BY <3>1, <3>2, <3>3
  <2>2. TypeOK'
    <3>1. acks' \in [Ids -> 0 .. Copies]
      BY <1>9 DEF HandleAck, TypeOK
    <3> QED BY <1>9, <2>1, <3>1 DEF HandleAck, TypeOK, PingType, taskVars
  <2> QED BY <1>9, <2>2 DEF HandleAck, SummaryInv, taskVars
<1>10. ASSUME NEW i \in Ids, PingTimeout(i) PROVE IInv'
  <2> DEFINE Quiet == UNCHANGED <<missed, missedSeqs, completing, completer>>
             Counted ==
                /\ missed' \in [Tests -> 0 .. Total]
                /\ missedSeqs' \in [Tests -> SUBSET Seqs]
                /\ CompletionType'
                /\ \A u \in Tests : completer'[u] = "summary" => completer[u] = "summary"
  <2>1. Quiet => Counted
    BY DEF TypeOK, CompletionType
  <2>2. PingType' /\ Counted
    <3>1. CASE ~Unresolved(i)
      <4>1. UNCHANGED <<active, testOf, acked>> /\ Quiet
        BY <1>10, <3>1 DEF PingTimeout
      <4> QED BY <4>1, <2>1 DEF TypeOK, PingType
    <3>2. CASE Unresolved(i) /\ testOf[i] = NoTest
      <4>1. Drop(i) /\ Quiet
        BY <1>10, <3>2 DEF PingTimeout
      <4> QED BY <4>1, <2>1, DropType
    <3>3. CASE Unresolved(i) /\ testOf[i] # NoTest
      <4> DEFINE t == testOf[i]
                 ko == IF missed[t] < RepeatOf[t] THEN missed[t] + 1 ELSE missed[t]
      <4>1. Drop(i) /\ RecordTimeout(t, i[2])
        BY <1>10, <3>3 DEF PingTimeout
      <4>2. t \in Tests /\ i[2] \in Seqs
        BY <3>3 DEF TypeOK, Ids
      <4>3. CASE t \in present /\ status[t] = "running"
        <5>1. /\ missed' = [missed EXCEPT ![t] = ko]
              /\ missedSeqs' = [missedSeqs EXCEPT ![t] = @ \cup {i[2]}]
              /\ TriggerCompletion(t, counted[t], ko)
          BY <4>1, <4>3 DEF RecordTimeout
        <5>2. ko \in 0 .. Total
          BY <4>2, RepeatBound DEF TypeOK
        <5> HIDE DEF ko
        <5>3. missed' \in [Tests -> 0 .. Total] /\ missedSeqs' \in [Tests -> SUBSET Seqs]
          BY <4>2, <5>1, <5>2 DEF TypeOK
        <5> QED BY <4>1, <4>2, <5>1, <5>3, DropType, TriggerType
      <4>4. CASE ~(t \in present /\ status[t] = "running")
        <5>1. Quiet
          BY <4>1, <4>4 DEF RecordTimeout
        <5> QED BY <4>1, <5>1, <2>1, DropType
      <4> QED BY <4>3, <4>4
    <3> QED BY <3>1, <3>2, <3>3
  <2>3. TypeOK'
    <3>1. timers' \in [Ids -> Nat]
      BY <1>10 DEF PingTimeout, TypeOK
    <3> QED
      BY <1>10, <2>2, <3>1 DEF PingTimeout, TypeOK, PingType, CompletionType, netVars
  <2>4. SummaryInv'
    BY <1>10, <2>2 DEF PingTimeout, SummaryInv
  <2> QED BY <2>3, <2>4
<1>11. ASSUME NEW a \in acking, RecordAck(a) PROVE IInv'
  <2> DEFINE t == a.test
             ok == IF counted[t] < RepeatOf[t] THEN counted[t] + 1 ELSE counted[t]
  <2>1. t \in Tests /\ a.id \in Ids
    BY DEF TypeOK
  <2>2. PingType'
    BY <1>11, <2>1, DropType DEF RecordAck
  <2>3. /\ counted' \in [Tests -> 0 .. Total]
        /\ CompletionType'
        /\ \A u \in Tests : completer'[u] = "summary" => completer[u] = "summary"
    <3>1. CASE t \in present /\ status[t] = "running"
      <4>1. counted' = [counted EXCEPT ![t] = ok] /\ TriggerCompletion(t, ok, missed[t])
        BY <1>11, <3>1 DEF RecordAck, RecordSuccess
      <4>2. ok \in 0 .. Total
        BY <2>1, RepeatBound DEF TypeOK
      <4> HIDE DEF ok
      <4>3. counted' \in [Tests -> 0 .. Total]
        BY <2>1, <4>1, <4>2 DEF TypeOK
      <4> QED BY <2>1, <4>1, <4>3, TriggerType
    <3>2. CASE ~(t \in present /\ status[t] = "running")
      <4>1. UNCHANGED <<counted, completing, completer>>
        BY <1>11, <3>2 DEF RecordAck, RecordSuccess
      <4> QED BY <4>1 DEF TypeOK, CompletionType
    <3> QED BY <3>1, <3>2
  <2>4. TypeOK'
    BY <1>11, <2>2, <2>3 DEF RecordAck, TypeOK, PingType, CompletionType, netVars
  <2>5. SummaryInv'
    BY <1>11, <2>3 DEF RecordAck, SummaryInv
  <2> QED BY <2>4, <2>5
<1>12. ASSUME StopCancels PROVE IInv'
  <2>1. TypeOK'
    BY <1>12 DEF StopCancels, TypeOK, sessionVars, netVars
  <2>2. SummaryInv'
    BY <1>12 DEF StopCancels, SummaryInv, sessionVars
  <2> QED BY <2>1, <2>2
<1>13. ASSUME StopClears PROVE IInv'
  BY <1>13 DEF StopClears, TypeOK, SummaryInv, netVars
<1>14. CASE UNCHANGED vars
  BY <1>14 DEF vars, sessionVars, taskVars, pingVars, netVars, TypeOK, SummaryInv
<1> QED
  BY <1>1, <1>2, <1>3, <1>4, <1>5, <1>6, <1>7, <1>8, <1>9, <1>10, <1>11, <1>12, <1>13,
     <1>14 DEF Next

LEMMA Inductive == Spec => []IInv
BY InitIInv, NextIInv, PTL DEF Spec

(* Every reachable state of the ping tables is well typed. *)
THEOREM TypeCorrect == Spec => []TypeOK
<1>1. IInv => TypeOK
  BY DEF IInv
<1> QED BY <1>1, Inductive, PTL

(* Whatever the number of tests, probes and copies, and wherever shutdown  *)
(* cancels the tasks, no test is summed up twice (_complete_test against   *)
(* _monitor_test_completion).                                              *)
THEOREM NeverTwoSummaries == Spec => []OneSummary
<1>1. IInv => OneSummary
  BY DEF IInv, SummaryInv, OneSummary
<1> QED BY <1>1, Inductive, PTL

(* ... and the ping tables stay well typed with it. *)
THEOREM TestsStaySound == Spec => []TestsSound
<1>1. TypeOK /\ OneSummary => TestsSound
  BY DEF TestsSound
<1> QED BY <1>1, TypeCorrect, NeverTwoSummaries, PTL

-----------------------------------------------------------------------------
(* The summary.  A test that is not misled tracks each of its probes once, *)
(* and nothing else: what was answered or lost is known to no entry that   *)
(* could still be counted for it.                                          *)

(* The answers whose handler still waits for its message to go out. *)
Pending(t) == {s \in Seqs : [id |-> <<t, s>>, test |-> t] \in acking}

Settled(t) == doneSeqs[t] \cup missedSeqs[t]

EntriesInv ==
    /\ \A i \in active : testOf[i] \in misled \cup {NoTest, i[1]}
    /\ \A a \in acking : a.test \notin misled =>
            a.test = a.id[1] /\ a.id[2] \in doneSeqs[a.test]

(* An echo arrives only for a probe that was sent; once it has come, or    *)
(* the probe is settled, no first copy of it is left.                      *)
OnceInv ==
    /\ \A i \in Ids : echoes[i] > 0 => i[2] <= sender[i[1]]
    /\ \A i \in active : echoes[i] < Copies /\ i[2] <= sender[i[1]]
    /\ \A t \in Tests \ misled : \A s \in Settled(t) : echoes[<<t, s>>] < Copies /\ s <= sender[t]
    /\ \A t \in Tests : sender[t] <= RepeatOf[t]

SettledInv ==
    \A t \in Tests \ misled :
        /\ \A s \in doneSeqs[t] : ~(Unresolved(<<t, s>>) /\ testOf[<<t, s>>] = t)
        /\ \A s \in missedSeqs[t] : ~(<<t, s>> \in active /\ testOf[<<t, s>>] = t)
        /\ doneSeqs[t] \cap missedSeqs[t] = {}

(* The counts are those of what is settled and not pending. *)
CountInv ==
    \A t \in Tests \ misled :
        /\ counted[t] <= Cardinality(doneSeqs[t] \ Pending(t))
        /\ missed[t] <= Cardinality(missedSeqs[t])

FullInv ==
    \A t \in Tests :
        completer[t] # "none" \/ status[t] \in {"completing", "completed"} =>
            counted[t] + missed[t] >= RepeatOf[t]

CountingInv == EntriesInv /\ OnceInv /\ SettledInv /\ CountInv /\ FullInv

LEMMA SeqSets ==
    ASSUME NEW S \in SUBSET Seqs
    PROVE  IsFiniteSet(S) /\ Cardinality(S) \in Nat /\ Cardinality(S) <= Total
<1>1. IsFiniteSet(Seqs) /\ Cardinality(Seqs) = Total
  BY FS_Interval, ParametersAssumption DEF Seqs
<1>2. IsFiniteSet(S) /\ Cardinality(S) <= Cardinality(Seqs)
  BY <1>1, FS_Subset
<1> QED BY <1>1, <1>2, FS_CardinalityType

LEMMA OneMore ==
    ASSUME NEW S \in SUBSET Seqs, NEW s \in Seqs, s \notin S
    PROVE  Cardinality(S \cup {s}) = Cardinality(S) + 1
BY SeqSets, FS_AddElement

LEMMA PingFacts ==
    ASSUME TypeOK, NEW t \in Tests
    PROVE  /\ doneSeqs[t] \in SUBSET Seqs /\ missedSeqs[t] \in SUBSET Seqs
           /\ sender[t] \in 0 .. Total /\ counted[t] \in Nat /\ missed[t] \in Nat
           /\ RepeatOf[t] \in 1 .. Total /\ RepeatOf[t] \in Nat /\ sender[t] \in Nat
           /\ doneSeqs[t] \ Pending(t) \in SUBSET Seqs
           /\ \A s \in Seqs : <<t, s>> \in Ids
<1>1. /\ doneSeqs[t] \in SUBSET Seqs /\ missedSeqs[t] \in SUBSET Seqs
      /\ sender[t] \in 0 .. Total /\ counted[t] \in 0 .. Total /\ missed[t] \in 0 .. Total
  BY DEF TypeOK
<1>2. RepeatOf[t] \in 1 .. Total
  BY RepeatAssumption
<1>3. \A s \in Seqs : <<t, s>> \in Ids
  BY DEF Ids
<1> QED BY <1>1, <1>2, <1>3, ParametersAssumption

LEMMA IdFacts ==
    ASSUME NEW i \in Ids
    PROVE  i = <<i[1], i[2]>> /\ i[1] \in Tests /\ i[2] \in Seqs
BY DEF Ids

LEMMA InitCounting == Init => CountingInv
<1> SUFFICES ASSUME Init PROVE CountingInv
  OBVIOUS
<1>1. ASSUME NEW t \in Tests
      PROVE  /\ doneSeqs[t] = {} /\ missedSeqs[t] = {} /\ Pending(t) = {} /\ counted[t] = 0
             /\ missed[t] = 0 /\ sender[t] = 0 /\ completer[t] = "none" /\ status[t] = "new"
             /\ RepeatOf[t] \in Nat
  BY ParametersAssumption, RepeatAssumption DEF Init, Pending
<1>2. active = {} /\ acking = {} /\ \A i \in Ids : echoes[i] = 0
  BY DEF Init
<1>3. CountInv
  <2> SUFFICES ASSUME NEW t \in Tests \ misled
               PROVE  /\ counted[t] <= Cardinality(doneSeqs[t] \ Pending(t))
                      /\ missed[t] <= Cardinality(missedSeqs[t])
    BY DEF CountInv
  <2>1. doneSeqs[t] \ Pending(t) = {} /\ missedSeqs[t] = {}
    BY <1>1
  <2>2. Cardinality({}) = 0
    BY FS_EmptySet
  <2>3. counted[t] = 0 /\ missed[t] = 0
    BY <1>1
  <2> QED BY <2>1, <2>2, <2>3
<1>4. EntriesInv /\ OnceInv /\ SettledInv /\ FullInv
  BY <1>1, <1>2 DEF EntriesInv, OnceInv, SettledInv, FullInv, Settled, Unresolved
<1> QED BY <1>3, <1>4 DEF CountingInv

(* Forgetting an id disturbs nothing of what is settled. *)
LEMMA DropKeeps ==
    ASSUME TypeOK, NEW i \in Ids, Drop(i)
    PROVE  /\ active' \subseteq active
           /\ \A j \in active' : testOf'[j] = testOf[j]
           /\ \A j \in Ids : Unresolved(j)' => Unresolved(j)
           /\ i \notin active'
BY DEF TypeOK, Drop, Unresolved

(* What a step that counts nothing and sends nothing leaves in place. *)
LEMMA CountingStands ==
    ASSUME TypeOK, CountingInv,
           active' \subseteq active,
           \A j \in active' : testOf'[j] = testOf[j],
           \A j \in Ids : Unresolved(j)' => Unresolved(j),
           UNCHANGED <<acking, echoes, misled, doneSeqs, missedSeqs, sender, counted, missed>>,
           \A t \in Tests : completer'[t] \in {completer[t], "none"},
           \A t \in Tests : status'[t] \in {"completing", "completed"} =>
                status[t] = status'[t] \/ completer[t] # "none"
    PROVE  CountingInv'
<1>1. EntriesInv'
  BY DEF CountingInv, EntriesInv
<1>2. OnceInv'
  BY DEF CountingInv, OnceInv, Settled
<1>3. SettledInv'
  <2> SUFFICES ASSUME NEW t \in Tests \ misled
               PROVE  /\ \A s \in doneSeqs[t] : ~(Unresolved(<<t, s>>)' /\ testOf'[<<t, s>>] = t)
                      /\ \A s \in missedSeqs[t] : ~(<<t, s>> \in active' /\ testOf'[<<t, s>>] = t)
                      /\ doneSeqs[t] \cap missedSeqs[t] = {}
    BY DEF SettledInv
  <2>1. \A j \in Ids : Unresolved(j)' => j \in active'
    BY DEF Unresolved
  <2> QED BY <2>1, PingFacts DEF CountingInv, SettledInv
<1>4. CountInv'
  BY DEF CountingInv, CountInv, Pending
<1>5. FullInv'
  BY DEF CountingInv, FullInv
<1> QED BY <1>1, <1>2, <1>3, <1>4, <1>5 DEF CountingInv

(* A completion is queued only once everything is counted. *)
LEMMA TriggerFull ==
    ASSUME TypeOK, NEW t \in Tests, NEW ok \in Nat, NEW ko \in Nat, TriggerCompletion(t, ok, ko)
    PROVE  \A u \in Tests : completer'[u] = completer[u] \/ (u = t /\ ok + ko >= RepeatOf[t])
<1>1. CASE CheckTestCompletion(t, ok, ko) /\ t \notin completing
  BY <1>1 DEF TriggerCompletion, CheckTestCompletion, TypeOK
<1>2. CASE ~(CheckTestCompletion(t, ok, ko) /\ t \notin completing)
  BY <1>2 DEF TriggerCompletion
<1> QED BY <1>1, <1>2

LEMMA SentCounting ==
    ASSUME IInv, CountingInv, NEW t \in Tests, SendPing(t)
    PROVE  CountingInv'
<1> USE DEF IInv
<1>1. PICK k : k = sender[t] + 1
  OBVIOUS
<1>2. /\ k \in Nat /\ k <= RepeatOf[t] /\ k \in Seqs /\ <<t, k>> \in Ids
      /\ sender' = [sender EXCEPT ![t] = k]
      /\ echoes' = [echoes EXCEPT ![<<t, k>>] = Copies]
      /\ UNCHANGED <<active, testOf, acked, acking, misled, doneSeqs, missedSeqs, counted, missed,
                     completer, status>>
  <2>1. k \in Nat /\ k <= RepeatOf[t] /\ k \in Seqs
    <3>1. sender[t] < RepeatOf[t]
      BY DEF SendPing, MoreToSend
    <3>2. sender[t] \in Nat /\ RepeatOf[t] \in 1 .. Total
      BY PingFacts
    <3> QED BY <1>1, <3>1, <3>2, ParametersAssumption DEF Seqs
  <2>2. sender' = [sender EXCEPT ![t] = k]
    BY <1>1 DEF SendPing
  <2>3. echoes' = [echoes EXCEPT ![<<t, k>>] = Copies]
    BY <1>1 DEF SendPing
  <2>4. UNCHANGED <<active, testOf, acked, acking, misled, doneSeqs, missedSeqs, counted, missed,
                    completer, status>>
    BY DEF SendPing, sessionVars, pingVars
  <2> QED BY <2>1, <2>2, <2>3, <2>4, PingFacts
<1>3. /\ sender'[t] = k /\ \A u \in Tests \ {t} : sender'[u] = sender[u]
      /\ sender[t] \in Nat /\ sender[t] < k
  BY <1>1, <1>2, PingFacts DEF TypeOK
<1>4. \A i \in Ids : i # <<t, k>> => echoes'[i] = echoes[i]
  BY <1>2 DEF TypeOK
<1>5. \A u \in Tests : sender[u] <= sender'[u] /\ sender'[u] <= RepeatOf[u] /\ sender[u] \in Nat /\ sender'[u] \in Nat
  BY <1>2, <1>3, PingFacts DEF CountingInv, OnceInv
<1>6. EntriesInv'
  BY <1>2 DEF CountingInv, EntriesInv
<1>7. OnceInv'
  <2>1. ASSUME NEW i \in Ids, echoes'[i] > 0 PROVE i[2] <= sender'[i[1]]
    <3>1. CASE i = <<t, k>>
      BY <1>2, <1>3, <3>1
    <3>2. CASE i # <<t, k>>
      <4>1. i[2] <= sender[i[1]] /\ i[1] \in Tests /\ i[2] \in Nat
        BY <1>4, <2>1, <3>2, IdFacts DEF CountingInv, OnceInv, Seqs
      <4> QED BY <1>5, <4>1
    <3> QED BY <3>1, <3>2
  <2>2. ASSUME NEW i \in active PROVE echoes'[i] < Copies /\ i[2] <= sender'[i[1]]
    <3>1. i \in Ids /\ i[1] \in Tests /\ i[2] \in Nat /\ i[2] <= sender[i[1]] /\ echoes[i] < Copies
      BY IdFacts DEF TypeOK, CountingInv, OnceInv, Seqs
    <3>2. i # <<t, k>>
      BY <1>2, <1>3, <3>1
    <3> QED BY <1>4, <1>5, <3>1, <3>2
  <2>3. ASSUME NEW u \in Tests \ misled, NEW s \in Settled(u)
        PROVE  echoes'[<<u, s>>] < Copies /\ s <= sender'[u]
    <3>1. s \in Seqs /\ s \in Nat /\ <<u, s>> \in Ids /\ s <= sender[u] /\ echoes[<<u, s>>] < Copies
      BY PingFacts DEF Settled, CountingInv, OnceInv, Seqs
    <3>2. <<u, s>> # <<t, k>>
      BY <1>2, <1>3, <3>1
    <3> QED BY <1>4, <1>5, <3>1, <3>2
  <2>4. \A u \in Tests : Settled(u)' = Settled(u)
    BY <1>2 DEF Settled
  <2> QED BY <1>2, <1>5, <2>1, <2>2, <2>3, <2>4 DEF OnceInv
<1>8. SettledInv'
  BY <1>2 DEF CountingInv, SettledInv, Unresolved
<1>9. CountInv'
  BY <1>2 DEF CountingInv, CountInv, Pending
<1>10. FullInv'
  BY <1>2 DEF CountingInv, FullInv
<1> QED BY <1>6, <1>7, <1>8, <1>9, <1>10 DEF CountingInv

LEMMA EchoCounting ==
    ASSUME IInv, CountingInv, NEW i \in Ids, HandleEcho(i)
    PROVE  CountingInv'
<1> USE DEF IInv
<1>1. /\ echoes[i] > 0
      /\ echoes' = [echoes EXCEPT ![i] = @ - 1]
      /\ UNCHANGED <<acked, acking, doneSeqs, missedSeqs, sender, counted, missed, completer, status>>
  BY DEF HandleEcho, sessionVars, taskVars
<1>2. /\ \A j \in Ids : echoes'[j] <= echoes[j] /\ echoes[j] \in Nat /\ echoes'[j] \in Int
      /\ echoes'[i] < Copies /\ Copies \in Nat /\ echoes[i] <= Copies
  BY <1>1, ParametersAssumption DEF TypeOK
<1>3. /\ active' \subseteq active \cup {i}
      /\ \A j \in active : testOf'[j] = testOf[j]
      /\ misled \subseteq misled'
      /\ i \notin active => testOf'[i] \in misled' \cup {NoTest, i[1]}
      /\ i \notin active /\ testOf'[i] = i[1] => i[1] \in misled' \/ echoes[i] = Copies
  <2>1. CASE i \in active
    BY <2>1 DEF HandleEcho
  <2>2. CASE i \notin active
    <3>1. PICK t \in Tests \cup {NoTest} :
             /\ active' = active \cup {i}
             /\ testOf' = [testOf EXCEPT ![i] = t]
             /\ misled' = misled \cup {u \in {t} \ {NoTest} : u # i[1] \/ echoes[i] < Copies}
      BY <2>2 DEF HandleEcho, TrackPing
    <3>2. testOf'[i] = t
      BY <3>1 DEF TypeOK
    <3>3. t = NoTest \/ t = i[1] \/ t \in misled'
      BY <3>1
    <3>4. t = i[1] => i[1] \in misled' \/ echoes[i] = Copies
      <4> SUFFICES ASSUME t = i[1], echoes[i] # Copies PROVE i[1] \in misled'
        OBVIOUS
      <4>1. echoes[i] < Copies
        BY <1>2
      <4>2. t # NoTest
        BY IdFacts, NoTestAssumption
      <4> QED BY <3>1, <4>1, <4>2
    <3> QED BY <2>2, <3>1, <3>2, <3>3, <3>4 DEF TypeOK
  <2> QED BY <2>1, <2>2
<1>5. EntriesInv'
  BY <1>1, <1>3 DEF CountingInv, EntriesInv
<1>6. OnceInv'
  <2>1. ASSUME NEW j \in Ids, echoes'[j] > 0 PROVE j[2] <= sender[j[1]]
    <3>1. echoes[j] > 0
      BY <1>2, <2>1
    <3> QED BY <3>1 DEF CountingInv, OnceInv
  <2>2. ASSUME NEW j \in active' PROVE echoes'[j] < Copies /\ j[2] <= sender[j[1]]
    <3>1. CASE j = i
      BY <1>1, <1>2, <3>1 DEF CountingInv, OnceInv
    <3>2. CASE j # i
      <4>1. j \in active /\ j \in Ids
        BY <1>3, <3>2 DEF TypeOK
      <4>2. echoes[j] < Copies /\ j[2] <= sender[j[1]]
        BY <4>1 DEF CountingInv, OnceInv
      <4>3. echoes'[j] <= echoes[j] /\ echoes'[j] \in Int /\ echoes[j] \in Nat
        BY <1>2, <4>1
      <4> QED BY <1>2, <4>2, <4>3
    <3> QED BY <3>1, <3>2
  <2>3. ASSUME NEW u \in Tests \ misled', NEW s \in Settled(u) PROVE echoes'[<<u, s>>] < Copies /\ s <= sender[u]
    <3>1. <<u, s>> \in Ids
      BY PingFacts DEF Settled
    <3>2. u \in Tests \ misled
      BY <1>3
    <3> QED BY <1>2, <3>1, <3>2 DEF CountingInv, OnceInv
  <2>4. \A u \in Tests : Settled(u)' = Settled(u)
    BY <1>1 DEF Settled
  <2> QED BY <1>1, <2>1, <2>2, <2>3, <2>4 DEF OnceInv, CountingInv
<1>7. SettledInv'
  <2> SUFFICES ASSUME NEW u \in Tests \ misled'
               PROVE  /\ \A s \in doneSeqs[u] : ~(Unresolved(<<u, s>>)' /\ testOf'[<<u, s>>] = u)
                      /\ \A s \in missedSeqs[u] : ~(<<u, s>> \in active' /\ testOf'[<<u, s>>] = u)
                      /\ doneSeqs[u] \cap missedSeqs[u] = {}
    BY <1>1 DEF SettledInv
  <2>0. u \in Tests \ misled
    BY <1>3
  <2>1. ASSUME NEW s \in Settled(u), <<u, s>> \in active', testOf'[<<u, s>>] = u
        PROVE  <<u, s>> \in active /\ testOf[<<u, s>>] = u
    <3>1. CASE <<u, s>> \in active
      BY <1>3, <2>1, <3>1
    <3>2. CASE <<u, s>> \notin active
      <4>1. <<u, s>> = i
        BY <1>3, <2>1, <3>2
      <4>2. echoes[i] = Copies
        BY <1>3, <2>1, <3>2, <4>1
      <4>3. echoes[i] < Copies
        BY <2>0, <4>1 DEF CountingInv, OnceInv
      <4> QED BY <1>2, <4>2, <4>3
    <3> QED BY <3>1, <3>2
  <2> QED BY <1>1, <2>0, <2>1 DEF CountingInv, SettledInv, Settled, Unresolved
<1>8. CountInv'
  BY <1>1, <1>3 DEF CountingInv, CountInv, Pending
<1>9. FullInv'
  BY <1>1 DEF CountingInv, FullInv
<1> QED BY <1>5, <1>6, <1>7, <1>8, <1>9 DEF CountingInv

LEMMA AckCounting ==
    ASSUME IInv, CountingInv, NEW i \in Ids, HandleAck(i)
    PROVE  CountingInv'
<1> USE DEF IInv
<1>0. UNCHANGED <<echoes, misled, missedSeqs, sender, counted, missed, completer, status>>
  BY DEF HandleAck, taskVars
<1>1. CASE ~Unresolved(i)
  <2>1. UNCHANGED <<active, testOf, acked, acking, doneSeqs>>
    BY <1>1 DEF HandleAck
  <2> QED BY <1>0, <2>1, CountingStands DEF Unresolved
<1>2. CASE Unresolved(i) /\ ~AckCounts(i)
  <2>1. Drop(i) /\ UNCHANGED <<acking, doneSeqs>>
    BY <1>2 DEF HandleAck
  <2> QED BY <1>0, <2>1, DropKeeps, CountingStands
<1>3. CASE Unresolved(i) /\ AckCounts(i)
  <2>1. PICK t, s : t = testOf[i] /\ s = i[2]
    OBVIOUS
  <2>2. /\ t \in Tests /\ s \in Seqs /\ i \in active /\ i \notin acked /\ s \notin doneSeqs[t]
        /\ i[1] \in Tests /\ i = <<i[1], s>>
        /\ t \notin misled => i = <<t, s>>
    BY <1>3, <2>1, IdFacts, NoTestAssumption DEF CountingInv, EntriesInv, Unresolved, AckCounts, TypeOK
  <2>3. /\ doneSeqs' = [doneSeqs EXCEPT ![t] = @ \cup {s}]
        /\ acked' = acked \cup {i}
        /\ acking' = acking \cup {[id |-> i, test |-> t]}
        /\ UNCHANGED <<active, testOf>>
    BY <1>3, <2>1, <2>2 DEF HandleAck
  <2>4. /\ doneSeqs'[t] = doneSeqs[t] \cup {s}
        /\ \A u \in Tests \ {t} : doneSeqs'[u] = doneSeqs[u]
    BY <2>2, <2>3 DEF TypeOK
  <2>5. EntriesInv'
    <3>1. ASSUME NEW a \in acking, a.test \notin misled
          PROVE  a.test = a.id[1] /\ a.id[2] \in doneSeqs'[a.test]
      <4>1. a.test \in Tests /\ a.test = a.id[1] /\ a.id[2] \in doneSeqs[a.test]
        BY <3>1 DEF TypeOK, CountingInv, EntriesInv
      <4> QED BY <2>4, <4>1
    <3>2. t \notin misled => t = i[1] /\ i[2] \in doneSeqs'[t]
      BY <2>1, <2>2, <2>4
    <3> QED BY <1>0, <2>3, <3>1, <3>2 DEF CountingInv, EntriesInv
  <2>6. OnceInv'
    <3>1. \A u \in Tests : Settled(u)' = (IF u = t THEN Settled(u) \cup {s} ELSE Settled(u))
      BY <1>0, <2>4 DEF Settled
    <3>2. t \notin misled => echoes[<<t, s>>] < Copies /\ s <= sender[t]
      BY <2>1, <2>2 DEF CountingInv, OnceInv
    <3> QED BY <1>0, <2>2, <2>3, <3>1, <3>2 DEF CountingInv, OnceInv
  <2>7. SettledInv'
    <3> SUFFICES ASSUME NEW u \in Tests \ misled
                 PROVE  /\ \A r \in doneSeqs'[u] : ~(Unresolved(<<u, r>>)' /\ testOf[<<u, r>>] = u)
                        /\ \A r \in missedSeqs[u] : ~(<<u, r>> \in active /\ testOf[<<u, r>>] = u)
                        /\ doneSeqs'[u] \cap missedSeqs[u] = {}
      BY <1>0, <2>3 DEF SettledInv
    <3>1. \A r \in doneSeqs[u] : ~(Unresolved(<<u, r>>)' /\ testOf[<<u, r>>] = u)
      BY <2>3 DEF CountingInv, SettledInv, Unresolved
    <3>2. ~Unresolved(i)'
      BY <2>3 DEF Unresolved
    <3>3. t \notin misled => i = <<t, s>> /\ s \notin missedSeqs[t]
      BY <2>1, <2>2 DEF CountingInv, SettledInv
    <3> QED BY <2>2, <2>4, <3>1, <3>2, <3>3 DEF CountingInv, SettledInv
  <2>8. CountInv'
    <3>1. ASSUME NEW u \in Tests \ misled, NEW r \in Seqs
          PROVE  r \in Pending(u)' <=> r \in Pending(u) \/ (u = t /\ r = s)
      <4>1. [id |-> <<u, r>>, test |-> u] = [id |-> i, test |-> t] <=> u = t /\ r = s
        BY <2>2
      <4> QED BY <2>3, <4>1 DEF Pending
    <3>2. ASSUME NEW u \in Tests \ misled PROVE (doneSeqs[u] \ Pending(u))' \subseteq Seqs /\ doneSeqs[u] \ Pending(u) \subseteq (doneSeqs[u] \ Pending(u))'
      BY <2>2, <2>4, <3>1, PingFacts
    <3>3. ASSUME NEW u \in Tests \ misled PROVE (doneSeqs[u] \ Pending(u))' = doneSeqs[u] \ Pending(u)
      BY <2>2, <2>4, <3>1, <3>2, PingFacts
    <3> QED BY <1>0, <3>3 DEF CountingInv, CountInv
  <2>9. FullInv'
    BY <1>0 DEF CountingInv, FullInv
  <2> QED BY <2>5, <2>6, <2>7, <2>8, <2>9 DEF CountingInv
<1> QED BY <1>1, <1>2, <1>3

LEMMA RecordedCounting ==
    ASSUME IInv, CountingInv, NEW a \in acking, RecordAck(a)
    PROVE  CountingInv'
<1> USE DEF IInv
<1>1. PICK t, s : t = a.test /\ s = a.id[2]
  OBVIOUS
<1>2. /\ t \in Tests /\ s \in Seqs /\ a.id \in Ids /\ a.test = t
      /\ t \notin misled => a = [id |-> <<t, s>>, test |-> t] /\ s \in doneSeqs[t]
  <2>1. /\ a \in [id : Ids, test : Tests]
        /\ a.test \notin misled => a.test = a.id[1] /\ a.id[2] \in doneSeqs[a.test]
    BY DEF TypeOK, CountingInv, EntriesInv
  <2>2. a.id \in Ids /\ a.test \in Tests
    BY <2>1
  <2>3. a.id = <<a.id[1], a.id[2]>> /\ a.id[2] \in Seqs
    BY <2>2, IdFacts
  <2> QED BY <1>1, <2>1, <2>2, <2>3
<1>3. /\ acking' = acking \ {a} /\ RecordSuccess(t) /\ Drop(a.id)
      /\ UNCHANGED <<status, missed, doneSeqs, missedSeqs, sender, echoes, misled>>
  BY <1>2 DEF RecordAck, netVars
<1>4. /\ active' \subseteq active
      /\ \A j \in active' : testOf'[j] = testOf[j]
      /\ \A j \in Ids : Unresolved(j)' => Unresolved(j)
  BY <1>2, <1>3, DropKeeps
<1>5. EntriesInv'
  BY <1>3, <1>4 DEF CountingInv, EntriesInv
<1>6. OnceInv'
  BY <1>3, <1>4 DEF CountingInv, OnceInv, Settled
<1>7. SettledInv'
  <2> SUFFICES ASSUME NEW u \in Tests \ misled
               PROVE  /\ \A r \in doneSeqs[u] : ~(Unresolved(<<u, r>>)' /\ testOf'[<<u, r>>] = u)
                      /\ \A r \in missedSeqs[u] : ~(<<u, r>> \in active' /\ testOf'[<<u, r>>] = u)
                      /\ doneSeqs[u] \cap missedSeqs[u] = {}
    BY <1>3 DEF SettledInv
  <2>1. \A j \in Ids : Unresolved(j)' => j \in active'
    BY DEF Unresolved
  <2> QED BY <1>4, <2>1, PingFacts DEF CountingInv, SettledInv
<1>8. \A u \in Tests : counted'[u] = counted[u] \/ (u = t /\ counted'[t] = counted[t] + 1)
  BY <1>2, <1>3 DEF RecordSuccess, TypeOK
<1>9. ASSUME NEW u \in Tests PROVE counted'[u] \in Nat /\ counted'[u] >= counted[u]
  BY <1>8, <1>9, PingFacts
<1>10. CountInv'
  <2> SUFFICES ASSUME NEW u \in Tests \ misled
               PROVE  counted'[u] <= Cardinality((doneSeqs[u] \ Pending(u))')
    BY <1>3 DEF CountingInv, CountInv
  <2> DEFINE S == doneSeqs[u] \ Pending(u)
  <2>1. ASSUME NEW r \in Seqs
        PROVE  r \in Pending(u)' <=> r \in Pending(u) /\ ~(u = t /\ r = s)
    <3>1. [id |-> <<u, r>>, test |-> u] = a <=> u = t /\ r = s
      <4>1. CASE u = t
        BY <1>2, <4>1
      <4>2. CASE u # t
        BY <1>2, <4>2
      <4> QED BY <4>1, <4>2
    <3> QED BY <1>3, <3>1 DEF Pending
  <2>2. S \in SUBSET Seqs /\ Cardinality(S) \in Nat /\ counted[u] <= Cardinality(S) /\ counted[u] \in Nat
    BY PingFacts, SeqSets DEF CountingInv, CountInv
  <2>3. CASE u = t
    <3>1. s \in Pending(t) /\ s \notin S /\ s \in doneSeqs[t]
      BY <1>2, <2>3 DEF Pending
    <3>2. (doneSeqs[u] \ Pending(u))' = S \cup {s}
      BY <1>2, <1>3, <2>1, <2>3, <3>1, PingFacts
    <3>3. Cardinality(S \cup {s}) = Cardinality(S) + 1
      BY <1>2, <2>2, <3>1, OneMore
    <3>4. counted'[u] <= counted[u] + 1 /\ counted'[u] \in Nat
      BY <1>8, <1>9, <2>2, <2>3
    <3> HIDE DEF S
    <3> QED BY <2>2, <3>2, <3>3, <3>4
  <2>4. CASE u # t
    <3>1. (doneSeqs[u] \ Pending(u))' = S
      BY <1>3, <2>1, <2>4, PingFacts
    <3> QED BY <1>8, <2>2, <2>4, <3>1
  <2> QED BY <2>3, <2>4
<1>11. FullInv'
  <2>1. \A u \in Tests : completer'[u] = completer[u] \/ (u = t /\ counted'[t] + missed[t] >= RepeatOf[t])
    <3>1. CASE t \in present /\ status[t] = "running"
      <4>1. PICK ok : ok = (IF counted[t] < RepeatOf[t] THEN counted[t] + 1 ELSE counted[t])
        OBVIOUS
      <4>2. counted' = [counted EXCEPT ![t] = ok] /\ TriggerCompletion(t, ok, missed[t])
        BY <1>3, <3>1, <4>1 DEF RecordSuccess
      <4>3. ok \in Nat /\ missed[t] \in Nat
        <5>1. counted[t] \in Nat /\ RepeatOf[t] \in Nat /\ missed[t] \in Nat
          BY <1>2, PingFacts
        <5> QED BY <4>1, <5>1
      <4>4. counted'[t] = ok
        BY <1>2, <4>2 DEF TypeOK
      <4>5. TypeOK /\ TriggerCompletion(t, ok, missed[t]) /\ t \in Tests
        BY <1>2, <4>2
      <4>6. \A u \in Tests : completer'[u] = completer[u] \/ (u = t /\ ok + missed[t] >= RepeatOf[t])
        <5> HIDE DEF IInv
        <5> QED BY <4>3, <4>5, TriggerFull
      <4> QED BY <4>4, <4>6
    <3>2. CASE ~(t \in present /\ status[t] = "running")
      BY <1>3, <3>2 DEF RecordSuccess
    <3> QED BY <3>1, <3>2
  <2> SUFFICES ASSUME NEW u \in Tests, completer'[u] # "none" \/ status[u] \in {"completing", "completed"}
               PROVE  counted'[u] + missed[u] >= RepeatOf[u]
    BY <1>3 DEF FullInv
  <2>2. counted[u] + missed[u] >= RepeatOf[u] \/ counted'[u] + missed[u] >= RepeatOf[u]
    BY <2>1 DEF CountingInv, FullInv
  <2> QED BY <1>9, <2>2, PingFacts
<1> QED BY <1>5, <1>6, <1>7, <1>10, <1>11 DEF CountingInv

LEMMA TimeoutCounting ==
    ASSUME IInv, CountingInv, NEW i \in Ids, PingTimeout(i)
    PROVE  CountingInv'
<1> USE DEF IInv
<1>0. UNCHANGED <<status, counted, doneSeqs, sender, acking, echoes, misled>>
  BY DEF PingTimeout, netVars
<1>1. CASE UNCHANGED <<missed, missedSeqs, completing, completer>>
  <2>1. UNCHANGED <<active, testOf, acked>> \/ Drop(i)
    BY DEF PingTimeout
  <2>2. CASE UNCHANGED <<active, testOf, acked>>
    BY <1>0, <1>1, <2>2, CountingStands DEF Unresolved
  <2>3. CASE Drop(i)
    BY <1>0, <1>1, <2>3, DropKeeps, CountingStands
  <2> QED BY <2>1, <2>2, <2>3
<1>2. CASE Unresolved(i) /\ testOf[i] \in present /\ status[testOf[i]] = "running" /\ testOf[i] # NoTest
  <2>1. PICK t, s : t = testOf[i] /\ s = i[2]
    OBVIOUS
  <2>2. /\ t \in Tests /\ s \in Seqs /\ i \in active
        /\ t \notin misled => i = <<t, s>>
    BY <1>2, <2>1, IdFacts, NoTestAssumption DEF CountingInv, EntriesInv, Unresolved, TypeOK
  <2>3. PICK ko : ko = (IF missed[t] < RepeatOf[t] THEN missed[t] + 1 ELSE missed[t])
    OBVIOUS
  <2>4. /\ Drop(i)
        /\ missed' = [missed EXCEPT ![t] = ko]
        /\ missedSeqs' = [missedSeqs EXCEPT ![t] = @ \cup {s}]
        /\ TriggerCompletion(t, counted[t], ko)
    BY <1>2, <2>1, <2>2, <2>3 DEF PingTimeout, RecordTimeout
  <2>5. /\ missedSeqs'[t] = missedSeqs[t] \cup {s} /\ missed'[t] = ko
        /\ \A u \in Tests \ {t} : missedSeqs'[u] = missedSeqs[u] /\ missed'[u] = missed[u]
    BY <2>2, <2>4 DEF TypeOK
  <2>6. ko \in Nat /\ missed[t] \in Nat /\ missed[t] <= ko /\ ko <= missed[t] + 1 /\ counted[t] \in Nat
    BY <2>2, <2>3, PingFacts
  <2>7. /\ active' \subseteq active /\ i \notin active'
        /\ \A j \in active' : testOf'[j] = testOf[j]
        /\ \A j \in Ids : Unresolved(j)' => Unresolved(j)
    BY <2>4, DropKeeps
  <2>8. t \notin misled => s \notin doneSeqs[t] /\ s \notin missedSeqs[t]
    BY <1>2, <2>1, <2>2 DEF CountingInv, SettledInv
  <2>9. EntriesInv'
    BY <1>0, <2>7 DEF CountingInv, EntriesInv
  <2>10. OnceInv'
    <3>1. \A u \in Tests : Settled(u)' = (IF u = t THEN Settled(u) \cup {s} ELSE Settled(u))
      BY <1>0, <2>5 DEF Settled
    <3>2. t \notin misled => echoes[<<t, s>>] < Copies /\ s <= sender[t]
      BY <2>1, <2>2 DEF CountingInv, OnceInv
    <3> QED BY <1>0, <2>2, <2>7, <3>1, <3>2 DEF CountingInv, OnceInv
  <2>11. SettledInv'
    <3> SUFFICES ASSUME NEW u \in Tests \ misled
                 PROVE  /\ \A r \in doneSeqs[u] : ~(Unresolved(<<u, r>>)' /\ testOf'[<<u, r>>] = u)
                        /\ \A r \in missedSeqs'[u] : ~(<<u, r>> \in active' /\ testOf'[<<u, r>>] = u)
                        /\ doneSeqs[u] \cap missedSeqs'[u] = {}
      BY <1>0 DEF SettledInv
    <3>1. \A r \in doneSeqs[u] : ~(Unresolved(<<u, r>>)' /\ testOf'[<<u, r>>] = u)
      <4>1. \A j \in Ids : Unresolved(j)' => j \in active'
        BY DEF Unresolved
      <4> QED BY <2>7, <4>1, PingFacts DEF CountingInv, SettledInv
    <3> QED BY <2>2, <2>5, <2>7, <2>8, <3>1 DEF CountingInv, SettledInv
  <2>12. CountInv'
    <3>1. ASSUME NEW u \in Tests \ misled PROVE missed'[u] <= Cardinality(missedSeqs'[u])
      <4>1. missedSeqs[u] \in SUBSET Seqs /\ Cardinality(missedSeqs[u]) \in Nat /\ missed[u] <= Cardinality(missedSeqs[u])
        BY PingFacts, SeqSets DEF CountingInv, CountInv
      <4>2. CASE u = t
        <5>1. Cardinality(missedSeqs[t] \cup {s}) = Cardinality(missedSeqs[t]) + 1
          BY <2>2, <2>8, <4>1, <4>2, OneMore
        <5>2. /\ missed'[u] <= missed[u] + 1 /\ missed'[u] \in Nat /\ missed[u] \in Nat
              /\ missedSeqs'[u] = missedSeqs[u] \cup {s}
          BY <2>5, <2>6, <4>2
        <5> QED BY <4>1, <4>2, <5>1, <5>2
      <4>3. CASE u # t
        BY <2>5, <4>1, <4>3
      <4> QED BY <4>2, <4>3
    <3> QED BY <1>0, <3>1 DEF CountingInv, CountInv, Pending
  <2>13. FullInv'
    <3>1. \A u \in Tests : completer'[u] = completer[u] \/ (u = t /\ counted[t] + ko >= RepeatOf[t])
      BY <2>2, <2>4, <2>6, TriggerFull
    <3> SUFFICES ASSUME NEW u \in Tests, completer'[u] # "none" \/ status[u] \in {"completing", "completed"}
                 PROVE  counted[u] + missed'[u] >= RepeatOf[u]
      BY <1>0 DEF FullInv
    <3>2. counted[u] + missed[u] >= RepeatOf[u] \/ (u = t /\ counted[t] + ko >= RepeatOf[t])
      BY <3>1 DEF CountingInv, FullInv
    <3> QED BY <2>5, <2>6, <3>2, PingFacts
  <2> QED BY <2>9, <2>10, <2>11, <2>12, <2>13 DEF CountingInv
<1> QED
  BY <1>1, <1>2 DEF PingTimeout, RecordTimeout

LEMMA NextCounting == IInv /\ CountingInv /\ [Next]_vars => CountingInv'
<1> SUFFICES ASSUME IInv, CountingInv, [Next]_vars PROVE CountingInv'
  OBVIOUS
<1>0. TypeOK
  BY DEF IInv
<1> DEFINE Quiet == UNCHANGED <<active, testOf, acked, acking, echoes, misled, doneSeqs, missedSeqs,
                               sender, counted, missed>>
<1>1. ASSUME Quiet,
             \A t \in Tests : completer'[t] \in {completer[t], "none"},
             \A t \in Tests : status'[t] \in {"completing", "completed"} =>
                status[t] = status'[t] \/ completer[t] # "none"
      PROVE  CountingInv'
  BY <1>0, <1>1, CountingStands DEF Unresolved
<1>2. ASSUME NEW t \in Tests, StartPingTest(t) PROVE CountingInv'
  <2>1. Quiet /\ completer' = completer /\ status' = [status EXCEPT ![t] = "running"]
    BY <1>2 DEF StartPingTest, pingVars, netVars
  <2> QED BY <1>0, <1>1, <2>1 DEF TypeOK
<1>3. ASSUME NEW t \in Tests, StartMonitor(t) PROVE CountingInv'
  <2>1. Quiet /\ completer' = completer /\ status' = status
    BY <1>3 DEF StartMonitor, sessionVars, pingVars, netVars
  <2> QED BY <1>1, <2>1
<1>4. ASSUME NEW t \in Tests, CompleteTest(t) PROVE CountingInv'
  <2>1. Quiet /\ completer[t] = "queued"
    BY <1>4 DEF CompleteTest, pingVars, netVars
  <2>2. PICK c, x : /\ c \in {"summary", "none"} /\ completer' = [completer EXCEPT ![t] = c]
                    /\ x \in {status[t], "completing"} /\ status' = [status EXCEPT ![t] = x]
                    /\ x = "completing" \/ x = status[t]
    <3>1. status = [status EXCEPT ![t] = status[t]]
      BY <1>0 DEF TypeOK
    <3> QED BY <1>4, <3>1 DEF CompleteTest
  <2>3. EntriesInv' /\ OnceInv' /\ SettledInv' /\ CountInv'
    BY <2>1 DEF CountingInv, EntriesInv, OnceInv, SettledInv, CountInv, Settled, Unresolved, Pending
  <2>4. FullInv'
    BY <1>0, <2>1, <2>2 DEF CountingInv, FullInv, TypeOK
  <2> QED BY <2>3, <2>4 DEF CountingInv
<1>5. ASSUME NEW t \in Tests, CompleteTestEnds(t) PROVE CountingInv'
  <2>1. /\ Quiet /\ completer[t] = "summary"
        /\ completer' = [completer EXCEPT ![t] = "none"] /\ status' = [status EXCEPT ![t] = "completed"]
    BY <1>5 DEF CompleteTestEnds, pingVars, netVars
  <2> QED BY <1>0, <1>1, <2>1 DEF TypeOK
<1>6. ASSUME NEW t \in Tests, MonitorFires(t) PROVE CountingInv'
  <2>1. /\ Quiet /\ completer' = completer
        /\ status' = status \/ status' = [status EXCEPT ![t] = "timeout"]
    BY <1>6 DEF MonitorFires, pingVars, netVars
  <2> QED BY <1>0, <1>1, <2>1 DEF TypeOK
<1>7. ASSUME NEW t \in Tests, MonitorEnds(t) PROVE CountingInv'
  <2>1. Quiet /\ completer' = completer /\ status' = status
    BY <1>7 DEF MonitorEnds, pingVars, netVars
  <2> QED BY <1>1, <2>1
<1>8. CASE StopCancels
  <2>1. Quiet /\ completer' = [t \in Tests |-> "none"] /\ status' = status
    BY <1>8 DEF StopCancels, sessionVars, netVars
  <2> QED BY <1>1, <2>1
<1>9. CASE StopClears
  <2>1. /\ active' = {} /\ completer' = completer /\ status' = status
        /\ UNCHANGED <<acking, echoes, misled, doneSeqs, missedSeqs, sender, counted, missed>>
    BY <1>9 DEF StopClears, netVars
  <2> QED BY <1>0, <2>1, CountingStands DEF Unresolved
<1>10. CASE UNCHANGED vars
  <2>1. Quiet /\ completer' = completer /\ status' = status
    BY <1>10 DEF vars, sessionVars, taskVars, pingVars, netVars
  <2> QED BY <1>1, <2>1
<1> QED
  BY <1>2, <1>3, <1>4, <1>5, <1>6, <1>7, <1>8, <1>9, <1>10, SentCounting, EchoCounting, AckCounting,
     RecordedCounting, TimeoutCounting DEF Next

(* For any number of tests and probes, any targets, any number of copies   *)
(* of an echo or an ACK, at any time, and wherever shutdown strikes: of a  *)
(* test that took no echo but the first of its own probes no answered      *)
(* probe is also counted as lost, and the summary of a completed one       *)
(* speaks of every probe of it (_calculate_test_statistics).               *)
THEOREM SummaryStaysTrue == Spec => []SummaryIsTrue
<1>1. ASSUME IInv, CountingInv PROVE SummaryIsTrue
  <2>1. AnsweredNotLost
    BY <1>1 DEF CountingInv, SettledInv, AnsweredNotLost
  <2> SUFFICES ASSUME NEW t \in Tests \ misled, status[t] \in {"completing", "completed"}
               PROVE  /\ sender[t] = RepeatOf[t]
                      /\ counted[t] + missed[t] = RepeatOf[t]
                      /\ doneSeqs[t] \cup missedSeqs[t] = 1 .. RepeatOf[t]
    BY <2>1 DEF SummaryIsTrue, SummaryIsComplete
  <2> DEFINE D == doneSeqs[t]
             M == missedSeqs[t]
             P == D \ Pending(t)
  <2>2. /\ counted[t] \in Nat /\ missed[t] \in Nat /\ sender[t] \in Nat /\ RepeatOf[t] \in Nat
        /\ D \in SUBSET Seqs /\ M \in SUBSET Seqs /\ P \in SUBSET Seqs
    BY <1>1, PingFacts DEF IInv
  <2>3. /\ counted[t] <= Cardinality(P) /\ missed[t] <= Cardinality(M)
        /\ counted[t] + missed[t] >= RepeatOf[t] /\ sender[t] <= RepeatOf[t]
        /\ D \cap M = {}
        /\ \A s \in D \cup M : s <= sender[t]
    BY <1>1 DEF CountingInv, CountInv, FullInv, SettledInv, OnceInv, Settled
  <2>4. /\ IsFiniteSet(D) /\ IsFiniteSet(M) /\ Cardinality(D) \in Nat /\ Cardinality(M) \in Nat
        /\ Cardinality(P) \in Nat /\ Cardinality(P) <= Cardinality(D)
    <3>1. IsFiniteSet(D) /\ P \subseteq D
      BY <2>2, SeqSets
    <3> QED BY <2>2, <3>1, SeqSets, FS_Subset
  <2>5. Cardinality(D \cup M) = Cardinality(D) + Cardinality(M)
    <3>1. Cardinality(D \cup M) = Cardinality(D) + Cardinality(M) - Cardinality(D \cap M)
      BY <2>4, FS_Union
    <3>2. Cardinality(D \cap M) = 0
      BY <2>3, FS_EmptySet, Zenon
    <3> HIDE DEF D, M
    <3> QED BY <2>4, <3>1, <3>2
  <2>6. /\ D \cup M \subseteq 1 .. sender[t]
        /\ IsFiniteSet(1 .. sender[t]) /\ Cardinality(1 .. sender[t]) = sender[t]
    <3>1. \A s \in D \cup M : s \in 1 .. sender[t]
      BY <2>2, <2>3 DEF Seqs
    <3>2. IsFiniteSet(1 .. sender[t]) /\ Cardinality(1 .. sender[t]) = sender[t]
      <4>1. PICK n : n = sender[t]
        OBVIOUS
      <4>2. n \in Nat /\ 1 \in Int /\ n \in Int
        BY <2>2, <4>1
      <4>3. IsFiniteSet(1 .. n) /\ Cardinality(1 .. n) = IF 1 > n THEN 0 ELSE n - 1 + 1
        BY <4>2, FS_Interval, Zenon
      <4>4. Cardinality(1 .. n) = n
        BY <4>2, <4>3
      <4> QED BY <4>1, <4>3, <4>4, Zenon
    <3>3. D \cup M \subseteq 1 .. sender[t]
      BY <3>1, Zenon
    <3> QED BY <3>2, <3>3, Zenon
  <2>7. Cardinality(D \cup M) <= sender[t]
    BY <2>6, FS_Subset
  <2>8. sender[t] = RepeatOf[t] /\ counted[t] + missed[t] = RepeatOf[t] /\ Cardinality(D \cup M) = sender[t]
    BY <2>2, <2>3, <2>4, <2>5, <2>7
  <2>9. D \cup M = 1 .. sender[t]
    BY <2>6, <2>8, FS_Subset
  <2> QED BY <2>8, <2>9
<1> QED BY InitIInv, NextIInv, InitCounting, NextCounting, <1>1, PTL DEF Spec

-----------------------------------------------------------------------------
(* The BLE link.  A link that comes up without the client knowing leaves   *)
(* something behind that will tell it, and whatever tells it marks what it *)
(* heard as outdated when it was; whatever makes the client connected or   *)
(* empties the cache of a connected client leaves the reconciler armed.    *)

Places == Nodes \cup {None}
EventKinds == {"connected", "disconnected", "reconnecting", "exhausted", "registers"}
QueueEvents == {e \in [kind : EventKinds, node : Places] : e.kind = "registers" => e.node # None}
Services ==
    [link : Places, last : Places, retry : Places, attempt : Nat, gone : BOOLEAN, mac : Places,
     due : Places, queue : Seq(QueueEvents), regs : Places]
ClientFields == {"state", "node", "lost"}
TaskFields == {"todo", "node", "ans", "skip"}

(* What may be left of a command, and of a round of the reconciler. *)
UserTodos ==
    {<<>>,
     <<"ask", "reuse", "dial", "dialed", "ask", "arrived", "ask", "informed">>,
     <<"reuse", "dial", "dialed", "ask", "arrived", "ask", "informed">>,
     <<"dial", "dialed", "ask", "arrived", "ask", "informed">>,
     <<"dialed", "ask", "arrived", "ask", "informed">>,
     <<"ask", "arrived", "ask", "informed">>, <<"arrived", "ask", "informed">>,
     <<"ask", "informed">>, <<"informed">>,
     <<"engage", "dial", "dialed">>, <<"dial", "dialed">>, <<"dialed">>,
     <<"leave", "hangup", "left">>, <<"hangup", "left">>, <<"left">>,
     <<"abandon", "abandoned">>, <<"abandoned">>,
     <<"ask", "told">>, <<"told">>}
ReconcilerTodos == {<<>>, <<"judge">>, <<"ask", "judge">>}

ComingShape == "coming" \in DOMAIN agenda /\ agenda.coming \subseteq UserCommands \X Nodes
LinkShape ==
    /\ ComingShape
    /\ svc \in Services
    /\ DOMAIN client = ClientFields /\ DOMAIN sse = {"pc", "held"}
    /\ DOMAIN user = TaskFields /\ user.todo \in UserTodos /\ user.node \in Places
    /\ DOMAIN reconciler = TaskFields /\ reconciler.todo \in ReconcilerTodos

(* The client knows of a link that is up; or it will be told, by a new     *)
(* stream, by an event in the queue, or by the answer a command awaits.    *)
Told == svc.link # None => client.state = "connected" \/ "outdated" \in marks
StatusIn(q) == \E i \in 1 .. Len(q) : q[i].kind # "registers"
Awaiting == {"dial", "dialed", "hangup", "left"}
Awaits == Runs(user) /\ Head(user.todo) \in Awaiting
Known == Told \/ sse.pc # "listen" \/ StatusIn(svc.queue) \/ Awaits

LinkInv == LinkShape /\ MissingIsWorkedOn /\ Known

-----------------------------------------------------------------------------

LEMMA LinkInit == BLEInit => LinkInv
<1> SUFFICES ASSUME BLEInit PROVE LinkInv
  OBVIOUS
<1>1. agenda \in Agendas /\ sse = [pc |-> "off", held |-> None] /\ user = Idle
  BY DEF BLEInit
<1>2. PICK link \in {None} \cup Nodes, keeps \in BOOLEAN :
         /\ svc = [link |-> link, last |-> link, retry |-> None, attempt |-> 0,
                   gone |-> FALSE, mac |-> link, due |-> None, queue |-> <<>>,
                   regs |-> IF keeps THEN link ELSE None]
         /\ client = [state |-> IF link = None THEN "disconnected" ELSE "connected",
                      node |-> link, lost |-> FALSE]
         /\ reconciler = IF link = None THEN Reconcile ELSE Idle
         /\ marks = IF link = None THEN {} ELSE {"unwatched"}
  BY DEF BLEInit
<1>3. "coming" \in DOMAIN agenda /\ agenda.coming \subseteq UserCommands \X Nodes
  BY <1>1, BLEAssumption
<1>4. svc \in Services
  BY <1>2 DEF Services, Places
<1>5. DOMAIN client = ClientFields /\ DOMAIN sse = {"pc", "held"} /\ sse.pc # "listen"
  BY <1>1, <1>2 DEF ClientFields
<1>6. DOMAIN user = TaskFields /\ user.todo = <<>> /\ user.node \in Places
  BY <1>1 DEF Idle, TaskFields, Places
<1>7. /\ DOMAIN reconciler = TaskFields
      /\ reconciler.todo = IF link = None THEN <<"ask", "judge">> ELSE <<>>
  BY <1>2 DEF Idle, Reconcile, Program, TaskFields
<1>8. LinkShape
  BY <1>3, <1>4, <1>5, <1>6, <1>7 DEF LinkShape, ComingShape, UserTodos, ReconcilerTodos
<1>9. MissingIsWorkedOn /\ Known
  BY <1>2, <1>5 DEF MissingIsWorkedOn, Known
<1> QED
  BY <1>8, <1>9 DEF LinkInv

(* The steps of a command come in their order. *)
StepsOn(todo) ==
    /\ Tail(todo) \in UserTodos
    /\ Head(todo) \in {"reuse", "engage", "dial", "leave", "hangup"} =>
         Tail(todo) # <<>> /\ Head(Tail(todo)) \in Awaiting

LEMMA UserSteps ==
    ASSUME NEW todo \in UserTodos, todo # <<>>
    PROVE  StepsOn(todo)
<1>1. CASE todo = <<"ask", "reuse", "dial", "dialed", "ask", "arrived", "ask", "informed">>
  BY <1>1 DEF StepsOn, UserTodos, Awaiting
<1>2. CASE todo = <<"reuse", "dial", "dialed", "ask", "arrived", "ask", "informed">>
  BY <1>2 DEF StepsOn, UserTodos, Awaiting
<1>3. CASE todo = <<"dial", "dialed", "ask", "arrived", "ask", "informed">>
  BY <1>3 DEF StepsOn, UserTodos, Awaiting
<1>4. CASE todo = <<"dialed", "ask", "arrived", "ask", "informed">>
  BY <1>4 DEF StepsOn, UserTodos, Awaiting
<1>5. CASE todo = <<"ask", "arrived", "ask", "informed">>
  BY <1>5 DEF StepsOn, UserTodos, Awaiting
<1>6. CASE todo = <<"arrived", "ask", "informed">>
  BY <1>6 DEF StepsOn, UserTodos, Awaiting
<1>7. CASE todo = <<"ask", "informed">>
  BY <1>7 DEF StepsOn, UserTodos, Awaiting
<1>8. CASE todo = <<"informed">>
  BY <1>8 DEF StepsOn, UserTodos, Awaiting
<1>9. CASE todo = <<"engage", "dial", "dialed">>
  BY <1>9 DEF StepsOn, UserTodos, Awaiting
<1>10. CASE todo = <<"dial", "dialed">>
  BY <1>10 DEF StepsOn, UserTodos, Awaiting
<1>11. CASE todo = <<"dialed">>
  BY <1>11 DEF StepsOn, UserTodos, Awaiting
<1>12. CASE todo = <<"leave", "hangup", "left">>
  BY <1>12 DEF StepsOn, UserTodos, Awaiting
<1>13. CASE todo = <<"hangup", "left">>
  BY <1>13 DEF StepsOn, UserTodos, Awaiting
<1>14. CASE todo = <<"left">>
  BY <1>14 DEF StepsOn, UserTodos, Awaiting
<1>15. CASE todo = <<"abandon", "abandoned">>
  BY <1>15 DEF StepsOn, UserTodos, Awaiting
<1>16. CASE todo = <<"abandoned">>
  BY <1>16 DEF StepsOn, UserTodos, Awaiting
<1>17. CASE todo = <<"ask", "told">>
  BY <1>17 DEF StepsOn, UserTodos, Awaiting
<1>18. CASE todo = <<"told">>
  BY <1>18 DEF StepsOn, UserTodos, Awaiting
<1> QED
  BY <1>1, <1>2, <1>3, <1>4, <1>5, <1>6, <1>7, <1>8, <1>9, <1>10,
     <1>11, <1>12, <1>13, <1>14, <1>15, <1>16, <1>17, <1>18 DEF UserTodos

LEMMA ReconcilerSteps ==
    ASSUME NEW todo \in ReconcilerTodos, todo # <<>>
    PROVE  /\ Tail(todo) \in ReconcilerTodos
           /\ Head(todo) = "ask" => Tail(todo) # <<>>
<1>1. CASE todo = <<"judge">>
  BY <1>1 DEF ReconcilerTodos
<1>2. CASE todo = <<"ask", "judge">>
  BY <1>2 DEF ReconcilerTodos
<1> QED
  BY <1>1, <1>2 DEF ReconcilerTodos

LEMMA ArmedRuns ==
    ASSUME LinkShape
    PROVE  /\ DOMAIN Armed = TaskFields /\ Armed.todo \in ReconcilerTodos /\ Armed.todo # <<>>
           /\ DOMAIN Reconcile = TaskFields /\ Reconcile.todo \in ReconcilerTodos
           /\ Reconcile.todo # <<>>
           /\ DOMAIN Idle = TaskFields /\ Idle.todo = <<>> /\ Idle.node = None
BY DEF LinkShape, Armed, Reconcile, Program, Idle, Runs, TaskFields, ReconcilerTodos

LEMMA SpendKeeps ==
    ASSUME ComingShape, NEW what, what # "coming", Spend(what)
    PROVE  ComingShape'
BY DEF ComingShape, Spend

LEMMA AppendKeeps ==
    ASSUME NEW q \in Seq(QueueEvents), NEW e \in QueueEvents
    PROVE  /\ Append(q, e) \in Seq(QueueEvents)
           /\ StatusIn(q) \/ e.kind # "registers" => StatusIn(Append(q, e))
<1>1. StatusIn(q) => StatusIn(Append(q, e))
  BY DEF StatusIn
<1>2. e.kind # "registers" => StatusIn(Append(q, e))
  <2>1. Len(q) + 1 \in 1 .. Len(Append(q, e)) /\ Append(q, e)[Len(q) + 1] = e
    OBVIOUS
  <2> QED
    BY <2>1 DEF StatusIn
<1> QED
  BY <1>1, <1>2

(* What the service does by itself: a link that comes up is announced.     *)
LEMMA ServiceKeeps ==
    ASSUME LinkInv, ComingShape', svc' \in Services,
           UNCHANGED <<client, sse, cached, bleTasks, marks>>,
           \/ svc'.link = None
           \/ svc'.link = svc.link /\ (StatusIn(svc.queue) => StatusIn(svc'.queue))
           \/ StatusIn(svc'.queue)
    PROVE  LinkInv'
<1>1. LinkShape'
  BY DEF LinkInv, LinkShape, bleTasks
<1>2. MissingIsWorkedOn'
  BY DEF LinkInv, MissingIsWorkedOn, Runs, bleTasks
<1>3. Known'
  BY DEF LinkInv, Known, Told, Awaits, Runs, bleTasks
<1> QED
  BY <1>1, <1>2, <1>3 DEF LinkInv

LEMMA LinkDropsKeeps == ASSUME LinkInv, LinkDrops PROVE LinkInv'
<1>1. ComingShape' /\ svc \in Services
  BY SpendKeeps DEF LinkInv, LinkShape, LinkDrops
<1>2. /\ Event("disconnected", None) \in QueueEvents
      /\ Event("reconnecting", svc.last) \in QueueEvents
  BY <1>1 DEF Event, QueueEvents, EventKinds, Services, Places
<1>3. svc'.queue \in Seq(QueueEvents)
  <2>1. svc.queue \in Seq(QueueEvents)
    BY <1>1 DEF Services
  <2>2. <<Event("disconnected", None), Event("reconnecting", svc.last)>> \in Seq(QueueEvents)
    BY <1>2
  <2> QED
    BY <1>1, <1>2, <2>1, <2>2 DEF LinkDrops, Services
<1>4. svc' \in Services /\ svc'.link = None
  BY <1>1, <1>3 DEF LinkDrops, Services, Places
<1> QED
  BY <1>1, <1>4, ServiceKeeps DEF LinkDrops

LEMMA LinkedType ==
    ASSUME svc \in Services, NEW n \in Places
    PROVE  /\ Linked(n) \in Services /\ Linked(n).queue = svc.queue
           /\ Noted(n) \in Places
<1>1. Noted(n) \in Places
  BY DEF Services, Noted, Places
<1>2. Linked(n) = [link |-> n, last |-> n, retry |-> None, attempt |-> svc.attempt, gone |-> FALSE,
                   mac |-> n, due |-> n, queue |-> svc.queue, regs |-> Noted(n)]
  <2>1. DOMAIN svc = {"link", "last", "retry", "attempt", "gone", "mac", "due", "queue", "regs"}
    BY DEF Services
  <2>2. /\ DOMAIN Linked(n) = DOMAIN svc
        /\ Linked(n).link = n /\ Linked(n).last = n /\ Linked(n).retry = None
        /\ Linked(n).attempt = svc.attempt /\ Linked(n).gone = FALSE /\ Linked(n).mac = n
        /\ Linked(n).due = n /\ Linked(n).queue = svc.queue /\ Linked(n).regs = Noted(n)
    BY <2>1 DEF Linked
  <2>3. Linked(n) = [field \in DOMAIN svc |-> Linked(n)[field]]
    BY DEF Linked
  <2> QED
    BY <2>1, <2>2, <2>3
<1>3. svc.queue \in Seq(QueueEvents) /\ svc.attempt \in Nat /\ None \in Places
  BY DEF Services, Places
<1>4. ASSUME NEW regs \in Places, NEW queue \in Seq(QueueEvents), NEW attempt \in Nat
      PROVE  [link |-> n, last |-> n, retry |-> None, attempt |-> attempt, gone |-> FALSE,
              mac |-> n, due |-> n, queue |-> queue, regs |-> regs] \in Services
  BY <1>3 DEF Services
<1> QED
  BY <1>1, <1>2, <1>3, <1>4

LEMMA ReconnectedKeeps == ASSUME LinkInv, Reconnected PROVE LinkInv'
<1>1. svc \in Services /\ svc.retry \in Places /\ ComingShape /\ UNCHANGED agenda
  BY DEF LinkInv, LinkShape, Reconnected, Services
<1>2. Event("connected", svc.retry) \in QueueEvents /\ Event("connected", svc.retry).kind # "registers"
  BY <1>1 DEF Event, QueueEvents, EventKinds
<1>3. Linked(svc.retry) \in Services /\ Linked(svc.retry).queue = svc.queue
  BY <1>1, LinkedType
<1>4. svc'.queue = Append(svc.queue, Event("connected", svc.retry))
  BY <1>3 DEF Reconnected, Services
<1>5. svc.queue \in Seq(QueueEvents)
  BY <1>1 DEF Services
<1>6. svc'.queue \in Seq(QueueEvents) /\ StatusIn(svc'.queue)
  BY <1>2, <1>4, <1>5, AppendKeeps
<1>7. svc' \in Services
  BY <1>3, <1>6, <1>4 DEF Reconnected, Services
<1>8. ComingShape'
  BY <1>1 DEF ComingShape
<1> QED
  BY <1>6, <1>7, <1>8, ServiceKeeps DEF Reconnected

LEMMA AttemptFailsKeeps == ASSUME LinkInv, AttemptFails PROVE LinkInv'
<1>1. ComingShape' /\ svc \in Services /\ svc.queue \in Seq(QueueEvents) /\ svc.retry \in Places
  BY SpendKeeps DEF LinkInv, LinkShape, AttemptFails, Services
<1>2. PICK kind \in {"reconnecting", "exhausted"} :
         svc'.queue = Append(svc.queue, Event(kind, svc.retry))
  BY <1>1 DEF AttemptFails, Services
<1>3. Event(kind, svc.retry) \in QueueEvents /\ Event(kind, svc.retry).kind # "registers"
  BY <1>1 DEF Event, QueueEvents, EventKinds
<1>4. svc'.queue \in Seq(QueueEvents) /\ StatusIn(svc'.queue)
  BY <1>1, <1>2, <1>3, AppendKeeps
<1>5. svc' \in Services
  <2>1. CASE svc.attempt < MaxAttempts
    <3>1. svc' = [svc EXCEPT !.attempt = svc.attempt + 1, !.queue = svc'.queue]
      BY <1>1, <2>1 DEF AttemptFails, Services
    <3>2. svc.attempt + 1 \in Nat
      BY <1>1 DEF Services
    <3> HIDE <2>1
    <3> QED
      BY <1>1, <1>4, <3>1, <3>2 DEF Services
  <2>2. CASE ~(svc.attempt < MaxAttempts)
    <3>1. svc' = [svc EXCEPT !.retry = None, !.queue = svc'.queue]
      BY <1>1, <2>2 DEF AttemptFails, Services
    <3> QED
      BY <1>1, <1>4, <3>1 DEF Services, Places
  <2> QED
    BY <2>1, <2>2
<1> QED
  BY <1>1, <1>4, <1>5, ServiceKeeps DEF AttemptFails

LEMMA DeliverKeeps == ASSUME LinkInv, Deliver PROVE LinkInv'
<1>1. /\ ComingShape /\ UNCHANGED agenda /\ svc \in Services /\ svc.queue \in Seq(QueueEvents)
      /\ svc.due \in Places /\ svc.due # None
  BY DEF LinkInv, LinkShape, Deliver, Services
<1>2. Event("registers", svc.due) \in QueueEvents
  BY <1>1 DEF Event, QueueEvents, EventKinds
<1>3. svc'.queue = Queued(svc.queue, Event("registers", svc.due)) /\ svc'.link = svc.link
  BY <1>1 DEF Deliver, Services
<1>4. svc'.queue \in Seq(QueueEvents) /\ (StatusIn(svc.queue) => StatusIn(svc'.queue))
  BY <1>1, <1>2, <1>3, AppendKeeps DEF Queued
<1>5. svc' \in Services
  BY <1>1, <1>4 DEF Deliver, Services, Places
<1>6. ComingShape'
  BY <1>1 DEF ComingShape
<1> QED
  BY <1>3, <1>4, <1>5, <1>6, ServiceKeeps DEF Deliver

LEMMA LoseAnswerKeeps == ASSUME LinkInv, LoseAnswer PROVE LinkInv'
<1>1. ComingShape' /\ svc \in Services
  BY SpendKeeps DEF LinkInv, LinkShape, LoseAnswer
<1>2. svc' \in Services /\ svc'.link = svc.link /\ svc'.queue = svc.queue
  BY <1>1 DEF LoseAnswer, Services, Places
<1> QED
  BY <1>1, <1>2, ServiceKeeps DEF LoseAnswer

(* The client: what an answer or an event tells it.                        *)

LEMMA AdoptTells ==
    ASSUME LinkShape, NEW ans, NEW armed \in BOOLEAN, Adopt(ans, armed), UNCHANGED svc
    PROVE  /\ client' = Refreshed(ans) /\ DOMAIN client' = ClientFields
           /\ Told \/ ans.kind # "lost" => Told'
           /\ ~armed /\ client'.state = "connected" =>
                \/ "unwatched" \in marks'
                \/ client.state = "connected" /\ "unwatched" \notin marks
<1>1. client' = Refreshed(ans) /\ DOMAIN client = ClientFields
  BY DEF Adopt, LinkShape, ClientFields
<1>2. DOMAIN client' = ClientFields
  BY <1>1 DEF Refreshed, ClientFields
<1>3. CASE ans.kind = "lost"
  <2>1. client' = client
    BY <1>1, <1>3 DEF Refreshed
  <2>2. marks' \in {marks, marks \ {"unwatched"}} /\ (~armed => marks' = marks)
    BY <1>3, <2>1, <1>1 DEF Adopt
  <2> QED
    BY <1>1, <1>2, <1>3, <2>1, <2>2 DEF Told
<1>4. CASE ans.kind # "lost"
  <2>2. ans # Reported => "outdated" \in marks'
    BY <1>4 DEF Adopt, Heard
  <2>3. ans = Reported /\ svc.link # None => client'.state = "connected"
    BY <1>1 DEF Reported, Refreshed, Event, LinkShape
  <2>4. Told'
    BY <2>2, <2>3 DEF Told
  <2>5. ~armed /\ client'.state = "connected" =>
                \/ "unwatched" \in marks'
                \/ client.state = "connected" /\ "unwatched" \notin marks
    BY <1>1, <1>4 DEF Adopt, Heard
  <2> QED
    BY <1>1, <1>2, <2>4, <2>5
<1> QED
  BY <1>3, <1>4

LEMMA StatusTells ==
    ASSUME LinkShape, MissingIsWorkedOn, NEW e, HandleStatus(e), svc'.link = svc.link
    PROVE  /\ DOMAIN client' = ClientFields
           /\ DOMAIN reconciler' = TaskFields /\ reconciler'.todo \in ReconcilerTodos
           /\ MissingIsWorkedOn' /\ Told'
<1> DEFINE up == e.kind = "connected" /\ client.state # "connected"
<1>1. /\ DOMAIN client = ClientFields
      /\ DOMAIN reconciler = TaskFields /\ reconciler.todo \in ReconcilerTodos
      /\ DOMAIN Armed = TaskFields /\ Armed.todo \in ReconcilerTodos /\ Armed.todo # <<>>
  BY ArmedRuns DEF LinkShape, ClientFields
<1>2. svc.link # None => Reported.kind = "connected"
  BY DEF Reported, Event
<1>3. svc.link # None /\ e.kind # "connected" => "outdated" \in marks'
  BY <1>2 DEF HandleStatus, Heard
<1>4. ~up => ("unwatched" \in marks => "unwatched" \in marks')
  BY DEF HandleStatus, Heard
<1>5. CASE /\ \/ client' = [client EXCEPT !.state = "connecting"]
              \/ client' = [client EXCEPT !.state = "error"]
           /\ UNCHANGED reconciler /\ e.kind # "connected"
  BY <1>1, <1>3, <1>5 DEF MissingIsWorkedOn, Told, ClientFields
<1>6. CASE /\ client' = [client EXCEPT !.state = "disconnected"]
           /\ UNCHANGED reconciler /\ e.kind # "connected"
  BY <1>1, <1>3, <1>6 DEF MissingIsWorkedOn, Told, ClientFields
<1>7. CASE /\ client' = [client EXCEPT !.state = "connected", !.node = e.node]
           /\ reconciler' = Armed
  BY <1>1, <1>7 DEF MissingIsWorkedOn, Told, Runs, ClientFields
<1>8. CASE e.kind = "connected" /\ ~up /\ UNCHANGED <<client, cached, reconciler>>
  BY <1>1, <1>4, <1>8 DEF MissingIsWorkedOn, Told, Runs
<1> QED
  BY <1>1, <1>5, <1>6, <1>7, <1>8 DEF HandleStatus, Cleared, ClientFields

LEMMA AttachKeeps == ASSUME LinkInv, Attach PROVE LinkInv'
<1>1. /\ DOMAIN client' = ClientFields /\ client'.state = client.state
      /\ sse' = [pc |-> "replay", held |-> sse'.held]
  BY DEF LinkInv, LinkShape, Attach, ClientFields
<1>2. LinkShape'
  BY <1>1 DEF LinkInv, LinkShape, ComingShape, Attach
<1>3. MissingIsWorkedOn' /\ Known'
  BY <1>1 DEF LinkInv, MissingIsWorkedOn, Known, Attach, Runs
<1> QED
  BY <1>2, <1>3 DEF LinkInv

LEMMA ReplayKeeps == ASSUME LinkInv, Replay PROVE LinkInv'
<1>1. ComingShape'
  BY SpendKeeps DEF LinkInv, LinkShape, ComingShape, Replay
<1>2. DOMAIN sse' = {"pc", "held"} /\ sse'.pc = "greeting"
  BY DEF LinkInv, LinkShape, Replay
<1>3. LinkShape'
  BY <1>1, <1>2 DEF LinkInv, LinkShape, Replay, bleTasks
<1>4. cached' = None => cached = None
  BY DEF Replay
<1>5. MissingIsWorkedOn' /\ Known'
  BY <1>2, <1>4 DEF LinkInv, MissingIsWorkedOn, Known, Replay, Runs, bleTasks
<1> QED
  BY <1>3, <1>5 DEF LinkInv

LEMMA GreetKeeps == ASSUME LinkInv, Greet PROVE LinkInv'
<1>1. /\ DOMAIN client' = ClientFields
      /\ DOMAIN reconciler' = TaskFields /\ reconciler'.todo \in ReconcilerTodos
      /\ MissingIsWorkedOn' /\ Told'
  BY StatusTells DEF LinkInv, Greet
<1>2. LinkShape'
  BY <1>1 DEF LinkInv, LinkShape, ComingShape, Greet
<1> QED
  BY <1>1, <1>2 DEF LinkInv, Known

LEMMA TailKeeps ==
    ASSUME NEW q \in Seq(QueueEvents), q # <<>>
    PROVE  /\ Head(q) \in QueueEvents /\ Tail(q) \in Seq(QueueEvents)
           /\ Head(q).kind = "registers" /\ StatusIn(q) => StatusIn(Tail(q))
<1>1. Head(q) \in QueueEvents /\ Tail(q) \in Seq(QueueEvents) /\ Head(q) = q[1]
  OBVIOUS
<1>2. ASSUME Head(q).kind = "registers", NEW i \in 1 .. Len(q), q[i].kind # "registers"
      PROVE  StatusIn(Tail(q))
  <2>1. i # 1
    BY <1>1, <1>2
  <2>2. i - 1 \in 1 .. Len(Tail(q)) /\ Tail(q)[i - 1] = q[i]
    BY <2>1
  <2> QED
    BY <1>2, <2>2 DEF StatusIn
<1> QED
  BY <1>1, <1>2 DEF StatusIn

LEMMA ListenKeeps == ASSUME LinkInv, Listen PROVE LinkInv'
<1> DEFINE e == Head(svc.queue)
<1>1. svc \in Services /\ svc.queue \in Seq(QueueEvents) /\ svc.queue # <<>>
  BY DEF LinkInv, LinkShape, Listen, Services
<1>2. svc'.queue = Tail(svc.queue) /\ svc'.link = svc.link
  BY <1>1 DEF Listen, Services
<1>3. /\ e \in QueueEvents /\ svc'.queue \in Seq(QueueEvents)
      /\ e.kind = "registers" /\ StatusIn(svc.queue) => StatusIn(svc'.queue)
  BY <1>1, <1>2, TailKeeps
<1>4. svc' \in Services
  BY <1>1, <1>2, <1>3 DEF Listen, Services
<1>5. /\ DOMAIN client' = ClientFields
      /\ DOMAIN reconciler' = TaskFields /\ reconciler'.todo \in ReconcilerTodos
      /\ MissingIsWorkedOn' /\ Known'
  <2>1. CASE e.kind = "registers"
    <3>1. /\ cached' = e.node /\ e.node # None /\ UNCHANGED <<client, marks, user, sse>>
          /\ reconciler' \in {reconciler, Armed}
      BY <1>3, <2>1 DEF Listen, HandleEvent, QueueEvents
    <3>2. MissingIsWorkedOn'
      BY <3>1 DEF MissingIsWorkedOn
    <3>3. Known'
      BY <1>2, <1>3, <2>1, <3>1 DEF LinkInv, Known, Told, Awaits, Runs
    <3>4. DOMAIN reconciler' = TaskFields /\ reconciler'.todo \in ReconcilerTodos
      BY <3>1, ArmedRuns DEF LinkInv, LinkShape
    <3> QED
      BY <3>1, <3>2, <3>3, <3>4 DEF LinkInv, LinkShape
  <2>2. CASE e.kind # "registers"
    <3>1. HandleStatus(e)
      BY <2>2 DEF Listen, HandleEvent
    <3> HIDE DEF e
    <3> QED
      BY <1>2, <3>1, StatusTells DEF LinkInv, Known
  <2> QED
    BY <2>1, <2>2
<1>6. LinkShape'
  BY <1>4, <1>5 DEF LinkInv, LinkShape, ComingShape, Listen
<1> QED
  BY <1>5, <1>6 DEF LinkInv

LEMMA BrokenFacts ==
    ASSUME Broken
    PROVE  DOMAIN sse' = {"pc", "held"} /\ sse'.pc # "listen"
BY DEF Broken

LEMMA BreakKeeps == ASSUME LinkInv, Break PROVE LinkInv'
<1>1. ComingShape' /\ svc \in Services /\ svc.queue \in Seq(QueueEvents)
  BY SpendKeeps DEF LinkInv, LinkShape, Break, Services
<1>2. PICK k \in 0 .. Len(svc.queue) :
         svc' = [svc EXCEPT !.queue = SubSeq(@, k + 1, Len(@))]
  BY DEF Break
<1>3. SubSeq(svc.queue, k + 1, Len(svc.queue)) \in Seq(QueueEvents)
  BY <1>1
<1>4. svc' \in Services
  BY <1>1, <1>2, <1>3 DEF Services
<1>5. DOMAIN sse' = {"pc", "held"} /\ sse'.pc # "listen"
  BY BrokenFacts DEF Break
<1>6. LinkShape'
  BY <1>1, <1>4, <1>5 DEF LinkInv, LinkShape, Break, bleTasks
<1>7. MissingIsWorkedOn' /\ Known'
  BY <1>5 DEF LinkInv, MissingIsWorkedOn, Known, Break, Runs, bleTasks
<1> QED
  BY <1>6, <1>7 DEF LinkInv

LEMMA RestartKeeps == ASSUME LinkInv, Restart PROVE LinkInv'
<1>1. ComingShape' /\ svc \in Services /\ svc.last \in Places
  BY SpendKeeps DEF LinkInv, LinkShape, Restart, Services
<1>2. Event("reconnecting", svc.last) \in QueueEvents
  BY <1>1 DEF Event, QueueEvents, EventKinds
<1>3. <<Event("reconnecting", svc.last)>> \in Seq(QueueEvents) /\ <<>> \in Seq(QueueEvents)
  BY <1>2
<1>4. svc'.queue \in Seq(QueueEvents)
  BY <1>1, <1>3 DEF Restart, Services
<1>5. svc' \in Services /\ svc'.link = None
  <2>1. PICK last \in Places, retry \in Places :
           svc' = [svc EXCEPT !.last = last, !.link = None, !.due = None, !.regs = None,
                              !.mac = None, !.gone = FALSE, !.attempt = 1, !.retry = retry,
                              !.queue = svc'.queue]
    BY <1>1 DEF Restart, Services, Places
  <2>2. svc' = [link |-> None, last |-> last, retry |-> retry, attempt |-> 1, gone |-> FALSE,
                mac |-> None, due |-> None, queue |-> svc'.queue, regs |-> None]
    BY <1>1, <2>1 DEF Services
  <2>3. ASSUME NEW queue \in Seq(QueueEvents)
        PROVE  [link |-> None, last |-> last, retry |-> retry, attempt |-> 1, gone |-> FALSE,
                mac |-> None, due |-> None, queue |-> queue, regs |-> None] \in Services
    BY DEF Services, Places
  <2> QED
    BY <1>4, <2>2, <2>3
<1>6. DOMAIN sse' = {"pc", "held"}
  BY BrokenFacts DEF LinkInv, LinkShape, Restart
<1>7. LinkShape'
  BY <1>1, <1>5, <1>6 DEF LinkInv, LinkShape, Restart, bleTasks
<1>8. MissingIsWorkedOn' /\ Known'
  BY <1>5 DEF LinkInv, MissingIsWorkedOn, Known, Told, Restart, Runs, bleTasks
<1> QED
  BY <1>7, <1>8 DEF LinkInv

LEMMA GraceOverKeeps == ASSUME LinkInv, GraceOver PROVE LinkInv'
<1>1. sse'.pc = "off" /\ DOMAIN sse' = {"pc", "held"}
  BY DEF GraceOver
<1>2. /\ DOMAIN client' = ClientFields /\ UNCHANGED <<svc, user, reconciler, agenda>>
      /\ client'.state = "connected" => UNCHANGED <<client, cached, marks>>
  BY DEF LinkInv, LinkShape, GraceOver, Cleared, ClientFields
<1>3. LinkShape'
  BY <1>1, <1>2 DEF LinkInv, LinkShape, ComingShape
<1>4. MissingIsWorkedOn' /\ Known'
  BY <1>1, <1>2 DEF LinkInv, MissingIsWorkedOn, Known, Runs
<1> QED
  BY <1>3, <1>4 DEF LinkInv

(* The requests: what the awaits of the tasks do to the service.           *)
LEMMA RequestFacts ==
    ASSUME ComingShape, NEW task, DOMAIN task = TaskFields, NEW task_, NEW outcomes,
           Request(task, task_, outcomes)
    PROVE  /\ ComingShape'
           /\ DOMAIN task_ = TaskFields /\ task_.todo = Tail(task.todo) /\ task_.node = task.node
           /\ svc' = svc \/ \E o \in outcomes : svc' = o.svc
<1>1. ComingShape'
  BY SpendKeeps DEF Request, ComingShape
<1>2. PICK ans : task_ = [Step(task) EXCEPT !.ans = ans]
  BY DEF Request
<1>3. DOMAIN task_ = TaskFields /\ task_.todo = Tail(task.todo) /\ task_.node = task.node
  BY <1>2 DEF Step, TaskFields
<1> QED
  BY <1>1, <1>3 DEF Request

LEMMA UserRequests ==
    ASSUME LinkInv, UNCHANGED <<hydration, reconciler, client, sse, cached, marks>>,
           \/ At(user, "ask") /\ Request(user, user', Asked)
           \/ At(user, "dial") /\ Request(user, user', Dialed(user.node, user.skip))
           \/ At(user, "hangup") /\ Request(user, user', HungUp)
           \/ At(user, "abandon") /\ Request(user, user', Abandoned)
    PROVE  LinkInv'
<1>1. /\ ComingShape /\ svc \in Services /\ svc.queue \in Seq(QueueEvents)
      /\ DOMAIN user = TaskFields /\ user.todo \in UserTodos /\ user.todo # <<>>
      /\ user.node \in Places
  BY DEF LinkInv, LinkShape, Services, At, Runs
<1>2. StepsOn(user.todo)
  BY <1>1, UserSteps
<1>3. /\ ComingShape' /\ DOMAIN user' = TaskFields /\ user'.todo = Tail(user.todo)
      /\ user'.node = user.node
  BY <1>1, RequestFacts
<1>4. svc' \in Services => LinkShape'
  BY <1>1, <1>2, <1>3 DEF LinkInv, LinkShape, StepsOn
<1>5. MissingIsWorkedOn'
  BY DEF LinkInv, MissingIsWorkedOn, Runs
<1>6. CASE At(user, "ask") /\ Request(user, user', Asked)
  <2>1. svc' = svc
    BY <1>1, <1>6, RequestFacts DEF Asked
  <2> QED
    BY <1>1, <1>4, <1>5, <1>6, <2>1 DEF LinkInv, Known, Told, Awaits, Awaiting, At
<1>7. CASE At(user, "dial") /\ Request(user, user', Dialed(user.node, user.skip))
  <2>1. svc' = svc \/ \E o \in Dialed(user.node, user.skip) : svc' = o.svc
    BY <1>1, <1>7, RequestFacts
  <2>2. \A o \in Dialed(user.node, user.skip) : o.svc \in Services
    <3>1. Linked(user.node) \in Services /\ Noted(user.node) \in Places
      BY <1>1, LinkedType
    <3>2. ASSUME NEW retry \in Places
          PROVE  [svc EXCEPT !.link = None, !.due = None, !.gone = FALSE, !.mac = user.node,
                             !.regs = Noted(user.node), !.retry = retry] \in Services
      BY <1>1, <3>1 DEF Services, Places
    <3>3. (IF user.skip THEN None ELSE svc.retry) \in Places
      BY <1>1 DEF Services, Places
    <3> SUFFICES ASSUME NEW o \in Dialed(user.node, user.skip) PROVE o.svc \in Services
      OBVIOUS
    <3>4. \/ o.svc = Linked(user.node)
          \/ o.svc = [svc EXCEPT !.link = None, !.due = None, !.gone = FALSE, !.mac = user.node,
                                 !.regs = Noted(user.node),
                                 !.retry = IF user.skip THEN None ELSE svc.retry]
      BY DEF Dialed
    <3> QED
      BY <3>1, <3>2, <3>3, <3>4
  <2>3. LinkShape'
    BY <1>1, <1>4, <2>1, <2>2
  <2>4. Awaits'
    BY <1>2, <1>3, <1>7 DEF StepsOn, Awaits, Runs, At
  <2> QED
    BY <1>5, <2>3, <2>4 DEF LinkInv, Known
<1>8. CASE At(user, "hangup") /\ Request(user, user', HungUp)
  <2>1. svc' = svc \/ svc' = [svc EXCEPT !.link = None, !.due = None, !.retry = None, !.gone = TRUE]
    BY <1>1, <1>8, RequestFacts DEF HungUp
  <2>2. svc' \in Services
    BY <1>1, <2>1 DEF Services, Places
  <2>3. Awaits'
    BY <1>2, <1>3, <1>8 DEF StepsOn, Awaits, Runs, At
  <2> QED
    BY <1>4, <1>5, <2>2, <2>3 DEF LinkInv, Known
<1>9. CASE At(user, "abandon") /\ Request(user, user', Abandoned)
  <2> DEFINE e == Event("disconnected", None)
  <2>1. \/ svc' = svc
        \/ svc' = [svc EXCEPT !.retry = None, !.gone = TRUE, !.queue = Append(@, e)]
    BY <1>1, <1>9, RequestFacts DEF Abandoned
  <2>2. e \in QueueEvents
    BY DEF Event, QueueEvents, EventKinds, Places
  <2>3. /\ Append(svc.queue, e) \in Seq(QueueEvents)
        /\ StatusIn(svc.queue) => StatusIn(Append(svc.queue, e))
    BY <1>1, <2>2, AppendKeeps
  <2> HIDE DEF e
  <2>4. svc' \in Services /\ svc'.link = svc.link /\ (StatusIn(svc.queue) => StatusIn(svc'.queue))
    BY <1>1, <2>1, <2>3 DEF Services, Places
  <2>5. Known'
    BY <1>1, <1>9, <2>4 DEF LinkInv, Known, Told, Awaits, Awaiting, At
  <2> QED
    BY <1>4, <1>5, <2>4, <2>5 DEF LinkInv
<1> QED
  BY <1>6, <1>7, <1>8, <1>9

LEMMA RouterRequests ==
    ASSUME LinkInv, UNCHANGED <<client, sse, cached, marks, user>>,
           \/ /\ UNCHANGED reconciler
              /\ \/ At(hydration, "ask") /\ Request(hydration, hydration', Asked)
                 \/ At(hydration, "query") /\ Request(hydration, hydration', Queried)
           \/ /\ UNCHANGED hydration
              /\ At(reconciler, "ask") /\ Request(reconciler, reconciler', Asked)
    PROVE  LinkInv'
<1>1. ComingShape /\ svc \in Services
  BY DEF LinkInv, LinkShape
<1>2. ComingShape'
  BY SpendKeeps DEF LinkInv, LinkShape, ComingShape, Request
<1>3. svc' \in Services /\ svc'.link = svc.link /\ svc'.queue = svc.queue
  <2>1. svc' \in {svc, [svc EXCEPT !.due = svc.link]}
    BY DEF Request, Asked, Queried
  <2> QED
    BY <1>1, <2>1 DEF Services
<1>4. /\ DOMAIN reconciler' = TaskFields /\ reconciler'.todo \in ReconcilerTodos
      /\ Runs(reconciler) => Runs(reconciler')
  <2>1. CASE UNCHANGED reconciler
    BY <2>1 DEF LinkInv, LinkShape, Runs
  <2>2. CASE At(reconciler, "ask") /\ Request(reconciler, reconciler', Asked)
    <3>1. DOMAIN reconciler' = TaskFields /\ reconciler'.todo = Tail(reconciler.todo)
      BY <1>1, <2>2, RequestFacts DEF LinkInv, LinkShape
    <3> QED
      BY <2>2, <3>1, ReconcilerSteps DEF LinkInv, LinkShape, At, Runs
  <2> QED
    BY <2>1, <2>2
<1>5. LinkShape'
  BY <1>2, <1>3, <1>4 DEF LinkInv, LinkShape
<1>6. MissingIsWorkedOn' /\ Known'
  BY <1>3, <1>4 DEF LinkInv, MissingIsWorkedOn, Known, Told, Awaits, Runs
<1> QED
  BY <1>5, <1>6 DEF LinkInv

LEMMA RequestsKeep == ASSUME LinkInv, Requests PROVE LinkInv'
BY UserRequests, RouterRequests DEF Requests

(* The steps that adopt an answer.                                         *)
UserShape == DOMAIN user = TaskFields /\ user.todo \in UserTodos /\ user.node \in Places
ReconcilerShape == DOMAIN reconciler = TaskFields /\ reconciler.todo \in ReconcilerTodos

LEMMA AdoptKeeps ==
    ASSUME LinkInv, NEW ans, NEW armed \in BOOLEAN, Adopt(ans, armed),
           UNCHANGED <<agenda, svc, sse>>, UserShape', ReconcilerShape',
           UNCHANGED user \/ ~Awaits
    PROVE  /\ LinkShape' /\ Known'
           /\ /\ ~armed /\ UNCHANGED reconciler
              /\ client'.state = "connected" => UNCHANGED cached
              => LinkInv'
<1>1. /\ DOMAIN client' = ClientFields
      /\ Told => Told'
      /\ ~armed /\ client'.state = "connected" =>
                \/ "unwatched" \in marks'
                \/ client.state = "connected" /\ "unwatched" \notin marks
  BY AdoptTells DEF LinkInv
<1>2. LinkShape'
  BY <1>1 DEF LinkInv, LinkShape, ComingShape, UserShape, ReconcilerShape
<1>3. Known'
  BY <1>1 DEF LinkInv, Known, Awaits, Runs
<1>4. ASSUME ~armed, UNCHANGED reconciler, client'.state = "connected" => UNCHANGED cached
      PROVE  MissingIsWorkedOn'
  BY <1>1, <1>4 DEF LinkInv, MissingIsWorkedOn, Runs
<1> QED
  BY <1>2, <1>3, <1>4 DEF LinkInv

LEMMA UserStep ==
    ASSUME LinkInv, NEW step, At(user, step)
    PROVE  /\ DOMAIN Step(user) = TaskFields /\ Step(user).todo \in UserTodos
           /\ Step(user).node \in Places
           /\ step \in {"reuse", "engage", "dial", "leave", "hangup"} =>
                Runs(Step(user)) /\ Head(Step(user).todo) \in Awaiting
           /\ step \notin Awaiting => ~Awaits
           /\ DOMAIN Idle = TaskFields /\ Idle.todo \in UserTodos /\ Idle.node \in Places
<1>1. /\ DOMAIN user = TaskFields /\ user.todo \in UserTodos /\ user.todo # <<>>
      /\ user.node \in Places /\ Head(user.todo) = step
  BY DEF LinkInv, LinkShape, At, Runs
<1>2. StepsOn(user.todo)
  BY <1>1, UserSteps
<1>3. /\ DOMAIN Step(user) = TaskFields /\ Step(user).todo = Tail(user.todo)
      /\ Step(user).node = user.node
  BY <1>1 DEF Step, TaskFields
<1>4. DOMAIN Idle = TaskFields /\ Idle.todo \in UserTodos /\ Idle.node \in Places
  BY ArmedRuns DEF LinkInv, UserTodos, Places
<1> QED
  BY <1>1, <1>2, <1>3, <1>4 DEF StepsOn, Runs, Awaits

LEMMA WeighKeeps == ASSUME LinkInv, Weigh PROVE LinkInv'
<1>1. UserShape' /\ ReconcilerShape'
  BY DEF LinkInv, LinkShape, UserShape, ReconcilerShape, Weigh
<1> QED
  BY <1>1, AdoptKeeps DEF Weigh

LEMMA FinishKeeps == ASSUME LinkInv, Finish PROVE LinkInv'
<1>1. UserShape' /\ ReconcilerShape'
  BY DEF LinkInv, LinkShape, UserShape, ReconcilerShape, Finish
<1> QED
  BY <1>1, AdoptKeeps DEF Finish

LEMMA GiveUpKeeps == ASSUME LinkInv, GiveUp PROVE LinkInv'
<1>1. ComingShape'
  BY SpendKeeps DEF LinkInv, LinkShape, GiveUp
<1> QED
  BY <1>1 DEF LinkInv, LinkShape, MissingIsWorkedOn, Known, Told, Awaits, Runs, GiveUp

LEMMA JudgeKeeps == ASSUME LinkInv, Judge PROVE LinkInv'
<1>1. /\ reconciler' \in {Reconcile, Idle}
      /\ client'.state = "connected" /\ cached = None => reconciler' = Reconcile
  BY DEF Judge
<1>2. ReconcilerShape' /\ (reconciler' = Reconcile => Runs(reconciler'))
  BY <1>1, ArmedRuns DEF LinkInv, ReconcilerShape, ReconcilerTodos, Runs
<1>3. UserShape'
  BY DEF LinkInv, LinkShape, UserShape, Judge
<1>4. LinkShape' /\ Known'
  BY <1>2, <1>3, AdoptKeeps DEF Judge
<1>5. MissingIsWorkedOn'
  BY <1>1, <1>2 DEF MissingIsWorkedOn, Judge
<1> QED
  BY <1>4, <1>5 DEF LinkInv

LEMMA TellKeeps ==
    ASSUME LinkInv, NEW always \in BOOLEAN, Tell(always), ~Awaits
    PROVE  LinkInv'
<1>1. client' = Refreshed(user.ans)
  BY DEF Tell, Adopt
<1>2. /\ reconciler' \in {Armed, reconciler}
      /\ client'.state = "connected" => reconciler' = Armed
  BY <1>1 DEF Tell
<1>3. ReconcilerShape' /\ (reconciler' = Armed => Runs(reconciler'))
  BY <1>2, ArmedRuns DEF LinkInv, LinkShape, ReconcilerShape, Runs
<1>4. UserShape'
  BY ArmedRuns DEF LinkInv, UserShape, UserTodos, Places, Tell
<1>5. LinkShape' /\ Known'
  BY <1>3, <1>4, AdoptKeeps DEF Tell
<1>6. MissingIsWorkedOn'
  BY <1>2, <1>3 DEF MissingIsWorkedOn
<1> QED
  BY <1>5, <1>6 DEF LinkInv

LEMMA InformKeeps == ASSUME LinkInv, Inform PROVE LinkInv'
<1>1. PICK step \in {"told", "informed"} : At(user, step)
  BY DEF Inform
<1>2. ~Awaits
  BY <1>1, UserStep DEF Awaiting
<1> QED
  BY <1>2, TellKeeps DEF Inform

LEMMA ArrivedKeeps == ASSUME LinkInv, Arrived PROVE LinkInv'
<1>1. ~Awaits /\ UserShape'
  BY UserStep DEF Arrived, UserShape, Awaiting
<1>2. ReconcilerShape'
  BY DEF LinkInv, LinkShape, ReconcilerShape, Arrived
<1> QED
  BY <1>1, <1>2, AdoptKeeps DEF Arrived

(* The steps of a command.                                                 *)
LEMMA BeginKeeps == ASSUME LinkInv, Begin PROVE LinkInv'
<1>1. PICK c \in agenda.coming :
        /\ agenda' = [agenda EXCEPT !.coming = @ \ {c}]
        /\ user' = [Program(Programs[c[1]]) EXCEPT !.node = c[2], !.skip = c[1] = "ensure"]
  BY DEF Begin
<1>2. c[1] \in UserCommands /\ c[2] \in Nodes /\ ComingShape'
  BY <1>1 DEF LinkInv, LinkShape, ComingShape
<1>3. Programs[c[1]] \in UserTodos
  BY <1>2 DEF UserCommands, Programs, UserTodos
<1>4. DOMAIN user' = TaskFields /\ user'.todo \in UserTodos /\ user'.node \in Places
  BY <1>1, <1>2, <1>3 DEF Program, Idle, TaskFields, Places
<1>5. LinkShape'
  BY <1>2, <1>4 DEF LinkInv, LinkShape, Begin
<1>6. MissingIsWorkedOn' /\ Known'
  BY DEF LinkInv, MissingIsWorkedOn, Known, Told, Awaits, Runs, Begin
<1> QED
  BY <1>5, <1>6 DEF LinkInv

(* A command that takes the client's word back awaits the service's next.  *)
LEMMA SetAside ==
    ASSUME LinkInv, UNCHANGED <<agenda, svc, sse, cached, reconciler>>,
           NEW step \in {"reuse", "engage", "leave"}, At(user, step), user' = Step(user),
           DOMAIN client' = ClientFields, client'.state # "connected"
    PROVE  LinkInv'
<1>1. UserShape' /\ Awaits'
  BY UserStep DEF UserShape, Awaits
<1> QED
  BY <1>1 DEF LinkInv, LinkShape, ComingShape, UserShape, MissingIsWorkedOn, Known

LEMMA ReuseKeeps == ASSUME LinkInv, Reuse PROVE LinkInv'
<1>1. ~Awaits /\ At(user, "reuse")
  BY UserStep DEF Reuse, Awaiting
<1>2. ReconcilerShape' /\ DOMAIN client = ClientFields
  BY DEF LinkInv, LinkShape, ReconcilerShape, Reuse
<1>3. ASSUME Adopt(user.ans, FALSE),
             NEW todo \in {<<"ask", "informed">>, <<"ask", "arrived", "ask", "informed">>},
             user' = [user EXCEPT !.todo = todo]
      PROVE  LinkInv'
  <2>1. UserShape'
    BY <1>3 DEF LinkInv, LinkShape, UserShape, UserTodos, TaskFields
  <2> QED
    BY <1>1, <1>2, <1>3, <2>1, AdoptKeeps DEF Reuse
<1>4. ASSUME user' = Step(user), client' = [Refreshed(user.ans) EXCEPT !.state = "connecting"]
      PROVE  LinkInv'
  <2>1. DOMAIN client' = ClientFields /\ client'.state = "connecting"
    BY <1>2, <1>4 DEF Refreshed, ClientFields
  <2> QED
    BY <1>1, <1>4, <2>1, SetAside DEF Reuse
<1> QED
  BY <1>3, <1>4 DEF Reuse

LEMMA EngageKeeps == ASSUME LinkInv, Engage PROVE LinkInv'
<1>1. DOMAIN client' = ClientFields /\ client'.state = "connecting"
  BY DEF LinkInv, LinkShape, Engage, ClientFields
<1> QED
  BY <1>1, SetAside DEF Engage

LEMMA LeaveKeeps == ASSUME LinkInv, Leave PROVE LinkInv'
<1>1. DOMAIN client' = ClientFields /\ client'.state = "disconnecting"
  BY DEF LinkInv, LinkShape, Leave, ClientFields
<1> QED
  BY <1>1, SetAside DEF Leave

LEMMA ConnectedKeeps == ASSUME LinkInv, Connected PROVE LinkInv'
<1>1. UserShape'
  BY UserStep DEF Connected, UserShape
<1>2. /\ DOMAIN client' = ClientFields
      /\ client'.state = "connected" => reconciler' = Armed
      /\ reconciler' \in {Armed, reconciler}
  BY DEF LinkInv, LinkShape, Connected, ClientFields
<1>3. ReconcilerShape' /\ (reconciler' = Armed => Runs(reconciler'))
  BY <1>2, ArmedRuns DEF LinkInv, LinkShape, ReconcilerShape, Runs
<1>4. Told'
  BY DEF LinkInv, LinkShape, Connected, Told, Heard, ClientFields
<1>5. LinkShape'
  BY <1>1, <1>2, <1>3 DEF LinkInv, LinkShape, ComingShape, UserShape, ReconcilerShape, Connected
<1>6. MissingIsWorkedOn' /\ Known'
  BY <1>2, <1>3, <1>4 DEF MissingIsWorkedOn, Known
<1> QED
  BY <1>5, <1>6 DEF LinkInv

LEMMA LeftKeeps == ASSUME LinkInv, Left PROVE LinkInv'
<1>1. UserShape'
  BY UserStep DEF Left, UserShape
<1>2. /\ DOMAIN client' = ClientFields
      /\ client'.state = "connected" => UNCHANGED <<client, cached>>
      /\ UNCHANGED reconciler
      /\ "unwatched" \in marks => "unwatched" \in marks'
  BY DEF LinkInv, LinkShape, Left, Cleared, Heard, ClientFields
<1>3. Told'
  BY DEF Left, Told, Heard, Reported, Event
<1>4. LinkShape'
  BY <1>1, <1>2 DEF LinkInv, LinkShape, ComingShape, UserShape, Left
<1>5. MissingIsWorkedOn' /\ Known'
  BY <1>2, <1>3 DEF LinkInv, MissingIsWorkedOn, Known, Runs
<1> QED
  BY <1>4, <1>5 DEF LinkInv

LEMMA LinkNext == LinkInv /\ [BLENext]_linkVars => LinkInv'
<1> SUFFICES ASSUME LinkInv, [BLENext]_linkVars PROVE LinkInv'
  OBVIOUS
<1>1. CASE Users
  BY <1>1, BeginKeeps, ReuseKeeps, EngageKeeps, ConnectedKeeps, ArrivedKeeps, InformKeeps,
     LeaveKeeps, LeftKeeps DEF Users
<1>2. CASE Router
  BY <1>2, WeighKeeps, FinishKeeps, GiveUpKeeps, JudgeKeeps DEF Router
<1>3. CASE Requests
  BY <1>3, RequestsKeep
<1>4. CASE Stream
  BY <1>4, AttachKeeps, ReplayKeeps, GreetKeeps, ListenKeeps, GraceOverKeeps DEF Stream
<1>5. CASE Service
  BY <1>5, ReconnectedKeeps, DeliverKeeps DEF Service
<1>6. CASE World
  BY <1>6, LinkDropsKeeps, AttemptFailsKeeps, LoseAnswerKeeps, BreakKeeps, RestartKeeps DEF World
<1>7. CASE UNCHANGED linkVars
  BY <1>7 DEF linkVars, bleVars, bleTasks, LinkInv, LinkShape, ComingShape, MissingIsWorkedOn, Known, Told,
     Awaits, Runs
<1> QED
  BY <1>1, <1>2, <1>3, <1>4, <1>5, <1>6, <1>7 DEF BLENext

LEMMA LinkInvHolds == BLESpec => []LinkInv
BY LinkInit, LinkNext, PTL DEF BLESpec

(* Whose registers they are.  The service keeps the registers of the node  *)
(* it is set to, and only the one it is linked to is due to send its own;  *)
(* they come last in the queue, so what the cache ends up with is another  *)
(* node's only when an answer or a stream was lost meanwhile.              *)
OwnInv ==
    /\ cached \in Places
    /\ svc.due # None => svc.due = svc.link
    /\ svc.regs # None => svc.regs = svc.mac
    /\ svc.link # None => svc.mac = svc.link
    /\ Foreign => mislaid

(* What the cache holds in the end, of a queue q and a cache c. *)
Ends(n, q, c) ==
    \/ \E i \in 1 .. Len(q) : /\ q[i] = Event("registers", n)
                              /\ \A j \in (i + 1) .. Len(q) : q[j].kind # "registers"
    \/ (\A i \in 1 .. Len(q) : q[i].kind # "registers") /\ c = n

LEMMA ForeignEnds ==
    /\ Foreign <=> /\ svc.link # None /\ svc.due # svc.link
                   /\ \E n \in Nodes \ {svc.link} : Ends(n, svc.queue, cached)
    /\ Foreign' <=> /\ svc'.link # None /\ svc'.due # svc'.link
                    /\ \E n \in Nodes \ {svc'.link} : Ends(n, svc'.queue, cached')
<1>1. Foreign <=> /\ svc.link # None /\ svc.due # svc.link
                  /\ \E n \in Nodes \ {svc.link} : Ends(n, svc.queue, cached)
  BY DEF Foreign, Expected, Ends
<1>2. Foreign' <=> /\ svc'.link # None /\ svc'.due # svc'.link
                   /\ \E n \in Nodes \ {svc'.link} : Ends(n, svc'.queue, cached')
  BY DEF Foreign, Expected, Ends
<1> QED
  BY <1>1, <1>2

LEMMA EndsAppended ==
    ASSUME NEW q \in Seq(QueueEvents), NEW e \in QueueEvents, NEW n, NEW c,
           Ends(n, Append(q, e), c)
    PROVE  IF e.kind = "registers" THEN n = e.node ELSE Ends(n, q, c)
<1> DEFINE r == Append(q, e)
<1>1. /\ Len(r) = Len(q) + 1 /\ r[Len(q) + 1] = e /\ Len(q) \in Nat
      /\ \A i \in 1 .. Len(q) : r[i] = q[i]
  OBVIOUS
<1>2. CASE e.kind = "registers"
  <2>1. ~\A i \in 1 .. Len(r) : r[i].kind # "registers"
    BY <1>1, <1>2
  <2>2. PICK i \in 1 .. Len(r) :
           r[i] = Event("registers", n) /\ \A j \in (i + 1) .. Len(r) : r[j].kind # "registers"
    BY <2>1 DEF Ends
  <2>3. i = Len(q) + 1
    BY <1>1, <1>2, <2>2
  <2> QED
    BY <1>1, <1>2, <2>2, <2>3 DEF Event
<1>3. CASE e.kind # "registers"
  <2>1. ASSUME NEW i \in 1 .. Len(r), r[i] = Event("registers", n),
               \A j \in (i + 1) .. Len(r) : r[j].kind # "registers"
        PROVE  Ends(n, q, c)
    <3>1. i # Len(q) + 1
      BY <1>1, <1>3, <2>1 DEF Event
    <3>2. i \in 1 .. Len(q) /\ q[i] = Event("registers", n)
      BY <1>1, <2>1, <3>1
    <3>3. \A j \in (i + 1) .. Len(q) : q[j].kind # "registers"
      BY <1>1, <2>1, <3>2
    <3> QED
      BY <3>2, <3>3 DEF Ends
  <2>2. ASSUME \A i \in 1 .. Len(r) : r[i].kind # "registers", c = n
        PROVE  Ends(n, q, c)
    <3>1. \A i \in 1 .. Len(q) : q[i].kind # "registers"
      BY <1>1, <2>2
    <3> QED
      BY <2>2, <3>1 DEF Ends
  <2> QED
    BY <1>3, <2>1, <2>2 DEF Ends
<1> QED
  BY <1>2, <1>3

LEMMA EndsHeard ==
    ASSUME NEW q \in Seq(QueueEvents), q # <<>>, NEW n, NEW c, NEW c_,
           Ends(n, Tail(q), c_),
           c_ = IF Head(q).kind = "registers" THEN Head(q).node ELSE c
    PROVE  Ends(n, q, c)
<1> DEFINE r == Tail(q)
<1>1. /\ Len(q) \in Nat /\ Len(q) > 0 /\ Len(r) = Len(q) - 1 /\ Head(q) = q[1]
      /\ \A i \in 1 .. Len(r) : r[i] = q[i + 1]
      /\ q[1] \in QueueEvents
  OBVIOUS
<1>2. ASSUME NEW i \in 1 .. Len(r), r[i] = Event("registers", n),
             \A j \in (i + 1) .. Len(r) : r[j].kind # "registers"
      PROVE  Ends(n, q, c)
  <2>1. i + 1 \in 1 .. Len(q) /\ q[i + 1] = Event("registers", n)
    BY <1>1, <1>2
  <2>2. ASSUME NEW j \in ((i + 1) + 1) .. Len(q) PROVE q[j].kind # "registers"
    <3>1. j - 1 \in (i + 1) .. Len(r) /\ r[j - 1] = q[j]
      BY <1>1, <2>2
    <3> QED
      BY <1>2, <3>1
  <2> QED
    BY <2>1, <2>2 DEF Ends
<1>3. ASSUME \A i \in 1 .. Len(r) : r[i].kind # "registers", c_ = n
      PROVE  Ends(n, q, c)
  <2>1. ASSUME NEW j \in 2 .. Len(q) PROVE q[j].kind # "registers"
    <3>1. j - 1 \in 1 .. Len(r) /\ r[j - 1] = q[j]
      BY <1>1, <2>1
    <3> QED
      BY <1>3, <3>1
  <2>2. CASE Head(q).kind = "registers"
    <3>1. q[1] = Event("registers", n)
      BY <1>1, <1>3, <2>2 DEF QueueEvents, Event
    <3>2. 1 \in 1 .. Len(q) /\ \A j \in (1 + 1) .. Len(q) : q[j].kind # "registers"
      BY <1>1, <2>1
    <3> QED
      BY <3>1, <3>2 DEF Ends
  <2>3. CASE Head(q).kind # "registers"
    <3>1. \A j \in 1 .. Len(q) : q[j].kind # "registers"
      BY <1>1, <2>1, <2>3
    <3> QED
      BY <1>3, <2>3, <3>1 DEF Ends
  <2> QED
    BY <2>2, <2>3
<1> QED
  BY <1>2, <1>3 DEF Ends

(* A step that brings the registers of another node no nearer.             *)
NoNewEnd == \A n \in Nodes : Ends(n, svc'.queue, cached') => Ends(n, svc.queue, cached)

LEMMA CacheWiped ==
    ASSUME LinkShape, UNCHANGED svc, cached' \in {cached, None}
    PROVE  NoNewEnd
BY BLEAssumption DEF NoNewEnd, Ends

LEMMA OwnKept ==
    ASSUME OwnInv, Noticed, cached' \in Places,
           svc'.due # None => svc'.due = svc'.link,
           svc'.regs # None => svc'.regs = svc'.mac,
           svc'.link # None => svc'.mac = svc'.link,
           Foreign' => Foreign \/ LoseAnswer \/ Break
    PROVE  OwnInv'
BY DEF OwnInv, Noticed

(* The steps of the tasks and the users leave the service alone.           *)
LEMMA TaskOwn ==
    ASSUME LinkInv, OwnInv, Noticed, UNCHANGED svc, cached' \in Places, NoNewEnd
    PROVE  OwnInv'
<1>1. Foreign' => Foreign
  BY ForeignEnds DEF NoNewEnd
<1> QED
  BY <1>1, OwnKept DEF OwnInv

LEMMA TasksOwn ==
    ASSUME LinkInv, OwnInv, Noticed, Users \/ Router
    PROVE  OwnInv'
<1>1. UNCHANGED svc /\ cached' \in {cached, None}
  BY DEF Users, Router, Begin, Reuse, Engage, Connected, Arrived, Inform, Tell, Leave, Left,
     Cleared, Weigh, Finish, GiveUp, Judge
<1>2. NoNewEnd
  BY <1>1, CacheWiped DEF LinkInv
<1>3. cached' \in Places
  BY <1>1 DEF OwnInv, Places
<1> QED
  BY <1>1, <1>2, <1>3, TaskOwn

LEMMA ListenOwn ==
    ASSUME LinkInv, OwnInv, Noticed, Listen
    PROVE  OwnInv'
<1> DEFINE e == Head(svc.queue)
<1>1. svc \in Services /\ svc.queue \in Seq(QueueEvents) /\ svc.queue # <<>>
  BY DEF LinkInv, LinkShape, Listen, Services
<1>2. /\ svc'.queue = Tail(svc.queue) /\ svc'.link = svc.link /\ svc'.due = svc.due
      /\ svc'.regs = svc.regs /\ svc'.mac = svc.mac
  BY <1>1 DEF Listen, Services
<1>3. IF e.kind = "registers" THEN cached' = e.node ELSE cached' \in {cached, None}
  BY DEF Listen, HandleEvent, HandleStatus, Cleared
<1>4. ASSUME NEW n \in Nodes, Ends(n, Tail(svc.queue), cached')
      PROVE  Ends(n, svc.queue, cached)
  <2>1. CASE cached' = IF e.kind = "registers" THEN e.node ELSE cached
    BY <1>1, <1>4, <2>1, EndsHeard
  <2>2. CASE e.kind # "registers" /\ cached' = None
    <3>1. Ends(n, svc.queue, None)
      BY <1>1, <1>4, <2>2, EndsHeard
    <3> QED
      BY <3>1, BLEAssumption DEF Ends
  <2> QED
    BY <1>3, <2>1, <2>2
<1>5. Foreign' => Foreign
  BY <1>2, <1>4, ForeignEnds
<1>6. e \in QueueEvents
  BY <1>1
<1>7. cached' \in Places
  BY <1>3, <1>6 DEF OwnInv, Places, QueueEvents
<1> QED
  BY <1>2, <1>5, <1>7, OwnKept DEF OwnInv

LEMMA StreamOwn ==
    ASSUME LinkInv, OwnInv, Noticed, Stream
    PROVE  OwnInv'
<1>1. CASE Attach \/ Greet \/ GraceOver
  <2>1. UNCHANGED svc /\ cached' \in {cached, None}
    BY <1>1 DEF Attach, Greet, GraceOver, HandleStatus, Cleared
  <2>2. NoNewEnd
    BY <2>1, CacheWiped DEF LinkInv
  <2>3. cached' \in Places
    BY <2>1 DEF OwnInv, Places
  <2> QED
    BY <2>1, <2>2, <2>3, TaskOwn
<1>2. CASE Replay
  <2>1. UNCHANGED svc /\ cached' \in {cached, svc.regs} /\ cached' \in Places
    BY <1>2 DEF Replay, LinkInv, LinkShape, Services, OwnInv
  <2>2. ASSUME Foreign' PROVE Foreign
    <3>1. PICK n \in Nodes \ {svc.link} : Ends(n, svc.queue, cached')
      BY <2>1, <2>2, ForeignEnds
    <3>2. svc.link # None /\ svc.due # svc.link
      BY <2>1, <2>2, ForeignEnds
    <3>3. svc.regs \in {None, svc.link}
      BY <3>2 DEF OwnInv
    <3>4. Ends(n, svc.queue, cached)
      BY <2>1, <3>1, <3>3, BLEAssumption DEF Ends
    <3> QED
      BY <3>2, <3>4, ForeignEnds
  <2> QED
    BY <2>1, <2>2, OwnKept DEF OwnInv
<1> QED
  BY <1>1, <1>2, ListenOwn DEF Stream

(* What the service does: its own registers are the last to be told.       *)
LEMMA LinkedOwn ==
    ASSUME LinkInv, OwnInv, NEW n \in Places
    PROVE  /\ Linked(n).due = n /\ Linked(n).link = n /\ Linked(n).mac = n
           /\ Linked(n).regs \in {None, n} /\ Noted(n) \in {None, n}
<1>1. svc \in Services
  BY DEF LinkInv, LinkShape
<1>2. Noted(n) \in {None, n}
  BY DEF Noted, OwnInv
<1> QED
  BY <1>1, <1>2 DEF Linked, Services

LEMMA ServiceOwn ==
    ASSUME LinkInv, OwnInv, Noticed, Service
    PROVE  OwnInv'
<1>1. /\ svc \in Services /\ svc.queue \in Seq(QueueEvents)
      /\ UNCHANGED cached /\ cached' \in Places
  BY DEF LinkInv, LinkShape, Services, Service, Reconnected, Deliver, OwnInv
<1>2. CASE Reconnected
  <2>1. svc.retry \in Places
    BY <1>1 DEF Services
  <2>2. Linked(svc.retry) \in Services
    BY <1>1, <2>1, LinkedType
  <2>3. /\ svc'.due = svc.retry /\ svc'.link = svc.retry /\ svc'.mac = svc.retry
        /\ svc'.regs \in {None, svc.retry}
    BY <1>2, <2>1, <2>2, LinkedOwn DEF Reconnected, Services
  <2>4. ~Foreign'
    BY <2>3 DEF Foreign
  <2> QED
    BY <1>1, <2>3, <2>4, OwnKept
<1>3. CASE Deliver
  <2> DEFINE e == Event("registers", svc.due)
  <2>1. /\ svc.due # None /\ svc.due = svc.link /\ svc.mac = svc.link
        /\ svc'.due = None /\ svc'.link = svc.link /\ svc'.mac = svc.mac /\ svc'.regs = svc.due
        /\ svc'.queue = Queued(svc.queue, e)
    BY <1>1, <1>3 DEF Deliver, Services, OwnInv
  <2>2. e \in QueueEvents /\ e.kind = "registers" /\ e.node = svc.link
    BY <1>1, <2>1 DEF Event, QueueEvents, EventKinds, Services
  <2>3. \E q \in Seq(QueueEvents) : svc'.queue = Append(q, e)
    <3>1. CASE svc'.queue = svc.queue /\ svc.queue # <<>> /\ svc.queue[Len(svc.queue)] = e
      <4>1. svc.queue = Append(SubSeq(svc.queue, 1, Len(svc.queue) - 1), e)
        BY <1>1, <3>1
      <4>2. SubSeq(svc.queue, 1, Len(svc.queue) - 1) \in Seq(QueueEvents)
        BY <1>1, <3>1
      <4> QED
        BY <3>1, <4>1, <4>2
    <3>2. CASE svc'.queue = Append(svc.queue, e)
      BY <1>1, <3>2
    <3> QED
      BY <2>1, <3>1, <3>2 DEF Queued
  <2>4. PICK q \in Seq(QueueEvents) : svc'.queue = Append(q, e)
    BY <2>3
  <2>5. \A n \in Nodes : Ends(n, svc'.queue, cached') => n = svc.link
    BY <2>2, <2>4, EndsAppended
  <2>6. ~Foreign'
    BY <2>1, <2>5, ForeignEnds
  <2> QED
    BY <1>1, <2>1, <2>6, OwnKept
<1> QED
  BY <1>2, <1>3 DEF Service

LEMMA WorldOwn ==
    ASSUME LinkInv, OwnInv, Noticed, World
    PROVE  OwnInv'
<1>1. /\ svc \in Services /\ svc.queue \in Seq(QueueEvents)
      /\ UNCHANGED cached /\ cached' \in Places
  BY DEF LinkInv, LinkShape, Services, World, LinkDrops, AttemptFails, LoseAnswer, Break, Restart,
     OwnInv
<1>2. CASE LinkDrops
  <2>1. svc'.due = None /\ svc'.link = None /\ svc'.regs = svc.regs /\ svc'.mac = svc.mac
    BY <1>1, <1>2 DEF LinkDrops, Services
  <2>2. ~Foreign'
    BY <2>1 DEF Foreign
  <2> QED
    BY <1>1, <2>1, <2>2, OwnKept DEF OwnInv
<1>3. CASE AttemptFails
  <2>1. /\ svc'.due = svc.due /\ svc'.link = svc.link /\ svc'.regs = svc.regs /\ svc'.mac = svc.mac
        /\ \E kind \in {"reconnecting", "exhausted"} :
             svc'.queue = Append(svc.queue, Event(kind, svc.retry))
    BY <1>1, <1>3 DEF AttemptFails, Services
  <2>2. PICK kind \in {"reconnecting", "exhausted"} :
             svc'.queue = Append(svc.queue, Event(kind, svc.retry))
    BY <2>1
  <2>3. Event(kind, svc.retry) \in QueueEvents /\ Event(kind, svc.retry).kind # "registers"
    BY <1>1 DEF Event, QueueEvents, EventKinds, Services
  <2>4. \A n \in Nodes : Ends(n, svc'.queue, cached') => Ends(n, svc.queue, cached)
    BY <1>1, <2>2, <2>3, EndsAppended
  <2>5. Foreign' => Foreign
    BY <2>1, <2>4, ForeignEnds
  <2> QED
    BY <1>1, <2>1, <2>5, OwnKept DEF OwnInv
<1>4. CASE LoseAnswer
  <2>1. svc'.due = None /\ svc'.link = svc.link /\ svc'.regs = svc.regs /\ svc'.mac = svc.mac
    BY <1>1, <1>4 DEF LoseAnswer, Services
  <2> QED
    BY <1>1, <1>4, <2>1, OwnKept DEF OwnInv
<1>5. CASE Break
  <2>1. svc'.due = svc.due /\ svc'.link = svc.link /\ svc'.regs = svc.regs /\ svc'.mac = svc.mac
    BY <1>1, <1>5 DEF Break, Services
  <2> QED
    BY <1>1, <1>5, <2>1, OwnKept DEF OwnInv
<1>6. CASE Restart
  <2>1. svc'.due = None /\ svc'.link = None /\ svc'.regs = None
    BY <1>1, <1>6 DEF Restart, Services
  <2>2. ~Foreign'
    BY <2>1 DEF Foreign
  <2> QED
    BY <1>1, <2>1, <2>2, OwnKept
<1> QED
  BY <1>2, <1>3, <1>4, <1>5, <1>6 DEF World

LEMMA RequestsOwn ==
    ASSUME LinkInv, OwnInv, Noticed, Requests
    PROVE  OwnInv'
<1>1. /\ svc \in Services /\ svc.queue \in Seq(QueueEvents) /\ user.node \in Places
      /\ UNCHANGED cached /\ cached' \in Places
  BY DEF LinkInv, LinkShape, Services, Requests, OwnInv
<1>2. PICK outcomes \in {Asked, Dialed(user.node, user.skip), HungUp, Abandoned, Queried} :
         svc' = svc \/ \E o \in outcomes : svc' = o.svc
  BY DEF Requests, Request
<1>3. CASE svc' = svc
  BY <1>1, <1>3, TaskOwn DEF NoNewEnd
<1>4. CASE svc'.due = svc'.link /\ svc'.mac = svc'.link /\ svc'.regs \in {None, svc'.link}
  BY <1>1, <1>4, OwnKept DEF Foreign
<1>5. CASE svc'.due = None /\ svc'.link = None /\ svc'.regs \in {None, svc'.mac}
  BY <1>1, <1>5, OwnKept DEF Foreign
<1>6. CASE svc' = [svc EXCEPT !.due = svc.link]
  <2>1. svc'.due = svc'.link /\ svc'.link = svc.link /\ svc'.mac = svc.mac /\ svc'.regs = svc.regs
    BY <1>1, <1>6 DEF Services
  <2>2. ~Foreign'
    BY <2>1 DEF Foreign
  <2> QED
    BY <1>1, <2>1, <2>2, OwnKept DEF OwnInv
<1>7. CASE \E o \in Abandoned : svc' = o.svc
  <2> DEFINE e == Event("disconnected", None)
  <2>1. svc' = [svc EXCEPT !.retry = None, !.gone = TRUE, !.queue = Append(@, e)]
    BY <1>7 DEF Abandoned
  <2>2. /\ svc'.due = svc.due /\ svc'.link = svc.link /\ svc'.regs = svc.regs /\ svc'.mac = svc.mac
        /\ svc'.queue = Append(svc.queue, e)
    BY <1>1, <2>1 DEF Services
  <2>3. e \in QueueEvents /\ e.kind # "registers"
    BY DEF Event, QueueEvents, EventKinds, Places
  <2>4. \A n \in Nodes : Ends(n, svc'.queue, cached') => Ends(n, svc.queue, cached)
    BY <1>1, <2>2, <2>3, EndsAppended
  <2>5. Foreign' => Foreign
    BY <2>2, <2>4, ForeignEnds
  <2> QED
    BY <1>1, <2>2, <2>5, OwnKept DEF OwnInv
<1>8. CASE \E o \in Asked : svc' = o.svc
  BY <1>3, <1>8 DEF Asked
<1>9. CASE \E o \in Queried : svc' = o.svc
  <2>1. svc' = svc \/ svc' = [svc EXCEPT !.due = svc.link]
    BY <1>9 DEF Queried
  <2> QED
    BY <1>3, <1>6, <2>1
<1>10. CASE \E o \in HungUp : svc' = o.svc
  <2>1. svc' = [svc EXCEPT !.link = None, !.due = None, !.retry = None, !.gone = TRUE]
    BY <1>10 DEF HungUp
  <2>2. svc'.due = None /\ svc'.link = None /\ svc'.regs = svc.regs /\ svc'.mac = svc.mac
    BY <1>1, <2>1 DEF Services
  <2> QED
    BY <1>5, <2>2 DEF OwnInv
<1>11. CASE \E o \in Dialed(user.node, user.skip) : svc' = o.svc
  <2>1. \/ svc' = Linked(user.node)
        \/ svc' = [svc EXCEPT !.link = None, !.due = None, !.gone = FALSE, !.mac = user.node,
                              !.regs = Noted(user.node),
                              !.retry = IF user.skip THEN None ELSE @]
    BY <1>11 DEF Dialed
  <2>2. CASE svc' = Linked(user.node)
    BY <1>1, <1>4, <2>2, LinkedOwn
  <2>3. CASE svc' = [svc EXCEPT !.link = None, !.due = None, !.gone = FALSE, !.mac = user.node,
                                !.regs = Noted(user.node),
                                !.retry = IF user.skip THEN None ELSE @]
    <3>1. /\ svc'.due = None /\ svc'.link = None /\ svc'.mac = user.node
          /\ svc'.regs = Noted(user.node)
      BY <1>1, <2>3 DEF Services
    <3> QED
      BY <1>1, <1>5, <3>1, LinkedOwn
  <2> QED
    BY <2>1, <2>2, <2>3
<1> QED
  BY <1>2, <1>3, <1>7, <1>8, <1>9, <1>10, <1>11

LEMMA OwnInit == BLEInit => OwnInv
<1> SUFFICES ASSUME BLEInit PROVE OwnInv
  OBVIOUS
<1>1. PICK link \in {None} \cup Nodes, keeps \in BOOLEAN :
         svc = [link |-> link, last |-> link, retry |-> None, attempt |-> 0,
                gone |-> FALSE, mac |-> link, due |-> None, queue |-> <<>>,
                regs |-> IF keeps THEN link ELSE None]
  BY DEF BLEInit
<1>2. cached = None /\ svc.queue = <<>>
  BY <1>1 DEF BLEInit
<1>3. ~Foreign
  BY <1>2, BLEAssumption, ForeignEnds DEF Ends
<1> QED
  BY <1>1, <1>2, <1>3 DEF OwnInv, Places

LEMMA OwnNext == LinkInv /\ OwnInv /\ [BLENext]_linkVars => OwnInv'
<1> SUFFICES ASSUME LinkInv, OwnInv, [BLENext]_linkVars PROVE OwnInv'
  OBVIOUS
<1>1. CASE UNCHANGED linkVars
  BY <1>1 DEF linkVars, bleVars, OwnInv, Foreign, Expected
<1> QED
  BY <1>1, TasksOwn, RequestsOwn, StreamOwn, ServiceOwn, WorldOwn DEF BLENext

LEMMA OwnInvHolds == BLESpec => []OwnInv
BY LinkInit, LinkNext, OwnInit, OwnNext, PTL DEF BLESpec

(* A connection whose registers are missing is in the reconciler's hands,  *)
(* whatever drops, breaks, gets lost or restarts, and whatever the users   *)
(* ask for (arm_ble_register_reconciler, _handle_connected_transition).    *)
THEOREM MissingStaysWorkedOn == BLESpec => []MissingIsWorkedOn
<1>1. LinkInv => MissingIsWorkedOn
  BY DEF LinkInv
<1> QED
  BY <1>1, LinkInvHolds, PTL

(* When nothing is under way, a link that is up is known to be and has its *)
(* registers, unless the last word heard of it was outdated or nobody who  *)
(* arms the reconciler found it; and they are its own, unless those were   *)
(* lost after the registers of the node before (_sse_loop,                 *)
(* _run_ble_register_reconciler, _note_register_cache_target).             *)
THEOREM CalmStaysComplete == BLESpec => []CalmIsComplete
<1>1. LinkInv /\ OwnInv => CalmIsComplete
  <2> SUFFICES ASSUME LinkInv, OwnInv, Calm, svc.link # None, marks = {}
               PROVE  client.state = "connected" /\ cached # None
                      /\ (cached = svc.link \/ mislaid)
    BY DEF CalmIsComplete
  <2>1. ~StatusIn(svc.queue) /\ ~Awaits /\ sse.pc = "listen" /\ ~Runs(reconciler)
    BY DEF Calm, StatusIn, Awaits
  <2>2. client.state = "connected" /\ cached # None
    BY <2>1 DEF LinkInv, Known, Told, MissingIsWorkedOn
  <2>3. cached \in Nodes
    BY <2>2 DEF OwnInv, Places
  <2>4. cached # svc.link => Foreign
    BY <2>3 DEF Calm, Foreign, Expected
  <2> QED
    BY <2>2, <2>4 DEF OwnInv
<1> QED
  BY <1>1, LinkInvHolds, OwnInvHolds, PTL
=============================================================================
