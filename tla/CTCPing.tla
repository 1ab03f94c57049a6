------------------------------- MODULE CTCPing -------------------------------
(***************************************************************************)
(* The !ctcping round-trip test (commands/ctcping.py).  A test sends its  *)
(* probes one by one.  The node echoes each probe with an id; the echo     *)
(* makes the probe an active ping with a timeout task of its own, and the  *)
(* target's ACK of that id resolves it.  A test ends when all its probes   *)
(* are counted, or at its monitor's deadline.                              *)
(*                                                                         *)
(* Every task runs to its next await.  Echoes and ACKs reach the handlers  *)
(* over UDP and over BLE, bypass the command dedup (routing.py 54-60), and *)
(* may be lost, duplicated or reordered.  An id is the pair of the test    *)
(* and the sequence that the node gave it to; the handlers see only the    *)
(* id, the target and the sequence.  Timers are untimed: one may fire at   *)
(* any moment once it is set.                                              *)
(***************************************************************************)
EXTENDS Integers, FiniteSets, Sequences

CONSTANTS
    Tests,       \* test ids: one !ctcping command each
    TargetOf,    \* the target of each test
    RepeatOf,    \* repeat_count of each test ...
    Total,       \* ... and its bound
    Copies,      \* copies of each echo and of each ACK that may arrive
    CanStop      \* does stop_ctcping happen?

ASSUME ParametersAssumption ==
    /\ Total \in Nat \ {0}
    /\ Copies \in Nat
    /\ CanStop \in BOOLEAN

ASSUME RepeatAssumption == RepeatOf \in [Tests -> 1 .. Total]

Seqs == 1 .. Total
Ids == Tests \X Seqs
NoTest == <<>>

ASSUME NoTestAssumption == NoTest \notin Tests

VARIABLES
    status,      \* PingTest.status, "new" before the command
    present,     \* the keys of ping_tests ...
    started,     \* ... and the order in which tests are inserted
    counted,     \* completed: the number of ACKs counted, by test
    missed,      \* timeouts: the number of timeouts counted, by test
    doneSeqs,    \* completed_sequences, by test
    sender,      \* _start_ping_test: probes sent so far
    sending,     \* tests whose _start_ping_test runs
    monitor,     \* monitor_task: "none", "waiting", "summary" or "done"
    completer,   \* _complete_test_with_cleanup: "none", "queued", "summary"
    completing,  \* _completing_test_ids
    active,      \* the keys of active_pings ...
    testOf,      \* ... with each entry's test_id, NoTest when None ...
    acked,       \* ... and the entries whose ack_processed is set
    timers,      \* number of pending timeout tasks, by id
    acking,      \* ACK handlers awaiting their result message: [id, test]
    echoes,      \* copies of an id's echo still to arrive
    acks,        \* copies of an id's ACK still to arrive
    misled,      \* history: tests that took an echo of another test's probe, or
                 \* took one a second time
    missedSeqs,  \* history: the sequences whose timeout was counted, by test
    summaries,   \* history: summaries sent, by test
    stopped      \* stop_ctcping: "no", "cancelled" or "yes"

sessionVars == <<status, present, started, counted, missed, doneSeqs, missedSeqs, summaries>>
taskVars == <<sender, sending, monitor, completer, completing>>
pingVars == <<active, testOf, acked, timers, acking>>
netVars == <<echoes, acks, misled>>
vars == <<sessionVars, taskVars, pingVars, netVars, stopped>>

Init ==
    /\ status = [t \in Tests |-> "new"]
    /\ present = {}
    /\ started = <<>>
    /\ counted = [t \in Tests |-> 0]
    /\ missed = [t \in Tests |-> 0]
    /\ doneSeqs = [t \in Tests |-> {}]
    /\ sender = [t \in Tests |-> 0]
    /\ sending = {}
    /\ monitor = [t \in Tests |-> "none"]
    /\ completer = [t \in Tests |-> "none"]
    /\ completing = {}
    /\ active = {}
    /\ testOf = [i \in Ids |-> NoTest]
    /\ acked = {}
    /\ timers = [i \in Ids |-> 0]
    /\ acking = {}
    /\ echoes = [i \in Ids |-> 0]
    /\ acks = [i \in Ids |-> 0]
    /\ misled = {}
    /\ missedSeqs = [t \in Tests |-> {}]
    /\ summaries = [t \in Tests |-> 0]
    /\ stopped = "no"

(* active_pings.pop(id, None) *)
Drop(i) ==
    /\ active' = active \ {i}
    /\ testOf' = [testOf EXCEPT ![i] = NoTest]
    /\ acked' = acked \ {i}

-----------------------------------------------------------------------------
(* The test's own task *)

(* handle_ctcping validates and spawns; _start_ping_test registers the test. *)
StartPingTest(t) ==
    /\ status[t] = "new"
    /\ status' = [status EXCEPT ![t] = "running"]
    /\ present' = present \cup {t}
    /\ started' = Append(started, t)
    /\ sending' = sending \cup {t}
    /\ UNCHANGED <<counted, missed, doneSeqs, missedSeqs, summaries, sender, monitor,
                   completer, completing, pingVars, netVars, stopped>>

MoreToSend(t) == sender[t] < RepeatOf[t]

(* One round of the loop: the probe goes out unless the test is over. *)
SendPing(t) ==
    LET i == <<t, sender[t] + 1>>
    IN  /\ t \in sending
        /\ status[t] = "running"
        /\ MoreToSend(t)
        /\ sender' = [sender EXCEPT ![t] = @ + 1]
        /\ echoes' = [echoes EXCEPT ![i] = Copies]
        /\ acks' = [acks EXCEPT ![i] = Copies]
        /\ UNCHANGED <<sessionVars, sending, monitor, completer, completing, pingVars, misled,
                       stopped>>

(* After the last probe, or after the break, the deadline monitor starts. *)
StartMonitor(t) ==
    /\ t \in sending
    /\ status[t] # "running" \/ ~MoreToSend(t)
    /\ sending' = sending \ {t}
    /\ monitor' = [monitor EXCEPT ![t] = "waiting"]
    /\ UNCHANGED <<sessionVars, sender, completer, completing, pingVars, netVars, stopped>>

-----------------------------------------------------------------------------
(* Counting a result, and what follows from it *)

(* _check_test_completion *)
CheckTestCompletion(t, ok, ko) ==
    status[t] = "running" /\ ok + ko >= RepeatOf[t]

(* _trigger_completion_if_done: no await between the check and the mark. *)
TriggerCompletion(t, ok, ko) ==
    IF CheckTestCompletion(t, ok, ko) /\ t \notin completing
    THEN /\ completing' = completing \cup {t}
         /\ completer' = [completer EXCEPT ![t] = "queued"]
    ELSE UNCHANGED <<completing, completer>>

(* _record_ping_result: counts only for a test that is still running. *)
RecordSuccess(t) ==
    IF t \in present /\ status[t] = "running"
    THEN LET ok == IF counted[t] < RepeatOf[t] THEN counted[t] + 1 ELSE counted[t]
         IN  /\ counted' = [counted EXCEPT ![t] = ok]
             /\ TriggerCompletion(t, ok, missed[t])
    ELSE UNCHANGED <<counted, completing, completer>>

RecordTimeout(t, s) ==
    IF t \in present /\ status[t] = "running"
    THEN LET ko == IF missed[t] < RepeatOf[t] THEN missed[t] + 1 ELSE missed[t]
         IN  /\ missed' = [missed EXCEPT ![t] = ko]
             /\ missedSeqs' = [missedSeqs EXCEPT ![t] = @ \cup {s}]
             /\ TriggerCompletion(t, counted[t], ko)
    ELSE UNCHANGED <<missed, missedSeqs, completing, completer>>

-----------------------------------------------------------------------------
(* Echo, ACK and timeout *)

Fits(t, target) == t \in present /\ TargetOf[t] = target /\ status[t] = "running"

(* _find_test_id_for_target: the first running test with that target, in   *)
(* the order of ping_tests, or none.                                       *)
FindsTest(target, t) ==
    \/ \E k \in DOMAIN started :
        /\ started[k] = t
        /\ Fits(t, target)
        /\ \A j \in 1 .. k - 1 : ~Fits(started[j], target)
    \/ /\ t = NoTest
       /\ \A u \in present : ~Fits(u, target)

(* _handle_echo_message for an id that is not tracked: it becomes an       *)
(* active ping with a timeout task of its own.                             *)
TrackPing(i) ==
    \E t \in Tests \cup {NoTest} :
        /\ FindsTest(TargetOf[i[1]], t)
        /\ active' = active \cup {i}
        /\ testOf' = [testOf EXCEPT ![i] = t]
        /\ timers' = [timers EXCEPT ![i] = @ + 1]
        /\ misled' = misled \cup {u \in {t} \ {NoTest} : u # i[1] \/ echoes[i] < Copies}

(* _handle_echo_message: a copy of a tracked id is ignored. *)
HandleEcho(i) ==
    /\ echoes[i] > 0
    /\ echoes' = [echoes EXCEPT ![i] = @ - 1]
    /\ \/ i \in active /\ UNCHANGED <<active, testOf, timers, misled>>
       \/ i \notin active /\ TrackPing(i)
    /\ UNCHANGED <<sessionVars, taskVars, acked, acking, acks, stopped>>

Unresolved_AnyActive(i) == i \in active

(* What an ACK and a timeout both require of a ping. *)
Unresolved(i) == i \in active /\ i \notin acked

(* _process_valid_ack: the result counts for a running test, once per      *)
(* sequence.                                                               *)
AckCounts(i) ==
    /\ testOf[i] \in present
    /\ status[testOf[i]] = "running"
    /\ i[2] \notin doneSeqs[testOf[i]]

(* _handle_ack_message up to the await: the ACK is marked and, when it     *)
(* counts for a running test, its result message is sent first.            *)
HandleAck(i) ==
    /\ acks[i] > 0
    /\ acks' = [acks EXCEPT ![i] = @ - 1]
    /\ \/ /\ ~Unresolved(i)
          /\ UNCHANGED <<active, testOf, acked, acking, doneSeqs>>
       \/ /\ Unresolved(i) /\ AckCounts(i)
          /\ doneSeqs' = [doneSeqs EXCEPT ![testOf[i]] = @ \cup {i[2]}]
          /\ acked' = acked \cup {i}
          /\ acking' = acking \cup {[id |-> i, test |-> testOf[i]]}
          /\ UNCHANGED <<active, testOf>>
       \/ /\ Unresolved(i) /\ ~AckCounts(i)
          /\ Drop(i)
          /\ UNCHANGED <<acking, doneSeqs>>
    /\ UNCHANGED <<status, present, started, counted, missed, missedSeqs, summaries,
                   taskVars, timers, echoes, misled, stopped>>

(* The handler resumes after its message: it counts, then forgets the id. *)
RecordAck(a) ==
    /\ acking' = acking \ {a}
    /\ RecordSuccess(a.test)
    /\ Drop(a.id)
    /\ UNCHANGED <<status, present, started, missed, doneSeqs, missedSeqs, summaries, sender,
                   sending, monitor, timers, netVars, stopped>>

(* _ping_timeout_task after its sleep: nothing in it awaits before the id  *)
(* is forgotten.                                                           *)
PingTimeout(i) ==
    /\ timers[i] > 0
    /\ timers' = [timers EXCEPT ![i] = @ - 1]
    /\ \/ /\ ~Unresolved(i)
          /\ UNCHANGED <<active, testOf, acked, missed, missedSeqs, completing, completer>>
       \/ /\ Unresolved(i) /\ testOf[i] = NoTest
          /\ Drop(i)
          /\ UNCHANGED <<missed, missedSeqs, completing, completer>>
       \/ /\ Unresolved(i) /\ testOf[i] # NoTest
          /\ Drop(i)
          /\ RecordTimeout(testOf[i], i[2])
    /\ UNCHANGED <<status, present, started, counted, doneSeqs, summaries, sender, sending, monitor,
                   acking, netVars, stopped>>

-----------------------------------------------------------------------------
(* The end of a test *)

MayComplete(t) == t \in present /\ status[t] = "running"

(* _complete_test: claims the test, cancels the monitor, sends the summary *)
(* with the counts it finds.                                               *)
CompleteTest(t) ==
    /\ completer[t] = "queued"
    /\ \/ /\ MayComplete(t)
          /\ status' = [status EXCEPT ![t] = "completing"]
          /\ monitor' = [monitor EXCEPT ![t] = IF @ = "waiting" THEN "done" ELSE @]
          /\ completer' = [completer EXCEPT ![t] = "summary"]
          /\ summaries' = [summaries EXCEPT ![t] = @ + 1]
          /\ UNCHANGED completing
       \/ /\ ~MayComplete(t)
          /\ completer' = [completer EXCEPT ![t] = "none"]
          /\ completing' = completing \ {t}
          /\ UNCHANGED <<status, monitor, summaries>>
    /\ UNCHANGED <<present, started, counted, missed, doneSeqs, missedSeqs, sender, sending,
                   pingVars, netVars, stopped>>

(* The summary is out: the test leaves ping_tests and the completing set. *)
CompleteTestEnds(t) ==
    /\ completer[t] = "summary"
    /\ status' = [status EXCEPT ![t] = "completed"]
    /\ present' = present \ {t}
    /\ completer' = [completer EXCEPT ![t] = "none"]
    /\ completing' = completing \ {t}
    /\ UNCHANGED <<started, counted, missed, doneSeqs, missedSeqs, summaries, sender, sending,
                   monitor, pingVars, netVars, stopped>>

MonitorActs_Always(t) == t \in present

MonitorActs_Counted(t) ==
    t \in present /\ status[t] = "running" /\ counted[t] + missed[t] > 0

MonitorActs(t) == t \in present /\ status[t] = "running"

(* _monitor_test_completion after its deadline. *)
MonitorFires(t) ==
    /\ monitor[t] = "waiting"
    /\ \/ /\ MonitorActs(t)
          /\ status' = [status EXCEPT ![t] = "timeout"]
          /\ monitor' = [monitor EXCEPT ![t] = "summary"]
          /\ summaries' = [summaries EXCEPT ![t] = @ + 1]
       \/ /\ ~MonitorActs(t)
          /\ monitor' = [monitor EXCEPT ![t] = "done"]
          /\ UNCHANGED <<status, summaries>>
    /\ UNCHANGED <<present, started, counted, missed, doneSeqs, missedSeqs, sender, sending,
                   completer, completing, pingVars, netVars, stopped>>

MonitorEnds(t) ==
    /\ monitor[t] = "summary"
    /\ monitor' = [monitor EXCEPT ![t] = "done"]
    /\ present' = present \ {t}
    /\ UNCHANGED <<status, started, counted, missed, doneSeqs, missedSeqs, summaries, sender,
                   sending, completer, completing, pingVars, netVars, stopped>>

(* stop_ctcping cancels every background task and waits for them; the ACK  *)
(* handlers are not among them.                                            *)
StopCancels ==
    /\ CanStop
    /\ stopped = "no"
    /\ stopped' = "cancelled"
    /\ sending' = {}
    /\ monitor' = [t \in Tests |-> IF monitor[t] = "none" THEN "none" ELSE "done"]
    /\ completer' = [t \in Tests |-> "none"]
    /\ completing' = {t \in completing : completer[t] = "queued"}
    /\ timers' = [i \in Ids |-> 0]
    /\ UNCHANGED <<sessionVars, sender, active, testOf, acked, acking, netVars>>

(* ... and then clears the tables, whatever was added while it waited. *)
StopClears ==
    /\ stopped = "cancelled"
    /\ stopped' = "yes"
    /\ present' = {}
    /\ active' = {}
    /\ testOf' = [i \in Ids |-> NoTest]
    /\ acked' = {}
    /\ completing' = {}
    /\ UNCHANGED <<status, started, counted, missed, doneSeqs, missedSeqs, summaries, sender,
                   sending, monitor, completer, timers, acking, netVars>>

Next ==
    \/ \E t \in Tests :
        \/ StartPingTest(t)
        \/ SendPing(t)
        \/ StartMonitor(t)
        \/ CompleteTest(t)
        \/ CompleteTestEnds(t)
        \/ MonitorFires(t)
        \/ MonitorEnds(t)
    \/ \E i \in Ids :
        \/ HandleEcho(i)
        \/ HandleAck(i)
        \/ PingTimeout(i)
    \/ \E a \in acking : RecordAck(a)
    \/ StopCancels
    \/ StopClears

(* The event loop runs every ready task and every expired timer; nothing   *)
(* makes the mesh deliver an echo or an ACK.                               *)
Fairness ==
    /\ \A t \in Tests :
        WF_vars(SendPing(t) \/ StartMonitor(t) \/ CompleteTest(t) \/ CompleteTestEnds(t)
                \/ MonitorFires(t) \/ MonitorEnds(t))
    /\ WF_vars(StopClears)

Spec == Init /\ [][Next]_vars /\ Fairness

-----------------------------------------------------------------------------
(* Properties *)

TypeOK ==
    /\ status \in [Tests -> {"new", "running", "completing", "completed", "timeout"}]
    /\ present \subseteq Tests
    /\ started \in Seq(Tests)
    /\ counted \in [Tests -> 0 .. Total]
    /\ missed \in [Tests -> 0 .. Total]
    /\ doneSeqs \in [Tests -> SUBSET Seqs]
    /\ missedSeqs \in [Tests -> SUBSET Seqs]
    /\ sender \in [Tests -> 0 .. Total]
    /\ sending \subseteq Tests
    /\ monitor \in [Tests -> {"none", "waiting", "summary", "done"}]
    /\ completer \in [Tests -> {"none", "queued", "summary"}]
    /\ completing \subseteq Tests
    /\ active \subseteq Ids
    /\ testOf \in [Ids -> Tests \cup {NoTest}]
    /\ acked \subseteq active
    /\ timers \in [Ids -> Nat]
    /\ acking \subseteq [id : Ids, test : Tests]
    /\ echoes \in [Ids -> 0 .. Copies]
    /\ acks \in [Ids -> 0 .. Copies]
    /\ misled \subseteq Tests
    /\ summaries \in [Tests -> Nat]
    /\ stopped \in {"no", "cancelled", "yes"}

(* A test is summed up once: the ACKs, the timeouts and the deadline       *)
(* monitor that all may end it never do so twice (the idempotence          *)
(* invariant of _trigger_completion_if_done and the status lifecycle).     *)
OneSummary == \A t \in Tests : summaries[t] <= 1

(* A sequence that was answered is never also counted as lost              *)
(* (ActivePing.ack_processed and completed_sequences), unless the test took*)
(* an echo for a probe it had not just sent: an echo carries no test id,   *)
(* and a copy that comes after its ping was resolved is taken for new.     *)
AnsweredNotLost == \A t \in Tests \ misled : doneSeqs[t] \cap missedSeqs[t] = {}

(* A summary of a completed test speaks of all its probes: all were sent,  *)
(* and each was answered or lost; with the same exception.                 *)
SummaryIsComplete ==
    \A t \in Tests \ misled : status[t] \in {"completing", "completed"} =>
        /\ sender[t] = RepeatOf[t]
        /\ counted[t] + missed[t] = RepeatOf[t]
        /\ doneSeqs[t] \cup missedSeqs[t] = 1 .. RepeatOf[t]

(* What one summary says of one test is all there is to say of it: none    *)
(* comes twice and none of its tables is out of range.                     *)
TestsSound == TypeOK /\ OneSummary

(* The summary is true of the probes (_calculate_test_statistics).         *)
SummaryIsTrue == AnsweredNotLost /\ SummaryIsComplete

(* Every test that starts leaves ping_tests, however many echoes and ACKs  *)
(* are lost: _monitor_test_completion's deadline is the fallback.          *)
EveryTestEnds == \A t \in Tests : t \in present ~> t \notin present

=============================================================================
