------------------------------ MODULE WebProofs ------------------------------
(***************************************************************************)
(* What browsers are shown is right, for every choice of the parameters:   *)
(* the gateway-uptime ledger they read, their event streams, the           *)
(* notifications sent to them and the versions of the classifier they      *)
(* edit.                                                                   *)
(***************************************************************************)
EXTENDS WebSide, LinkUptime, FiniteSetTheorems, WellFoundedInduction, TLAPS

-----------------------------------------------------------------------------
(* The gateway-uptime ledger.  Gap rows never overlap and never hide a     *)
(* counted beacon, and what the reader makes of them is no more than the   *)
(* window and what the beacons account for.                                *)
USE DEF SilenceTooLong, OpenUpRun, ExtendUpRun, ProxyWasDown, StartTaken, Kept

(* Stamps come from a clock that never steps back, and a write stays at    *)
(* most WriteDelay in its worker thread.                                   *)
StampsInv ==
    /\ \A a \in inflight : a <= now /\ now - a <= WriteDelay
    /\ row.lastBeacon <= now
    /\ row.lastTick <= now

(* last_beacon_ms is a high-water mark of the ledger: no stored row ends,  *)
(* and no counted beacon is stamped, after it.                             *)
HighWaterInv ==
    /\ \A s \in segments : s.start < s.end /\ s.end <= row.lastBeacon
    /\ \A b \in heard : b <= row.lastBeacon

IInv ==
    /\ TypeOK /\ StampsInv /\ HighWaterInv
    /\ StartKeysUnique /\ GapsDisjoint /\ GapsAreSilent

LEMMA InitIInv == Init => IInv
BY ParametersAssumption
DEF Init, IInv, TypeOK, StampsInv, HighWaterInv, StartKeysUnique, GapsDisjoint, GapsAreSilent,
    NoRow, Null, Time

LEMMA NoRowType == NoRow = [first |-> -1, lastBeacon |-> -1, openUpStart |-> -1, lastTick |-> -1]
BY DEF NoRow, Null

(* What record_link_beacon preserves: the one action that adds gap rows. *)
LEMMA RecordLinkBeaconIInv ==
    ASSUME IInv, NEW a \in inflight, RecordLinkBeacon(a)
    PROVE  IInv'
<1> DEFINE r == SeededRow(a)
<1>1. /\ a \in Nat /\ a <= now /\ now - a <= WriteDelay
      /\ WriteDelay \in Nat /\ GapTolerance \in Nat /\ now \in Nat
  BY ParametersAssumption DEF IInv, TypeOK, StampsInv, Time
<1>2. /\ r \in [first : Nat, lastBeacon : Nat \cup {-1},
                openUpStart : Nat \cup {-1}, lastTick : Nat \cup {-1}]
      /\ r.lastBeacon = row.lastBeacon
      /\ r.lastTick = row.lastTick
  BY <1>1, NoRowType DEF IInv, TypeOK, SeededRow, Row, Null, Time
<1>3. /\ inflight' = inflight \ {a}
      /\ heard' = heard \cup {a}
      /\ now' = now /\ phase' = phase /\ crashes' = crashes
  BY DEF RecordLinkBeacon
<1>4. CASE /\ r.lastBeacon = Null
           /\ row' = [r EXCEPT !.lastBeacon = a, !.openUpStart = a]
           /\ UNCHANGED segments
  <2>1. segments = {} /\ heard = {}
    BY <1>2, <1>4 DEF IInv, TypeOK, HighWaterInv, Null, Segment, Time
  <2>2. TypeOK'
    BY <1>1, <1>2, <1>3, <1>4 DEF IInv, TypeOK, Row, Null, Time
  <2>3. StampsInv' /\ HighWaterInv'
    BY <1>1, <1>2, <1>3, <1>4, <2>1 DEF IInv, StampsInv, HighWaterInv
  <2>4. StartKeysUnique' /\ GapsDisjoint' /\ GapsAreSilent'
    BY <1>4, <2>1 DEF StartKeysUnique, GapsDisjoint, GapsAreSilent
  <2> QED BY <2>2, <2>3, <2>4 DEF IInv
<1>5. CASE /\ r.lastBeacon # Null
           /\ a - r.lastBeacon > GapTolerance
           /\ row' = [r EXCEPT !.lastBeacon = a, !.openUpStart = a]
           /\ segments' = segments \cup
                 {[start |-> r.lastBeacon, end |-> a, kind |-> "gap"]}
  <2> DEFINE g == [start |-> r.lastBeacon, end |-> a, kind |-> "gap"]
  <2>1. r.lastBeacon \in Nat /\ r.lastBeacon < a /\ g \in Segment
    BY <1>1, <1>2, <1>5 DEF Null, Segment, Time
  <2>2. TypeOK'
    BY <1>1, <1>2, <1>3, <1>5, <2>1 DEF IInv, TypeOK, Row, Null, Time
  <2>3. StampsInv' /\ HighWaterInv'
    BY <1>1, <1>2, <1>3, <1>5, <2>1
    DEF IInv, TypeOK, StampsInv, HighWaterInv, Segment, Time
  <2>4. StartKeysUnique' /\ GapsDisjoint'
    BY <1>1, <1>2, <1>5, <2>1
    DEF IInv, TypeOK, HighWaterInv, StartKeysUnique, GapsDisjoint, Overlap, Segment, Time
  <2>5. GapsAreSilent'
    BY <1>1, <1>2, <1>3, <1>5, <2>1
    DEF IInv, TypeOK, StampsInv, HighWaterInv, GapsAreSilent, Segment, Time
  <2> QED BY <2>2, <2>3, <2>4, <2>5 DEF IInv
<1>6. CASE /\ r.lastBeacon # Null
           /\ ~(a - r.lastBeacon > GapTolerance)
           /\ row' = IF a > r.lastBeacon THEN [r EXCEPT !.lastBeacon = a] ELSE r
           /\ UNCHANGED segments
  <2>1. r.lastBeacon \in Nat
    BY <1>2, <1>6 DEF Null
  <2>2. TypeOK'
    BY <1>1, <1>2, <1>3, <1>6 DEF IInv, TypeOK, Row, Null, Time
  <2>3. StampsInv' /\ HighWaterInv'
    BY <1>1, <1>2, <1>3, <1>6, <2>1
    DEF IInv, TypeOK, StampsInv, HighWaterInv, Segment, Time
  <2>4. StartKeysUnique' /\ GapsDisjoint'
    BY <1>6 DEF IInv, StartKeysUnique, GapsDisjoint
  <2>5. GapsAreSilent'
    BY <1>1, <1>2, <1>3, <1>6, <2>1
    DEF IInv, TypeOK, StampsInv, HighWaterInv, GapsAreSilent, Segment, Time
  <2> QED BY <2>2, <2>3, <2>4, <2>5 DEF IInv
<1> QED BY <1>4, <1>5, <1>6, Zenon DEF RecordLinkBeacon

(* What reconcile_link_uptime_startup preserves: the one action that adds  *)
(* dark rows.                                                              *)
LEMMA ReconcileStartupIInv ==
    ASSUME IInv, ReconcileStartup
    PROVE  IInv'
<1>1. now \in Nat /\ WriteDelay \in Nat /\ DarkThreshold \in Nat
  BY ParametersAssumption DEF IInv, TypeOK, Time
<1>2. /\ now' = now /\ inflight' = inflight /\ heard' = heard /\ crashes' = crashes
      /\ phase' = "boot"
  BY DEF ReconcileStartup
<1>3. CASE row = NoRow /\ row' = [NoRow EXCEPT !.first = now] /\ UNCHANGED segments
  <2>1. segments = {} /\ heard = {}
    BY <1>3, NoRowType DEF IInv, TypeOK, HighWaterInv, Segment, Time
  <2>2. TypeOK'
    BY <1>1, <1>2, <1>3, NoRowType DEF IInv, TypeOK, Row, Null, Time
  <2> QED
    BY <1>1, <1>2, <1>3, <2>1, <2>2, NoRowType
    DEF IInv, StampsInv, HighWaterInv, StartKeysUnique, GapsDisjoint, GapsAreSilent
<1>4. CASE UNCHANGED <<row, segments>>
  BY <1>2, <1>4
  DEF IInv, TypeOK, StampsInv, HighWaterInv, StartKeysUnique, GapsDisjoint, GapsAreSilent
<1>5. CASE /\ row # NoRow
           /\ row.lastTick # Null
           /\ now - row.lastTick > DarkThreshold
           /\ ~ \E s \in segments : s.start = row.lastTick
           /\ segments' = segments \cup
                {[start |-> row.lastTick, end |-> now, kind |-> "dark"]}
           /\ row' = [row EXCEPT !.lastBeacon = now, !.openUpStart = now]
  <2> DEFINE d == [start |-> row.lastTick, end |-> now, kind |-> "dark"]
  <2>1. row \in Row /\ row.lastTick \in Nat /\ d \in Segment
    BY <1>1, <1>5 DEF IInv, TypeOK, Row, Null, Segment, Time
  <2>2. TypeOK'
    BY <1>1, <1>2, <1>5, <2>1 DEF IInv, TypeOK, Row, Null, Time
  <2>3. StampsInv' /\ HighWaterInv'
    BY <1>1, <1>2, <1>5, <2>1
    DEF IInv, TypeOK, StampsInv, HighWaterInv, Row, Null, Segment, Time
  <2>4. StartKeysUnique' /\ GapsDisjoint'
    BY <1>5 DEF IInv, StartKeysUnique, GapsDisjoint, Overlap
  <2>5. GapsAreSilent'
    BY <1>2, <1>5 DEF IInv, GapsAreSilent
  <2> QED BY <2>2, <2>3, <2>4, <2>5 DEF IInv
<1> QED BY <1>3, <1>4, <1>5 DEF ReconcileStartup

LEMMA NextIInv == IInv /\ [Next]_vars => IInv'
<1> SUFFICES ASSUME IInv, [Next]_vars PROVE IInv'
  OBVIOUS
<1> USE ParametersAssumption
<1>1. ASSUME NEW m \in Frames, BeaconArrives(m) PROVE IInv'
  BY <1>1 DEF BeaconArrives, IInv, TypeOK, StampsInv, HighWaterInv, StartKeysUnique, GapsDisjoint,
              GapsAreSilent, Time
<1>2. ASSUME NEW a \in inflight, RecordLinkBeacon(a) PROVE IInv'
  BY <1>2, RecordLinkBeaconIInv
<1>3. ASSUME LinkUptimeTick PROVE IInv'
  <2>1. /\ SeededRow(now) \in Row
        /\ SeededRow(now).lastBeacon = row.lastBeacon
    BY NoRowType DEF IInv, TypeOK, SeededRow, Row, Null, Time
  <2>2. TypeOK'
    BY <1>3, <2>1 DEF LinkUptimeTick, IInv, TypeOK, Row, Time
  <2> QED
    BY <1>3, <2>1, <2>2
    DEF LinkUptimeTick, IInv, TypeOK, StampsInv, HighWaterInv, StartKeysUnique, GapsDisjoint,
        GapsAreSilent, Row, Time
<1>4. ASSUME ReconcileStartup PROVE IInv'
  BY <1>4, ReconcileStartupIInv
<1>5. ASSUME StartServices PROVE IInv'
  BY <1>5 DEF StartServices, IInv, TypeOK, StampsInv, HighWaterInv, StartKeysUnique, GapsDisjoint,
              GapsAreSilent
<1>6. ASSUME Crash PROVE IInv'
  BY <1>6 DEF Crash, IInv, TypeOK, StampsInv, HighWaterInv, StartKeysUnique, GapsDisjoint, GapsAreSilent
<1>7. ASSUME Prune PROVE IInv'
  BY <1>7 DEF Prune, IInv, TypeOK, StampsInv, HighWaterInv, StartKeysUnique, GapsDisjoint, GapsAreSilent
<1>8. ASSUME Clock PROVE IInv'
  <2>1. row.lastBeacon \in Int /\ row.lastTick \in Int
    BY NoRowType DEF IInv, TypeOK, Row, Null, Time
  <2>2. TypeOK' /\ HighWaterInv' /\ StartKeysUnique' /\ GapsDisjoint' /\ GapsAreSilent'
    BY <1>8 DEF Clock, IInv, TypeOK, HighWaterInv, StartKeysUnique, GapsDisjoint, GapsAreSilent, Time
  <2>3. StampsInv'
    BY <1>8, <2>1 DEF Clock, IInv, TypeOK, StampsInv, Time
  <2> QED BY <2>2, <2>3 DEF IInv
<1>9. CASE UNCHANGED vars
  BY <1>9 DEF vars, IInv, TypeOK, StampsInv, HighWaterInv, StartKeysUnique, GapsDisjoint, GapsAreSilent
<1> QED
  BY <1>1, <1>2, <1>3, <1>4, <1>5, <1>6, <1>7, <1>8, <1>9 DEF Next

LEMMA Inductive == Spec => []IInv
BY InitIInv, NextIInv, PTL DEF Spec

(* Every reachable ledger is well typed. *)
THEOREM TypeCorrect == Spec => []TypeOK
<1>1. IInv => TypeOK
  BY DEF IInv
<1> QED BY <1>1, Inductive, PTL

(* For all thresholds, delays and crash patterns, no stretch of time is    *)
(* stored as an outage twice (record_link_beacon).                         *)
THEOREM GapsNeverOverlap == Spec => []GapsDisjoint
<1>1. IInv => GapsDisjoint
  BY DEF IInv
<1> QED BY <1>1, Inductive, PTL

(* For all thresholds, delays and crash patterns, no beacon write ever     *)
(* hits the primary key of link_uptime_segments.                           *)
THEOREM BeaconWritesNeverCollide == Spec => []StartKeysUnique
<1>1. IInv => StartKeysUnique
  BY DEF IInv
<1> QED BY <1>1, Inductive, PTL

(* For all thresholds, delays and crash patterns, a stored outage contains *)
(* no counted beacon older than the copies in flight when it was closed.   *)
THEOREM GapsNeverHideABeacon == Spec => []GapsAreSilent
<1>1. IInv => GapsAreSilent
  BY DEF IInv
<1> QED BY <1>1, Inductive, PTL

(* For all thresholds, delays and crash patterns, the rows of the ledger   *)
(* are typed, keyed uniquely and disjoint (record_link_beacon and          *)
(* reconcile_link_uptime_startup together).                                *)
THEOREM LedgerStaysSound == Spec => []LedgerSound
<1>1. TypeOK /\ StartKeysUnique /\ GapsDisjoint => LedgerSound
  BY DEF LedgerSound
<1> QED BY <1>1, TypeCorrect, BeaconWritesNeverCollide, GapsNeverOverlap, PTL

-----------------------------------------------------------------------------
(* The report *)

Anchored(t) == Preceded(t) => BackedUp(t)
Covered(t) == \E s \in segments : s.start <= t /\ t < s.end
Bare(t) == ~Covered(t) /\ \A d \in DarkEnds : t >= d

(* last_beacon_ms is itself an anchor, unless its dark row was pruned; and *)
(* what lies behind it in the window is covered or has an anchor near.     *)
AnchorInv == row.lastBeacon # Null => row.lastBeacon \in Anchors \/ row.lastBeacon < now - Retention
BackedInv ==
    \A t \in Int : t >= WindowStart /\ t < row.lastBeacon /\ Bare(t) => Anchored(t)

ReportInv == AnchorInv /\ BackedInv

LEMMA RowTypes ==
    ASSUME IInv
    PROVE  /\ row.lastBeacon \in Nat \cup {-1} /\ row.lastTick \in Nat \cup {-1}
           /\ now \in Nat /\ row.lastBeacon <= now
           /\ Anchors \subseteq Nat /\ \A d \in Anchors : d <= row.lastBeacon
           /\ \A s \in segments : s.start \in Nat /\ s.end \in Nat
<1>1. \A s \in segments : s.start \in Nat /\ s.end \in Nat /\ s.end <= row.lastBeacon
    BY DEF IInv, TypeOK, HighWaterInv, Time, Segment
<1>2. \A d \in Anchors : d \in Nat /\ d <= row.lastBeacon
    BY <1>1 DEF IInv, TypeOK, HighWaterInv, Time, Anchors, DarkEnds
<1>3. row.lastBeacon \in Nat \cup {-1} /\ row.lastTick \in Nat \cup {-1}
    BY NoRowType DEF IInv, TypeOK, Row, Null, Time
<1> QED
    BY <1>1, <1>2, <1>3 DEF IInv, TypeOK, StampsInv, Time

(* A step that adds anchors and rows, none of them dark, keeps what was    *)
(* backed; what it newly anchors must be near.                             *)
LEMMA MoreAnchors ==
    ASSUME NEW t \in Int, Anchored(t), Anchors \subseteq Anchors',
           ~Preceded(t) => (Anchored(t))'
    PROVE  (Anchored(t))'
BY DEF Anchored, Preceded, BackedUp

LEMMA RecordedReport ==
    ASSUME IInv, ReportInv, NEW a \in inflight, RecordLinkBeacon(a)
    PROVE  ReportInv'
<1> DEFINE last == row.lastBeacon
<1>1. /\ a \in Nat /\ now \in Nat /\ a <= now /\ now - a <= GapTolerance
      /\ GapTolerance \in Nat \ {0} /\ Retention \in Nat /\ Window \in Nat
      /\ Window + GapTolerance <= Retention
      /\ now' = now /\ WindowStart' = WindowStart /\ WindowStart = now - Window
    BY ParametersAssumption, HorizonsAssumption
       DEF IInv, TypeOK, StampsInv, Time, RecordLinkBeacon, WindowStart
<1>2. /\ SeededRow(a) \in [first : Nat, lastBeacon : Nat \cup {-1},
                           openUpStart : Nat \cup {-1}, lastTick : Nat \cup {-1}]
      /\ SeededRow(a).lastBeacon = last
    BY <1>1, NoRowType DEF IInv, TypeOK, SeededRow, Row, Null, Time
<1>3. /\ last \in Nat \cup {-1} /\ last <= now
      /\ Anchors \subseteq Nat /\ \A d \in Anchors : d <= last
      /\ Null = -1
    BY RowTypes DEF Null
<1>4. heard' = heard \cup {a}
    BY DEF RecordLinkBeacon
<1>5. CASE last = Null /\ row'.lastBeacon = a /\ segments' = segments
    <2>1. DarkEnds' = DarkEnds
        BY <1>5 DEF DarkEnds
    <2>2. Anchors = {} /\ Anchors' = {a}
        <3>1. \A d \in Anchors : FALSE
            BY <1>3, <1>5
        <3> QED
            BY <1>4, <2>1, <3>1 DEF Anchors
    <2> QED
        BY <1>1, <1>5, <2>2 DEF ReportInv, AnchorInv, BackedInv, Anchored, Preceded
<1>6. CASE /\ last # Null /\ a - last > GapTolerance /\ row'.lastBeacon = a
           /\ segments' = segments \cup {[start |-> last, end |-> a, kind |-> "gap"]}
    <2>1. DarkEnds' = DarkEnds
        BY <1>6 DEF DarkEnds
    <2>2. Anchors' = Anchors \cup {a}
        BY <1>4, <2>1 DEF Anchors
    <2>3. AnchorInv'
        BY <1>6, <2>2 DEF AnchorInv
    <2>4. ASSUME NEW t \in Int, t >= WindowStart, t < a, (Bare(t))' PROVE (Anchored(t))'
        <3>1. t < last /\ Bare(t)
            <4>1. \A s \in segments' : ~(s.start <= t /\ t < s.end)
                BY <2>4 DEF Bare, Covered
            <4>2. [start |-> last, end |-> a, kind |-> "gap"] \in segments'
                BY <1>6
            <4>3. ~(last <= t /\ t < a)
                BY <4>1, <4>2
            <4>4. ~Covered(t)
                BY <1>6, <4>1 DEF Covered
            <4> QED
                BY <1>1, <1>3, <1>6, <2>1, <2>4, <4>3, <4>4 DEF Bare
        <3>2. Anchored(t)
            BY <2>4, <3>1 DEF ReportInv, BackedInv
        <3>3. ~Preceded(t) => (Anchored(t))'
            BY <1>1, <2>2, <2>4 DEF Preceded, Anchored
        <3> QED
            BY <2>2, <3>2, <3>3, MoreAnchors
    <2> QED
        BY <1>1, <1>6, <2>3, <2>4 DEF ReportInv, BackedInv
<1>7. CASE /\ last # Null /\ ~(a - last > GapTolerance) /\ segments' = segments
           /\ row'.lastBeacon = IF a > last THEN a ELSE last
    <2>1. DarkEnds' = DarkEnds
        BY <1>7 DEF DarkEnds
    <2>2. Anchors' = Anchors \cup {a}
        BY <1>4, <2>1 DEF Anchors
    <2>3. AnchorInv'
        BY <1>1, <1>7, <2>2 DEF ReportInv, AnchorInv
    <2>4. ASSUME NEW t \in Int, t >= WindowStart, t < row'.lastBeacon, (Bare(t))'
          PROVE  (Anchored(t))'
        <3>1. Bare(t)
            BY <1>7, <2>1, <2>4 DEF Bare, Covered
        <3>2. CASE t < last
            <4>1. Anchored(t)
                BY <2>4, <3>1, <3>2 DEF ReportInv, BackedInv
            <4>2. ~Preceded(t) => (Anchored(t))'
                <5>1. ASSUME ~Preceded(t), (Preceded(t))' PROVE a <= t
                    BY <2>2, <5>1 DEF Preceded
                <5>2. ASSUME a <= t PROVE t - a < GapTolerance
                    BY <1>1, <1>3, <1>7, <3>2, <5>2
                <5> QED
                    BY <2>2, <5>1, <5>2 DEF Anchored, BackedUp
            <4> QED
                BY <2>2, <4>1, <4>2, MoreAnchors
        <3>3. CASE last <= t
            <4>1. last \in Nat /\ t - last < GapTolerance
                BY <1>1, <1>3, <1>7, <2>4, <3>3
            <4>2. ~(last < now - Retention)
                BY <1>1, <2>4, <4>1
            <4>3. last \in Anchors
                BY <1>7, <4>2 DEF ReportInv, AnchorInv
            <4> QED
                BY <2>2, <3>3, <4>1, <4>3 DEF Anchored, BackedUp
        <3> QED
            BY <1>3, <1>7, <3>2, <3>3
    <2> QED
        BY <1>1, <2>3, <2>4 DEF ReportInv, BackedInv
<1>8. \/ last = Null /\ row'.lastBeacon = a /\ segments' = segments
      \/ /\ last # Null /\ a - last > GapTolerance /\ row'.lastBeacon = a
         /\ segments' = segments \cup {[start |-> last, end |-> a, kind |-> "gap"]}
      \/ /\ last # Null /\ ~(a - last > GapTolerance) /\ segments' = segments
         /\ row'.lastBeacon = IF a > last THEN a ELSE last
    BY <1>1, <1>2 DEF RecordLinkBeacon
<1> QED
    BY <1>5, <1>6, <1>7, <1>8

LEMMA ReconciledReport ==
    ASSUME IInv, ReportInv, ReconcileStartup
    PROVE  ReportInv'
<1>1. /\ now \in Nat /\ now' = now /\ heard' = heard /\ WindowStart' = WindowStart
      /\ row.lastBeacon <= now
    BY RowTypes DEF ReconcileStartup, WindowStart
<1>2. CASE row.lastBeacon = -1 /\ row'.lastBeacon = -1 /\ segments' = segments
    <2>1. DarkEnds' = DarkEnds /\ Anchors' = Anchors
        BY <1>1, <1>2 DEF DarkEnds, Anchors
    <2>2. \A d \in Anchors : FALSE
        BY <1>2, RowTypes
    <2> QED
        BY <1>2, <2>1, <2>2 DEF ReportInv, AnchorInv, BackedInv, Anchored, Preceded, Null
<1>3. CASE UNCHANGED <<row, segments>>
    BY <1>1, <1>3
       DEF ReportInv, AnchorInv, BackedInv, Anchored, Preceded, BackedUp, Bare, Covered, Anchors,
           DarkEnds
<1>4. CASE /\ segments' = segments \cup {[start |-> row.lastTick, end |-> now, kind |-> "dark"]}
           /\ row'.lastBeacon = now
    <2> DEFINE dark == [start |-> row.lastTick, end |-> now, kind |-> "dark"]
    <2>1. now \in DarkEnds'
        <3>1. dark \in {x \in segments' : x.kind = "dark"} /\ dark.end = now
            BY <1>4
        <3> QED
            BY <3>1, Zenon DEF DarkEnds
    <2> QED
        BY <1>1, <1>4, <2>1 DEF ReportInv, AnchorInv, BackedInv, Anchors, Bare
<1> QED
    BY <1>2, <1>3, <1>4, NoRowType DEF ReconcileStartup, IInv, TypeOK, Row, Null

LEMMA PrunedReport ==
    ASSUME IInv, ReportInv, Prune
    PROVE  ReportInv'
<1>1. /\ now \in Nat /\ now' = now /\ heard' = heard /\ row' = row
      /\ WindowStart' = WindowStart /\ WindowStart = now - Window
      /\ Retention \in Nat /\ Window \in Nat /\ GapTolerance \in Nat
      /\ Window + GapTolerance <= Retention
      /\ Anchors \subseteq Nat
      /\ \A s \in segments : s.start \in Nat /\ s.end \in Nat
    BY RowTypes, ParametersAssumption, HorizonsAssumption DEF Prune, WindowStart
<1>2. segments' = {s \in segments : s.end >= now - Retention}
    BY DEF Prune
<1>3. DarkEnds' \subseteq DarkEnds /\ \A d \in DarkEnds : d >= now - Retention => d \in DarkEnds'
    BY <1>2 DEF DarkEnds
<1>4. Anchors' \subseteq Anchors /\ \A d \in Anchors : d >= now - Retention => d \in Anchors'
    BY <1>1, <1>3 DEF Anchors
<1>5. AnchorInv'
    BY <1>1, <1>4, RowTypes DEF ReportInv, AnchorInv, Null
<1>6. ASSUME NEW t \in Int, t >= WindowStart, t < row.lastBeacon, (Bare(t))'
      PROVE  (Anchored(t))'
    <2>1. \A d \in DarkEnds : d \in Nat
        BY <1>1 DEF DarkEnds
    <2>2. Bare(t)
        <3>1. ~Covered(t)
            BY <1>1, <1>2, <1>6 DEF Bare, Covered
        <3>2. \A d \in DarkEnds : t >= d
            BY <1>1, <1>3, <1>6, <2>1 DEF Bare
        <3> QED
            BY <3>1, <3>2 DEF Bare
    <2>3. Anchored(t)
        BY <1>6, <2>2 DEF ReportInv, BackedInv
    <2>4. ASSUME BackedUp(t) PROVE (BackedUp(t))'
        <3>1. PICK d \in Anchors : d <= t /\ t - d < GapTolerance
            BY <2>4 DEF BackedUp
        <3>2. d >= now - Retention
            BY <1>1, <1>6, <3>1
        <3> QED
            BY <1>4, <3>1, <3>2 DEF BackedUp
    <2>5. ASSUME (Preceded(t))' PROVE Preceded(t)
        BY <1>4, <2>5 DEF Preceded
    <2> QED
        BY <2>3, <2>4, <2>5 DEF Anchored
<1> QED
    BY <1>1, <1>5, <1>6 DEF ReportInv, BackedInv

LEMMA NextReport == IInv /\ ReportInv /\ [Next]_vars => ReportInv'
<1> SUFFICES ASSUME IInv, ReportInv, [Next]_vars PROVE ReportInv'
    OBVIOUS
<1> USE DEF ReportInv, AnchorInv, BackedInv, Anchored, Preceded, BackedUp, Bare, Covered, Anchors,
            DarkEnds, WindowStart
<1>1. ASSUME NEW a \in inflight, RecordLinkBeacon(a) PROVE ReportInv'
    BY <1>1, RecordedReport
<1>2. CASE LinkUptimeTick
    <2>1. row'.lastBeacon = row.lastBeacon
        BY <1>2, NoRowType DEF LinkUptimeTick, IInv, TypeOK, SeededRow, Row, Null, Time
    <2> QED
        BY <1>2, <2>1 DEF LinkUptimeTick
<1>3. CASE ReconcileStartup
    BY <1>3, ReconciledReport
<1>4. CASE Prune
    BY <1>4, PrunedReport
<1>5. CASE Clock
    <2>1. /\ now \in Nat /\ now' = now + 1 /\ row' = row /\ segments' = segments /\ heard' = heard
          /\ Retention \in Nat /\ Window \in Nat /\ row.lastBeacon \in Int
        BY <1>5, RowTypes, ParametersAssumption DEF Clock
    <2> QED
        BY <2>1
<1>6. CASE UNCHANGED <<now, row, segments, heard>>
    BY <1>6
<1> QED
    BY <1>1, <1>2, <1>3, <1>4, <1>5, <1>6 DEF Next, vars, BeaconArrives, StartServices, Crash

(* What the reader clips: an interval shows where it did, inside the window. *)
Intervals == BeforeFirst \cup segments \cup LiveTail
Interval == [start : Int, end : Int, kind : {"gap", "dark"}]

LEMMA LeastAndMost ==
    ASSUME NEW a \in Int, NEW b \in Int
    PROVE  /\ Max({a, b}) = (IF a >= b THEN a ELSE b)
           /\ Min({a, b}) = (IF a <= b THEN a ELSE b)
<1>1. \A x \in {a, b} : (\A y \in {a, b} : x >= y) <=> x = (IF a >= b THEN a ELSE b)
    OBVIOUS
<1>2. \A x \in {a, b} : (\A y \in {a, b} : x <= y) <=> x = (IF a <= b THEN a ELSE b)
    OBVIOUS
<1> QED
    BY <1>1, <1>2 DEF Max, Min

LEMMA IntervalTypes ==
    ASSUME IInv
    PROVE  Intervals \subseteq Interval /\ now \in Int /\ WindowStart \in Int
<1>1. now \in Nat /\ WindowStart \in Int /\ Window \in Nat
    BY RowTypes, ParametersAssumption DEF WindowStart
<1>2. segments \subseteq Interval
    BY DEF IInv, TypeOK, Segment, Time, Interval
<1>3. row.first \in Nat \cup {-1} /\ row.lastBeacon \in Nat \cup {-1}
    BY NoRowType DEF IInv, TypeOK, Row, Null, Time
<1>4. BeforeFirst \subseteq Interval
    <2>1. PICK m : m = Min({row.first, now})
        OBVIOUS
    <2>2. m \in Int
        <3>1. now \in Int /\ row.first \in Int
            BY <1>1, <1>3
        <3>2. Min({row.first, now}) = (IF row.first <= now THEN row.first ELSE now)
            BY <3>1, LeastAndMost
        <3> QED
            BY <2>1, <3>1, <3>2
    <2>3. PICK e : e = IF row.first = Null THEN now ELSE m
        OBVIOUS
    <2>4. BeforeFirst = {[start |-> WindowStart, end |-> e, kind |-> "dark"]}
        BY <2>1, <2>3, Zenon DEF BeforeFirst
    <2>5. e \in Int
        BY <1>1, <2>2, <2>3
    <2> QED
        BY <1>1, <2>4, <2>5 DEF Interval
<1>5. LiveTail \subseteq Interval
    BY <1>1, <1>3 DEF LiveTail, Interval
<1> QED
    BY <1>1, <1>2, <1>4, <1>5 DEF Intervals

LEMMA Clipping ==
    ASSUME IInv, NEW u \in Intervals
    PROVE  /\ Clip(u) \in Interval /\ Clip(u).kind = u.kind
           /\ \A t \in WindowStart .. (now - 1) :
                 Clip(u).start <= t /\ t < Clip(u).end <=> u.start <= t /\ t < u.end
<1>1. u \in Interval /\ now \in Int /\ WindowStart \in Int
    BY IntervalTypes
<1>2. /\ Max({u.start, WindowStart}) = (IF u.start >= WindowStart THEN u.start ELSE WindowStart)
      /\ Min({u.end, now}) = (IF u.end <= now THEN u.end ELSE now)
    BY <1>1, LeastAndMost DEF Interval
<1>3. PICK b, e : b = Max({u.start, WindowStart}) /\ e = Min({u.end, now})
    OBVIOUS
<1>4. b = (IF u.start >= WindowStart THEN u.start ELSE WindowStart) /\ e = (IF u.end <= now THEN u.end ELSE now)
    BY <1>2, <1>3
<1>5. Clip(u) = [u EXCEPT !.start = b, !.end = e]
    BY <1>3 DEF Clip
<1>6. Clip(u) = [start |-> b, end |-> e, kind |-> u.kind]
    BY <1>1, <1>5 DEF Interval
<1>7. b \in Int /\ e \in Int
    BY <1>1, <1>4 DEF Interval
<1> QED
    BY <1>1, <1>4, <1>6, <1>7 DEF Interval

LEMMA UpIsBare ==
    ASSUME IInv, NEW t \in UpInstants, NEW u \in Intervals
    PROVE  ~(u.start <= t /\ t < u.end)
<1> SUFFICES ASSUME u.start <= t, t < u.end PROVE FALSE
    OBVIOUS
<1>1. t \in WindowStart .. (now - 1) /\ ~ \E s \in CollectNonUp : s.start <= t /\ t < s.end
    BY DEF UpInstants
<1>2. Clip(u).start <= t /\ t < Clip(u).end /\ Clip(u) \in Interval
    BY <1>1, Clipping
<1>3. Clip(u).end > Clip(u).start
    BY <1>1, <1>2, IntervalTypes DEF Interval
<1>4. Clip(u) \in CollectNonUp
    BY <1>3, Zenon DEF CollectNonUp, Intervals
<1> QED
    BY <1>1, <1>2, <1>4

LEMMA UpIsBacked == IInv /\ ReportInv => UpIsBackedSinceRestart
<1> SUFFICES ASSUME IInv, ReportInv, NEW t \in UpInstants, Preceded(t), \A d \in DarkEnds : t >= d
             PROVE  BackedUp(t)
    BY DEF UpIsBackedSinceRestart
<1> DEFINE last == row.lastBeacon
<1>1. /\ now \in Nat /\ last \in Nat \cup {-1} /\ last <= now
      /\ GapTolerance \in Nat /\ Retention \in Nat /\ Window \in Nat
      /\ Window + GapTolerance <= Retention /\ WindowStart = now - Window
    BY RowTypes, ParametersAssumption, HorizonsAssumption DEF WindowStart
<1>2. t \in Int /\ WindowStart <= t /\ t < now
    BY <1>1 DEF UpInstants
<1>3. last \in Nat
    BY <1>1, RowTypes DEF Preceded
<1>4. CASE t < last
    <2>1. Bare(t)
        BY UpIsBare DEF Bare, Covered, Intervals
    <2> QED
        BY <1>2, <1>4, <2>1 DEF ReportInv, BackedInv, Anchored
<1>5. CASE last <= t
    <2>1. ~(now - last > GapTolerance)
        <3>1. SUFFICES ASSUME now - last > GapTolerance PROVE FALSE
            OBVIOUS
        <3>2. [start |-> last, end |-> now, kind |-> "gap"] \in LiveTail
            BY <1>3, <3>1 DEF LiveTail, Null
        <3>3. [start |-> last, end |-> now, kind |-> "gap"] \in Intervals
            BY <3>2 DEF Intervals
        <3> QED
            BY <1>2, <1>5, <3>3, UpIsBare
    <2>2. ~(last < now - Retention) /\ t - last < GapTolerance
        BY <1>1, <1>2, <1>3, <1>5, <2>1
    <2>3. last \in Anchors
        BY <1>3, <2>2 DEF ReportInv, AnchorInv, Null
    <2> QED
        BY <1>5, <2>2, <2>3 DEF BackedUp
<1> QED
    BY <1>2, <1>3, <1>4, <1>5

(* No instant of the window is in two gaps, or in a gap and up.              *)
LEMMA GapsApart ==
    ASSUME IInv, NEW s \in CollectNonUp, NEW q \in CollectNonUp, s.kind = "gap", q.kind = "gap",
           NEW t \in WindowStart .. (now - 1),
           s.start <= t, t < s.end, q.start <= t, t < q.end
    PROVE  s = q
<1>1. PICK u \in Intervals : s = Clip(u)
    BY DEF CollectNonUp, Intervals
<1>2. PICK v \in Intervals : q = Clip(v)
    BY DEF CollectNonUp, Intervals
<1>3. /\ u.kind = "gap" /\ u.start <= t /\ t < u.end
      /\ v.kind = "gap" /\ v.start <= t /\ t < v.end
    BY <1>1, <1>2, Clipping
<1>4. u \notin BeforeFirst /\ v \notin BeforeFirst
    BY <1>3 DEF BeforeFirst
<1>5. u \in Interval /\ v \in Interval /\ t \in Int
    BY IntervalTypes
<1>6. ASSUME NEW x \in segments, NEW y \in LiveTail, t < x.end, y.start <= t PROVE FALSE
    <2>1. x.end \in Nat /\ x.end <= row.lastBeacon /\ row.lastBeacon \in Nat \cup {-1}
        BY RowTypes DEF IInv, HighWaterInv
    <2>2. y.start = row.lastBeacon
        BY <2>1 DEF LiveTail, Null
    <2> QED
        BY <1>6, <2>1, <2>2
<1>7. CASE u \in segments /\ v \in segments
    <2>1. u = v
        BY <1>3, <1>5, <1>7 DEF IInv, GapsDisjoint, Overlap, Interval
    <2> QED
        BY <1>1, <1>2, <2>1
<1>8. CASE u \in LiveTail /\ v \in LiveTail
    <2>1. u = v
        BY <1>8 DEF LiveTail
    <2> QED
        BY <1>1, <1>2, <2>1
<1> QED
    BY <1>3, <1>4, <1>6, <1>7, <1>8 DEF Intervals

LEMMA NoMoreThanWindow == IInv => CoverageAtMostWindow
<1> SUFFICES ASSUME IInv PROVE ObservedMs <= Window
    BY DEF CoverageAtMostWindow
<1> DEFINE All == WindowStart .. (now - 1)
<1>1. IsFiniteSet(All) /\ Cardinality(All) = Window /\ Window \in Nat
    <2>1. now \in Nat /\ Window \in Nat /\ WindowStart = now - Window
        BY RowTypes, ParametersAssumption DEF WindowStart
    <2> QED
        BY <2>1, FS_Interval
<1>2. UpInstants \in SUBSET All
    BY DEF UpInstants
<1> HIDE DEF All
<1>3. IsFiniteSet(UpInstants) /\ All \cap UpInstants = UpInstants
    BY <1>1, <1>2, FS_Subset
<1>4. /\ IsFiniteSet(All \ UpInstants)
      /\ Cardinality(All \ UpInstants) = Cardinality(All) - Cardinality(UpInstants)
    BY <1>1, <1>3, FS_Difference
<1>5. [g \in GapInstants |-> g[2]] \in Injection(GapInstants, All \ UpInstants)
    <2>1. ASSUME NEW g \in GapInstants PROVE g[2] \in All \ UpInstants
        BY <2>1 DEF GapInstants, UpInstants, All
    <2>2. ASSUME NEW g \in GapInstants, NEW h \in GapInstants, g[2] = h[2] PROVE g = h
        <3>1. /\ g \in CollectNonUp \X (WindowStart .. (now - 1))
              /\ g[1].kind = "gap" /\ g[1].start <= g[2] /\ g[2] < g[1].end
              /\ h \in CollectNonUp \X (WindowStart .. (now - 1))
              /\ h[1].kind = "gap" /\ h[1].start <= h[2] /\ h[2] < h[1].end
            BY DEF GapInstants
        <3>2. g[1] = h[1]
            BY <2>2, <3>1, GapsApart
        <3> QED
            BY <2>2, <3>1, <3>2
    <2> QED
        BY <2>1, <2>2 DEF Injection, IsInjective
<1>6. Cardinality(GapInstants) <= Cardinality(All \ UpInstants) /\ IsFiniteSet(GapInstants)
    BY <1>4, <1>5, FS_Injection
<1>7. /\ Cardinality(UpInstants) \in Nat /\ Cardinality(GapInstants) \in Nat
    BY <1>3, <1>6, FS_CardinalityType
<1> QED
    BY <1>1, <1>4, <1>6, <1>7 DEF ObservedMs, UpMs, GapMs

(* For all thresholds, delays and crash patterns, with writes that end     *)
(* within the tolerance and rows kept for longer than a window: what       *)
(* get_link_uptime reports as observed is no more than the window, and     *)
(* since the last dark row nothing is called up that no beacon accounts    *)
(* for.                                                                    *)
THEOREM ReportStaysTrue == Spec => []ReportIsTrue
<1>1. Init => ReportInv
    BY DEF Init, ReportInv, AnchorInv, BackedInv, Anchored, Preceded, Anchors, DarkEnds, NoRow, Null
<1>2. IInv /\ ReportInv /\ [Next]_vars => (IInv /\ ReportInv)'
    BY NextIInv, NextReport
<1>3. IInv /\ ReportInv => ReportIsTrue
    BY UpIsBacked, NoMoreThanWindow DEF ReportIsTrue
<1> QED
    BY <1>1, <1>2, <1>3, InitIInv, PTL DEF Spec

-----------------------------------------------------------------------------
(* Sets of numbers have a least member.                                    *)
LEMMA Least == ASSUME NEW S \in SUBSET Nat, S # {} PROVE \E m \in S : \A k \in S : m <= k
<1>1. PICK R : R = OpToRel(<, Nat)
  BY Zenon
<1>2. IsWellFoundedOn(R, Nat)
  BY <1>1, NatLessThanWellFounded, Zenon
<1>3. \A i, j \in Nat : <<i, j>> \in R <=> i < j
  BY <1>1, Zenon DEF OpToRel
<1>4. PICK m \in S : \A k \in S : ~(<<k, m>> \in R)
  BY <1>2, WFMin
<1>5. \A k \in S : ~(k < m)
  BY <1>3, <1>4
<1> QED BY <1>5

-----------------------------------------------------------------------------
(* Event streams.                                                          *)
(* What is about: rows with a time, events, senders.                       *)
Rows == UNION {a.history \cup {copy.row : copy \in a.coming} : a \in StreamAgendas}
Events == [type : {"message"}, row : Rows] \cup [type : {"cursor"}, ts : Nat]
          \cup [type : {"blocklist"}, callsigns : SUBSET (UNION {a.bans : a \in StreamAgendas})]
          \cup [type : {"page"}, rows : SUBSET Rows]

Fields == {"stage", "connected", "queue", "shown", "base", "floor", "known", "told", "page",
           "untold", "barred"}

ClientForm(c) ==
    /\ DOMAIN c = Fields /\ c.stage \in {"away", "snapshot", "state", "live"}
    /\ c.queue \in Seq(Events) /\ c.told \in Nat /\ c.floor \in Nat
    /\ DOMAIN c.page = {"before", "rows"}
    /\ c.page.before # None => c.page.before \in Nat
    /\ c.page.rows # None => c.page.rows \subseteq Rows
    /\ c.stage # "live" => c.page = NoPage
    /\ c.stage \in {"away", "snapshot"} => \A i \in DOMAIN c.queue : c.queue[i].type # "page"

Props == {"history", "coming", "connects", "drops", "moves", "bans", "pages", "stops", "faults"}

StreamForm ==
    /\ DOMAIN scene = Props
    /\ \A copy \in scene.coming : copy.row \in Rows
    /\ scene.moves \subseteq Nat /\ scene.bans \subseteq UNION {a.bans : a \in StreamAgendas}
    /\ banned \subseteq UNION {a.bans : a \in StreamAgendas} /\ announcing \in BOOLEAN
    /\ messages \subseteq Rows /\ IsFiniteSet(messages)
    /\ DOMAIN inbound = Lanes
    /\ \A l \in Lanes : /\ inbound[l] = [stage |-> inbound[l].stage, row |-> inbound[l].row]
                        /\ inbound[l].stage \in {"store", "tell"} => inbound[l].row \in Rows
    /\ cursor \in Nat /\ \A p \in posts : p.stored \in 0 .. cursor
    /\ DOMAIN client = Browsers /\ \A b \in Browsers : ClientForm(client[b])

LEMMA RowTimes == \A msg \in Rows : msg.ts \in 0 .. Forever - 1
BY StreamAssumption DEF Rows

LEMMA EventKinds ==
    ASSUME NEW e \in Events
    PROVE  /\ e.type \in {"message", "cursor", "blocklist", "page"}
           /\ e.type = "message" => e.row \in Rows
           /\ e.type = "cursor" => e.ts \in Nat
           /\ e.type = "blocklist" => e.callsigns \subseteq UNION {a.bans : a \in StreamAgendas}
           /\ e.type = "page" => e.rows \subseteq Rows
BY DEF Events

(* Browsers that are told something have it in their queue, or are no      *)
(* longer connected.                                                       *)
Gets(c, d, e) ==
    /\ c.connected /\ Registered(c) /\ d.queue = Append(c.queue, e)
    /\ \A f \in Fields \ {"queue"} : d[f] = c[f]

CutOffAt(c, d) == ~d.connected /\ \A f \in Fields \ {"connected"} : d[f] = c[f]

LEMMA Offers ==
    ASSUME NEW c, NEW e, ClientForm(c), e \in Events
    PROVE  LET d == Offered(c, e) IN
           /\ DOMAIN d = Fields
           /\ (d = c /\ ~(Registered(c) /\ c.connected)) \/ Gets(c, d, e) \/ CutOffAt(c, d)
<1>1. CASE ~Registered(c) \/ ~c.connected
  BY <1>1 DEF Offered, ClientForm
<1>2. CASE ~(~Registered(c) \/ ~c.connected) /\ Len(c.queue) < ClientQueue
  <2>1. Offered(c, e) = [c EXCEPT !.queue = Append(@, e)]
    BY <1>2 DEF Offered
  <2> QED BY <1>2, <2>1 DEF Gets, Fields, ClientForm
<1>3. CASE ~(~Registered(c) \/ ~c.connected) /\ ~(Len(c.queue) < ClientQueue)
  <2>1. Offered(c, e) = [c EXCEPT !.connected = FALSE]
    BY <1>3 DEF Offered
  <2> QED BY <2>1 DEF CutOffAt, Fields, ClientForm
<1> QED BY <1>1, <1>2, <1>3

LEMMA OfferedForm ==
    ASSUME NEW c, NEW d, NEW e, ClientForm(c), e \in Events, DOMAIN d = Fields,
           d = c \/ Gets(c, d, e) \/ CutOffAt(c, d), e.type = "page" => c.stage = "live"
    PROVE  ClientForm(d)
<1>1. CASE Gets(c, d, e)
  <2>1. \A f \in Fields \ {"queue"} : d[f] = c[f]
    BY <1>1 DEF Gets
  <2>2. /\ d.stage = c.stage /\ d.told = c.told /\ d.floor = c.floor /\ d.page = c.page
    BY <2>1 DEF Fields
  <2>3. d.queue = Append(c.queue, e) /\ c.queue \in Seq(Events)
    BY <1>1 DEF Gets, ClientForm
  <2>4. d.queue \in Seq(Events)
    BY <2>3
  <2>5. \A i \in DOMAIN d.queue : (i \in DOMAIN c.queue /\ d.queue[i] = c.queue[i]) \/ d.queue[i] = e
    BY <2>3
  <2> QED BY <2>2, <2>4, <2>5 DEF ClientForm
<1>2. CASE CutOffAt(c, d)
  <2>1. /\ d.stage = c.stage /\ d.told = c.told /\ d.floor = c.floor /\ d.page = c.page
        /\ d.queue = c.queue
    BY <1>2 DEF CutOffAt, Fields
  <2> QED BY <2>1 DEF ClientForm
<1> QED BY <1>1, <1>2

(* What an event does to the client that takes it.                         *)
LEMMA Takes ==
    ASSUME NEW c, ClientForm(c), c.stage = "live", c.queue # <<>>
    PROVE  LET e == Head(c.queue)
               d == [Shown(c, e) EXCEPT !.queue = Tail(c.queue)] IN
           /\ e \in Events /\ DOMAIN d = Fields /\ d.queue = Tail(c.queue)
           /\ \A f \in {"stage", "connected", "base", "untold", "barred"} : d[f] = c[f]
           /\ e.type = "message" =>
                 /\ d.shown = c.shown \cup {e.row}
                 /\ \A f \in {"floor", "known", "told", "page"} : d[f] = c[f]
           /\ e.type = "cursor" =>
                 /\ d.told = IF c.told < e.ts THEN e.ts ELSE c.told
                 /\ \A f \in {"floor", "known", "shown", "page"} : d[f] = c[f]
           /\ e.type = "blocklist" =>
                 /\ d.known = e.callsigns
                 /\ \A f \in {"floor", "told", "shown", "page"} : d[f] = c[f]
           /\ e.type = "page" =>
                 /\ d.shown = c.shown \cup e.rows /\ d.floor = Floor(e.rows, c.floor)
                 /\ \A f \in {"known", "told", "page"} : d[f] = c[f]
<1> DEFINE e == Head(c.queue)
<1>1. e \in Events
  BY DEF ClientForm
<1>2. DOMAIN c = Fields
  BY DEF ClientForm
<1> HIDE DEF e
<1>3. CASE e.type = "message"
  <2>1. Shown(c, e) = [c EXCEPT !.shown = @ \cup {e.row}]
    BY <1>3 DEF Shown
  <2> QED BY <1>1, <1>2, <1>3, <2>1 DEF Fields, e
<1>4. CASE e.type = "cursor"
  <2>1. Shown(c, e) = [c EXCEPT !.told = IF @ < e.ts THEN e.ts ELSE @]
    BY <1>4 DEF Shown
  <2> QED BY <1>1, <1>2, <1>4, <2>1 DEF Fields, e
<1>5. CASE e.type = "blocklist"
  <2>1. Shown(c, e) = [c EXCEPT !.known = e.callsigns]
    BY <1>5 DEF Shown
  <2> QED BY <1>1, <1>2, <1>5, <2>1 DEF Fields, e
<1>6. CASE e.type = "page"
  <2>1. Shown(c, e) = [c EXCEPT !.shown = @ \cup e.rows, !.floor = Floor(e.rows, @)]
    BY <1>6 DEF Shown
  <2> QED BY <1>1, <1>2, <1>6, <2>1 DEF Fields, e
<1> QED BY <1>1, <1>3, <1>4, <1>5, <1>6, EventKinds

LEMMA FloorIs ==
    ASSUME NEW some \in SUBSET Rows, NEW t \in Nat
    PROVE  /\ Floor(some, t) \in Nat
           /\ some = {} => Floor(some, t) = t
           /\ some # {} => \E p \in some : Floor(some, t) = p.ts
<1>1. CASE some = {}
  BY <1>1 DEF Floor
<1>2. CASE some # {}
  <2> DEFINE S == {r.ts : r \in some}
  <2>1. S \subseteq Nat /\ S # {}
    BY <1>2, RowTimes
  <2>2. \E m \in S : \A k \in S : m <= k
    BY <2>1, Least
  <2>3. Min(S) \in S
    BY <2>2 DEF Min
  <2>4. Floor(some, t) = Min(S)
    BY <1>2 DEF Floor
  <2> QED BY <1>2, <2>1, <2>3, <2>4
<1> QED BY <1>1, <1>2

LEMMA Greater ==
    ASSUME NEW i \in Nat, NEW j \in Nat
    PROVE  Max({i, j}) = IF i < j THEN j ELSE i
<1>1. \E x \in {i, j} : \A y \in {i, j} : x >= y
  OBVIOUS
<1>2. Max({i, j}) \in {i, j} /\ \A y \in {i, j} : Max({i, j}) >= y
  BY <1>1 DEF Max
<1> QED BY <1>2

(* An event for all.                                                       *)
LEMMA Broadcasts ==
    ASSUME NEW e \in Events, e.type # "page", StreamForm, Broadcast(e)
    PROVE  /\ DOMAIN client' = Browsers /\ \A b \in Browsers : ClientForm(client[b]')
           /\ \A b \in Browsers :
                 \/ client[b]' = client[b] /\ ~(Registered(client[b]) /\ client[b].connected)
                 \/ Gets(client[b], client[b]', e)
                 \/ CutOffAt(client[b], client[b]')
<1>1. /\ DOMAIN client' = Browsers
      /\ \A b \in Browsers : client[b]' = Offered(client[b], e)
  BY DEF Broadcast
<1>2. SUFFICES ASSUME NEW b \in Browsers
      PROVE  /\ ClientForm(client[b]')
             /\ \/ client[b]' = client[b] /\ ~(Registered(client[b]) /\ client[b].connected)
                \/ Gets(client[b], client[b]', e)
                \/ CutOffAt(client[b], client[b]')
  BY <1>1
<1>3. ClientForm(client[b])
  BY DEF StreamForm
<1>4. /\ DOMAIN client[b]' = Fields
      /\ \/ client[b]' = client[b] /\ ~(Registered(client[b]) /\ client[b].connected)
         \/ Gets(client[b], client[b]', e)
         \/ CutOffAt(client[b], client[b]')
  BY <1>1, <1>3, Offers
<1>5. ClientForm(client[b]')
  BY <1>3, <1>4, OfferedForm
<1> QED BY <1>4, <1>5

LEMMA StreamForms == StreamInit => StreamForm
<1> SUFFICES ASSUME StreamInit PROVE StreamForm
  OBVIOUS
<1>1. PICK a \in StreamAgendas : scene = a
  BY DEF StreamInit
<1>2. /\ DOMAIN scene = Props /\ \A copy \in scene.coming : copy.row \in Rows
      /\ scene.history \subseteq Rows /\ IsFiniteSet(scene.history)
  BY <1>1, StreamAssumption DEF Rows, Props
<1>3. scene.moves \subseteq Nat /\ scene.bans \subseteq UNION {x.bans : x \in StreamAgendas}
  BY <1>1, StreamAssumption
<1>4. ClientForm(Away)
  BY DEF ClientForm, Away, NoPage, Fields, Forever
<1>5. DOMAIN client = Browsers /\ \A b \in Browsers : ClientForm(client[b])
  BY <1>4 DEF StreamInit
<1>6. DOMAIN inbound = Lanes /\ \A l \in Lanes : inbound[l] = [stage |-> "idle", row |-> None]
  BY DEF StreamInit, Idle
<1>7. \A l \in Lanes : /\ inbound[l] = [stage |-> inbound[l].stage, row |-> inbound[l].row]
                     /\ inbound[l].stage \notin {"store", "tell"}
  BY <1>6
<1>8. /\ banned \subseteq UNION {x.bans : x \in StreamAgendas} /\ announcing \in BOOLEAN
      /\ cursor \in Nat /\ \A p \in posts : p.stored \in 0 .. cursor
      /\ messages = scene.history
  BY DEF StreamInit
<1> QED BY <1>2, <1>3, <1>5, <1>6, <1>7, <1>8 DEF StreamForm

LEMMA Acts ==
    ASSUME StreamForm, NEW what \in Props, NEW x, Act(what, x)
    PROVE  /\ x \in scene[what] /\ DOMAIN scene' = Props
           /\ \A f \in Props : \A y \in scene'[f] : y \in scene[f]
BY DEF StreamForm, Act

(* The clients, when one of them changes.                                  *)
Only(b) == DOMAIN client' = Browsers /\ \A o \in Browsers \ {b} : client'[o] = client[o]

LEMMA Clients ==
    ASSUME StreamForm, NEW b \in Browsers, Only(b), ClientForm(client[b]')
    PROVE  DOMAIN client' = Browsers /\ \A o \in Browsers : ClientForm(client[o]')
BY DEF StreamForm, Only

SceneSame == UNCHANGED scene \/ (DOMAIN scene' = Props /\ \A f \in Props : \A y \in scene'[f] : y \in scene[f])

LEMMA Lanewise ==
    ASSUME StreamForm, NEW l \in Lanes, Receive(l) \/ StoreRow(l) \/ Tell(l)
    PROVE  /\ DOMAIN inbound' = Lanes /\ \A k \in Lanes \ {l} : inbound'[k] = inbound[k]
           /\ inbound'[l] = [stage |-> inbound'[l].stage, row |-> inbound'[l].row]
           /\ inbound'[l].stage \in {"store", "tell"} => inbound'[l].row \in Rows
           /\ SceneSame
<1>0. /\ DOMAIN inbound = Lanes /\ \A k \in Lanes : inbound[k].stage \in {"store", "tell"} => inbound[k].row \in Rows
      /\ \A k \in Lanes : inbound[k] = [stage |-> inbound[k].stage, row |-> inbound[k].row]
  BY DEF StreamForm
<1>1. CASE Receive(l)
  <2>1. PICK copy \in scene.coming :
          /\ Act("coming", copy)
          /\ inbound' = [inbound EXCEPT ![l] =
                 [stage |-> IF Decision(copy.row) = "pass" THEN "store" ELSE "tell", row |-> copy.row]]
    BY <1>1 DEF Receive
  <2>2. copy.row \in Rows
    BY DEF StreamForm
  <2>3. SceneSame
    BY <2>1, Acts DEF SceneSame, Props
  <2> QED BY <1>0, <2>1, <2>2, <2>3
<1>2. CASE StoreRow(l)
  <2>1. /\ inbound' = [inbound EXCEPT ![l].stage = "tell"] /\ inbound[l].stage = "store" /\ UNCHANGED scene
    BY <1>2 DEF StoreRow
  <2>2. inbound'[l] = [stage |-> "tell", row |-> inbound[l].row]
    BY <1>0, <2>1
  <2> QED BY <1>0, <2>1, <2>2 DEF SceneSame
<1>3. CASE Tell(l)
  BY <1>0, <1>3 DEF Tell, Idle, SceneSame
<1> QED BY <1>1, <1>2, <1>3

(* The steps of one browser, and what they do to its client.               *)
Same(c, d, fields) == \A f \in fields : d[f] = c[f]
Rest(fields) == Fields \ fields

LEMMA Leaves ==
    ASSUME StreamForm, NEW b \in Browsers, Hangup(b) \/ Lost(b)
    PROVE  Only(b) /\ client'[b] = Away /\ ClientForm(client'[b]) /\ SceneSame
<1>1. client' = [client EXCEPT ![b] = Away] /\ DOMAIN client = Browsers
  BY DEF Hangup, Lost, StreamForm
<1>2. ClientForm(Away)
  BY DEF ClientForm, Away, NoPage, Fields, Forever
<1>3. SceneSame
  <2>1. CASE Hangup(b)
    BY <2>1 DEF Hangup, SceneSame
  <2>2. CASE Lost(b)
    BY <2>2, Acts DEF Lost, SceneSame, Props
  <2> QED BY <2>1, <2>2
<1> QED BY <1>1, <1>2, <1>3 DEF Only

LEMMA Connects ==
    ASSUME StreamForm, NEW b \in Browsers, Connect(b)
    PROVE  LET d == client'[b] IN
           /\ Only(b) /\ ClientForm(d) /\ SceneSame
           /\ d.stage = "snapshot" /\ d.connected /\ d.queue = <<>> /\ d.page = NoPage
           /\ d.known = banned /\ d.told = 0 /\ d.untold = cursor
           /\ d.base = messages /\ d.barred = banned /\ d.floor = Forever
<1> DEFINE d == [Away EXCEPT !.stage = "snapshot", !.connected = TRUE, !.known = banned,
                             !.base = messages, !.untold = cursor, !.barred = banned]
<1>1. client' = [client EXCEPT ![b] = d] /\ DOMAIN client = Browsers
  BY DEF Connect, StreamForm
<1>2. Only(b) /\ client'[b] = d
  BY <1>1 DEF Only
<1>3. /\ d.stage = "snapshot" /\ d.connected /\ d.queue = <<>> /\ d.page = NoPage
      /\ d.known = banned /\ d.told = 0 /\ d.untold = cursor
      /\ d.base = messages /\ d.barred = banned /\ d.floor = Forever
      /\ DOMAIN d = Fields
  BY DEF Away, Fields
<1> HIDE DEF d
<1>4. ClientForm(d)
  BY <1>3 DEF ClientForm, NoPage, Forever
<1>5. SceneSame
  BY Acts DEF Connect, SceneSame, Props
<1> QED BY <1>2, <1>3, <1>4, <1>5

LEMMA Snapshots ==
    ASSUME StreamForm, NEW b \in Browsers, Snapshot(b)
    PROVE  /\ Only(b) /\ ClientForm(client'[b]) /\ SceneSame /\ client[b].stage = "snapshot"
           /\ \E page \in Newest(messages) :
                 /\ page \subseteq messages
                 /\ client'[b].shown = Visible(page) /\ client'[b].floor = Floor(Visible(page), Forever)
           /\ client'[b].stage = "state" /\ client'[b].base = messages
           /\ Same(client[b], client'[b], Rest({"stage", "shown", "base", "floor"}))
<1>1. PICK page \in Newest(messages) :
        client' = [client EXCEPT ![b].stage = "state", ![b].shown = Visible(page),
                                 ![b].base = messages, ![b].floor = Floor(Visible(page), Forever)]
  BY DEF Snapshot
<1>2. DOMAIN client = Browsers /\ ClientForm(client[b]) /\ messages \subseteq Rows
      /\ client[b].stage = "snapshot" /\ UNCHANGED scene
  BY DEF Snapshot, StreamForm
<1>3. DOMAIN client[b] = Fields
  BY <1>2 DEF ClientForm
<1>4. /\ Only(b)
      /\ client'[b] = [client[b] EXCEPT !.stage = "state", !.shown = Visible(page),
                                 !.base = messages, !.floor = Floor(Visible(page), Forever)]
  BY <1>1, <1>2 DEF Only
<1>5. /\ client'[b].stage = "state" /\ client'[b].base = messages
      /\ client'[b].shown = Visible(page) /\ client'[b].floor = Floor(Visible(page), Forever)
      /\ Same(client[b], client'[b], Rest({"stage", "shown", "base", "floor"}))
      /\ DOMAIN client'[b] = Fields
  BY <1>3, <1>4 DEF Fields, Same, Rest
<1>6. page \subseteq messages
  BY DEF Newest, kSubset
<1>7. Floor(Visible(page), Forever) \in Nat
  BY <1>2, <1>6, FloorIs DEF Visible, Forever
<1>8. ClientForm(client'[b])
  BY <1>2, <1>5, <1>7 DEF ClientForm, Same, Rest, Fields, NoPage
<1> QED BY <1>2, <1>4, <1>5, <1>6, <1>8 DEF SceneSame

LEMMA States ==
    ASSUME StreamForm, NEW b \in Browsers, State(b)
    PROVE  /\ Only(b) /\ ClientForm(client'[b]) /\ SceneSame /\ client[b].stage = "state"
           /\ client'[b].stage = "live" /\ client'[b].told = cursor
           /\ Same(client[b], client'[b], Rest({"stage", "told", "untold"}))
<1>1. client' = [client EXCEPT ![b].stage = "live", ![b].told = cursor, ![b].untold = None]
  BY DEF State
<1>2. /\ DOMAIN client = Browsers /\ ClientForm(client[b]) /\ cursor \in Nat
      /\ client[b].stage = "state" /\ UNCHANGED scene
  BY DEF State, StreamForm
<1>3. DOMAIN client[b] = Fields
  BY <1>2 DEF ClientForm
<1>4. Only(b) /\ client'[b] = [client[b] EXCEPT !.stage = "live", !.told = cursor, !.untold = None]
  BY <1>1, <1>2 DEF Only
<1>5. /\ client'[b].stage = "live" /\ client'[b].told = cursor /\ DOMAIN client'[b] = Fields
      /\ Same(client[b], client'[b], Rest({"stage", "told", "untold"}))
  BY <1>3, <1>4 DEF Fields, Same, Rest
<1>6. ClientForm(client'[b])
  BY <1>2, <1>5 DEF ClientForm, Same, Rest, Fields, NoPage
<1> QED BY <1>2, <1>4, <1>5, <1>6 DEF SceneSame

LEMMA Fails ==
    ASSUME StreamForm, NEW b \in Browsers, InitialFails(b)
    PROVE  /\ Only(b) /\ ClientForm(client'[b]) /\ SceneSame
           /\ client[b].stage \in {"snapshot", "state"} /\ client'[b].stage = "live"
           /\ Same(client[b], client'[b], Rest({"stage"}))
<1>1. /\ client' = [client EXCEPT ![b].stage = "live"] /\ client[b].stage \in {"snapshot", "state"}
      /\ Act("faults", client[b].stage)
  BY DEF InitialFails
<1>2. DOMAIN client = Browsers /\ ClientForm(client[b])
  BY DEF StreamForm
<1>3. DOMAIN client[b] = Fields
  BY <1>2 DEF ClientForm
<1>4. Only(b) /\ client'[b] = [client[b] EXCEPT !.stage = "live"]
  BY <1>1, <1>2 DEF Only
<1>5. /\ client'[b].stage = "live" /\ DOMAIN client'[b] = Fields
      /\ Same(client[b], client'[b], Rest({"stage"}))
  BY <1>3, <1>4 DEF Fields, Same, Rest
<1>6. ClientForm(client'[b])
  BY <1>2, <1>5 DEF ClientForm, Same, Rest, Fields, NoPage
<1>7. SceneSame
  BY <1>1, Acts DEF SceneSame, Props
<1> QED BY <1>1, <1>4, <1>5, <1>6, <1>7

LEMMA TakesForm ==
    ASSUME StreamForm, NEW b \in Browsers, Take(b)
    PROVE  /\ Only(b) /\ ClientForm(client'[b]) /\ SceneSame
           /\ client[b].stage = "live" /\ client[b].connected /\ client[b].queue # <<>>
           /\ client'[b] = [Shown(client[b], Head(client[b].queue)) EXCEPT !.queue = Tail(client[b].queue)]
<1>1. client' = [client EXCEPT ![b] =
                    [Shown(client[b], Head(client[b].queue)) EXCEPT !.queue = Tail(client[b].queue)]]
  BY DEF Take
<1>2. /\ DOMAIN client = Browsers /\ ClientForm(client[b]) /\ UNCHANGED scene
      /\ client[b].stage = "live" /\ client[b].connected /\ client[b].queue # <<>>
  BY DEF Take, StreamForm
<1> DEFINE c == client[b]
           e == Head(c.queue)
           d == [Shown(c, e) EXCEPT !.queue = Tail(c.queue)]
<1>3. Only(b) /\ client'[b] = d
  BY <1>1, <1>2 DEF Only
<1>4. c.queue \in Seq(Events) /\ c.told \in Nat /\ c.floor \in Nat
  BY <1>2 DEF ClientForm
<1>5. /\ e \in Events /\ DOMAIN d = Fields /\ d.queue = Tail(c.queue) /\ d.stage = c.stage
      /\ e.type = "message" => d.floor = c.floor /\ d.told = c.told /\ d.page = c.page
      /\ e.type = "cursor" =>
            d.floor = c.floor /\ d.told = (IF c.told < e.ts THEN e.ts ELSE c.told) /\ d.page = c.page
      /\ e.type = "blocklist" => d.floor = c.floor /\ d.told = c.told /\ d.page = c.page
      /\ e.type = "page" => d.floor = Floor(e.rows, c.floor) /\ d.told = c.told /\ d.page = c.page
  BY <1>2, Takes
<1> HIDE DEF d
<1>6. d.queue \in Seq(Events)
  BY <1>2, <1>4, <1>5
<1>7. d.floor \in Nat /\ d.told \in Nat
  BY <1>4, <1>5, EventKinds, FloorIs
<1>8. d.page = c.page
  BY <1>5, EventKinds
<1>9. ClientForm(d)
  BY <1>2, <1>5, <1>6, <1>7, <1>8 DEF ClientForm
<1> QED BY <1>2, <1>3, <1>9 DEF SceneSame, d

LEMMA Asks ==
    ASSUME StreamForm, NEW b \in Browsers, AskPage(b) \/ ReadPage(b)
    PROVE  /\ Only(b) /\ ClientForm(client'[b]) /\ SceneSame /\ client[b].stage = "live"
           /\ Same(client[b], client'[b], Fields \ {"page"})
           /\ \/ client'[b].page = [before |-> client[b].floor, rows |-> None]
              \/ /\ client[b].page.before # None /\ client'[b].page.before = client[b].page.before
                 /\ \E page \in PagesBefore(client[b].page.before) : client'[b].page.rows = Visible(page)
<1>1. DOMAIN client = Browsers /\ ClientForm(client[b]) /\ messages \subseteq Rows
  BY DEF StreamForm
<1>2. DOMAIN client[b] = Fields
  BY <1>1 DEF ClientForm
<1>3. CASE AskPage(b)
  <2>1. /\ Only(b) /\ client'[b] = [client[b] EXCEPT !.page = [before |-> client[b].floor, rows |-> None]]
        /\ client[b].stage = "live"
    BY <1>1, <1>3 DEF AskPage, Only
  <2>2. /\ Same(client[b], client'[b], Fields \ {"page"}) /\ DOMAIN client'[b] = Fields
        /\ client'[b].page = [before |-> client[b].floor, rows |-> None]
    BY <1>2, <2>1 DEF Same, Fields
  <2>3. ClientForm(client'[b])
    BY <1>1, <2>1, <2>2 DEF ClientForm, Same, Fields
  <2>4. SceneSame
    BY <1>3, Acts DEF AskPage, SceneSame, Props
  <2> QED BY <2>1, <2>2, <2>3, <2>4
<1>4. CASE ReadPage(b)
  <2>1. PICK page \in PagesBefore(client[b].page.before) : client' = [client EXCEPT ![b].page.rows = Visible(page)]
    BY <1>4 DEF ReadPage
  <2>2. /\ Only(b) /\ client'[b] = [client[b] EXCEPT !.page.rows = Visible(page)]
        /\ client[b].page.before # None
    BY <1>1, <1>4, <2>1 DEF ReadPage, Only
  <2>3. client[b].page # NoPage /\ DOMAIN client[b].page = {"before", "rows"}
    BY <1>1, <2>2 DEF NoPage, ClientForm
  <2>4. client[b].stage = "live"
    BY <1>1, <2>3 DEF ClientForm
  <2>5. /\ Same(client[b], client'[b], Fields \ {"page"}) /\ DOMAIN client'[b] = Fields
        /\ client'[b].page = [client[b].page EXCEPT !.rows = Visible(page)]
    BY <1>2, <2>2 DEF Same, Fields
  <2>6. /\ client'[b].page.before = client[b].page.before /\ client'[b].page.rows = Visible(page)
        /\ DOMAIN client'[b].page = {"before", "rows"}
    BY <2>3, <2>5
  <2>7. Visible(page) \subseteq Rows
    BY <1>1, <2>1 DEF PagesBefore, Newest, kSubset, Visible
  <2>8. ClientForm(client'[b])
    BY <1>1, <2>4, <2>5, <2>6, <2>7 DEF ClientForm, Same, Fields
  <2>9. SceneSame
    BY <1>4 DEF ReadPage, SceneSame
  <2> QED BY <2>1, <2>2, <2>4, <2>5, <2>6, <2>8, <2>9
<1> QED BY <1>3, <1>4

LEMMA Sends ==
    ASSUME StreamForm, NEW b \in Browsers, SendPage(b)
    PROVE  LET e == [type |-> "page", rows |-> client[b].page.rows] IN
           /\ Only(b) /\ ClientForm(client'[b]) /\ SceneSame /\ e \in Events
           /\ client[b].stage = "live" /\ client[b].page.rows # None /\ client'[b].page = NoPage
           /\ \/ client'[b].queue = Append(client[b].queue, e) /\ Same(client[b], client'[b], Fields \ {"queue", "page"})
              \/ ~client'[b].connected /\ Same(client[b], client'[b], Fields \ {"connected", "page"})
<1> DEFINE c == client[b]
           e == [type |-> "page", rows |-> c.page.rows]
           d == Offered(c, e)
<1>1. DOMAIN client = Browsers /\ ClientForm(c) /\ c.page.rows # None
  BY DEF StreamForm, SendPage
<1>2. c.page # NoPage /\ e \in Events
  BY <1>1 DEF NoPage, ClientForm, Events
<1>3. c.stage = "live"
  BY <1>1, <1>2 DEF ClientForm
<1>4. /\ DOMAIN d = Fields
      /\ (d = c /\ ~(Registered(c) /\ c.connected)) \/ Gets(c, d, e) \/ CutOffAt(c, d)
  BY <1>1, <1>2, Offers
<1>5. ClientForm(d)
  BY <1>1, <1>2, <1>3, <1>4, OfferedForm
<1>6. Only(b) /\ client'[b] = [d EXCEPT !.page = NoPage]
  BY <1>1 DEF SendPage, Only
<1> HIDE DEF d, c
<1>7. DOMAIN client'[b] = Fields /\ client'[b].page = NoPage /\ Same(d, client'[b], Fields \ {"page"})
  BY <1>4, <1>6 DEF Same, Fields
<1>8. ClientForm(client'[b])
  BY <1>5, <1>7 DEF ClientForm, Same, Fields, NoPage
<1>9. \/ client'[b].queue = Append(c.queue, e) /\ Same(c, client'[b], Fields \ {"queue", "page"})
      \/ ~client'[b].connected /\ Same(c, client'[b], Fields \ {"connected", "page"})
  <2>1. CASE d = c /\ ~(Registered(c) /\ c.connected)
    <3>1. ~c.connected
      BY <1>3, <2>1 DEF Registered
    <3> QED BY <1>7, <2>1, <3>1 DEF Same, Fields
  <2>2. CASE Gets(c, d, e)
    BY <1>7, <2>2 DEF Same, Fields, Gets
  <2>3. CASE CutOffAt(c, d)
    BY <1>7, <2>3 DEF Same, Fields, CutOffAt
  <2> QED BY <1>4, <2>1, <2>2, <2>3
<1>10. SceneSame
  BY DEF SendPage, SceneSame
<1> QED BY <1>1, <1>2, <1>3, <1>6, <1>7, <1>8, <1>9, <1>10 DEF c, e

SceneForm ==
    /\ DOMAIN scene = Props
    /\ \A copy \in scene.coming : copy.row \in Rows
    /\ scene.moves \subseteq Nat /\ scene.bans \subseteq UNION {a.bans : a \in StreamAgendas}

LEMMA SceneForms == ASSUME StreamForm, SceneSame PROVE SceneForm'
BY DEF StreamForm, SceneSame, SceneForm, Props

BannedForm == banned \subseteq UNION {a.bans : a \in StreamAgendas} /\ announcing \in BOOLEAN
RowsForm == messages \subseteq Rows /\ IsFiniteSet(messages)
InboundForm ==
    /\ DOMAIN inbound = Lanes
    /\ \A l \in Lanes : /\ inbound[l] = [stage |-> inbound[l].stage, row |-> inbound[l].row]
                        /\ inbound[l].stage \in {"store", "tell"} => inbound[l].row \in Rows
CursorForm == cursor \in Nat /\ \A p \in posts : p.stored \in 0 .. cursor
ClientsForm == DOMAIN client = Browsers /\ \A b \in Browsers : ClientForm(client[b])

LEMMA FormParts ==
    /\ StreamForm <=> SceneForm /\ BannedForm /\ RowsForm /\ InboundForm /\ CursorForm /\ ClientsForm
    /\ StreamForm' <=> (SceneForm /\ BannedForm /\ RowsForm /\ InboundForm /\ CursorForm /\ ClientsForm)'
BY DEF StreamForm, SceneForm, BannedForm, RowsForm, InboundForm, CursorForm, ClientsForm

LEMMA MovesForm ==
    ASSUME StreamForm, MoveCursor
    PROVE  /\ SceneForm' /\ CursorForm'
           /\ \E m \in Nat : /\ cursor' = IF cursor < m THEN m ELSE cursor
                             /\ posts' = posts \cup {[move |-> m, stored |-> cursor']}
<1>1. PICK m \in scene.moves :
        Act("moves", m) /\ cursor' = Advance(m) /\ posts' = posts \cup {[move |-> m, stored |-> cursor']}
  BY DEF MoveCursor
<1>2. m \in Nat /\ cursor \in Nat /\ \A p \in posts : p.stored \in 0 .. cursor
  BY DEF StreamForm
<1>3. cursor' = IF cursor < m THEN m ELSE cursor
  BY <1>1, <1>2, Greater DEF Advance
<1>4. SceneForm'
  BY <1>1, Acts, SceneForms DEF SceneSame, Props
<1>5. CursorForm'
  BY <1>1, <1>2, <1>3 DEF CursorForm
<1> QED BY <1>1, <1>2, <1>3, <1>4, <1>5

LEMMA Announces ==
    ASSUME StreamForm, Announce
    PROVE  Blocklist \in Events /\ Blocklist.type = "blocklist" /\ Blocklist.callsigns = banned
BY DEF StreamForm, Blocklist, Events

\* A ban is noted with every registered client.
LEMMA BansNoted ==
    ASSUME StreamForm, Ban
    PROVE  /\ DOMAIN client' = Browsers /\ SceneForm' /\ BannedForm' /\ banned \subseteq banned'
           /\ \A b \in Browsers :
                 /\ ClientForm(client[b]') /\ Same(client[b], client[b]', Rest({"barred"}))
                 /\ client[b].barred \subseteq client[b]'.barred
                 /\ Registered(client[b]) => banned' \subseteq banned \cup client[b]'.barred
<1>1. PICK s \in scene.bans :
        /\ Act("bans", s) /\ banned' = banned \cup {s} /\ announcing' = TRUE
        /\ client' = [b \in Browsers |-> IF Registered(client[b])
                                        THEN [client[b] EXCEPT !.barred = @ \cup {s}] ELSE client[b]]
  BY DEF Ban
<1>2. SceneForm' /\ BannedForm'
  BY <1>1, Acts, SceneForms, FormParts DEF SceneSame, Props, BannedForm, SceneForm
<1>3. ASSUME NEW b \in Browsers
      PROVE  /\ ClientForm(client[b]') /\ Same(client[b], client[b]', Rest({"barred"}))
             /\ client[b].barred \subseteq client[b]'.barred
             /\ Registered(client[b]) => banned' \subseteq banned \cup client[b]'.barred
  <2>1. ClientForm(client[b]) /\ DOMAIN client[b] = Fields
    BY DEF StreamForm, ClientForm
  <2>2. CASE ~Registered(client[b])
    BY <1>1, <2>1, <2>2 DEF Same, Rest
  <2>3. CASE Registered(client[b])
    <3>1. client[b]' = [client[b] EXCEPT !.barred = @ \cup {s}]
      BY <1>1, <2>3
    <3>2. /\ DOMAIN client[b]' = Fields /\ Same(client[b], client[b]', Rest({"barred"}))
          /\ client[b]'.barred = client[b].barred \cup {s}
      BY <2>1, <3>1 DEF Same, Rest, Fields
    <3>3. ClientForm(client[b]')
      BY <2>1, <3>2 DEF ClientForm, Same, Rest, Fields
    <3> QED BY <1>1, <3>2, <3>3
  <2> QED BY <2>2, <2>3
<1> QED BY <1>1, <1>2, <1>3

LEMMA FormStep ==
    ASSUME StreamForm, StreamNext
    PROVE  StreamForm'
<1> USE FormParts
<1>1. ASSUME NEW l \in Lanes, Receive(l) \/ StoreRow(l) \/ Tell(l) PROVE StreamForm'
  <2>1. SceneForm' /\ InboundForm'
    BY <1>1, Lanewise, SceneForms DEF InboundForm
  <2>2. BannedForm' /\ CursorForm'
    BY <1>1 DEF Receive, StoreRow, Tell, BannedForm, CursorForm
  <2>3. RowsForm'
    <3>1. CASE StoreRow(l)
      <4>1. messages' = messages \cup {inbound[l].row} /\ inbound[l].row \in Rows
        BY <3>1 DEF StoreRow, InboundForm
      <4>2. IsFiniteSet(messages \cup {inbound[l].row})
        BY FS_AddElement DEF RowsForm
      <4> QED BY <4>1, <4>2 DEF RowsForm
    <3> QED BY <1>1, <3>1 DEF Receive, Tell, RowsForm
  <2>4. ClientsForm'
    <3>1. CASE Tell(l) /\ Broadcast(Message(inbound[l].row))
      <4>1. inbound[l].row \in Rows
        BY <3>1 DEF Tell, InboundForm
      <4>2. Message(inbound[l].row) \in Events /\ Message(inbound[l].row).type # "page"
        BY <4>1 DEF Message, Events
      <4> QED BY <3>1, <4>2, Broadcasts DEF ClientsForm
    <3>2. CASE UNCHANGED client
      BY <3>2 DEF ClientsForm
    <3> QED BY <1>1, <3>1, <3>2 DEF Receive, StoreRow, Tell
  <2> QED BY <2>1, <2>2, <2>3, <2>4
<1>2. ASSUME NEW b \in Browsers,
             Connect(b) \/ Snapshot(b) \/ State(b) \/ InitialFails(b) \/ Take(b) \/ Hangup(b) \/ Lost(b)
             \/ AskPage(b) \/ ReadPage(b) \/ SendPage(b)
      PROVE  StreamForm'
  <2>1. Only(b) /\ ClientForm(client[b]') /\ SceneSame
    BY <1>2, Connects, Snapshots, States, Fails, TakesForm, Leaves, Asks, Sends
  <2>2. SceneForm' /\ ClientsForm'
    BY <2>1, SceneForms, Clients DEF ClientsForm
  <2>3. UNCHANGED <<banned, announcing, messages, inbound, cursor, posts>>
    BY <1>2 DEF Connect, Snapshot, State, InitialFails, Take, Hangup, Lost, AskPage, ReadPage, SendPage
  <2> QED BY <2>2, <2>3 DEF BannedForm, RowsForm, InboundForm, CursorForm
<1>3. CASE MoveCursor
  BY <1>3, MovesForm DEF MoveCursor, BannedForm, RowsForm, InboundForm, ClientsForm
<1>4. CASE TellCursor
  <2>1. PICK p \in posts : Broadcast(Cursor(p.stored)) /\ posts' = posts \ {p}
    BY <1>4 DEF TellCursor
  <2>2. Cursor(p.stored) \in Events /\ Cursor(p.stored).type # "page"
    BY DEF Cursor, Events, CursorForm
  <2>3. ClientsForm'
    BY <2>1, <2>2, Broadcasts DEF ClientsForm
  <2> QED BY <1>4, <2>1, <2>3 DEF TellCursor, SceneForm, BannedForm, RowsForm, InboundForm, CursorForm
<1>5. CASE Ban
  <2>1. ClientsForm'
    BY <1>5, BansNoted DEF ClientsForm
  <2> QED BY <1>5, <2>1, BansNoted DEF Ban, RowsForm, InboundForm, CursorForm
<1>6. CASE Announce
  <2>1. ClientsForm'
    BY <1>6, Announces, Broadcasts DEF ClientsForm, Announce
  <2> QED BY <1>6, <2>1 DEF Announce, SceneForm, BannedForm, RowsForm, InboundForm, CursorForm
<1>7. CASE Stop
  <2>1. SceneForm'
    BY <1>7, Acts, SceneForms DEF Stop, SceneSame, Props
  <2> QED BY <1>7, <2>1 DEF Stop, BannedForm, RowsForm, InboundForm, CursorForm, ClientsForm
<1> QED BY <1>1, <1>2, <1>3, <1>4, <1>5, <1>6, <1>7 DEF StreamNext

-----------------------------------------------------------------------------
(* Read cursors.  None in a browser or on its way to it is ahead of the    *)
(* stored one, and the stored one is there, in the queue, waits to be told *)
(* or is that of the connection, which the initial events are to tell.     *)
CursorIn(q, ts) == \E i \in DOMAIN q : q[i].type = "cursor" /\ q[i].ts = ts

TracksCursor(c, ts, waiting) ==
    c.connected /\ Registered(c) =>
        /\ \A i \in DOMAIN c.queue : c.queue[i].type = "cursor" => c.queue[i].ts <= ts
        /\ c.told <= ts
        /\ c.told = ts \/ c.untold = ts \/ CursorIn(c.queue, ts) \/ \E p \in waiting : p.stored = ts

\* A client that is told nothing new, or one thing more.
LEMMA CursorIsTold ==
    ASSUME NEW c, NEW d, NEW ts \in Nat, NEW ps, NEW qs, ClientForm(c), TracksCursor(c, ts, ps),
           d.connected => c.connected, Registered(d) => Registered(c),
           d.told = c.told, d.untold = c.untold,
           d.queue = c.queue \/ \E e \in Events :
               /\ d.queue = Append(c.queue, e) /\ (e.type = "cursor" => e.ts <= ts)
               /\ \A p \in ps \ qs : p.stored = ts => e.type = "cursor" /\ e.ts = ts,
           d.queue = c.queue /\ d.connected => ps \subseteq qs
    PROVE  TracksCursor(d, ts, qs)
<1>1. SUFFICES ASSUME d.connected, Registered(d) PROVE TracksCursor(d, ts, qs)
  BY DEF TracksCursor
<1>2. /\ c.connected /\ Registered(c) /\ c.queue \in Seq(Events)
      /\ \A i \in DOMAIN c.queue : c.queue[i].type = "cursor" => c.queue[i].ts <= ts
      /\ c.told <= ts
      /\ c.told = ts \/ c.untold = ts \/ CursorIn(c.queue, ts) \/ \E p \in ps : p.stored = ts
  BY <1>1 DEF TracksCursor, ClientForm
<1>3. CASE d.queue = c.queue
  <2>1. ps \subseteq qs
    BY <1>1, <1>3
  <2> QED BY <1>2, <1>3, <2>1 DEF TracksCursor
<1>4. ASSUME NEW e \in Events, d.queue = Append(c.queue, e), e.type = "cursor" => e.ts <= ts,
             \A p \in ps \ qs : p.stored = ts => e.type = "cursor" /\ e.ts = ts
      PROVE  TracksCursor(d, ts, qs)
  <2>1. /\ DOMAIN d.queue = 1 .. Len(c.queue) + 1 /\ d.queue[Len(c.queue) + 1] = e
        /\ DOMAIN c.queue = 1 .. Len(c.queue)
        /\ \A i \in DOMAIN c.queue : d.queue[i] = c.queue[i]
    BY <1>2, <1>4
  <2>2. \A i \in DOMAIN d.queue : d.queue[i].type = "cursor" => d.queue[i].ts <= ts
    BY <1>2, <1>4, <2>1
  <2>3. CursorIn(c.queue, ts) => CursorIn(d.queue, ts)
    BY <1>2, <2>1 DEF CursorIn
  <2>4. e.type = "cursor" /\ e.ts = ts => CursorIn(d.queue, ts)
    BY <1>2, <2>1 DEF CursorIn
  <2>5. (\E p \in ps : p.stored = ts) => CursorIn(d.queue, ts) \/ \E p \in qs : p.stored = ts
    BY <1>4, <2>4
  <2>6. /\ d.told <= ts
        /\ d.told = ts \/ d.untold = ts \/ CursorIn(d.queue, ts) \/ \E p \in qs : p.stored = ts
    BY <1>2, <2>3, <2>5
  <2> QED BY <2>2, <2>6 DEF TracksCursor
<1> QED BY <1>3, <1>4

LEMMA CursorIsTaken ==
    ASSUME NEW c, NEW ts \in Nat, NEW ps, ClientForm(c), TracksCursor(c, ts, ps),
           c.stage = "live", c.connected, c.queue # <<>>
    PROVE  TracksCursor([Shown(c, Head(c.queue)) EXCEPT !.queue = Tail(c.queue)], ts, ps)
<1> DEFINE e == Head(c.queue)
           d == [Shown(c, e) EXCEPT !.queue = Tail(c.queue)]
<1>1. /\ e \in Events /\ d.queue = Tail(c.queue) /\ d.stage = c.stage /\ d.connected = c.connected
      /\ d.untold = c.untold
      /\ e.type # "cursor" => d.told = c.told
      /\ e.type = "cursor" => d.told = IF c.told < e.ts THEN e.ts ELSE c.told
  BY Takes, EventKinds
<1> HIDE DEF d
<1>2. /\ c.queue \in Seq(Events) /\ c.told \in Nat /\ c.told <= ts
      /\ \A i \in DOMAIN c.queue : c.queue[i].type = "cursor" => c.queue[i].ts <= ts
      /\ c.told = ts \/ c.untold = ts \/ CursorIn(c.queue, ts) \/ \E p \in ps : p.stored = ts
  BY DEF TracksCursor, ClientForm, Registered
<1>3. /\ e = c.queue[1] /\ 1 \in DOMAIN c.queue
      /\ \A i \in DOMAIN d.queue : i + 1 \in DOMAIN c.queue /\ d.queue[i] = c.queue[i + 1]
      /\ \A i \in DOMAIN c.queue : i # 1 => i - 1 \in DOMAIN d.queue /\ d.queue[i - 1] = c.queue[i]
  BY <1>1, <1>2
<1>4. \A i \in DOMAIN d.queue : d.queue[i].type = "cursor" => d.queue[i].ts <= ts
  BY <1>2, <1>3
<1>5. e.type = "cursor" => e.ts \in Nat /\ e.ts <= ts
  BY <1>1, <1>2, <1>3, EventKinds
<1>6. d.told <= ts /\ (c.told = ts => d.told = ts)
  BY <1>1, <1>2, <1>5
<1>7. CursorIn(c.queue, ts) => d.told = ts \/ CursorIn(d.queue, ts)
  <2>1. SUFFICES ASSUME NEW i \in DOMAIN c.queue, c.queue[i].type = "cursor", c.queue[i].ts = ts
        PROVE  d.told = ts \/ CursorIn(d.queue, ts)
    BY DEF CursorIn
  <2>2. CASE i = 1
    BY <1>1, <1>2, <1>3, <2>1, <2>2
  <2>3. CASE i # 1
    BY <1>3, <2>1, <2>3 DEF CursorIn
  <2> QED BY <2>2, <2>3
<1>8. TracksCursor(d, ts, ps)
  BY <1>1, <1>2, <1>4, <1>6, <1>7 DEF TracksCursor
<1> QED BY <1>8 DEF d

-----------------------------------------------------------------------------
(* The blocklist: the last one in the queue, or else the one the browser   *)
(* has, is the server's, unless a change is yet to be broadcast.           *)
NoList(q) == \A i \in DOMAIN q : q[i].type # "blocklist"
LastList(q, list) ==
    \E i \in DOMAIN q : /\ q[i].type = "blocklist" /\ q[i].callsigns = list
                        /\ \A j \in DOMAIN q : j > i => q[j].type # "blocklist"

TracksList(c, list) ==
    c.connected /\ Registered(c) => (c.known = list /\ NoList(c.queue)) \/ LastList(c.queue, list)

LEMMA ListIsTold ==
    ASSUME NEW c, NEW d, NEW list, ClientForm(c), TracksList(c, list),
           d.connected => c.connected, Registered(d) => Registered(c), d.known = c.known,
           d.queue = c.queue \/ \E e \in Events : d.queue = Append(c.queue, e) /\ e.type # "blocklist"
    PROVE  TracksList(d, list)
<1>1. SUFFICES ASSUME d.connected, Registered(d) PROVE TracksList(d, list)
  BY DEF TracksList
<1>2. c.queue \in Seq(Events) /\ ((c.known = list /\ NoList(c.queue)) \/ LastList(c.queue, list))
  BY <1>1 DEF TracksList, ClientForm
<1>3. ASSUME NEW e \in Events, d.queue = Append(c.queue, e), e.type # "blocklist"
      PROVE  TracksList(d, list)
  <2>1. /\ DOMAIN d.queue = 1 .. Len(c.queue) + 1 /\ d.queue[Len(c.queue) + 1] = e
        /\ DOMAIN c.queue = 1 .. Len(c.queue)
        /\ \A i \in DOMAIN c.queue : d.queue[i] = c.queue[i]
    BY <1>2, <1>3
  <2>2. NoList(c.queue) => NoList(d.queue)
    BY <1>3, <2>1 DEF NoList
  <2>3. LastList(c.queue, list) => LastList(d.queue, list)
    <3>1. SUFFICES ASSUME NEW i \in DOMAIN c.queue, c.queue[i].type = "blocklist", c.queue[i].callsigns = list,
                          \A j \in DOMAIN c.queue : j > i => c.queue[j].type # "blocklist"
          PROVE  LastList(d.queue, list)
      BY DEF LastList
    <3>2. i \in DOMAIN d.queue /\ d.queue[i] = c.queue[i]
      BY <1>2, <2>1
    <3>3. \A j \in DOMAIN d.queue : j \in DOMAIN c.queue \/ j = Len(c.queue) + 1
      BY <1>2, <2>1
    <3>4. \A j \in DOMAIN d.queue : j > i => d.queue[j].type # "blocklist"
      BY <1>3, <2>1, <3>1, <3>3
    <3> QED BY <3>1, <3>2, <3>4 DEF LastList
  <2> QED BY <1>2, <2>2, <2>3 DEF TracksList
<1> QED BY <1>2, <1>3 DEF TracksList

LEMMA ListIsSent ==
    ASSUME NEW c, NEW d, NEW e \in Events, ClientForm(c), e.type = "blocklist",
           d.queue = Append(c.queue, e)
    PROVE  TracksList(d, e.callsigns)
<1>1. c.queue \in Seq(Events)
  BY DEF ClientForm
<1>2. DOMAIN d.queue = 1 .. Len(c.queue) + 1 /\ d.queue[Len(c.queue) + 1] = e /\ Len(c.queue) \in Nat
  BY <1>1
<1>3. LastList(d.queue, e.callsigns)
  BY <1>2 DEF LastList
<1> QED BY <1>3 DEF TracksList

LEMMA ListIsTaken ==
    ASSUME NEW c, NEW list, ClientForm(c), TracksList(c, list),
           c.stage = "live", c.connected, c.queue # <<>>
    PROVE  TracksList([Shown(c, Head(c.queue)) EXCEPT !.queue = Tail(c.queue)], list)
<1> DEFINE e == Head(c.queue)
           d == [Shown(c, e) EXCEPT !.queue = Tail(c.queue)]
<1>1. /\ e \in Events /\ d.queue = Tail(c.queue)
      /\ e.type # "blocklist" => d.known = c.known
      /\ e.type = "blocklist" => d.known = e.callsigns
  BY Takes, EventKinds
<1> HIDE DEF d
<1>2. c.queue \in Seq(Events) /\ ((c.known = list /\ NoList(c.queue)) \/ LastList(c.queue, list))
  BY DEF TracksList, ClientForm, Registered
<1>3. /\ e = c.queue[1] /\ 1 \in DOMAIN c.queue
      /\ \A i \in DOMAIN d.queue : i + 1 \in DOMAIN c.queue /\ d.queue[i] = c.queue[i + 1]
      /\ \A i \in DOMAIN c.queue : i # 1 => i - 1 \in DOMAIN d.queue /\ d.queue[i - 1] = c.queue[i]
  BY <1>1, <1>2
<1>0. \A i \in DOMAIN d.queue \cup DOMAIN c.queue : i \in Nat
  BY <1>1, <1>2
<1>4. ASSUME c.known = list, NoList(c.queue) PROVE TracksList(d, list)
  <2>1. NoList(d.queue) /\ d.known = list
    BY <1>1, <1>3, <1>4 DEF NoList
  <2> QED BY <2>1 DEF TracksList
<1>5. ASSUME NEW i \in DOMAIN c.queue, c.queue[i].type = "blocklist", c.queue[i].callsigns = list,
             \A j \in DOMAIN c.queue : j > i => c.queue[j].type # "blocklist"
      PROVE  TracksList(d, list)
  <2>1. CASE i = 1
    <3>1. d.known = list
      BY <1>1, <1>3, <1>5, <2>1
    <3>2. NoList(d.queue)
      <4>1. \A j \in DOMAIN d.queue : j + 1 > 1 /\ j + 1 \in DOMAIN c.queue
        BY <1>1, <1>2
      <4> QED BY <1>3, <1>5, <2>1, <4>1 DEF NoList
    <3> QED BY <3>1, <3>2 DEF TracksList
  <2>2. CASE i # 1
    <3>1. i - 1 \in DOMAIN d.queue /\ d.queue[i - 1] = c.queue[i]
      BY <1>3, <2>2
    <3>2. \A j \in DOMAIN d.queue : j > i - 1 => d.queue[j].type # "blocklist"
      BY <1>0, <1>3, <1>5
    <3>3. LastList(d.queue, list)
      BY <1>5, <3>1, <3>2 DEF LastList
    <3> QED BY <3>3 DEF TracksList
  <2> QED BY <2>1, <2>2
<1>6. TracksList(d, list)
  BY <1>2, <1>4, <1>5 DEF LastList
<1> QED BY <1>6 DEF d

-----------------------------------------------------------------------------
CursorsTracked == \A b \in Browsers : TracksCursor(client[b], cursor, posts)
ListsTracked == ~announcing => \A b \in Browsers : TracksList(client[b], banned)

LEMMA Hears ==
    ASSUME NEW c, NEW d, NEW e, Gets(c, d, e)
    PROVE  /\ c.connected /\ Registered(c) /\ d.connected = c.connected /\ d.stage = c.stage
           /\ Registered(d) /\ d.told = c.told /\ d.known = c.known /\ d.shown = c.shown
           /\ d.base = c.base /\ d.floor = c.floor /\ d.page = c.page /\ d.queue = Append(c.queue, e)
           /\ d.untold = c.untold /\ d.barred = c.barred
BY DEF Gets, Fields, Registered

\* Every browser's step but Connect leaves the client registered only if it was.
LEMMA Stays ==
    ASSUME StreamForm, NEW b \in Browsers,
           Snapshot(b) \/ State(b) \/ InitialFails(b) \/ AskPage(b) \/ ReadPage(b) \/ SendPage(b)
    PROVE  LET c == client[b]
               d == client'[b] IN
           /\ Registered(c) /\ Registered(d) /\ (d.connected => c.connected)
           /\ d.known = c.known
           /\ ~State(b) => d.told = c.told /\ d.untold = c.untold
           /\ \/ d.queue = c.queue
              \/ \E e \in Events : d.queue = Append(c.queue, e) /\ e.type = "page"
<1>1. CASE Snapshot(b)
  BY <1>1, Snapshots DEF Same, Rest, Fields, Registered
<1>2. CASE State(b)
  BY <1>2, States DEF Same, Rest, Fields, Registered
<1>3. CASE AskPage(b) \/ ReadPage(b)
  BY <1>3, Asks DEF Same, Fields, Registered
<1>4. CASE SendPage(b)
  BY <1>4, Sends DEF Same, Fields, Registered
<1>5. CASE InitialFails(b)
  BY <1>5, Fails DEF Same, Rest, Fields, Registered
<1> QED BY <1>1, <1>2, <1>3, <1>4, <1>5

LEMMA CursorsStep ==
    ASSUME StreamForm, CursorsTracked, StreamNext
    PROVE  CursorsTracked'
<1>0. cursor \in Nat /\ \A b \in Browsers : ClientForm(client[b]) /\ TracksCursor(client[b], cursor, posts)
  BY DEF StreamForm, CursorsTracked
<1>1. ASSUME NEW l \in Lanes, Receive(l) \/ StoreRow(l) \/ Tell(l) PROVE CursorsTracked'
  <2>1. UNCHANGED <<cursor, posts>>
    BY <1>1 DEF Receive, StoreRow, Tell
  <2>2. CASE Tell(l) /\ Broadcast(Message(inbound[l].row))
    <3>1. inbound[l].row \in Rows
      BY <2>2 DEF Tell, StreamForm
    <3>2. Message(inbound[l].row) \in Events /\ Message(inbound[l].row).type = "message"
      BY <3>1 DEF Message, Events
    <3>3. SUFFICES ASSUME NEW b \in Browsers PROVE TracksCursor(client[b]', cursor, posts)
      BY <2>1 DEF CursorsTracked
    <3>4. \/ client[b]' = client[b] \/ Gets(client[b], client[b]', Message(inbound[l].row))
          \/ CutOffAt(client[b], client[b]')
      BY <2>2, <3>2, Broadcasts
    <3>5. CASE Gets(client[b], client[b]', Message(inbound[l].row))
      BY <1>0, <3>2, <3>5, Hears, CursorIsTold
    <3>6. CASE CutOffAt(client[b], client[b]')
      BY <3>6 DEF CutOffAt, TracksCursor
    <3> QED BY <1>0, <3>4, <3>5, <3>6
  <2>3. CASE UNCHANGED client
    BY <2>1, <2>3 DEF CursorsTracked
  <2> QED BY <1>1, <2>2, <2>3 DEF Receive, StoreRow, Tell
<1>2. ASSUME NEW b \in Browsers,
             Connect(b) \/ Snapshot(b) \/ State(b) \/ InitialFails(b) \/ Take(b) \/ Hangup(b) \/ Lost(b)
             \/ AskPage(b) \/ ReadPage(b) \/ SendPage(b)
      PROVE  CursorsTracked'
  <2>1. UNCHANGED <<cursor, posts>>
    BY <1>2 DEF Connect, Snapshot, State, InitialFails, Take, Hangup, Lost, AskPage, ReadPage, SendPage
  <2>2. Only(b)
    BY <1>2, Connects, Snapshots, States, Fails, TakesForm, Leaves, Asks, Sends
  <2>3. SUFFICES TracksCursor(client[b]', cursor, posts)
    BY <1>0, <2>1, <2>2 DEF CursorsTracked, Only
  <2>4. CASE Connect(b)
    <3>1. client[b]'.queue = <<>> /\ client[b]'.told = 0 /\ client[b]'.untold = cursor
      BY <2>4, Connects
    <3> QED BY <1>0, <3>1 DEF TracksCursor
  <2>5. CASE Hangup(b) \/ Lost(b)
    BY <2>5, Leaves DEF TracksCursor, Away
  <2>6. CASE Take(b)
    <3>1. /\ client[b].stage = "live" /\ client[b].connected /\ client[b].queue # <<>>
          /\ client[b]' = [Shown(client[b], Head(client[b].queue)) EXCEPT !.queue = Tail(client[b].queue)]
      BY <2>6, TakesForm
    <3>2. ClientForm(client[b]) /\ TracksCursor(client[b], cursor, posts) /\ cursor \in Nat
      BY <1>0
    <3>3. TracksCursor([Shown(client[b], Head(client[b].queue)) EXCEPT !.queue = Tail(client[b].queue)],
                       cursor, posts)
      BY <3>1, <3>2, CursorIsTaken
    <3> QED BY <3>1, <3>3
  <2>7. CASE Snapshot(b) \/ AskPage(b) \/ ReadPage(b) \/ SendPage(b)
    <3>1. ~State(b)
      BY <2>7, Snapshots, Asks, Sends DEF State
    <3> QED BY <1>0, <2>7, <3>1, Stays, CursorIsTold
  <2>8. CASE State(b)
    BY <1>0, <2>8, States DEF Same, Rest, Fields, TracksCursor, Registered
  <2>9. CASE InitialFails(b)
    BY <1>0, <2>9, Fails DEF Same, Rest, Fields, TracksCursor, Registered
  <2> QED BY <1>2, <2>4, <2>5, <2>6, <2>7, <2>8, <2>9
<1>3. CASE MoveCursor
  <2>1. UNCHANGED client
    BY <1>3 DEF MoveCursor
  <2>2. PICK m \in Nat : /\ cursor' = IF cursor < m THEN m ELSE cursor
                         /\ posts' = posts \cup {[move |-> m, stored |-> cursor']}
    BY <1>3, MovesForm
  <2>3. cursor' \in Nat /\ cursor <= cursor' /\ \E p \in posts' : p.stored = cursor'
    <3>1. [move |-> m, stored |-> cursor'] \in posts' /\ [move |-> m, stored |-> cursor'].stored = cursor'
      BY <2>2
    <3>2. \E p \in posts' : p.stored = cursor'
      BY <3>1
    <3>3. cursor' \in Nat /\ cursor <= cursor'
      BY <1>0, <2>2
    <3> QED BY <3>2, <3>3
  <2>4. SUFFICES ASSUME NEW b \in Browsers PROVE TracksCursor(client[b], cursor', posts')
    BY <2>1 DEF CursorsTracked
  <2>5. /\ client[b].queue \in Seq(Events) /\ client[b].told \in Nat
        /\ TracksCursor(client[b], cursor, posts)
    BY <1>0 DEF ClientForm
  <2>6. \A i \in DOMAIN client[b].queue : client[b].queue[i].type = "cursor" =>
            client[b].queue[i].ts \in Nat
    BY <2>5, EventKinds
  <2> QED BY <1>0, <2>3, <2>5, <2>6 DEF TracksCursor
<1>4. CASE TellCursor
  <2>1. PICK p \in posts : Broadcast(Cursor(p.stored)) /\ posts' = posts \ {p}
    BY <1>4 DEF TellCursor
  <2>2. /\ Cursor(p.stored) \in Events /\ Cursor(p.stored).type = "cursor" /\ Cursor(p.stored).ts = p.stored
        /\ p.stored <= cursor /\ UNCHANGED cursor
    BY <1>0, <1>4 DEF Cursor, Events, StreamForm, TellCursor
  <2>3. SUFFICES ASSUME NEW b \in Browsers PROVE TracksCursor(client[b]', cursor, posts')
    BY <2>2 DEF CursorsTracked
  <2>4. \/ client[b]' = client[b] /\ ~(Registered(client[b]) /\ client[b].connected)
        \/ Gets(client[b], client[b]', Cursor(p.stored))
        \/ CutOffAt(client[b], client[b]')
    BY <2>1, <2>2, Broadcasts
  <2>5. CASE Gets(client[b], client[b]', Cursor(p.stored))
    <3>1. client[b].queue \in Seq(Events)
      BY <1>0 DEF ClientForm
    <3>2. client[b]'.queue # client[b].queue
      <4>1. Len(Append(client[b].queue, Cursor(p.stored))) = Len(client[b].queue) + 1
            /\ Len(client[b].queue) \in Nat
        BY <2>2, <3>1
      <4> QED BY <2>5, <4>1, Hears
    <3>3. \A x \in posts \ posts' : x.stored = cursor => Cursor(p.stored).ts = cursor
      BY <2>1, <2>2
    <3> QED BY <1>0, <2>2, <2>5, <3>2, <3>3, Hears, CursorIsTold
  <2>6. CASE CutOffAt(client[b], client[b]')
    BY <2>6 DEF CutOffAt, TracksCursor
  <2>7. CASE client[b]' = client[b] /\ ~(Registered(client[b]) /\ client[b].connected)
    BY <2>7 DEF TracksCursor
  <2> QED BY <2>4, <2>5, <2>6, <2>7
<1>5. CASE Announce
  <2>1. UNCHANGED <<cursor, posts>> /\ Broadcast(Blocklist)
    BY <1>5 DEF Announce
  <2>2. SUFFICES ASSUME NEW b \in Browsers PROVE TracksCursor(client[b]', cursor, posts)
    BY <2>1 DEF CursorsTracked
  <2>3. \/ client[b]' = client[b] \/ Gets(client[b], client[b]', Blocklist) \/ CutOffAt(client[b], client[b]')
    BY <1>5, <2>1, Announces, Broadcasts
  <2>4. CASE Gets(client[b], client[b]', Blocklist)
    BY <1>0, <1>5, <2>4, Announces, Hears, CursorIsTold
  <2>5. CASE CutOffAt(client[b], client[b]')
    BY <2>5 DEF CutOffAt, TracksCursor
  <2> QED BY <1>0, <2>3, <2>4, <2>5
<1>6. CASE Stop
  BY <1>6 DEF Stop, CursorsTracked
<1>7. CASE Ban
  <2>1. UNCHANGED <<cursor, posts>>
    BY <1>7 DEF Ban
  <2>2. SUFFICES ASSUME NEW b \in Browsers PROVE TracksCursor(client[b]', cursor, posts)
    BY <2>1 DEF CursorsTracked
  <2>3. Same(client[b], client[b]', Rest({"barred"}))
    BY <1>7, BansNoted
  <2> QED BY <1>0, <2>3 DEF TracksCursor, Same, Rest, Fields, Registered
<1> QED BY <1>1, <1>2, <1>3, <1>4, <1>5, <1>6, <1>7 DEF StreamNext

LEMMA ListsStep ==
    ASSUME StreamForm, ListsTracked, StreamNext
    PROVE  ListsTracked'
<1>0. /\ \A b \in Browsers : ClientForm(client[b])
      /\ ~announcing => \A b \in Browsers : TracksList(client[b], banned)
  BY DEF StreamForm, ListsTracked
<1>1. ASSUME NEW e \in Events, e.type # "blocklist", e.type # "page", Broadcast(e),
             UNCHANGED <<announcing, banned>>
      PROVE  ListsTracked'
  <2>1. SUFFICES ASSUME ~announcing, NEW b \in Browsers PROVE TracksList(client[b]', banned)
    BY <1>1 DEF ListsTracked
  <2>2. client[b]' = client[b] \/ Gets(client[b], client[b]', e) \/ CutOffAt(client[b], client[b]')
    BY <1>1, Broadcasts
  <2>3. ClientForm(client[b]) /\ TracksList(client[b], banned)
    BY <1>0, <2>1
  <2>4. CASE Gets(client[b], client[b]', e)
    BY <1>1, <2>3, <2>4, Hears, ListIsTold
  <2>5. CASE CutOffAt(client[b], client[b]')
    BY <2>5 DEF CutOffAt, TracksList
  <2> QED BY <2>2, <2>3, <2>4, <2>5
<1>2. ASSUME UNCHANGED <<client, announcing, banned>> PROVE ListsTracked'
  BY <1>2 DEF ListsTracked
<1>3. ASSUME NEW l \in Lanes, Receive(l) \/ StoreRow(l) \/ Tell(l) PROVE ListsTracked'
  <2>1. CASE Tell(l) /\ Broadcast(Message(inbound[l].row))
    <3>1. inbound[l].row \in Rows
      BY <2>1 DEF Tell, StreamForm
    <3>2. Message(inbound[l].row) \in Events /\ Message(inbound[l].row).type = "message"
      BY <3>1 DEF Message, Events
    <3>3. UNCHANGED <<announcing, banned>>
      BY <2>1 DEF Tell
    <3> QED BY <1>1, <2>1, <3>2, <3>3
  <2> QED BY <1>2, <1>3, <2>1 DEF Receive, StoreRow, Tell
<1>4. ASSUME NEW b \in Browsers,
             Connect(b) \/ Snapshot(b) \/ State(b) \/ InitialFails(b) \/ Take(b) \/ Hangup(b) \/ Lost(b)
             \/ AskPage(b) \/ ReadPage(b) \/ SendPage(b)
      PROVE  ListsTracked'
  <2>1. UNCHANGED <<announcing, banned>>
    BY <1>4 DEF Connect, Snapshot, State, InitialFails, Take, Hangup, Lost, AskPage, ReadPage, SendPage
  <2>2. Only(b)
    BY <1>4, Connects, Snapshots, States, Fails, TakesForm, Leaves, Asks, Sends
  <2>3. SUFFICES ASSUME ~announcing PROVE TracksList(client[b]', banned)
    BY <1>0, <2>1, <2>2 DEF ListsTracked, Only
  <2>4. ClientForm(client[b]) /\ TracksList(client[b], banned)
    BY <1>0, <2>3
  <2>5. CASE Connect(b)
    BY <2>5, Connects DEF TracksList, NoList
  <2>6. CASE Hangup(b) \/ Lost(b)
    BY <2>6, Leaves DEF TracksList, Away
  <2>7. CASE Take(b)
    <3>1. /\ client[b].stage = "live" /\ client[b].connected /\ client[b].queue # <<>>
          /\ client[b]' = [Shown(client[b], Head(client[b].queue)) EXCEPT !.queue = Tail(client[b].queue)]
      BY <2>7, TakesForm
    <3>2. TracksList([Shown(client[b], Head(client[b].queue)) EXCEPT !.queue = Tail(client[b].queue)], banned)
      BY <2>4, <3>1, ListIsTaken
    <3> QED BY <3>1, <3>2
  <2>8. CASE Snapshot(b) \/ State(b) \/ InitialFails(b) \/ AskPage(b) \/ ReadPage(b) \/ SendPage(b)
    BY <2>4, <2>8, Stays, ListIsTold
  <2> QED BY <1>4, <2>5, <2>6, <2>7, <2>8
<1>5. CASE TellCursor
  <2>1. PICK p \in posts : Broadcast(Cursor(p.stored))
    BY <1>5 DEF TellCursor
  <2>2. Cursor(p.stored) \in Events /\ Cursor(p.stored).type = "cursor"
    BY DEF Cursor, Events, StreamForm
  <2>3. UNCHANGED <<announcing, banned>>
    BY <1>5 DEF TellCursor
  <2> QED BY <1>1, <2>1, <2>2, <2>3
<1>6. CASE Announce
  <2>1. UNCHANGED banned /\ Broadcast(Blocklist)
    BY <1>6 DEF Announce
  <2>2. SUFFICES ASSUME NEW b \in Browsers PROVE TracksList(client[b]', banned)
    BY <2>1 DEF ListsTracked
  <2>3. \/ client[b]' = client[b] /\ ~(Registered(client[b]) /\ client[b].connected)
        \/ Gets(client[b], client[b]', Blocklist) \/ CutOffAt(client[b], client[b]')
    BY <1>6, <2>1, Announces, Broadcasts
  <2>4. CASE Gets(client[b], client[b]', Blocklist)
    BY <1>0, <1>6, <2>4, Announces, Hears, ListIsSent
  <2>5. CASE CutOffAt(client[b], client[b]')
    BY <2>5 DEF CutOffAt, TracksList
  <2>6. CASE client[b]' = client[b] /\ ~(Registered(client[b]) /\ client[b].connected)
    BY <2>6 DEF TracksList
  <2> QED BY <2>3, <2>4, <2>5, <2>6
<1>7. CASE Ban
  BY <1>7 DEF Ban, ListsTracked
<1>8. CASE MoveCursor \/ Stop
  BY <1>2, <1>8 DEF MoveCursor, Stop
<1> QED BY <1>3, <1>4, <1>5, <1>6, <1>7, <1>8 DEF StreamNext

\* What the other parts of the web side do to the streams.
Unbans ==
    /\ banned' \subseteq banned /\ announcing' \in BOOLEAN /\ (~announcing' => ~announcing /\ banned' = banned)
    /\ UNCHANGED <<scene, messages, inbound, cursor, posts, client, stopping>>

LEMMA StreamOrNot ==
    ASSUME StreamForm, [WebNext]_webVars
    PROVE  StreamNext \/ Unbans
<1>1. announcing \in BOOLEAN
  BY DEF StreamForm
<1>2. CASE StreamStep
  BY <1>2 DEF StreamStep
<1>3. CASE PushStep
  BY <1>1, <1>3 DEF PushStep, Unbans
<1>4. CASE RuleStep \/ UNCHANGED webVars
  BY <1>1, <1>4 DEF RuleStep, webVars, streamVars, Unbans
<1> QED BY <1>2, <1>3, <1>4 DEF WebNext

StateInv == StreamForm /\ CursorsTracked /\ ListsTracked

LEMMA StateInit == StreamInit => StateInv
<1> SUFFICES ASSUME StreamInit PROVE StateInv
  OBVIOUS
<1>1. \A b \in Browsers : client[b].stage = "away"
  BY DEF StreamInit, Away
<1> QED BY <1>1, StreamForms DEF StateInv, CursorsTracked, ListsTracked, TracksCursor, TracksList, Registered

LEMMA StateNext == StateInv /\ [WebNext]_webVars => StateInv'
<1> SUFFICES ASSUME StateInv, [WebNext]_webVars PROVE StateInv'
  OBVIOUS
<1>1. CASE StreamNext
  BY <1>1, FormStep, CursorsStep, ListsStep DEF StateInv
<1>2. CASE Unbans
  <2>1. StreamForm'
    BY <1>2, FormParts DEF StateInv, Unbans, SceneForm, BannedForm, RowsForm, InboundForm, CursorForm, ClientsForm
  <2>2. CursorsTracked' /\ ListsTracked'
    BY <1>2 DEF StateInv, Unbans, CursorsTracked, ListsTracked
  <2> QED BY <2>1, <2>2 DEF StateInv
<1> QED BY <1>1, <1>2, StreamOrNot DEF StateInv

LEMMA StateHolds == StateInv => StateAgrees
<1> SUFFICES ASSUME StateInv, NEW b \in Browsers, CaughtUp(b)
             PROVE  /\ posts = {} => client[b].told = cursor \/ client[b].untold = cursor
                    /\ ~announcing => client[b].known = banned
  BY DEF StateAgrees
<1>1. /\ client[b].stage = "live" /\ client[b].connected /\ client[b].queue = <<>>
      /\ TracksCursor(client[b], cursor, posts)
      /\ ~announcing => TracksList(client[b], banned)
  BY DEF CaughtUp, StateInv, CursorsTracked, ListsTracked
<1>2. DOMAIN client[b].queue = {}
  BY <1>1
<1> QED BY <1>1, <1>2 DEF TracksCursor, TracksList, Registered, CursorIn, LastList

(* A browser that has caught up agrees with the server on the blocklist    *)
(* and, unless the initial events could not tell it and it has not moved   *)
(* since, on the read cursor, for any number of browsers, moves and bans,  *)
(* and also when bans are lifted (set_read_cursor,                         *)
(* _broadcast_blocked_callsigns, initial_events).                          *)
THEOREM StateStaysTrue == WebSpec => []StateAgrees
<1>1. WebInit => StateInv
  BY StateInit DEF WebInit
<1> QED BY <1>1, StateNext, StateHolds, PTL DEF WebSpec

-----------------------------------------------------------------------------
(* No message is missed.  Of the rows a browser is to have, each has been  *)
(* shown, is in its queue, is about to be told, is muted, or shares its    *)
(* millisecond; and every page on its way to the browser starts where the  *)
(* rows it has end.                                                        *)
World == [list |-> banned, lanes |-> inbound, rows |-> messages]

MessageIn(q, msg) == \E i \in DOMAIN q : q[i].type = "message" /\ q[i].row = msg
Muted(msg, c) == msg.personal /\ msg.sender \in c.barred
Underway(msg, w) == \E l \in Lanes : w.lanes[l] = [stage |-> "tell", row |-> msg]
TwinIn(msg, w) == \E o \in w.rows : o # msg /\ o.ts = msg.ts

Near(c, msg, w) ==
    msg \in c.shown \/ MessageIn(c.queue, msg) \/ Underway(msg, w) \/ Muted(msg, c) \/ TwinIn(msg, w)

Reaches(c, ts, w) == \A msg \in c.base : msg.ts >= ts => Near(c, msg, w)
Follows(c, page, w) == \A msg \in c.base, p \in page : msg.ts >= p.ts => msg \in page \/ Near(c, msg, w)

Full(c, w) ==
    c.connected /\ Registered(c) =>
        /\ w.list \subseteq c.barred
        /\ c.base \subseteq w.rows /\ \A msg \in w.rows \ c.base : Near(c, msg, w)
        /\ Reaches(c, c.floor, w)
        /\ c.page.before # None => Reaches(c, c.page.before, w)
        /\ c.page.rows # None => Follows(c, c.page.rows, w)
        /\ \A i \in DOMAIN c.queue : c.queue[i].type = "page" => Follows(c, c.queue[i].rows, w)

LEMMA Hides == \A msg : Hidden(msg) => msg.personal /\ msg.sender \in banned
BY DEF Hidden, Decision

\* A step that takes nothing from a client.
LEMMA FullKept ==
    ASSUME NEW c, NEW d, NEW w, NEW v, Full(c, w),
           d.connected => c.connected, Registered(d) => Registered(c),
           v.list \subseteq w.list \cup d.barred, c.barred \subseteq d.barred,
           d.base = c.base, w.rows \subseteq v.rows,
           \A msg \in w.rows : Near(c, msg, w) => Near(d, msg, v),
           \A msg \in v.rows \ w.rows : Near(d, msg, v),
           d.floor = c.floor \/ Reaches(d, d.floor, v),
           d.page.before # None => d.page.before \in {c.page.before, c.floor},
           d.page.rows # None => d.page.rows = c.page.rows \/ Follows(d, d.page.rows, v),
           \A i \in DOMAIN d.queue : d.queue[i].type = "page" =>
              \/ \E k \in DOMAIN c.queue : c.queue[k] = d.queue[i]
              \/ c.page.rows # None /\ d.queue[i].rows = c.page.rows
    PROVE  Full(d, v)
<1>1. SUFFICES ASSUME d.connected, Registered(d)
      PROVE  /\ v.list \subseteq d.barred
             /\ d.base \subseteq v.rows /\ \A msg \in v.rows \ d.base : Near(d, msg, v)
             /\ Reaches(d, d.floor, v)
             /\ d.page.before # None => Reaches(d, d.page.before, v)
             /\ d.page.rows # None => Follows(d, d.page.rows, v)
             /\ \A i \in DOMAIN d.queue : d.queue[i].type = "page" => Follows(d, d.queue[i].rows, v)
  BY DEF Full
<1>2. /\ w.list \subseteq c.barred
      /\ c.base \subseteq w.rows /\ \A msg \in w.rows \ c.base : Near(c, msg, w)
      /\ Reaches(c, c.floor, w)
      /\ c.page.before # None => Reaches(c, c.page.before, w)
      /\ c.page.rows # None => Follows(c, c.page.rows, w)
      /\ \A i \in DOMAIN c.queue : c.queue[i].type = "page" => Follows(c, c.queue[i].rows, w)
  BY <1>1 DEF Full
<1>3. ASSUME NEW ts, Reaches(c, ts, w) PROVE Reaches(d, ts, v)
  BY <1>2, <1>3 DEF Reaches
<1>4. ASSUME NEW page, Follows(c, page, w) PROVE Follows(d, page, v)
  BY <1>2, <1>4 DEF Follows
<1>5. d.base \subseteq v.rows /\ \A msg \in v.rows \ d.base : Near(d, msg, v)
  BY <1>2
<1>6. Reaches(d, d.floor, v) /\ (d.page.before # None => Reaches(d, d.page.before, v))
  BY <1>2, <1>3
<1>7. d.page.rows # None => Follows(d, d.page.rows, v)
  BY <1>2, <1>4
<1>8. \A i \in DOMAIN d.queue : d.queue[i].type = "page" => Follows(d, d.queue[i].rows, v)
  BY <1>2, <1>4
<1> QED BY <1>2, <1>5, <1>6, <1>7, <1>8

\* What is added to a queue takes no message from it.
LEMMA Added ==
    ASSUME NEW c, NEW d, NEW e \in Events, ClientForm(c), d.queue = Append(c.queue, e)
    PROVE  /\ \A msg : MessageIn(c.queue, msg) => MessageIn(d.queue, msg)
           /\ e.type = "message" => MessageIn(d.queue, e.row)
           /\ \A i \in DOMAIN d.queue : (\E k \in DOMAIN c.queue : c.queue[k] = d.queue[i]) \/ d.queue[i] = e
<1>1. c.queue \in Seq(Events)
  BY DEF ClientForm
<1>2. /\ DOMAIN d.queue = 1 .. Len(c.queue) + 1 /\ d.queue[Len(c.queue) + 1] = e
      /\ DOMAIN c.queue = 1 .. Len(c.queue) /\ Len(c.queue) \in Nat
      /\ \A i \in DOMAIN c.queue : i \in DOMAIN d.queue /\ d.queue[i] = c.queue[i]
      /\ \A i \in DOMAIN d.queue : i \in DOMAIN c.queue \/ i = Len(c.queue) + 1
  BY <1>1
<1> QED BY <1>2 DEF MessageIn

LEMMA NearKept ==
    ASSUME NEW c, NEW d, NEW w, NEW v, NEW msg, Near(c, msg, w),
           c.shown \subseteq d.shown, MessageIn(c.queue, msg) => MessageIn(d.queue, msg),
           c.barred \subseteq d.barred, w.rows \subseteq v.rows,
           Underway(msg, w) => Near(d, msg, v)
    PROVE  Near(d, msg, v)
BY DEF Near, Muted, TwinIn

\* The rows beside the newest are no later than these.
LEMMA NewestAre ==
    ASSUME NEW some, NEW page \in Newest(some)
    PROVE  page \subseteq some /\ \A r \in page, o \in some \ page : o.ts <= r.ts
BY DEF Newest, kSubset

LEMMA NewestFollow ==
    ASSUME NEW some \in SUBSET messages, messages \subseteq Rows, NEW page \in Newest(some),
           NEW msg \in some, NEW p \in Visible(page), msg.ts >= p.ts
    PROVE  msg \in Visible(page) \/ Hidden(msg) \/ TwinIn(msg, World)
<1>1. page \subseteq some /\ \A r \in page, o \in some \ page : o.ts <= r.ts
  BY NewestAre
<1>2. p \in page /\ msg.ts \in Int /\ p.ts \in Int
  BY <1>1, RowTimes DEF Visible
<1>3. CASE msg \in page
  BY <1>3 DEF Visible
<1>4. CASE msg \notin page
  <2>1. msg.ts = p.ts /\ p # msg
    BY <1>1, <1>2, <1>4
  <2> QED BY <1>1, <1>2, <2>1 DEF TwinIn, World
<1> QED BY <1>3, <1>4

LEMMA SnapshotFull ==
    ASSUME StreamForm, NEW b \in Browsers, Snapshot(b), Full(client[b], World)
    PROVE  Full(client[b]', World)
<1> DEFINE d == client[b]'
<1>1. PICK page \in Newest(messages) :
        page \subseteq messages /\ d.shown = Visible(page) /\ d.floor = Floor(Visible(page), Forever)
  BY Snapshots
<1>2. /\ d.base = messages /\ client[b].stage = "snapshot"
      /\ d.queue = client[b].queue /\ d.page = client[b].page
      /\ d.connected = client[b].connected /\ d.barred = client[b].barred
  BY Snapshots DEF Same, Rest, Fields
<1>3. messages \subseteq Rows /\ ClientForm(client[b])
  BY DEF StreamForm
<1>4. d.page = NoPage /\ \A i \in DOMAIN d.queue : d.queue[i].type # "page"
  BY <1>2, <1>3 DEF ClientForm
<1>0. d.connected => banned \subseteq d.barred
  BY <1>2 DEF Full, Registered, World
<1> HIDE DEF d
<1>5. SUFFICES ASSUME d.connected, NEW msg \in messages, msg.ts >= d.floor PROVE Near(d, msg, World)
  BY <1>0, <1>2, <1>4 DEF Full, Reaches, NoPage, World, d
<1>6. msg.ts \in 0 .. Forever - 1
  BY <1>3, RowTimes
<1>7. PICK p \in Visible(page) : msg.ts >= p.ts
  <2>1. Visible(page) \in SUBSET Rows /\ Forever \in Nat
    BY <1>1, <1>3 DEF Visible, Forever
  <2>2. Visible(page) # {}
    <3>1. SUFFICES ASSUME Visible(page) = {} PROVE FALSE
      OBVIOUS
    <3>2. d.floor = Forever
      BY <1>1, <2>1, <3>1, FloorIs
    <3> QED BY <1>5, <1>6, <2>1, <3>2
  <2> QED BY <1>1, <1>5, <2>1, <2>2, FloorIs
<1>8. msg \in Visible(page) \/ Hidden(msg) \/ TwinIn(msg, World)
  BY <1>1, <1>3, <1>7, NewestFollow
<1>9. Hidden(msg) => Muted(msg, d)
  BY <1>0, <1>5, Hides DEF Muted
<1> QED BY <1>1, <1>8, <1>9 DEF Near

LEMMA AskFull ==
    ASSUME StreamForm, NEW b \in Browsers, AskPage(b) \/ ReadPage(b), Full(client[b], World)
    PROVE  Full(client[b]', World)
<1> DEFINE a == client[b]
           d == client[b]'
<1>1. /\ d.stage = a.stage /\ a.stage = "live" /\ d.connected = a.connected /\ d.queue = a.queue
      /\ d.base = a.base /\ d.floor = a.floor /\ d.shown = a.shown /\ d.barred = a.barred
  BY Asks DEF Same, Fields
<1>2. messages \subseteq Rows
  BY DEF StreamForm
<1>3. \/ d.page = [before |-> a.floor, rows |-> None]
      \/ /\ a.page.before # None /\ d.page.before = a.page.before
         /\ \E page \in PagesBefore(a.page.before) : d.page.rows = Visible(page)
  BY Asks
<1> HIDE DEF a, d
<1>4. SUFFICES ASSUME a.connected PROVE Full(d, World)
  BY <1>1 DEF Full, a, d
<1>5. /\ a.base \subseteq messages /\ banned \subseteq d.barred
      /\ a.page.before # None => Reaches(a, a.page.before, World)
  BY <1>1, <1>4 DEF Full, World, Registered, a
<1>6. \A msg : Near(a, msg, World) => Near(d, msg, World)
  BY <1>1 DEF Near, Muted
<1>7. d.page.before # None => d.page.before \in {a.page.before, a.floor}
  BY <1>3
<1>8. d.page.rows # None => Follows(d, d.page.rows, World)
  <2>1. CASE d.page = [before |-> a.floor, rows |-> None]
    BY <2>1
  <2>2. ASSUME a.page.before # None, NEW page \in PagesBefore(a.page.before), d.page.rows = Visible(page)
        PROVE  Follows(d, d.page.rows, World)
    <3>1. SUFFICES ASSUME NEW msg \in a.base, NEW p \in Visible(page), msg.ts >= p.ts
          PROVE  msg \in Visible(page) \/ Near(d, msg, World)
      BY <1>1, <2>2 DEF Follows
    <3> DEFINE some == {m \in messages : m.ts < a.page.before}
    <3>2. page \in Newest(some) /\ some \in SUBSET messages
      BY <2>2 DEF PagesBefore
    <3>3. CASE msg \in some
      <4> HIDE DEF some
      <4>1. msg \in Visible(page) \/ Hidden(msg) \/ TwinIn(msg, World)
        BY <1>2, <3>1, <3>2, <3>3, NewestFollow
      <4>2. Hidden(msg) => Muted(msg, d)
        BY <1>5, Hides DEF Muted
      <4> QED BY <4>1, <4>2 DEF Near
    <3>4. CASE msg \notin some
      <4>1. msg.ts >= a.page.before
        <5>1. msg.ts \in Int /\ ~(msg.ts < a.page.before) /\ a.page.before \in Int
          BY <1>2, <1>5, <2>2, <3>1, <3>4, RowTimes DEF StreamForm, ClientForm, a
        <5> QED BY <5>1
      <4> QED BY <1>5, <1>6, <2>2, <3>1, <4>1 DEF Reaches
    <3> QED BY <3>3, <3>4
  <2> QED BY <1>3, <2>1, <2>2
<1>9. Full(a, World)
  BY DEF a
<1>10. Registered(d) => Registered(a)
  BY <1>1 DEF Registered
<1> QED BY <1>1, <1>6, <1>7, <1>8, <1>9, <1>10, FullKept

LEMMA SendFull ==
    ASSUME StreamForm, NEW b \in Browsers, SendPage(b), Full(client[b], World)
    PROVE  Full(client[b]', World)
<1> DEFINE a == client[b]
           d == client[b]'
           e == [type |-> "page", rows |-> a.page.rows]
<1>1. /\ e \in Events /\ a.stage = "live" /\ a.page.rows # None /\ d.page = NoPage
      /\ \/ d.queue = Append(a.queue, e) /\ Same(a, d, Fields \ {"queue", "page"})
         \/ ~d.connected /\ Same(a, d, Fields \ {"connected", "page"})
  BY Sends
<1>2. ClientForm(a)
  BY DEF StreamForm
<1>3. Full(a, World)
  OBVIOUS
<1> HIDE DEF a, d
<1>4. CASE ~d.connected
  BY <1>4 DEF Full, d
<1>5. CASE d.queue = Append(a.queue, e) /\ Same(a, d, Fields \ {"queue", "page"})
  <2>1. /\ d.connected = a.connected /\ d.stage = a.stage /\ d.base = a.base /\ d.floor = a.floor
        /\ d.shown = a.shown /\ d.barred = a.barred /\ e.rows = a.page.rows
    BY <1>5 DEF Same, Fields
  <2>2. \A msg : Near(a, msg, World) => Near(d, msg, World)
    BY <1>1, <1>2, <1>5, <2>1, Added DEF Near, Muted
  <2>3. \A i \in DOMAIN d.queue : (\E k \in DOMAIN a.queue : a.queue[k] = d.queue[i]) \/ d.queue[i] = e
    BY <1>1, <1>2, <1>5, Added
  <2>4. d.page.before = None /\ d.page.rows = None
    BY <1>1 DEF NoPage
  <2>5. Full(d, World)
    <3> HIDE DEF e
    <3>1. Registered(d) => Registered(a)
      BY <2>1 DEF Registered
    <3> QED BY <1>1, <1>3, <2>1, <2>2, <2>3, <2>4, <3>1, FullKept
  <2> QED BY <2>5 DEF d
<1> QED BY <1>1, <1>4, <1>5

LEMMA TakeFull ==
    ASSUME StreamForm, NEW b \in Browsers, Take(b), Full(client[b], World)
    PROVE  Full(client[b]', World)
<1> DEFINE a == client[b]
           d == client[b]'
           e == Head(a.queue)
<1>1. /\ a.stage = "live" /\ a.connected /\ a.queue # <<>>
      /\ d = [Shown(a, e) EXCEPT !.queue = Tail(a.queue)]
  BY TakesForm
<1>2. ClientForm(a) /\ Full(a, World)
  BY DEF StreamForm
<1> HIDE DEF a
<1>3. /\ e \in Events /\ d.queue = Tail(a.queue) /\ Same(a, d, {"stage", "connected", "base", "barred"})
      /\ e.type = "message" => d.shown = a.shown \cup {e.row} /\ d.floor = a.floor /\ d.page = a.page
      /\ e.type \in {"cursor", "blocklist"} =>
            d.shown = a.shown /\ d.floor = a.floor /\ d.page = a.page
      /\ e.type = "page" =>
            d.shown = a.shown \cup e.rows /\ d.floor = Floor(e.rows, a.floor) /\ d.page = a.page
  BY <1>1, <1>2, Takes DEF Same
<1> HIDE DEF d
<1>4. /\ a.queue \in Seq(Events) /\ a.floor \in Nat
  BY <1>2 DEF ClientForm
<1>5. /\ e = a.queue[1] /\ 1 \in DOMAIN a.queue
      /\ \A i \in DOMAIN d.queue : i + 1 \in DOMAIN a.queue /\ d.queue[i] = a.queue[i + 1]
      /\ \A i \in DOMAIN a.queue : i # 1 => i - 1 \in DOMAIN d.queue /\ d.queue[i - 1] = a.queue[i]
  <2>1. /\ a.queue \in Seq(Events) /\ a.queue # <<>> /\ d.queue = Tail(a.queue) /\ e = Head(a.queue)
    BY <1>1, <1>3, <1>4
  <2> HIDE DEF e
  <2> QED BY <2>1
<1> HIDE DEF e
<1>6. /\ d.stage = a.stage /\ d.connected = a.connected /\ d.base = a.base /\ d.page = a.page
      /\ d.barred = a.barred /\ a.shown \subseteq d.shown /\ (Registered(d) => Registered(a))
  BY <1>3, EventKinds DEF Same, Registered
<1>7. ASSUME NEW msg, Near(a, msg, World) PROVE Near(d, msg, World)
  <2>1. MessageIn(a.queue, msg) => MessageIn(d.queue, msg) \/ msg \in d.shown
    <3>1. SUFFICES ASSUME NEW i \in DOMAIN a.queue, a.queue[i].type = "message", a.queue[i].row = msg
          PROVE  MessageIn(d.queue, msg) \/ msg \in d.shown
      BY DEF MessageIn
    <3>2. CASE i = 1
      BY <1>3, <1>5, <3>1, <3>2
    <3>3. CASE i # 1
      BY <1>5, <3>1, <3>3 DEF MessageIn
    <3> QED BY <3>2, <3>3
  <2> QED BY <1>6, <1>7, <2>1 DEF Near, Muted
<1>8. d.floor = a.floor \/ Reaches(d, d.floor, World)
  <2>1. SUFFICES ASSUME e.type = "page", e.rows # {} PROVE Reaches(d, d.floor, World)
    <3>1. e.type = "page" => e.rows \in SUBSET Rows
      BY <1>3, EventKinds
    <3> QED BY <1>3, <1>4, <3>1, EventKinds, FloorIs
  <2>2. e.rows \in SUBSET Rows
    BY <1>3, <2>1, EventKinds
  <2>3. PICK p \in e.rows : d.floor = p.ts
    BY <1>3, <1>4, <2>1, <2>2, FloorIs
  <2>4. Follows(a, e.rows, World)
    BY <1>1, <1>2, <1>5, <2>1 DEF Full, Registered
  <2>5. SUFFICES ASSUME NEW msg \in a.base, msg.ts >= p.ts PROVE Near(d, msg, World)
    BY <1>6, <2>3 DEF Reaches
  <2>6. CASE msg \in e.rows
    BY <1>3, <2>1, <2>6 DEF Near
  <2>7. CASE Near(a, msg, World)
    BY <1>7, <2>7
  <2> QED BY <2>4, <2>5, <2>6, <2>7 DEF Follows
<1>9. \A i \in DOMAIN d.queue : \E k \in DOMAIN a.queue : a.queue[k] = d.queue[i]
  BY <1>5
<1>10. Full(d, World)
  BY <1>2, <1>6, <1>7, <1>8, <1>9, FullKept
<1> QED BY <1>10 DEF d

LEMMA StateFull ==
    ASSUME StreamForm, NEW b \in Browsers, State(b) \/ InitialFails(b), Full(client[b], World)
    PROVE  Full(client[b]', World)
<1> DEFINE a == client[b]
           d == client[b]'
<1>1. /\ a.stage \in {"snapshot", "state"} /\ Same(a, d, Rest({"stage", "told", "untold"}))
  BY States, Fails DEF Same, Rest
<1>2. /\ d.connected = a.connected /\ d.queue = a.queue /\ d.base = a.base
      /\ d.floor = a.floor /\ d.shown = a.shown /\ d.page = a.page /\ d.barred = a.barred
  BY <1>1 DEF Same, Rest, Fields
<1>3. Full(a, World) /\ Registered(a)
  BY <1>1 DEF Registered
<1> HIDE DEF a, d
<1>4. \A msg : Near(a, msg, World) => Near(d, msg, World)
  BY <1>2 DEF Near, Muted
<1>5. Full(d, World)
  BY <1>2, <1>3, <1>4, FullKept
<1> QED BY <1>5 DEF d

\* A browser that connects is to have what is stored from now on.
LEMMA ConnectFull ==
    ASSUME StreamForm, NEW b \in Browsers, Connect(b)
    PROVE  Full(client[b]', World)
<1> DEFINE d == client[b]'
<1>1. /\ d.queue = <<>> /\ d.page = NoPage /\ d.base = messages /\ d.barred = banned
      /\ d.floor = Forever
  BY Connects
<1>2. \A msg \in messages : ~(msg.ts >= Forever)
  <2>1. SUFFICES ASSUME NEW msg \in messages PROVE ~(msg.ts >= Forever)
    OBVIOUS
  <2>2. msg.ts \in 0 .. Forever - 1
    BY RowTimes DEF StreamForm
  <2>3. Forever \in Nat
    BY DEF Forever
  <2> QED BY <2>2, <2>3
<1> HIDE DEF d
<1>3. Reaches(d, Forever, World)
  BY <1>1, <1>2 DEF Reaches
<1>4. Full(d, World)
  BY <1>1, <1>3 DEF Full, World, NoPage
<1> QED BY <1>4 DEF d

\* The world moves on, and a client hears of it or does not.
LEMMA FullSame ==
    ASSUME NEW a, NEW w, NEW v, Full(a, w), w.rows \subseteq v.rows, v.list \subseteq w.list,
           \A msg \in w.rows :
              Underway(msg, w) => Underway(msg, v) \/ (msg.personal /\ msg.sender \in w.list),
           \A msg \in v.rows \ w.rows : Underway(msg, v)
    PROVE  Full(a, v)
<1>0. SUFFICES ASSUME a.connected, Registered(a) PROVE Full(a, v)
  BY DEF Full
<1>1. \A msg \in w.rows : Near(a, msg, w) => Near(a, msg, v)
  <2>1. w.list \subseteq a.barred
    BY <1>0 DEF Full
  <2> QED BY <2>1 DEF Near, Muted, TwinIn
<1>2. \A msg \in v.rows \ w.rows : Near(a, msg, v)
  BY DEF Near
<1> QED BY <1>1, <1>2, FullKept

LEMMA FullHears ==
    ASSUME NEW a, NEW d, NEW e \in Events, NEW w, NEW v, ClientForm(a), Full(a, w), Gets(a, d, e),
           e.type # "page", w.rows = v.rows, v.list \subseteq w.list,
           \A msg \in w.rows : Underway(msg, w) =>
              Underway(msg, v) \/ (e.type = "message" /\ e.row = msg)
    PROVE  Full(d, v)
<1>1. /\ d.connected = a.connected /\ d.stage = a.stage /\ d.shown = a.shown
      /\ d.base = a.base /\ d.floor = a.floor /\ d.page = a.page /\ d.queue = Append(a.queue, e)
      /\ d.barred = a.barred /\ (Registered(d) => Registered(a))
  BY Hears
<1>2. /\ \A msg : MessageIn(a.queue, msg) => MessageIn(d.queue, msg)
      /\ e.type = "message" => MessageIn(d.queue, e.row)
      /\ \A i \in DOMAIN d.queue : (\E k \in DOMAIN a.queue : a.queue[k] = d.queue[i]) \/ d.queue[i] = e
  <2>1. d.queue = Append(a.queue, e)
    BY <1>1
  <2>2. \A msg : MessageIn(a.queue, msg) => MessageIn(d.queue, msg)
    BY <2>1, Added
  <2>3. e.type = "message" => MessageIn(d.queue, e.row)
    BY <2>1, Added
  <2>4. \A i \in DOMAIN d.queue : (\E k \in DOMAIN a.queue : a.queue[k] = d.queue[i]) \/ d.queue[i] = e
    BY <2>1, Added
  <2> QED BY <2>2, <2>3, <2>4
<1>3. \A msg \in w.rows : Near(a, msg, w) => Near(d, msg, v)
  BY <1>1, <1>2 DEF Near, Muted, TwinIn
<1> QED BY <1>1, <1>2, <1>3, FullKept

LEMMA FullTold ==
    ASSUME StreamForm, NEW e \in Events, e.type # "page", Broadcast(e),
           NEW v, NEW b \in Browsers, Full(client[b], World), v.rows = messages, v.list \subseteq banned,
           \A msg \in messages : Underway(msg, World) =>
              Underway(msg, v) \/ (e.type = "message" /\ e.row = msg)
    PROVE  Full(client[b]', v)
<1>1. \/ client[b]' = client[b] /\ ~(Registered(client[b]) /\ client[b].connected)
      \/ Gets(client[b], client[b]', e)
      \/ CutOffAt(client[b], client[b]')
  BY Broadcasts
<1>2. CASE client[b]' = client[b] /\ ~(Registered(client[b]) /\ client[b].connected)
  BY <1>2 DEF Full, Registered
<1>3. CASE CutOffAt(client[b], client[b]')
  BY <1>3 DEF Full, CutOffAt
<1>4. CASE Gets(client[b], client[b]', e)
  <2>1. ClientForm(client[b])
    BY DEF StreamForm
  <2>2. World.rows = messages /\ World.list = banned
    BY DEF World
  <2> QED BY <1>4, <2>1, <2>2, FullHears
<1> QED BY <1>1, <1>2, <1>3, <1>4

AllFull == \A b \in Browsers : Full(client[b], World)

LEMMA Worlds ==
    /\ World.list = banned /\ World.lanes = inbound /\ World.rows = messages
    /\ World'.list = banned' /\ World'.lanes = inbound' /\ World'.rows = messages'
BY DEF World

LEMMA LanesFull ==
    ASSUME StreamForm, AllFull, NEW l \in Lanes, Receive(l) \/ StoreRow(l) \/ Tell(l)
    PROVE  AllFull'
<1> DEFINE v == World'
<1>1. v.list = banned /\ v.lanes = inbound' /\ v.rows = messages'
  BY Worlds DEF Receive, StoreRow, Tell
<1>2. DOMAIN inbound = Lanes /\ \A k \in Lanes : inbound[k] = [stage |-> inbound[k].stage, row |-> inbound[k].row]
  BY DEF StreamForm
<1>3. SUFFICES ASSUME NEW b \in Browsers PROVE Full(client[b]', v)
  BY DEF AllFull
<1>4. Full(client[b], World)
  BY DEF AllFull
<1> HIDE DEF v
<1>5. CASE Receive(l)
  <2>1. UNCHANGED <<client, messages>> /\ inbound[l].stage = "idle" /\ \A k \in Lanes \ {l} : inbound'[k] = inbound[k]
    BY <1>2, <1>5 DEF Receive, Idle
  <2>2. \A msg : Underway(msg, World) => Underway(msg, v)
    BY <1>1, <2>1, Worlds DEF Underway
  <2> QED BY <1>1, <1>4, <2>1, <2>2, Worlds, FullSame
<1>6. CASE StoreRow(l)
  <2>1. /\ UNCHANGED client /\ messages' = messages \cup {inbound[l].row} /\ inbound[l].stage = "store"
        /\ \A k \in Lanes \ {l} : inbound'[k] = inbound[k]
        /\ inbound'[l] = [stage |-> "tell", row |-> inbound[l].row]
    BY <1>2, <1>6 DEF StoreRow
  <2>2. \A msg : Underway(msg, World) => Underway(msg, v)
    BY <1>1, <2>1, Worlds DEF Underway
  <2>3. Underway(inbound[l].row, v)
    BY <1>1, <2>1 DEF Underway
  <2> QED BY <1>1, <1>4, <2>1, <2>2, <2>3, Worlds, FullSame
<1>7. CASE Tell(l)
  <2> DEFINE r == inbound[l].row
  <2>1. /\ UNCHANGED messages /\ \A k \in Lanes \ {l} : inbound'[k] = inbound[k]
        /\ IF Decision(r) = "drop" THEN UNCHANGED client ELSE Broadcast(Message(r))
        /\ inbound[l] = [stage |-> "tell", row |-> r] /\ r \in Rows
    BY <1>2, <1>7 DEF Tell, StreamForm
  <2>2. \A msg : Underway(msg, World) => Underway(msg, v) \/ msg = r
    BY <1>1, <2>1, Worlds DEF Underway
  <2> HIDE DEF r
  <2>3. CASE Decision(r) = "drop"
    <3>1. r.personal /\ r.sender \in banned
      BY <2>3, Hides DEF Hidden
    <3> QED BY <1>1, <1>4, <2>1, <2>2, <2>3, <3>1, Worlds, FullSame
  <2>4. CASE Decision(r) # "drop"
    <3>1. Message(r) \in Events /\ Message(r).type = "message" /\ Message(r).row = r
      BY <2>1 DEF Message, Events
    <3> HIDE DEF v
    <3> QED BY <1>1, <1>4, <2>1, <2>2, <2>4, <3>1, FullTold
  <2> QED BY <2>3, <2>4
<1> QED BY <1>5, <1>6, <1>7

LEMMA FullStep ==
    ASSUME StreamForm, AllFull, StreamNext
    PROVE  AllFull'
<1>0. /\ World'.list = banned' /\ World'.lanes = inbound' /\ World'.rows = messages'
      /\ World.lanes = inbound /\ World.rows = messages /\ World.list = banned
  BY Worlds
<1>1. ASSUME NEW l \in Lanes, Receive(l) \/ StoreRow(l) \/ Tell(l) PROVE AllFull'
  BY <1>1, LanesFull
<1>2. ASSUME NEW b \in Browsers,
             Connect(b) \/ Snapshot(b) \/ State(b) \/ InitialFails(b) \/ Take(b) \/ Hangup(b) \/ Lost(b)
             \/ AskPage(b) \/ ReadPage(b) \/ SendPage(b)
      PROVE  AllFull'
  <2>1. UNCHANGED <<banned, inbound, messages>>
    BY <1>2 DEF Connect, Snapshot, State, InitialFails, Take, Hangup, Lost, AskPage, ReadPage, SendPage
  <2>2. World' = World
    BY <2>1 DEF World
  <2>3. Only(b)
    BY <1>2, Connects, Snapshots, States, Fails, TakesForm, Leaves, Asks, Sends
  <2>4. SUFFICES Full(client[b]', World)
    <3>1. ASSUME NEW o \in Browsers PROVE Full(client[o]', World)
      BY <2>3, <2>4 DEF Only, AllFull
    <3> QED BY <2>2, <3>1 DEF AllFull
  <2>5. Full(client[b], World)
    BY DEF AllFull
  <2>6. CASE Connect(b)
    BY <2>6, ConnectFull
  <2>7. CASE Hangup(b) \/ Lost(b)
    BY <2>7, Leaves DEF Full, Away, Registered
  <2>8. CASE Take(b)
    BY <2>5, <2>8, TakeFull
  <2>9. CASE Snapshot(b)
    BY <2>5, <2>9, SnapshotFull
  <2>10. CASE State(b) \/ InitialFails(b)
    BY <2>5, <2>10, StateFull
  <2>11. CASE AskPage(b) \/ ReadPage(b)
    BY <2>5, <2>11, AskFull
  <2>12. CASE SendPage(b)
    BY <2>5, <2>12, SendFull
  <2> QED BY <1>2, <2>6, <2>7, <2>8, <2>9, <2>10, <2>11, <2>12
<1>3. ASSUME NEW e \in Events, e.type # "page", Broadcast(e), UNCHANGED <<inbound, messages, banned>>
      PROVE  AllFull'
  <2>1. SUFFICES ASSUME NEW b \in Browsers PROVE Full(client[b]', World')
    BY DEF AllFull
  <2>2. Full(client[b], World)
    BY DEF AllFull
  <2>3. \A msg : Underway(msg, World) => Underway(msg, World')
    BY <1>0, <1>3 DEF Underway
  <2> DEFINE v == World'
  <2> HIDE DEF v
  <2>4. v.rows = messages /\ v.list \subseteq banned /\ \A msg : Underway(msg, World) => Underway(msg, v)
    BY <1>0, <1>3, <2>3 DEF v
  <2>5. Full(client[b]', v)
    BY <1>3, <2>2, <2>4, FullTold
  <2> QED BY <2>5 DEF v
<1>4. CASE MoveCursor \/ Stop
  BY <1>4 DEF MoveCursor, Stop, AllFull, World
<1>5. CASE Ban
  <2>1. SUFFICES ASSUME NEW b \in Browsers PROVE Full(client[b]', World')
    BY DEF AllFull
  <2> DEFINE a == client[b]
             d == client[b]'
             v == World'
  <2>2. /\ Same(a, d, Rest({"barred"})) /\ a.barred \subseteq d.barred
        /\ Registered(a) => banned' \subseteq banned \cup d.barred
    BY <1>5, BansNoted
  <2>3. /\ d.stage = a.stage /\ d.connected = a.connected /\ d.queue = a.queue /\ d.base = a.base
        /\ d.floor = a.floor /\ d.shown = a.shown /\ d.page = a.page
        /\ Registered(d) => Registered(a)
    BY <2>2 DEF Same, Rest, Fields, Registered
  <2>4. Full(a, World)
    BY DEF AllFull
  <2>5. v.rows = World.rows /\ v.lanes = World.lanes /\ v.list = banned' /\ World.list = banned
    BY <1>0, <1>5 DEF Ban
  <2> HIDE DEF a, d, v
  <2>6. SUFFICES ASSUME Registered(a) PROVE Full(d, v)
    BY <2>3 DEF Full, d, v
  <2>7. \A msg : Near(a, msg, World) => Near(d, msg, v)
    BY <2>2, <2>3, <2>5 DEF Near, Muted, Underway, TwinIn
  <2> QED BY <2>2, <2>3, <2>4, <2>5, <2>6, <2>7, FullKept
<1>6. CASE TellCursor
  <2>1. PICK p \in posts : Broadcast(Cursor(p.stored))
    BY <1>6 DEF TellCursor
  <2>2. Cursor(p.stored) \in Events /\ Cursor(p.stored).type = "cursor"
    BY DEF Cursor, Events, StreamForm
  <2>3. UNCHANGED <<inbound, messages, banned>>
    BY <1>6 DEF TellCursor
  <2> QED BY <1>3, <2>1, <2>2, <2>3
<1>7. CASE Announce
  <2>1. UNCHANGED <<inbound, messages, banned>> /\ Broadcast(Blocklist)
    BY <1>7 DEF Announce
  <2> QED BY <1>3, <1>7, <2>1, Announces
<1> QED BY <1>1, <1>2, <1>4, <1>5, <1>6, <1>7 DEF StreamNext

ViewInv == StateInv /\ AllFull

LEMMA ViewInit == StreamInit => ViewInv
<1> SUFFICES ASSUME StreamInit PROVE ViewInv
  OBVIOUS
<1>1. \A b \in Browsers : client[b].stage = "away"
  BY DEF StreamInit, Away
<1> QED BY <1>1, StateInit DEF ViewInv, AllFull, Full, Registered

LEMMA ViewNext == ViewInv /\ [WebNext]_webVars => ViewInv'
<1> SUFFICES ASSUME ViewInv, [WebNext]_webVars PROVE ViewInv'
  OBVIOUS
<1>1. StateInv' /\ StreamForm /\ AllFull
  BY StateNext DEF ViewInv, StateInv
<1>2. CASE StreamNext
  BY <1>1, <1>2, FullStep DEF ViewInv
<1>3. CASE Unbans
  <2>1. SUFFICES ASSUME NEW b \in Browsers PROVE Full(client[b], World')
    BY <1>1, <1>3 DEF ViewInv, AllFull, Unbans
  <2> DEFINE v == World'
  <2>2. v.rows = World.rows /\ v.lanes = World.lanes /\ v.list \subseteq World.list
    BY <1>3, Worlds DEF Unbans
  <2>3. Full(client[b], World)
    BY <1>1 DEF AllFull
  <2> HIDE DEF v
  <2>4. \A msg : Underway(msg, World) => Underway(msg, v)
    BY <2>2 DEF Underway
  <2>5. Full(client[b], v)
    BY <2>2, <2>3, <2>4, FullSame
  <2> QED BY <2>5 DEF v
<1> QED BY <1>1, <1>2, <1>3, StreamOrNot

LEMMA ViewHolds == ViewInv => ViewIsTrue
<1> SUFFICES ASSUME ViewInv PROVE NoGap
  BY StateHolds DEF ViewInv, ViewIsTrue
<1>1. SUFFICES ASSUME NEW b \in Browsers, CaughtUp(b), NEW msg \in messages
      PROVE  \/ msg \in client[b].shown \/ Muted(msg, client[b]) \/ Twin(msg)
             \/ msg \in client[b].base /\ msg.ts < client[b].floor
             \/ \E l \in Lanes : inbound[l] = [stage |-> "tell", row |-> msg]
  BY DEF NoGap, Muted
<1>2. /\ client[b].stage = "live" /\ client[b].connected /\ DOMAIN client[b].queue = {}
      /\ Full(client[b], World) /\ StreamForm
  BY <1>1 DEF CaughtUp, ViewInv, StateInv, AllFull
<1>3. /\ \A r \in messages \ client[b].base : Near(client[b], r, World)
      /\ Reaches(client[b], client[b].floor, World)
  BY <1>2, Worlds DEF Full, Registered
<1>4. msg.ts \in Int /\ client[b].floor \in Int
  BY <1>2, RowTimes DEF StreamForm, ClientForm
<1>5. Near(client[b], msg, World) \/ (msg \in client[b].base /\ msg.ts < client[b].floor)
  BY <1>3, <1>4 DEF Reaches
<1>6. Near(client[b], msg, World) =>
        \/ msg \in client[b].shown \/ Muted(msg, client[b]) \/ Twin(msg)
        \/ \E l \in Lanes : inbound[l] = [stage |-> "tell", row |-> msg]
  BY <1>2, Worlds DEF Near, MessageIn, Underway, TwinIn, Twin
<1> QED BY <1>5, <1>6

(* What a browser that has caught up shows is what the server would show   *)
(* it now, whatever is stored, broadcast, paged, banned and unbanned,      *)
(* disconnected and reconnected meanwhile, and whether or not its initial  *)
(* events could be read (register_client, initial_events, broadcast_event, *)
(* get_messages_page).                                                     *)
THEOREM ViewStaysTrue == WebSpec => []ViewIsTrue
<1>1. WebInit => ViewInv
  BY ViewInit DEF WebInit
<1> QED BY <1>1, ViewNext, ViewHolds, PTL DEF WebSpec

-----------------------------------------------------------------------------
(* Notifications.                                                          *)
(* A task knows of a subscription what was so when it asked, or later, and *)
(* the cache what is so, except for what a write is changing or torn says. *)
PushForm ==
    /\ DOMAIN subs = Endpoints
    /\ \A e \in Endpoints : DOMAIN subs[e] = {"no", "wants"} /\ subs[e].no \in Nat
    /\ DOMAIN task = Paths
    /\ \A p \in Paths : DOMAIN task[p] = {"stage", "message", "asked", "rows"}

CacheInv == cache # None => \A e \in Endpoints \ (torn \cup writing) : cache[e] = subs[e]

Knows(t, e) ==
    /\ t.stage = "ask" /\ t.asked[e] # None => t.asked[e] \in 0 .. subs[e].no
    /\ t.stage = "fill" =>
          /\ t.rows[e].no \in 0 .. subs[e].no
          /\ t.rows[e].no = subs[e].no => t.rows[e] = subs[e]
          /\ t.asked[e] # None => t.asked[e] \in 0 .. t.rows[e].no

AskedInv == \A p \in Paths, e \in Endpoints : Knows(task[p], e)

PushInv == PushForm /\ CacheInv /\ AskedInv /\ ListIsHonoured

LEMMA NobodyMistaken ==
    ASSUME PushInv
    PROVE  /\ cache # None => Mistaken(Settled, cache) = {}
           /\ \A p \in Paths : task[p].stage = "fill" => Mistaken(task[p].asked, task[p].rows) = {}
<1>1. ASSUME cache # None, NEW e \in Endpoints \ torn, Settled[e] # None, e \notin writing
      PROVE  cache[e] = subs[e]
  BY <1>1 DEF PushInv, CacheInv
<1>2. ASSUME NEW p \in Paths, task[p].stage = "fill", NEW e \in Endpoints,
             task[p].asked[e] # None, task[p].asked[e] = subs[e].no
      PROVE  task[p].rows[e] = subs[e]
  BY <1>2 DEF PushInv, AskedInv, Knows, PushForm
<1> QED BY <1>1, <1>2 DEF Mistaken

LEMMA TableGrows ==
    ASSUME PushInv, NEW e, NEW wants, Write(e, wants), UNCHANGED <<cache, task, torn, astray>>
    PROVE  PushInv'
<1>1. \A d \in Endpoints :
         /\ DOMAIN subs'[d] = {"no", "wants"}
         /\ subs'[d] = subs[d] \/ (d = e /\ subs'[d].no = subs[d].no + 1)
  BY DEF Write, PushInv, PushForm
<1>2. PushForm' /\ writing' = writing \cup {e}
  BY <1>1 DEF Write, PushInv, PushForm
<1>3. CacheInv'
  BY <1>1, <1>2 DEF PushInv, CacheInv
<1>4. AskedInv'
  <2> SUFFICES ASSUME NEW p \in Paths, NEW d \in Endpoints PROVE Knows(task[p], d)'
    BY DEF AskedInv
  <2>0. Knows(task[p], d) /\ task' = task
    BY DEF PushInv, AskedInv
  <2>1. CASE subs'[d] = subs[d]
    BY <2>0, <2>1 DEF Knows
  <2>2. CASE subs'[d].no = subs[d].no + 1
    BY <2>0, <2>2 DEF Knows, PushInv, PushForm
  <2> QED BY <1>1, <2>1, <2>2
<1> QED BY <1>2, <1>3, <1>4 DEF PushInv, ListIsHonoured

LEMMA TasksRest ==
    ASSUME PushInv, DOMAIN task' = Paths, UNCHANGED <<subs, astray>>,
           cache' = None \/ UNCHANGED <<cache, writing, torn>>,
           \A p \in Paths : task'[p] = task[p] \/ task'[p] = Nothing
    PROVE  PushInv'
<1>1. \A p \in Paths : DOMAIN task'[p] = {"stage", "message", "asked", "rows"}
  BY DEF PushInv, PushForm, Nothing
<1>2. \A p \in Paths : task'[p] # task[p] => task'[p].stage = "idle"
  BY DEF Nothing
<1>3. AskedInv'
  BY <1>2 DEF PushInv, AskedInv, Knows
<1> QED BY <1>1, <1>3 DEF PushInv, PushForm, CacheInv, ListIsHonoured

LEMMA ArriveStays == ASSUME PushInv, NEW path \in Paths, Arrive(path) PROVE PushInv'
<1>1. UNCHANGED <<subs, cache, writing, torn>>
  BY DEF Arrive
<1>2. CASE UNCHANGED <<task, astray>>
  BY <1>1, <1>2, TasksRest DEF PushInv, PushForm
<1>3. CASE cache # None /\ task' = task /\ astray' = astray \cup Mistaken(Settled, cache)
  <2>1. astray' = astray
    BY <1>3, NobodyMistaken
  <2> QED BY <1>1, <1>3, <2>1, TasksRest DEF PushInv, PushForm
<1>4. ASSUME NEW m, astray' = astray,
             task' = [task EXCEPT ![path] = [stage |-> "ask", message |-> m, asked |-> Settled,
                                             rows |-> <<>>]]
      PROVE PushInv'
  <2>1. /\ DOMAIN task' = Paths
        /\ task'[path] = [stage |-> "ask", message |-> m, asked |-> Settled, rows |-> <<>>]
        /\ \A p \in Paths \ {path} : task'[p] = task[p]
    BY <1>4 DEF PushInv, PushForm
  <2>2. PushForm'
    BY <1>1, <2>1 DEF PushInv, PushForm
  <2>3. \A e \in Endpoints : Settled[e] # None => Settled[e] \in 0 .. subs[e].no
    BY DEF Settled, PushInv, PushForm
  <2>4. AskedInv'
    BY <1>1, <2>1, <2>3 DEF PushInv, AskedInv, Knows
  <2> QED BY <1>1, <1>4, <2>2, <2>4 DEF PushInv, CacheInv, ListIsHonoured
<1> QED BY <1>2, <1>3, <1>4 DEF Arrive

LEMMA ReadStays == ASSUME PushInv, NEW path \in Paths, ListRead(path) PROVE PushInv'
<1>1. /\ task[path].stage = "ask"
      /\ DOMAIN task' = Paths
      /\ task'[path] = [task[path] EXCEPT !.stage = "fill", !.rows = subs]
      /\ \A p \in Paths \ {path} : task'[p] = task[p]
      /\ UNCHANGED <<subs, cache, writing, torn, astray>>
  BY DEF ListRead, PushInv, PushForm, history
<1>2. /\ DOMAIN task'[path] = {"stage", "message", "asked", "rows"}
      /\ task'[path].stage = "fill" /\ task'[path].rows = subs
      /\ task'[path].asked = task[path].asked
  BY <1>1 DEF PushInv, PushForm
<1>3. PushForm'
  <2>1. \A p \in Paths : DOMAIN task[p] = {"stage", "message", "asked", "rows"}
    BY DEF PushInv, PushForm
  <2>2. \A p \in Paths \ {path} : DOMAIN task'[p] = DOMAIN task[p]
    BY <1>1
  <2>3. \A p \in Paths : DOMAIN task'[p] = {"stage", "message", "asked", "rows"}
    BY <1>2, <2>1, <2>2
  <2> QED BY <1>1, <2>3 DEF PushInv, PushForm
<1>4. ASSUME NEW e \in Endpoints
      PROVE  /\ subs[e].no \in Nat
             /\ task[path].asked[e] # None => task[path].asked[e] \in 0 .. subs[e].no
  BY <1>1 DEF PushInv, PushForm, AskedInv, Knows
<1>5. \A e \in Endpoints : LET t == task'[path] IN
         /\ t.stage # "ask" /\ t.rows[e] = subs[e] /\ t.rows[e].no \in 0 .. subs[e].no
         /\ t.asked[e] # None => t.asked[e] \in 0 .. t.rows[e].no
  BY <1>2, <1>4
<1>6. AskedInv'
  <2> SUFFICES ASSUME NEW p \in Paths, NEW e \in Endpoints PROVE Knows(task[p], e)'
    BY DEF AskedInv
  <2>1. CASE p = path
    BY <1>1, <1>5, <2>1 DEF Knows
  <2>2. CASE p # path
    BY <1>1, <2>2 DEF PushInv, AskedInv, Knows
  <2> QED BY <2>1, <2>2
<1> QED BY <1>1, <1>3, <1>6 DEF PushInv, CacheInv, ListIsHonoured

LEMMA FillStays == ASSUME PushInv, NEW path \in Paths, ListFill(path) PROVE PushInv'
<1>1. /\ task[path].stage = "fill"
      /\ cache' = task[path].rows
      /\ torn' = {e \in Endpoints : task[path].rows[e] # subs[e] /\ e \notin writing}
      /\ astray' = astray \cup Mistaken(task[path].asked, task[path].rows)
      /\ task' = [task EXCEPT ![path] = Nothing]
      /\ UNCHANGED <<subs, writing>>
  BY DEF ListFill
<1>2. astray' = astray
  BY <1>1, NobodyMistaken
<1>3. DOMAIN task' = Paths /\ \A p \in Paths : task'[p] = task[p] \/ task'[p] = Nothing
  BY <1>1 DEF PushInv, PushForm
<1>4. \A p \in Paths : DOMAIN task'[p] = {"stage", "message", "asked", "rows"}
  BY <1>3 DEF PushInv, PushForm, Nothing
<1>5. \A p \in Paths : task'[p] # task[p] => task'[p].stage = "idle"
  BY <1>3 DEF Nothing
<1>6. CacheInv'
  BY <1>1 DEF CacheInv
<1>7. AskedInv'
  BY <1>1, <1>5 DEF PushInv, AskedInv, Knows
<1>8. PushForm'
  BY <1>1, <1>3, <1>4 DEF PushInv, PushForm
<1> QED BY <1>2, <1>6, <1>7, <1>8 DEF PushInv, ListIsHonoured

LEMMA PushStays == PushInv /\ [WebNext]_webVars => PushInv'
<1> SUFFICES ASSUME PushInv, [WebNext]_webVars PROVE PushInv'
  OBVIOUS
<1>1. ASSUME UNCHANGED <<subs, cache, writing, task, torn, astray>> PROVE PushInv'
  BY <1>1, TasksRest DEF PushInv, PushForm
<1>2. CASE StreamStep \/ RuleStep \/ UNCHANGED webVars
  BY <1>1, <1>2 DEF StreamStep, RuleStep, webVars, pushVars, memory, history
<1>3. CASE PushNext
  <2>1. CASE \E p \in Paths : Arrive(p) \/ ListRead(p) \/ ListFill(p)
    BY <2>1, ArriveStays, ReadStays, FillStays
  <2>2. ASSUME NEW e \in Endpoints, Noticed(e) PROVE PushInv'
    BY <2>2, TasksRest DEF Noticed, Invalidate, PushInv, PushForm
  <2>3. CASE Sweep \/ Drain \/ Delivered \/ Unblock \/ StopPush
    BY <1>1, <2>3 DEF Sweep, Drain, Delivered, Unblock, StopPush, memory, history
  <2>4. CASE Subscribe
    BY <2>4, TableGrows DEF Subscribe, history
  <2>5. CASE Gone
    BY <2>5, TableGrows DEF Gone
  <2>6. CASE RestartPush
    <3>1. task' = [p \in Paths |-> Nothing] /\ subs' = subs /\ cache' = None /\ astray' = {}
      BY <2>6 DEF RestartPush
    <3>2. astray' = astray
      BY <3>1 DEF PushInv, ListIsHonoured
    <3> QED BY <3>1, <3>2, TasksRest
  <2> QED BY <1>3, <2>1, <2>2, <2>3, <2>4, <2>5, <2>6 DEF PushNext
<1> QED BY <1>2, <1>3 DEF WebNext, PushStep

(* A message is matched against the subscriptions as they stand, unless    *)
(* the cache keeps a list that was read before a write                     *)
(* (list_push_subscriptions, _invalidate_push_subs_cache).                 *)
THEOREM ListStaysHonoured == WebSpec => []ListIsHonoured
<1>1. WebInit => PushInv
  <2> SUFFICES ASSUME WebInit PROVE PushInv
    OBVIOUS
  <2>1. /\ subs = [e \in Endpoints |-> NoSub] /\ cache = None /\ astray = {}
        /\ task = [p \in Paths |-> Nothing]
    BY DEF WebInit, PushInit, ColdStart
  <2> QED BY <2>1 DEF PushInv, PushForm, CacheInv, AskedInv, Knows, ListIsHonoured, NoSub, Nothing
<1>2. PushInv => ListIsHonoured
  BY DEF PushInv
<1> QED BY <1>1, <1>2, PushStays, PTL DEF WebSpec

(* A key is owed to an endpoint at most once, and lies in one place, or has *)
(* come to its end.                                                        *)
Deliveries == [endpoint : Endpoints, keys : Seq(Keys)]

HandedForm ==
    /\ DOMAIN world = {"messages", "requests", "gone", "blocked", "unblock", "ends"}
    /\ \A m \in world.messages : m.key \in Keys
    /\ window \in [Endpoints -> {None} \cup [buffer : Seq(Keys)]]
    /\ queue \in Seq(Deliveries) /\ Len(queue) <= QueueMax
    /\ sending \in {None} \cup Deliveries
    /\ DOMAIN owed = Endpoints \X Keys /\ DOMAIN ended = Endpoints \X Keys
    /\ DOMAIN task = Paths
    /\ \A p \in Paths :
          /\ DOMAIN task[p] = {"stage", "message", "asked", "rows"}
          /\ task[p].stage # "idle" => task[p].message.key \in Keys

(* Key k of endpoint e is the i-th of what place n holds. *)
Lies(e, k, n, i) ==
    /\ n \in -1 .. Len(queue)
    /\ i \in DOMAIN Carried(e, n) /\ Carried(e, n)[i] = k

(* Nothing is owed, or it has come to its end, or it lies in one place. *)
Handed(e, k) ==
    \/ /\ owed[<<e, k>>] = 0 /\ ended[<<e, k>>] = 0
       /\ \A n, i : ~ Lies(e, k, n, i)
    \/ /\ owed[<<e, k>>] = 1 /\ ended[<<e, k>>] = 1
       /\ \A n, i : ~ Lies(e, k, n, i)
    \/ /\ owed[<<e, k>>] = 1 /\ ended[<<e, k>>] = 0
       /\ \E n, i : /\ Lies(e, k, n, i)
                    /\ \A m, j : Lies(e, k, m, j) => m = n /\ j = i

HandedInv == \A e \in Endpoints, k \in Keys : Handed(e, k)

(* What is owed has been seen, and a handler's message is owed to nobody yet. *)
Busy(p) == task[p].stage # "idle"

SeenInv ==
    /\ \A e \in Endpoints, k \in Keys : owed[<<e, k>>] # 0 => k \in seen
    /\ \A p \in Paths : Busy(p) => /\ task[p].message.key \in seen
                                   /\ \A e \in Endpoints : owed[<<e, task[p].message.key>>] = 0
    /\ \A p, q \in Paths : Busy(p) /\ Busy(q) /\ p # q
                             => task[p].message.key # task[q].message.key

OnceInv == HandedForm /\ HandedInv /\ SeenInv

(* A key that occurs in one position, or in none. *)
LEMMA TimesOne ==
    ASSUME NEW keys, NEW k
    PROVE  /\ (\A i \in DOMAIN keys : keys[i] # k) => Times(keys, k) = 0
           /\ \A i \in DOMAIN keys :
                 keys[i] = k /\ (\A j \in DOMAIN keys : keys[j] = k => j = i) => Times(keys, k) = 1
<1>1. ASSUME \A i \in DOMAIN keys : keys[i] # k PROVE Times(keys, k) = 0
  <2>1. {i \in DOMAIN keys : keys[i] = k} = {}
    BY <1>1
  <2> QED BY <2>1, FS_EmptySet DEF Times
<1>2. ASSUME NEW i \in DOMAIN keys, keys[i] = k, \A j \in DOMAIN keys : keys[j] = k => j = i
      PROVE  Times(keys, k) = 1
  <2>1. {j \in DOMAIN keys : keys[j] = k} = {i}
    BY <1>2
  <2> QED BY <2>1, FS_Singleton DEF Times
<1> QED BY <1>1, <1>2

(* What lies somewhere is counted once. *)
LEMMA PlacesCounted ==
    ASSUME OnceInv
    PROVE  NotifiedOnce
<1> SUFFICES ASSUME NEW e \in Endpoints, NEW k \in Keys
             PROVE  /\ owed[<<e, k>>] <= 1
                    /\ Cardinality(OnItsWay(e, k)) + ended[<<e, k>>] = owed[<<e, k>>]
  BY DEF NotifiedOnce
<1>1. \A x : x \in OnItsWay(e, k) <=> \E n, i : x = <<n, i>> /\ Lies(e, k, n, i)
  BY DEF OnItsWay, Lies
<1>2. CASE \A n, i : ~ Lies(e, k, n, i)
  <2>1. OnItsWay(e, k) = {}
    BY <1>1, <1>2
  <2> QED BY <1>2, <2>1, FS_EmptySet DEF OnceInv, HandedInv, Handed
<1>3. ASSUME NEW n, NEW i, Lies(e, k, n, i), \A m, j : Lies(e, k, m, j) => m = n /\ j = i,
             owed[<<e, k>>] = 1, ended[<<e, k>>] = 0
      PROVE  Cardinality(OnItsWay(e, k)) + ended[<<e, k>>] = owed[<<e, k>>]
  <2>1. <<n, i>> \in OnItsWay(e, k)
    BY <1>1, <1>3
  <2>2. ASSUME NEW x \in OnItsWay(e, k) PROVE x = <<n, i>>
    <3>1. PICK m, j : x = <<m, j>> /\ Lies(e, k, m, j)
      BY <1>1
    <3> QED BY <1>3, <3>1
  <2>3. OnItsWay(e, k) = {<<n, i>>}
    BY <2>1, <2>2
  <2>4. Cardinality(OnItsWay(e, k)) = 1
    BY <2>3, FS_Singleton, Zenon
  <2> QED BY <1>3, <2>4
<1>4. Handed(e, k)
  BY DEF OnceInv, HandedInv
<1> QED BY <1>2, <1>3, <1>4 DEF Handed

(* Two sequences, one after the other. *)
LEMMA Joined ==
    ASSUME NEW S, NEW s \in Seq(S), NEW t \in Seq(S)
    PROVE  /\ s \o t \in Seq(S) /\ Len(s \o t) = Len(s) + Len(t)
           /\ \A n \in 1 .. Len(s) : (s \o t)[n] = s[n]
           /\ \A i \in 1 .. Len(t) : (s \o t)[Len(s) + i] = t[i]
OBVIOUS

(* _enqueue: each delivery of a batch comes to the end of the queue, once, or *)
(* is dropped.                                                                *)
LEMMA BatchQueued ==
    ASSUME HandedForm, NEW batch, DOMAIN batch \subseteq Endpoints,
           \A e \in DOMAIN batch : batch[e] \in Seq(Keys), Enqueue(batch)
    PROVE  /\ queue' \in Seq(Deliveries) /\ Len(queue') <= QueueMax /\ Len(queue) <= Len(queue')
           /\ \A n \in 1 .. Len(queue) : queue'[n] = queue[n]
           /\ DOMAIN ended' = DOMAIN ended
           /\ \A e \in Endpoints, k \in Keys :
                 \/ /\ e \notin DOMAIN batch /\ ended'[<<e, k>>] = ended[<<e, k>>]
                    /\ \A n \in Len(queue) + 1 .. Len(queue') : queue'[n].endpoint # e
                 \/ /\ e \in DOMAIN batch
                    /\ ended'[<<e, k>>] = ended[<<e, k>>] + Times(batch[e], k)
                    /\ \A n \in Len(queue) + 1 .. Len(queue') : queue'[n].endpoint # e
                 \/ /\ e \in DOMAIN batch /\ ended'[<<e, k>>] = ended[<<e, k>>]
                    /\ \E n \in Len(queue) + 1 .. Len(queue') :
                          /\ queue'[n] = Delivery(e, batch[e])
                          /\ \A m \in Len(queue) + 1 .. Len(queue') :
                                queue'[m].endpoint = e => m = n
<1>1. IsFiniteSet(DOMAIN batch) /\ Cardinality(DOMAIN batch) \in Nat
  BY PushAssumption, FS_Subset, FS_CardinalityType
<1> DEFINE room == QueueMax - Len(queue)
           size == Cardinality(DOMAIN batch)
<1>2. PICK order \in [1 .. size -> DOMAIN batch] :
         /\ \A i, j \in 1 .. size : i # j => order[i] # order[j]
         /\ LET kept == IF Len(order) < room THEN Len(order) ELSE room
                dropped == DOMAIN batch \ {order[i] : i \in 1 .. kept} IN
            /\ queue' = queue \o [i \in 1 .. kept |-> Delivery(order[i], batch[order[i]])]
            /\ Finish([e \in dropped |-> batch[e]])
  BY DEF Enqueue, SetToSeqs
<1>3. Len(order) = size
  BY <1>1, <1>2
<1> DEFINE kept == IF size < room THEN size ELSE room
           dropped == DOMAIN batch \ {order[i] : i \in 1 .. kept}
           tail == [i \in 1 .. kept |-> Delivery(order[i], batch[order[i]])]
<1>4. queue' = queue \o tail /\ Finish([e \in dropped |-> batch[e]])
  BY <1>2, <1>3
<1>5. kept \in Nat /\ kept <= size /\ kept <= room /\ room \in Nat
  BY <1>1, PushAssumption DEF HandedForm
<1>6. \A i \in 1 .. kept : i \in 1 .. size /\ order[i] \in DOMAIN batch
  <2>1. \A i \in 1 .. kept : i \in 1 .. size
    BY <1>1, <1>5
  <2> QED BY <1>2, <2>1
<1>7. \A i \in 1 .. kept : Delivery(order[i], batch[order[i]]) \in Deliveries
  BY <1>6 DEF Delivery, Deliveries
<1>8. tail \in Seq(Deliveries) /\ Len(tail) = kept /\ \A i \in 1 .. kept : tail[i] = Delivery(order[i], batch[order[i]])
  BY <1>5, <1>7
<1> HIDE DEF kept, tail, room, size, dropped
<1>9. /\ queue' \in Seq(Deliveries) /\ Len(queue') = Len(queue) + kept
      /\ \A n \in 1 .. Len(queue) : queue'[n] = queue[n]
      /\ \A i \in 1 .. kept : queue'[Len(queue) + i] = Delivery(order[i], batch[order[i]])
  <2>1. queue \in Seq(Deliveries) /\ queue' = queue \o tail
    BY <1>4 DEF HandedForm
  <2>2. /\ queue \o tail \in Seq(Deliveries) /\ Len(queue \o tail) = Len(queue) + Len(tail)
        /\ \A n \in 1 .. Len(queue) : (queue \o tail)[n] = queue[n]
        /\ \A i \in 1 .. Len(tail) : (queue \o tail)[Len(queue) + i] = tail[i]
    <3>1. queue \in Seq(Deliveries) /\ tail \in Seq(Deliveries)
      BY <1>8, <2>1
    <3> QED BY <3>1, Joined
  <2> QED BY <1>8, <2>1, <2>2
<1>10. Len(queue') <= QueueMax /\ Len(queue) \in Nat
  BY <1>5, <1>9, PushAssumption DEF room, HandedForm
<1>11. \A n \in Len(queue) + 1 .. Len(queue') : \E i \in 1 .. kept : n = Len(queue) + i
  <2> TAKE n \in Len(queue) + 1 .. Len(queue')
  <2>1. n - Len(queue) \in 1 .. kept /\ n = Len(queue) + (n - Len(queue))
    BY <1>5, <1>9, <1>10
  <2> QED BY <2>1
<1>12. \A e \in Endpoints, k \in Keys :
          ended'[<<e, k>>] = IF e \in dropped THEN ended[<<e, k>>] + Times(batch[e], k)
                             ELSE ended[<<e, k>>]
  <2>1. \A e \in Endpoints, k \in Keys : <<e, k>> \in DOMAIN ended
    BY DEF HandedForm
  <2> QED BY <1>4, <2>1 DEF Finish
<1>13. DOMAIN ended' = DOMAIN ended
  BY <1>4 DEF Finish
<1>14. \A n \in Len(queue) + 1 .. Len(queue') :
          \E i \in 1 .. kept : queue'[n] = Delivery(order[i], batch[order[i]]) /\ n = Len(queue) + i
  BY <1>9, <1>11
<1>15. ASSUME NEW e \in Endpoints, \A i \in 1 .. kept : order[i] # e
       PROVE  \A n \in Len(queue) + 1 .. Len(queue') : queue'[n].endpoint # e
  <2> TAKE n \in Len(queue) + 1 .. Len(queue')
  <2>1. PICK i \in 1 .. kept : queue'[n] = Delivery(order[i], batch[order[i]])
    BY <1>14
  <2> QED BY <1>15, <2>1 DEF Delivery
<1>16. ASSUME NEW i \in 1 .. kept
       PROVE  LET n == Len(queue) + i IN
              /\ n \in Len(queue) + 1 .. Len(queue')
              /\ queue'[n] = Delivery(order[i], batch[order[i]])
              /\ \A m \in Len(queue) + 1 .. Len(queue') : queue'[m].endpoint = order[i] => m = n
  <2>1. Len(queue) + i \in Len(queue) + 1 .. Len(queue')
    BY <1>5, <1>9, <1>10
  <2>2. ASSUME NEW m \in Len(queue) + 1 .. Len(queue'), queue'[m].endpoint = order[i]
        PROVE  m = Len(queue) + i
    <3>1. PICK j \in 1 .. kept : queue'[m] = Delivery(order[j], batch[order[j]]) /\ m = Len(queue) + j
      BY <1>14
    <3>2. order[j] = order[i]
      BY <2>2, <3>1 DEF Delivery
    <3> QED BY <1>2, <1>6, <3>1, <3>2
  <2> QED BY <1>9, <2>1, <2>2
<1>17. ASSUME NEW e \in Endpoints, NEW k \in Keys
       PROVE
                 \/ /\ e \notin DOMAIN batch /\ ended'[<<e, k>>] = ended[<<e, k>>]
                    /\ \A n \in Len(queue) + 1 .. Len(queue') : queue'[n].endpoint # e
                 \/ /\ e \in DOMAIN batch
                    /\ ended'[<<e, k>>] = ended[<<e, k>>] + Times(batch[e], k)
                    /\ \A n \in Len(queue) + 1 .. Len(queue') : queue'[n].endpoint # e
                 \/ /\ e \in DOMAIN batch /\ ended'[<<e, k>>] = ended[<<e, k>>]
                    /\ \E n \in Len(queue) + 1 .. Len(queue') :
                          /\ queue'[n] = Delivery(e, batch[e])
                          /\ \A m \in Len(queue) + 1 .. Len(queue') :
                                queue'[m].endpoint = e => m = n
  <2>1. CASE \A i \in 1 .. kept : order[i] # e
    <3>1. \A n \in Len(queue) + 1 .. Len(queue') : queue'[n].endpoint # e
      BY <1>15, <2>1
    <3>2. e \in dropped <=> e \in DOMAIN batch
      BY <2>1 DEF dropped
    <3> QED BY <1>12, <3>1, <3>2
  <2>2. ASSUME NEW i \in 1 .. kept, order[i] = e
        PROVE /\ e \in DOMAIN batch /\ ended'[<<e, k>>] = ended[<<e, k>>]
              /\ \E n \in Len(queue) + 1 .. Len(queue') :
                          /\ queue'[n] = Delivery(e, batch[e])
                          /\ \A m \in Len(queue) + 1 .. Len(queue') :
                                queue'[m].endpoint = e => m = n
    <3>1. e \in DOMAIN batch /\ e \notin dropped
      BY <1>6, <2>2 DEF dropped
    <3> QED BY <1>12, <1>16, <2>2, <3>1
  <2> QED BY <2>1, <2>2
<1>18. Len(queue) <= Len(queue')
  BY <1>5, <1>9, <1>10
<1> QED BY <1>9, <1>10, <1>13, <1>17, <1>18

(* The same, in the places where a key may lie: a delivery of the batch brings *)
(* one that is new, or none.                                                   *)
Brings(batch, e, k) ==
    \/ /\ ended'[<<e, k>>] = IF e \in DOMAIN batch THEN ended[<<e, k>>] + Times(batch[e], k)
                             ELSE ended[<<e, k>>]
       /\ \A n, i : n # -1 => (Lies(e, k, n, i)' <=> Lies(e, k, n, i))
    \/ /\ e \in DOMAIN batch /\ ended'[<<e, k>>] = ended[<<e, k>>]
       /\ \E m : /\ m # -1 /\ \A i : ~ Lies(e, k, m, i)
                 /\ \A n, i : n # -1 =>
                       (Lies(e, k, n, i)' <=> \/ Lies(e, k, n, i)
                                              \/ /\ n = m /\ i \in DOMAIN batch[e]
                                                 /\ batch[e][i] = k)

LEMMA BatchLies ==
    ASSUME HandedForm, NEW batch, DOMAIN batch \subseteq Endpoints,
           \A e \in DOMAIN batch : batch[e] \in Seq(Keys), Enqueue(batch), sending' = sending,
           NEW e \in Endpoints, NEW k \in Keys
    PROVE  Brings(batch, e, k)
<1>0. \/ /\ e \notin DOMAIN batch /\ ended'[<<e, k>>] = ended[<<e, k>>]
         /\ \A n \in Len(queue) + 1 .. Len(queue') : queue'[n].endpoint # e
      \/ /\ e \in DOMAIN batch
         /\ ended'[<<e, k>>] = ended[<<e, k>>] + Times(batch[e], k)
         /\ \A n \in Len(queue) + 1 .. Len(queue') : queue'[n].endpoint # e
      \/ /\ e \in DOMAIN batch /\ ended'[<<e, k>>] = ended[<<e, k>>]
         /\ \E n \in Len(queue) + 1 .. Len(queue') :
               /\ queue'[n] = Delivery(e, batch[e])
               /\ \A m \in Len(queue) + 1 .. Len(queue') : queue'[m].endpoint = e => m = n
  BY BatchQueued
<1>1. /\ queue' \in Seq(Deliveries) /\ Len(queue) \in Nat /\ Len(queue') \in Nat
      /\ Len(queue) <= Len(queue') /\ \A n \in 1 .. Len(queue) : queue'[n] = queue[n]
  BY BatchQueued DEF HandedForm
<1>2. \A n \in 0 .. Len(queue) : Carried(e, n)' = Carried(e, n)
  BY <1>1 DEF Carried
<1>3. \A n \in Len(queue) + 1 .. Len(queue') : queue'[n].endpoint # e => Carried(e, n)' = <<>>
  BY <1>1 DEF Carried
<1>4. \A n \in Len(queue) + 1 .. Len(queue') :
         queue'[n] = Delivery(e, batch[e]) => Carried(e, n)' = batch[e]
  <2> TAKE n \in Len(queue) + 1 .. Len(queue')
  <2> HAVE queue'[n] = Delivery(e, batch[e])
  <2>1. queue'[n] \in Deliveries
    BY <1>1
  <2>2. queue'[n] # None
    BY <2>1, PushAssumption DEF Deliveries
  <2> QED BY <1>1, <2>2 DEF Carried, Delivery
<1>5. \A i : \A n \in 0 .. Len(queue) : Lies(e, k, n, i)' <=> Lies(e, k, n, i)
  BY <1>1, <1>2 DEF Lies
<1>6. \A n, i : Lies(e, k, n, i)' /\ n # -1 =>
         n \in 0 .. Len(queue) \/ n \in Len(queue) + 1 .. Len(queue')
  BY <1>1 DEF Lies
<1>7. \A n, i : Lies(e, k, n, i) /\ n # -1 => n \in 0 .. Len(queue)
  BY <1>1 DEF Lies
<1>8. CASE \A n \in Len(queue) + 1 .. Len(queue') : queue'[n].endpoint # e
  <2>1. \A i : \A n \in Len(queue) + 1 .. Len(queue') : ~ Lies(e, k, n, i)'
    BY <1>3, <1>8 DEF Lies
  <2>2. \A n, i : n # -1 => (Lies(e, k, n, i)' <=> Lies(e, k, n, i))
    BY <1>5, <1>6, <1>7, <2>1
  <2>3. ended'[<<e, k>>] = IF e \in DOMAIN batch THEN ended[<<e, k>>] + Times(batch[e], k)
                          ELSE ended[<<e, k>>]
    BY <1>0, <1>8 DEF Delivery
  <2> QED BY <2>2, <2>3 DEF Brings
<1>9. ASSUME e \in DOMAIN batch, ended'[<<e, k>>] = ended[<<e, k>>],
             NEW m \in Len(queue) + 1 .. Len(queue'), queue'[m] = Delivery(e, batch[e]),
             \A n \in Len(queue) + 1 .. Len(queue') : queue'[n].endpoint = e => n = m
      PROVE  /\ m # -1 /\ \A i : ~ Lies(e, k, m, i)
             /\ \A n, i : n # -1 =>
                   (Lies(e, k, n, i)' <=> \/ Lies(e, k, n, i)
                                          \/ /\ n = m /\ i \in DOMAIN batch[e]
                                             /\ batch[e][i] = k)
  <2>1. m # -1 /\ m \notin 0 .. Len(queue) /\ m \in -1 .. Len(queue') /\ \A i : ~ Lies(e, k, m, i)
    BY <1>1, <1>7
  <2>2. \A i : Lies(e, k, m, i)' <=> i \in DOMAIN batch[e] /\ batch[e][i] = k
    BY <1>4, <1>9, <2>1 DEF Lies
  <2>3. \A i : \A n \in Len(queue) + 1 .. Len(queue') : n # m => ~ Lies(e, k, n, i)'
    BY <1>3, <1>9 DEF Lies
  <2> QED BY <1>5, <1>6, <1>7, <2>1, <2>2, <2>3
<1>10. CASE /\ e \in DOMAIN batch /\ ended'[<<e, k>>] = ended[<<e, k>>]
            /\ \E n \in Len(queue) + 1 .. Len(queue') :
                  /\ queue'[n] = Delivery(e, batch[e])
                  /\ \A m \in Len(queue) + 1 .. Len(queue') : queue'[m].endpoint = e => m = n
  <2>1. PICK m \in Len(queue) + 1 .. Len(queue') :
           /\ queue'[m] = Delivery(e, batch[e])
           /\ \A n \in Len(queue) + 1 .. Len(queue') : queue'[n].endpoint = e => n = m
    BY <1>10
  <2>2. /\ m # -1 /\ \A i : ~ Lies(e, k, m, i)
        /\ \A n, i : n # -1 =>
              (Lies(e, k, n, i)' <=> \/ Lies(e, k, n, i)
                                     \/ /\ n = m /\ i \in DOMAIN batch[e]
                                        /\ batch[e][i] = k)
    BY <1>9, <1>10, <2>1
  <2> QED BY <1>10, <2>2 DEF Brings
<1> QED BY <1>0, <1>8, <1>10

(* A key that lies elsewhere afterwards is still there once. *)
LEMMA MovedStays ==
    ASSUME NEW e, NEW k, Handed(e, k), NEW f,
           owed'[<<e, k>>] = owed[<<e, k>>], ended'[<<e, k>>] = ended[<<e, k>>],
           \A n, i : Lies(e, k, n, i) => Lies(e, k, f[n], i)',
           \A m, i : Lies(e, k, m, i)' => \E n : Lies(e, k, n, i) /\ f[n] = m
    PROVE  Handed(e, k)'
<1>1. CASE \A n, i : ~ Lies(e, k, n, i)
  BY <1>1 DEF Handed
<1>2. ASSUME NEW n, NEW i, Lies(e, k, n, i), \A m, j : Lies(e, k, m, j) => m = n /\ j = i,
             owed[<<e, k>>] = 1, ended[<<e, k>>] = 0
      PROVE  Handed(e, k)'
  <2>1. Lies(e, k, f[n], i)' /\ \A m, j : Lies(e, k, m, j)' => m = f[n] /\ j = i
    BY <1>2
  <2> QED BY <1>2, <2>1 DEF Handed
<1> QED BY <1>1, <1>2 DEF Handed

LEMMA SameStays ==
    ASSUME NEW e, NEW k, Handed(e, k),
           owed'[<<e, k>>] = owed[<<e, k>>], ended'[<<e, k>>] = ended[<<e, k>>],
           \A n, i : Lies(e, k, n, i)' <=> Lies(e, k, n, i)
    PROVE  Handed(e, k)'
BY DEF Handed

(* What lay in place p comes to its end. *)
LEMMA EndedStays ==
    ASSUME NEW e, NEW k, Handed(e, k), NEW p \in -1 .. Len(queue),
           owed'[<<e, k>>] = owed[<<e, k>>],
           ended'[<<e, k>>] = ended[<<e, k>>] + Times(Carried(e, p), k),
           \A n, i : Lies(e, k, n, i)' <=> Lies(e, k, n, i) /\ n # p
    PROVE  Handed(e, k)'
<1>1. \A i : Lies(e, k, p, i) <=> i \in DOMAIN Carried(e, p) /\ Carried(e, p)[i] = k
  BY DEF Lies
<1>2. CASE \A i : ~ Lies(e, k, p, i)
  <2>1. Times(Carried(e, p), k) = 0
    BY <1>1, <1>2, TimesOne
  <2>2. ended[<<e, k>>] \in {0, 1}
    BY DEF Handed
  <2>3. \A n, i : Lies(e, k, n, i)' <=> Lies(e, k, n, i)
    BY <1>2
  <2> QED BY <2>1, <2>2, <2>3, SameStays
<1>3. ASSUME NEW i, Lies(e, k, p, i) PROVE Handed(e, k)'
  <2>1. /\ owed[<<e, k>>] = 1 /\ ended[<<e, k>>] = 0
        /\ \A m, j : Lies(e, k, m, j) => m = p /\ j = i
    BY <1>3 DEF Handed
  <2>2. Times(Carried(e, p), k) = 1
    BY <1>1, <1>3, <2>1, TimesOne
  <2>3. \A n, j : ~ Lies(e, k, n, j)'
    BY <2>1
  <2> QED BY <2>1, <2>2, <2>3 DEF Handed
<1> QED BY <1>2, <1>3

(* submit: the first message of a subscription is queued and the others wait *)
(* in its window.                                                            *)
LEMMA SubmitHands ==
    ASSUME OnceInv, NEW some, NEW m, m.key \in Keys,
           \A e \in Endpoints : owed[<<e, m.key>>] = 0, Submit(some, m), sending' = sending
    PROVE  /\ window' \in [Endpoints -> {None} \cup [buffer : Seq(Keys)]]
           /\ queue' \in Seq(Deliveries) /\ Len(queue') <= QueueMax
           /\ DOMAIN owed' = Endpoints \X Keys /\ DOMAIN ended' = Endpoints \X Keys
           /\ HandedInv'
           /\ \A e \in Endpoints, k \in Keys :
                 owed'[<<e, k>>] # owed[<<e, k>>] => k = m.key
<1> DEFINE hit == {e \in Endpoints : Matches(some[e], m)}
           first == {e \in hit : window[e] = None}
<1>0. PICK batch : batch = [e \in first |-> <<m.key>>]
  OBVIOUS
<1>1. /\ window' = [e \in Endpoints |->
                       IF e \in first THEN Opened
                       ELSE IF e \in hit THEN [window[e] EXCEPT !.buffer = Append(@, m.key)]
                       ELSE window[e]]
      /\ owed' = [x \in DOMAIN owed |->
                     IF x[1] \in hit /\ x[2] = m.key THEN owed[x] + 1 ELSE owed[x]]
      /\ Enqueue(batch)
  BY <1>0 DEF Submit
<1>2. first \subseteq hit /\ hit \subseteq Endpoints /\ \A e \in hit : e \in first <=> window[e] = None
  OBVIOUS
<1>3. DOMAIN batch = first /\ \A e \in DOMAIN batch : batch[e] = <<m.key>> /\ batch[e] \in Seq(Keys)
  BY <1>0
<1> HIDE DEF hit, first
<1>4. HandedForm /\ HandedInv
  BY DEF OnceInv
<1>5. ASSUME NEW e \in Endpoints
      PROVE  /\ e \in first => window[e] = None /\ window'[e] # None /\ window'[e].buffer = <<>>
             /\ e \in hit \ first => /\ window[e] # None /\ window'[e] # None
                                    /\ window'[e].buffer = Append(window[e].buffer, m.key)
             /\ e \notin hit => window'[e] = window[e]
             /\ window'[e] \in {None} \cup [buffer : Seq(Keys)]
  <2>1. window[e] \in {None} \cup [buffer : Seq(Keys)]
    BY <1>4 DEF HandedForm
  <2>2. CASE e \in first
    <3>1. window'[e] = [buffer |-> <<>>] /\ window[e] = None
      BY <1>1, <1>2, <2>2 DEF Opened
    <3>2. window'[e] \in [buffer : Seq(Keys)] /\ window'[e].buffer = <<>>
      BY <3>1
    <3>3. window'[e] # None
      BY <3>2, PushAssumption
    <3> QED BY <1>2, <2>2, <3>1, <3>2, <3>3
  <2>3. CASE e \in hit \ first
    <3>1. window[e] \in [buffer : Seq(Keys)] /\ window[e] # None
      BY <1>2, <2>1, <2>3
    <3>2. window'[e] = [window[e] EXCEPT !.buffer = Append(@, m.key)]
      BY <1>1, <2>3
    <3>3. /\ window'[e] \in [buffer : Seq(Keys)]
          /\ window'[e].buffer = Append(window[e].buffer, m.key)
      <4>1. Append(window[e].buffer, m.key) \in Seq(Keys)
        BY <3>1
      <4> QED BY <3>1, <3>2, <4>1
    <3>4. window'[e] # None
      BY <3>3, PushAssumption
    <3> QED BY <2>3, <3>1, <3>3, <3>4
  <2>4. CASE e \notin hit
    BY <1>1, <1>2, <2>1, <2>4
  <2> QED BY <2>2, <2>3, <2>4
<1>11. window' \in [Endpoints -> {None} \cup [buffer : Seq(Keys)]]
  BY <1>1, <1>5
<1>6. queue' \in Seq(Deliveries) /\ Len(queue') <= QueueMax /\ DOMAIN ended' = DOMAIN ended
  BY <1>1, <1>2, <1>3, <1>4, BatchQueued
<1>7. /\ DOMAIN owed' = Endpoints \X Keys
      /\ \A e \in Endpoints, k \in Keys :
            owed'[<<e, k>>] = IF e \in hit /\ k = m.key THEN owed[<<e, k>>] + 1 ELSE owed[<<e, k>>]
  BY <1>1, <1>4 DEF HandedForm
<1>8. \A e \in Endpoints : Carried(e, -1)' = IF e \in first THEN <<>>
                                            ELSE IF e \in hit THEN Append(Carried(e, -1), m.key)
                                            ELSE Carried(e, -1)
  <2> TAKE e \in Endpoints
  <2>1. /\ Carried(e, -1)' = IF window'[e] = None THEN <<>> ELSE window'[e].buffer
        /\ Carried(e, -1) = IF window[e] = None THEN <<>> ELSE window[e].buffer
    BY DEF Carried
  <2>2. CASE e \in first
    BY <1>2, <1>5, <2>1, <2>2
  <2>3. CASE e \in hit \ first
    BY <1>5, <2>1, <2>3
  <2>4. CASE e \notin hit
    BY <1>2, <1>5, <2>1, <2>4
  <2> QED BY <2>2, <2>3, <2>4
<1>9. ASSUME NEW e \in Endpoints, NEW k \in Keys PROVE Handed(e, k)'
  <2> DEFINE known == \A n, i : n # -1 => (Lies(e, k, n, i)' <=> Lies(e, k, n, i))
  <2>0. Handed(e, k)
    BY <1>4 DEF HandedInv
  <2>1. /\ \A i : Lies(e, k, -1, i) <=> i \in DOMAIN Carried(e, -1) /\ Carried(e, -1)[i] = k
        /\ \A i : Lies(e, k, -1, i)' <=> i \in DOMAIN Carried(e, -1)' /\ Carried(e, -1)'[i] = k
    BY <1>4, <1>6 DEF Lies, HandedForm
  <2>2. Carried(e, -1) \in Seq(Keys)
    BY <1>4 DEF Carried, HandedForm
  <2>3. e \in first => \A i : ~ Lies(e, k, -1, i) /\ ~ Lies(e, k, -1, i)'
    BY <1>2, <1>8, <2>1 DEF Carried
  <2>4. e \notin hit => \A i : Lies(e, k, -1, i)' <=> Lies(e, k, -1, i)
    BY <1>2, <1>8, <2>1
  <2>5. e \in hit \ first => \A i : Lies(e, k, -1, i)' <=>
           Lies(e, k, -1, i) \/ (i = Len(Carried(e, -1)) + 1 /\ k = m.key)
    BY <1>8, <2>1, <2>2
  <2>6. \/ /\ ended'[<<e, k>>] = IF e \in first THEN ended[<<e, k>>] + Times(<<m.key>>, k)
                                  ELSE ended[<<e, k>>]
           /\ known
        \/ /\ e \in first /\ ended'[<<e, k>>] = ended[<<e, k>>]
           /\ \E p : /\ p # -1 /\ \A i : ~ Lies(e, k, p, i)
                     /\ \A n, i : n # -1 => (Lies(e, k, n, i)' <=>
                                                \/ Lies(e, k, n, i)
                                                \/ n = p /\ i = 1 /\ k = m.key)
    <3>1. first \subseteq Endpoints
      BY <1>2
    <3>2. \/ /\ ended'[<<e, k>>] = IF e \in first THEN ended[<<e, k>>] + Times(batch[e], k)
                                   ELSE ended[<<e, k>>]
             /\ known
          \/ /\ e \in first /\ ended'[<<e, k>>] = ended[<<e, k>>]
             /\ \E p : /\ p # -1 /\ \A i : ~ Lies(e, k, p, i)
                       /\ \A n, i : n # -1 => (Lies(e, k, n, i)' <=>
                                                  \/ Lies(e, k, n, i)
                                                  \/ /\ n = p /\ i \in DOMAIN batch[e]
                                                     /\ batch[e][i] = k)
      <4>1. /\ DOMAIN batch \subseteq Endpoints /\ \A d \in DOMAIN batch : batch[d] \in Seq(Keys)
            /\ Enqueue(batch) /\ HandedForm /\ sending' = sending
        BY <1>1, <1>3, <1>4, <3>1
      <4>2. Brings(batch, e, k)
        BY <4>1, BatchLies
      <4> QED BY <1>3, <4>2 DEF Brings
    <3>3. e \in first => /\ batch[e] = <<m.key>>
                        /\ \A i : i \in DOMAIN batch[e] /\ batch[e][i] = k <=> i = 1 /\ k = m.key
      BY <1>3
    <3> HIDE DEF known
    <3>4. CASE e \notin first
      BY <3>2, <3>4
    <3>5. CASE e \in first
      BY <3>2, <3>3, <3>5
    <3> QED BY <3>4, <3>5
  <2>7. Times(<<m.key>>, k) = IF k = m.key THEN 1 ELSE 0
    BY TimesOne
  <2> HIDE DEF known
  <2>8. CASE k # m.key
    <3>1. \A n, i : Lies(e, k, n, i)' <=> Lies(e, k, n, i)
      BY <1>2, <2>3, <2>4, <2>5, <2>6, <2>8 DEF known
    <3>2. ended[<<e, k>>] \in {0, 1}
      BY <2>0 DEF Handed
    <3>3. ended'[<<e, k>>] = ended[<<e, k>>]
      BY <2>6, <2>7, <2>8, <3>2
    <3> QED BY <1>7, <2>0, <2>8, <3>1, <3>3, SameStays
  <2>9. CASE k = m.key
    <3>1. /\ owed[<<e, k>>] = 0 /\ ended[<<e, k>>] = 0 /\ \A n, i : ~ Lies(e, k, n, i)
      BY <2>0, <2>9 DEF Handed
    <3>2. CASE e \notin hit
      BY <1>2, <1>7, <2>4, <2>6, <3>1, <3>2 DEF known, Handed
    <3>3. CASE e \in hit \ first
      <4>0. PICK l : l = Len(Carried(e, -1)) + 1
        OBVIOUS
      <4>1. Lies(e, k, -1, l)' /\ \A n, i : Lies(e, k, n, i)' => n = -1 /\ i = l
        <5>1. known
          BY <2>6, <3>3
        <5>2. \A i : Lies(e, k, -1, i)' <=> i = l
          BY <2>5, <2>9, <3>1, <3>3, <4>0
        <5>3. \A n, i : Lies(e, k, n, i)' => n = -1
          BY <3>1, <5>1 DEF known
        <5> QED BY <5>2, <5>3
      <4>2. owed'[<<e, k>>] = 1 /\ ended'[<<e, k>>] = 0
        BY <1>7, <2>6, <2>9, <3>1, <3>3
      <4> QED BY <4>1, <4>2 DEF Handed
    <3>4. CASE e \in first /\ known /\ ended'[<<e, k>>] = ended[<<e, k>>] + Times(<<m.key>>, k)
      <4>1. owed'[<<e, k>>] = 1 /\ ended'[<<e, k>>] = 1
        BY <1>2, <1>7, <2>7, <2>9, <3>1, <3>4
      <4>2. \A n, i : ~ Lies(e, k, n, i)'
        BY <2>3, <3>1, <3>4 DEF known
      <4> QED BY <4>1, <4>2 DEF Handed
    <3>5. ASSUME e \in first, ended'[<<e, k>>] = ended[<<e, k>>],
                 NEW p, p # -1,
                 \A n, i : n # -1 => (Lies(e, k, n, i)' <=> \/ Lies(e, k, n, i)
                                                            \/ n = p /\ i = 1 /\ k = m.key)
          PROVE  Handed(e, k)'
      <4>1. owed'[<<e, k>>] = 1 /\ ended'[<<e, k>>] = 0
        BY <1>2, <1>7, <2>9, <3>1, <3>5
      <4>2. Lies(e, k, p, 1)' /\ \A n, i : Lies(e, k, n, i)' => n = p /\ i = 1
        BY <2>3, <2>9, <3>1, <3>5
      <4> QED BY <4>1, <4>2 DEF Handed
    <3> QED BY <2>6, <3>2, <3>3, <3>4, <3>5
  <2> QED BY <2>8, <2>9
<1>10. HandedInv'
  BY <1>9 DEF HandedInv
<1> QED BY <1>4, <1>6, <1>7, <1>10, <1>11 DEF HandedForm

(* What a step leaves of the agenda and of the handlers, when it starts none. *)
WorldShrinks ==
    DOMAIN world' = DOMAIN world /\ \A m \in world'.messages : m \in world.messages

TasksGoOn ==
    /\ DOMAIN task' = Paths
    /\ \A p \in Paths :
          /\ DOMAIN task'[p] = {"stage", "message", "asked", "rows"}
          /\ task'[p].stage # "idle" => task[p].stage # "idle" /\ task'[p].message = task[p].message

LEMMA UseShrinks ==
    ASSUME HandedForm, NEW what \in DOMAIN world, NEW x, Use(what, x)
    PROVE  WorldShrinks
<1>1. world' = [world EXCEPT ![what] = @ \ {x}]
  BY DEF Use
<1>2. DOMAIN world' = DOMAIN world
  BY <1>1
<1>3. "messages" \in DOMAIN world
  BY DEF HandedForm
<1>4. world'["messages"] = IF what = "messages" THEN world["messages"] \ {x} ELSE world["messages"]
  BY <1>1, <1>3
<1> QED BY <1>2, <1>4 DEF WorldShrinks

LEMMA OnceStays ==
    ASSUME OnceInv, WorldShrinks, TasksGoOn, UNCHANGED <<owed, seen>>,
           window' \in [Endpoints -> {None} \cup [buffer : Seq(Keys)]],
           queue' \in Seq(Deliveries), Len(queue') <= QueueMax, sending' \in {None} \cup Deliveries,
           DOMAIN ended' = DOMAIN ended, HandedInv'
    PROVE  OnceInv'
<1>1. HandedForm /\ SeenInv
  BY DEF OnceInv
<1>2. HandedForm'
  BY <1>1 DEF HandedForm, WorldShrinks, TasksGoOn
<1>3. SeenInv'
  BY <1>1 DEF SeenInv, TasksGoOn, Busy
<1> QED BY <1>2, <1>3 DEF OnceInv

LEMMA TasksStand == ASSUME HandedForm, task' = task PROVE TasksGoOn
BY DEF HandedForm, TasksGoOn

LEMMA HandedStands ==
    ASSUME HandedInv, UNCHANGED <<owed, ended, window, queue, sending>>
    PROVE  HandedInv'
<1> SUFFICES ASSUME NEW e \in Endpoints, NEW k \in Keys PROVE Handed(e, k)'
  BY DEF HandedInv
<1>1. \A n, i : Lies(e, k, n, i)' <=> Lies(e, k, n, i)
  BY DEF Lies, Carried
<1>2. Handed(e, k)
  BY DEF HandedInv
<1> QED BY <1>1, <1>2, SameStays

LEMMA LineStands ==
    ASSUME OnceInv, WorldShrinks, TasksGoOn, UNCHANGED <<owed, ended, seen, window, queue, sending>>
    PROVE  OnceInv'
<1>1. HandedForm /\ HandedInv
  BY DEF OnceInv
<1>2. HandedInv'
  BY <1>1, HandedStands
<1> QED BY <1>1, <1>2, OnceStays DEF HandedForm

LEMMA ArriveOnce == ASSUME OnceInv, NEW path \in Paths, Arrive(path) PROVE OnceInv'
<1>1. PICK m \in world.messages :
         /\ Use("messages", m)
         /\ \/ UNCHANGED <<seen, task, window, queue, owed, ended>>
            \/ /\ m.key \notin seen /\ seen' = seen \cup {m.key}
               /\ Submit(cache, m) /\ UNCHANGED task
            \/ /\ m.key \notin seen /\ seen' = seen \cup {m.key}
               /\ task' = [task EXCEPT ![path] =
                              [stage |-> "ask", message |-> m, asked |-> Settled, rows |-> <<>>]]
               /\ UNCHANGED <<window, queue, owed, ended>>
  BY DEF Arrive, Passes, Remembered
<1>2. sending' = sending
  BY DEF Arrive
<1>3. HandedForm /\ SeenInv /\ m.key \in Keys
  BY DEF OnceInv, HandedForm
<1>4. WorldShrinks
  BY <1>1, <1>3, UseShrinks DEF HandedForm
<1>5. CASE UNCHANGED <<seen, task, window, queue, owed, ended>>
  BY <1>2, <1>3, <1>4, <1>5, TasksStand, LineStands
<1>6. CASE m.key \notin seen /\ seen' = seen \cup {m.key} /\ Submit(cache, m) /\ UNCHANGED task
  <2>1. PICK some : some = cache
    OBVIOUS
  <2>2. Submit(some, m) /\ \A e \in Endpoints : owed[<<e, m.key>>] = 0
    BY <1>3, <1>6, <2>1 DEF SeenInv
  <2>3. /\ window' \in [Endpoints -> {None} \cup [buffer : Seq(Keys)]]
        /\ queue' \in Seq(Deliveries) /\ Len(queue') <= QueueMax
        /\ DOMAIN owed' = Endpoints \X Keys /\ DOMAIN ended' = Endpoints \X Keys
        /\ HandedInv'
        /\ \A e \in Endpoints, k \in Keys : owed'[<<e, k>>] # owed[<<e, k>>] => k = m.key
    BY <1>2, <1>3, <2>2, SubmitHands
  <2>4. HandedForm'
    BY <1>2, <1>3, <1>4, <1>6, <2>3 DEF HandedForm, WorldShrinks
  <2>5. \A p \in Paths : Busy(p)' = Busy(p) /\ (Busy(p) => task[p].message.key \in Keys \cap seen)
    BY <1>3, <1>6 DEF Busy, SeenInv, HandedForm
  <2>6. SeenInv'
    BY <1>3, <1>6, <2>3, <2>5 DEF SeenInv
  <2> QED BY <2>3, <2>4, <2>6 DEF OnceInv
<1>7. CASE /\ m.key \notin seen /\ seen' = seen \cup {m.key}
           /\ task' = [task EXCEPT ![path] =
                          [stage |-> "ask", message |-> m, asked |-> Settled, rows |-> <<>>]]
           /\ UNCHANGED <<window, queue, owed, ended>>
  <2>1. /\ DOMAIN task' = Paths
        /\ task'[path] = [stage |-> "ask", message |-> m, asked |-> Settled, rows |-> <<>>]
        /\ \A p \in Paths \ {path} : task'[p] = task[p]
    BY <1>3, <1>7 DEF HandedForm
  <2>2. /\ DOMAIN task'[path] = {"stage", "message", "asked", "rows"}
        /\ task'[path].message = m /\ task'[path].stage = "ask"
    BY <2>1
  <2>3. HandedForm'
    BY <1>2, <1>3, <1>4, <1>7, <2>1, <2>2 DEF HandedForm, WorldShrinks
  <2>5. HandedInv'
    BY <1>2, <1>7, HandedStands DEF OnceInv
  <2>6. /\ \A e \in Endpoints : owed[<<e, m.key>>] = 0
        /\ \A p \in Paths : Busy(p) => task[p].message.key # m.key
    BY <1>3, <1>7 DEF SeenInv
  <2>7. SeenInv'
    BY <1>3, <1>7, <2>1, <2>2, <2>6 DEF SeenInv, Busy
  <2> QED BY <2>3, <2>5, <2>7 DEF OnceInv
<1> QED BY <1>1, <1>5, <1>6, <1>7

LEMMA ReadOnce == ASSUME OnceInv, NEW path \in Paths, ListRead(path) PROVE OnceInv'
<1>1. /\ task[path].stage = "ask"
      /\ task' = [task EXCEPT ![path].stage = "fill", ![path].rows = subs]
      /\ UNCHANGED <<world, owed, ended, seen, window, queue, sending>>
  BY DEF ListRead, history
<1>2. HandedForm
  BY DEF OnceInv
<1>3. /\ DOMAIN task' = Paths
      /\ task'[path] = [task[path] EXCEPT !.stage = "fill", !.rows = subs]
      /\ \A p \in Paths \ {path} : task'[p] = task[p]
  BY <1>1, <1>2 DEF HandedForm
<1>4. DOMAIN task'[path] = DOMAIN task[path] /\ task'[path].message = task[path].message
  BY <1>2, <1>3 DEF HandedForm
<1>5. TasksGoOn
  BY <1>1, <1>2, <1>3, <1>4 DEF TasksGoOn, HandedForm
<1> QED BY <1>1, <1>5, LineStands DEF WorldShrinks

LEMMA FillOnce == ASSUME OnceInv, NEW path \in Paths, ListFill(path) PROVE OnceInv'
<1>1. PICK some : some = task[path].rows
  OBVIOUS
<1>2. PICK m : m = task[path].message
  OBVIOUS
<1>3. /\ task[path].stage = "fill" /\ Submit(some, m)
      /\ task' = [task EXCEPT ![path] = Nothing]
      /\ UNCHANGED <<world, seen, sending>>
  BY <1>1, <1>2 DEF ListFill
<1>4. HandedForm /\ SeenInv
  BY DEF OnceInv
<1>5. Busy(path) /\ m.key \in Keys /\ \A e \in Endpoints : owed[<<e, m.key>>] = 0
  BY <1>2, <1>3, <1>4 DEF Busy, HandedForm, SeenInv
<1>6. /\ window' \in [Endpoints -> {None} \cup [buffer : Seq(Keys)]]
      /\ queue' \in Seq(Deliveries) /\ Len(queue') <= QueueMax
      /\ DOMAIN owed' = Endpoints \X Keys /\ DOMAIN ended' = Endpoints \X Keys
      /\ HandedInv'
      /\ \A e \in Endpoints, k \in Keys : owed'[<<e, k>>] # owed[<<e, k>>] => k = m.key
  BY <1>3, <1>5, SubmitHands
<1>7. /\ DOMAIN task' = Paths /\ task'[path] = Nothing
      /\ \A p \in Paths \ {path} : task'[p] = task[p]
  BY <1>3, <1>4 DEF HandedForm
<1>8. DOMAIN Nothing = {"stage", "message", "asked", "rows"} /\ Nothing.stage = "idle"
  BY DEF Nothing
<1>9. HandedForm'
  BY <1>3, <1>4, <1>6, <1>7, <1>8 DEF HandedForm
<1>10. \A p \in Paths : Busy(p)' => p # path /\ Busy(p) /\ task'[p] = task[p]
  BY <1>7, <1>8 DEF Busy
<1>11. m.key \in seen
  BY <1>2, <1>4, <1>5 DEF SeenInv
<1>12. \A p \in Paths : Busy(p)' => task[p].message.key # m.key /\ task[p].message.key \in Keys
  BY <1>2, <1>4, <1>5, <1>10 DEF SeenInv, HandedForm, Busy
<1>13. SeenInv'
  BY <1>3, <1>4, <1>6, <1>10, <1>11, <1>12 DEF SeenInv
<1> QED BY <1>6, <1>9, <1>13 DEF OnceInv

(* The sweep: what a window collected comes to its end, or lies in a delivery. *)
LEMMA SweepOnce == ASSUME OnceInv, Sweep PROVE OnceInv'
<1>1. PICK due \in SUBSET {e \in Endpoints : window[e] # None} :
         /\ PopExpired(due)
         /\ Enqueue([e \in {d \in due : window[d].buffer # <<>>} |-> window[e].buffer])
  BY DEF Sweep
<1>2. PICK batch : batch = [e \in {d \in due : window[d].buffer # <<>>} |-> window[e].buffer]
  OBVIOUS
<1>3. HandedForm /\ HandedInv
  BY DEF OnceInv
<1>4. /\ \A e \in due : e \in Endpoints /\ window[e] # None /\ window[e].buffer \in Seq(Keys)
      /\ window' = [e \in Endpoints |-> IF e \in due THEN None ELSE window[e]]
      /\ UNCHANGED <<world, task, seen, sending, owed>>
  BY <1>1, <1>3 DEF PopExpired, Sweep, HandedForm
<1>5. /\ Enqueue(batch) /\ DOMAIN batch = {d \in due : window[d].buffer # <<>>}
      /\ \A e \in DOMAIN batch : batch[e] = window[e].buffer
  BY <1>1, <1>2
<1>6. DOMAIN batch \subseteq Endpoints /\ \A e \in DOMAIN batch : batch[e] \in Seq(Keys)
  BY <1>4, <1>5
<1>7. queue' \in Seq(Deliveries) /\ Len(queue') <= QueueMax /\ DOMAIN ended' = DOMAIN ended
  BY <1>3, <1>5, <1>6, BatchQueued
<1>8. ASSUME NEW e \in Endpoints, NEW k \in Keys PROVE Handed(e, k)'
  <2>0. Handed(e, k) /\ owed' = owed /\ -1 \in -1 .. Len(queue) /\ -1 \in -1 .. Len(queue')
    BY <1>3, <1>4, <1>7 DEF HandedInv, HandedForm
  <2>1. Brings(batch, e, k)
    BY <1>3, <1>4, <1>5, <1>6, BatchLies
  <2>2. /\ \A i : Lies(e, k, -1, i) <=> i \in DOMAIN Carried(e, -1) /\ Carried(e, -1)[i] = k
        /\ \A i : Lies(e, k, -1, i)' <=> i \in DOMAIN Carried(e, -1)' /\ Carried(e, -1)'[i] = k
    BY <2>0 DEF Lies
  <2>3. /\ Carried(e, -1)' = IF window'[e] = None THEN <<>> ELSE window'[e].buffer
        /\ Carried(e, -1) = IF window[e] = None THEN <<>> ELSE window[e].buffer
    BY DEF Carried
  <2>4. e \in due => \A i : ~ Lies(e, k, -1, i)'
    BY <1>4, <2>2, <2>3
  <2>5. e \notin due => \A i : Lies(e, k, -1, i)' <=> Lies(e, k, -1, i)
    BY <1>4, <2>2, <2>3
  <2>6. CASE e \notin DOMAIN batch
    <3>1. /\ ended'[<<e, k>>] = ended[<<e, k>>]
          /\ \A n, i : n # -1 => (Lies(e, k, n, i)' <=> Lies(e, k, n, i))
      BY <2>1, <2>6 DEF Brings
    <3>2. e \in due => Carried(e, -1) = <<>>
      BY <1>5, <2>3, <2>6
    <3>3. e \in due => \A i : ~ Lies(e, k, -1, i)
      BY <2>2, <3>2
    <3>4. \A n, i : Lies(e, k, n, i)' <=> Lies(e, k, n, i)
      BY <2>4, <2>5, <3>1, <3>3
    <3> QED BY <2>0, <3>1, <3>4, SameStays
  <2>7. CASE /\ e \in DOMAIN batch /\ ended'[<<e, k>>] = ended[<<e, k>>] + Times(batch[e], k)
             /\ \A n, i : n # -1 => (Lies(e, k, n, i)' <=> Lies(e, k, n, i))
    <3>1. e \in due /\ batch[e] = Carried(e, -1)
      BY <1>4, <1>5, <2>3, <2>7
    <3>2. \A n, i : Lies(e, k, n, i)' <=> Lies(e, k, n, i) /\ n # -1
      BY <2>4, <2>7, <3>1
    <3> QED BY <2>0, <2>7, <3>1, <3>2, EndedStays
  <2>8. ASSUME e \in DOMAIN batch, ended'[<<e, k>>] = ended[<<e, k>>],
               NEW m, m # -1, \A i : ~ Lies(e, k, m, i),
               \A n, i : n # -1 => (Lies(e, k, n, i)' <=>
                                       \/ Lies(e, k, n, i)
                                       \/ n = m /\ i \in DOMAIN batch[e] /\ batch[e][i] = k)
        PROVE  Handed(e, k)'
    <3>1. e \in due /\ batch[e] = Carried(e, -1)
      BY <1>4, <1>5, <2>3, <2>8
    <3>2. \A n, i : n # -1 => (Lies(e, k, n, i)' <=>
                                  Lies(e, k, n, i) \/ (n = m /\ Lies(e, k, -1, i)))
      BY <2>2, <2>8, <3>1
    <3>3. PICK f : f = [n \in -1 .. Len(queue) |-> IF n = -1 THEN m ELSE n]
      OBVIOUS
    <3>4. \A n, i : Lies(e, k, n, i) => n \in -1 .. Len(queue) /\ f[n] = IF n = -1 THEN m ELSE n
      BY <3>3 DEF Lies
    <3>5. ASSUME NEW n, NEW i, Lies(e, k, n, i) PROVE Lies(e, k, f[n], i)'
      BY <2>8, <3>2, <3>4, <3>5
    <3>6. ASSUME NEW p, NEW i, Lies(e, k, p, i)' PROVE \E n : Lies(e, k, n, i) /\ f[n] = p
      BY <2>4, <3>1, <3>2, <3>4, <3>6
    <3> QED BY <2>0, <2>8, <3>5, <3>6, MovedStays
  <2> QED BY <2>1, <2>6, <2>7, <2>8 DEF Brings
<1>9. HandedInv'
  BY <1>8 DEF HandedInv
<1>10. window' \in [Endpoints -> {None} \cup [buffer : Seq(Keys)]]
  BY <1>3, <1>4 DEF HandedForm
<1>11. sending' \in {None} \cup Deliveries
  BY <1>3, <1>4 DEF HandedForm
<1>12. WorldShrinks /\ TasksGoOn
  BY <1>3, <1>4, TasksStand DEF WorldShrinks
<1> QED BY <1>4, <1>7, <1>9, <1>10, <1>11, <1>12, OnceStays

(* The head of the queue is in delivery. *)
LEMMA DrainOnce == ASSUME OnceInv, Drain PROVE OnceInv'
<1>1. /\ sending = None /\ queue # <<>> /\ sending' = Head(queue) /\ queue' = Tail(queue)
      /\ UNCHANGED <<world, task, seen, window, owed, ended>>
  BY DEF Drain, history
<1>2. HandedForm /\ HandedInv
  BY DEF OnceInv
<1>3. /\ Len(queue) \in Nat \ {0} /\ sending' = queue[1] /\ sending' \in Deliveries
      /\ queue' \in Seq(Deliveries) /\ Len(queue') = Len(queue) - 1
      /\ \A n \in 1 .. Len(queue') : queue'[n] = queue[n + 1]
  BY <1>1, <1>2 DEF HandedForm
<1>4. PICK f : f = [n \in -1 .. Len(queue) |-> IF n = -1 THEN -1 ELSE n - 1]
  OBVIOUS
<1>5. ASSUME NEW e \in Endpoints, NEW k \in Keys PROVE Handed(e, k)'
  <2>1. Carried(e, -1)' = Carried(e, -1) /\ Carried(e, 0) = <<>> /\ Carried(e, 0)' = Carried(e, 1)
    BY <1>1, <1>3 DEF Carried
  <2>2. \A n \in 1 .. Len(queue') : Carried(e, n)' = Carried(e, n + 1)
    BY <1>3 DEF Carried
  <2>3. ASSUME NEW n, NEW i, Lies(e, k, n, i) PROVE Lies(e, k, f[n], i)'
    <3>1. n \in -1 .. Len(queue) /\ n # 0
      BY <2>1, <2>3 DEF Lies
    <3>2. f[n] \in -1 .. Len(queue') /\ Carried(e, f[n])' = Carried(e, n)
      BY <1>3, <1>4, <2>1, <2>2, <3>1
    <3> QED BY <2>3, <3>2 DEF Lies
  <2>4. ASSUME NEW m, NEW i, Lies(e, k, m, i)' PROVE \E n : Lies(e, k, n, i) /\ f[n] = m
    <3>1. m \in -1 .. Len(queue')
      BY <2>4 DEF Lies
    <3>2. PICK n \in -1 .. Len(queue) : f[n] = m /\ Carried(e, m)' = Carried(e, n)
      BY <1>3, <1>4, <2>1, <2>2, <3>1
    <3> QED BY <2>4, <3>2 DEF Lies
  <2>5. Handed(e, k)
    BY <1>2 DEF HandedInv
  <2> QED BY <1>1, <2>3, <2>4, <2>5, MovedStays
<1>6. HandedInv'
  BY <1>5 DEF HandedInv
<1>7. WorldShrinks /\ TasksGoOn
  BY <1>1, <1>2, TasksStand DEF WorldShrinks
<1> QED BY <1>1, <1>2, <1>3, <1>6, <1>7, PushAssumption, OnceStays DEF HandedForm

(* The delivery in progress comes to its end. *)
LEMMA SendingOnce ==
    ASSUME OnceInv, WorldShrinks, TasksGoOn, UNCHANGED <<owed, seen, window, queue>>,
           sending # None, Finish([e \in {sending.endpoint} |-> sending.keys]),
           sending' \in {None} \cup Deliveries, sending' # None => sending'.keys = <<>>
    PROVE  OnceInv'
<1>1. HandedForm /\ HandedInv
  BY DEF OnceInv
<1>2. /\ DOMAIN ended' = DOMAIN ended
      /\ \A x \in DOMAIN ended :
            ended'[x] = IF x[1] = sending.endpoint THEN ended[x] + Times(sending.keys, x[2]) ELSE ended[x]
  BY DEF Finish
<1>3. ASSUME NEW e \in Endpoints, NEW k \in Keys PROVE Handed(e, k)'
  <2>1. <<e, k>> \in DOMAIN ended /\ Handed(e, k) /\ 0 \in -1 .. Len(queue)
    BY <1>1 DEF HandedForm, HandedInv
  <2>2. /\ Carried(e, 0) = IF sending.endpoint = e THEN sending.keys ELSE <<>>
        /\ Carried(e, 0)' = <<>>
        /\ \A n \in -1 .. Len(queue) : n # 0 => Carried(e, n)' = Carried(e, n)
    BY DEF Carried
  <2>3. \A n, i : Lies(e, k, n, i)' <=> Lies(e, k, n, i) /\ n # 0
    BY <2>2 DEF Lies
  <2>4. CASE sending.endpoint = e
    BY <1>2, <2>1, <2>2, <2>3, <2>4, EndedStays
  <2>5. CASE sending.endpoint # e
    <3>1. ended'[<<e, k>>] = ended[<<e, k>>]
      BY <1>2, <2>1, <2>5
    <3>2. \A i : ~ Lies(e, k, 0, i)
      BY <2>2, <2>5 DEF Lies
    <3>3. \A n, i : Lies(e, k, n, i)' <=> Lies(e, k, n, i)
      BY <2>3, <3>2
    <3> QED BY <2>1, <3>1, <3>3, SameStays
  <2> QED BY <2>4, <2>5
<1>4. HandedInv'
  BY <1>3 DEF HandedInv
<1> QED BY <1>1, <1>2, <1>4, OnceStays DEF HandedForm

LEMMA DeliveredOnce == ASSUME OnceInv, Delivered PROVE OnceInv'
<1>1. HandedForm
  BY DEF OnceInv
<1>2. WorldShrinks /\ TasksGoOn
  BY <1>1, TasksStand DEF Delivered, WorldShrinks
<1> QED BY <1>2, SendingOnce DEF Delivered

LEMMA GoneOnce == ASSUME OnceInv, Gone PROVE OnceInv'
<1>1. HandedForm
  BY DEF OnceInv
<1>2. WorldShrinks /\ TasksGoOn
  BY <1>1, TasksStand, UseShrinks DEF Gone, HandedForm
<1>3. sending \in Deliveries /\ sending' = Delivery(sending.endpoint, <<>>)
  BY <1>1 DEF Gone, HandedForm
<1>4. sending' \in Deliveries /\ sending'.keys = <<>>
  BY <1>3 DEF Delivery, Deliveries
<1> QED BY <1>2, <1>4, SendingOnce DEF Gone

(* The end of a request: a delivery in progress that has already come to its *)
(* own leaves nothing behind.                                                *)
LEMMA NoticedOnce == ASSUME OnceInv, NEW d \in Endpoints, Noticed(d) PROVE OnceInv'
<1>1. HandedForm /\ HandedInv
  BY DEF OnceInv
<1>2. /\ UNCHANGED <<world, task, seen, window, queue, owed, ended>>
      /\ \/ sending' = sending
         \/ sending = Delivery(d, <<>>) /\ sending' = None
  BY DEF Noticed
<1>3. WorldShrinks /\ TasksGoOn
  BY <1>1, <1>2, TasksStand DEF WorldShrinks
<1>4. ASSUME NEW e \in Endpoints PROVE \A n \in -1 .. Len(queue) : Carried(e, n)' = Carried(e, n)
  <2>1. CASE sending' = sending
    BY <1>2, <2>1 DEF Carried
  <2>2. CASE sending = Delivery(d, <<>>) /\ sending' = None
    <3>1. Carried(e, 0) = <<>> /\ Carried(e, 0)' = <<>>
      BY <2>2 DEF Carried, Delivery
    <3>2. \A n \in -1 .. Len(queue) : n # 0 => Carried(e, n)' = Carried(e, n)
      BY <1>2 DEF Carried
    <3> QED BY <3>1, <3>2
  <2> QED BY <1>2, <2>1, <2>2
<1>5. ASSUME NEW e \in Endpoints, NEW k \in Keys PROVE Handed(e, k)'
  <2>1. \A n, i : Lies(e, k, n, i)' <=> Lies(e, k, n, i)
    BY <1>2, <1>4 DEF Lies
  <2>2. Handed(e, k)
    BY <1>1 DEF HandedInv
  <2> QED BY <1>2, <2>1, <2>2, SameStays
<1>6. HandedInv'
  BY <1>5 DEF HandedInv
<1> QED BY <1>1, <1>2, <1>3, <1>6, OnceStays DEF HandedForm

(* A process that starts has nothing on its way. *)
Cold ==
    /\ window = [e \in Endpoints |-> None] /\ queue = <<>> /\ sending = None
    /\ owed = NoCounts /\ ended = NoCounts /\ task = [p \in Paths |-> Nothing]
    /\ DOMAIN world = {"messages", "requests", "gone", "blocked", "unblock", "ends"}
    /\ \A m \in world.messages : m.key \in Keys

LEMMA ColdOnce == Cold => OnceInv
<1> SUFFICES ASSUME Cold PROVE OnceInv
  OBVIOUS
<1> USE DEF Cold
<1>1. \A p \in Paths : DOMAIN task[p] = {"stage", "message", "asked", "rows"} /\ task[p].stage = "idle"
  BY DEF Nothing
<1>2. /\ DOMAIN owed = Endpoints \X Keys /\ DOMAIN ended = Endpoints \X Keys
      /\ \A e \in Endpoints, k \in Keys : owed[<<e, k>>] = 0 /\ ended[<<e, k>>] = 0
  BY DEF NoCounts
<1>3. HandedForm
  BY <1>1, <1>2, PushAssumption DEF HandedForm
<1>4. ASSUME NEW e \in Endpoints PROVE \A n \in -1 .. Len(queue) : Carried(e, n) = <<>>
  BY DEF Carried
<1>5. \A n, i : \A e \in Endpoints, k \in Keys : ~ Lies(e, k, n, i)
  BY <1>4 DEF Lies
<1>6. HandedInv
  BY <1>2, <1>5 DEF HandedInv, Handed
<1>7. SeenInv
  BY <1>1, <1>2 DEF SeenInv, Busy
<1> QED BY <1>3, <1>6, <1>7 DEF OnceInv

LEMMA ColdAgain == Cold' => OnceInv'
BY ColdOnce, PTL

LEMMA RestartOnce == ASSUME OnceInv, RestartPush PROVE OnceInv'
<1>1. HandedForm
  BY DEF OnceInv
<1>2. WorldShrinks
  BY <1>1, UseShrinks DEF RestartPush, HandedForm
<1>3. /\ DOMAIN world' = {"messages", "requests", "gone", "blocked", "unblock", "ends"}
      /\ \A m \in world'.messages : m.key \in Keys
  BY <1>1, <1>2 DEF HandedForm, WorldShrinks
<1>4. /\ window' = [e \in Endpoints |-> None] /\ queue' = <<>> /\ sending' = None
      /\ owed' = NoCounts /\ ended' = NoCounts /\ task' = [p \in Paths |-> Nothing]
  BY DEF RestartPush
<1> QED BY <1>3, <1>4, ColdAgain DEF Cold

LEMMA OnceStep == OnceInv /\ [WebNext]_webVars => OnceInv'
<1> SUFFICES ASSUME OnceInv, [WebNext]_webVars PROVE OnceInv'
  OBVIOUS
<1>0. HandedForm
  BY DEF OnceInv
<1>1. CASE StreamStep \/ RuleStep \/ UNCHANGED webVars
  <2>1. UNCHANGED <<world, task, seen, window, queue, sending, owed, ended>>
    BY <1>1 DEF StreamStep, RuleStep, webVars, pushVars, memory, history
  <2> QED BY <1>0, <2>1, TasksStand, LineStands DEF WorldShrinks
<1>2. CASE PushNext
  <2>1. CASE \E p \in Paths : Arrive(p) \/ ListRead(p) \/ ListFill(p)
    BY <2>1, ArriveOnce, ReadOnce, FillOnce
  <2>2. CASE \E e \in Endpoints : Noticed(e)
    BY <2>2, NoticedOnce
  <2>3. CASE Sweep \/ Drain \/ Delivered \/ Gone \/ RestartPush
    BY <2>3, SweepOnce, DrainOnce, DeliveredOnce, GoneOnce, RestartOnce
  <2>4. CASE Subscribe \/ Unblock \/ StopPush
    <3>1. WorldShrinks
      BY <1>0, <2>4, UseShrinks DEF Subscribe, Unblock, StopPush, HandedForm
    <3>2. UNCHANGED <<task, seen, window, queue, sending, owed, ended>>
      BY <2>4 DEF Subscribe, Unblock, StopPush, memory, history
    <3> QED BY <1>0, <3>1, <3>2, TasksStand, LineStands
  <2> QED BY <1>2, <2>1, <2>2, <2>3, <2>4 DEF PushNext
<1> QED BY <1>1, <1>2 DEF WebNext, PushStep

(* However many copies of a message arrive, and however they, the sweep, the  *)
(* delivery and the requests of the browsers interleave, it notifies a        *)
(* browser once, and is lost only to a push service that fails or to a full   *)
(* queue (PushCoalescer.submit, pop_expired, _enqueue, _deliver_one).         *)
THEOREM NotifiesOnce == WebSpec => []NotifiedOnce
<1>1. WebInit => OnceInv
  <2> SUFFICES ASSUME WebInit PROVE OnceInv
    OBVIOUS
  <2>1. /\ window = [e \in Endpoints |-> None] /\ queue = <<>> /\ sending = None
        /\ owed = NoCounts /\ ended = NoCounts /\ task = [p \in Paths |-> Nothing]
        /\ world \in PushAgendas
    BY DEF WebInit, PushInit, ColdStart
  <2>2. \A m \in world.messages : m.key \in Keys
    BY <2>1 DEF Keys
  <2> QED BY <2>1, <2>2, PushAssumption, ColdOnce DEF Cold
<1>2. OnceInv => NotifiedOnce
  BY PlacesCounted
<1> QED BY <1>1, <1>2, OnceStep, PTL DEF WebSpec

-----------------------------------------------------------------------------
(* The classifier.                                                         *)
Versions == 0 .. Len(rulesAt) - 1

EditForm(e) ==
    /\ DOMAIN e = {"stage", "got", "forced"}
    /\ e.stage \in {"bumpWrite", "verSet"} => e.got \in Versions
    /\ e.stage = "rulesSet" => e.got \in Nat

TaskForm(t) ==
    /\ t.stage = "judged" => t.judged \in Nat
    /\ t.stage = "stamped" => t.judged \in Nat \cup {NoRule} /\ t.stamp \in Versions

RowForm(entry) ==
    \/ entry = Unstored
    \/ entry.judged \in Nat \cup {NoRule} /\ entry.ver \in {Unstamped} \cup Versions

Running(t) == t.stage \in {"batch", "row", "judged", "stamped"}

RuleForm ==
    /\ dbRules \in Nat /\ rules \in Nat
    /\ rulesAt \in Seq(Nat) /\ \A v \in Versions : rulesAt[v + 1] <= dbRules
    /\ dbVersion \in Versions /\ version \in Versions
    /\ DOMAIN rows = RowIds /\ \A r \in RowIds : RowForm(rows[r])
    /\ DOMAIN edit = Admins /\ \A a \in Admins : EditForm(edit[a])
    /\ DOMAIN inflow = RuleLanes
    /\ \A l \in RuleLanes : DOMAIN inflow[l] = DOMAIN NoTask /\ TaskForm(inflow[l])
    /\ DOMAIN job = JobNames
    /\ \A j \in JobNames :
          /\ DOMAIN job[j] = DOMAIN NoJob /\ TaskForm(job[j])
          /\ Running(job[j]) => job[j].target \in Nat
    /\ DOMAIN boot = {"stage", "version"}

(* The rules in memory are as young as its version says, or somebody is on *)
(* the way to load such rules.                                             *)
Behind(got) == got < rulesAt[version + 1]

MemoryTrue ==
    \/ muddled
    \/ ~Behind(rules)
    \/ \E a \in Admins : \/ edit[a].stage = "rulesRead"
                         \/ edit[a].stage = "rulesSet" /\ ~Behind(edit[a].got)

TaskTrue(t) ==
    \/ t.beside
    \/ /\ t.stage = "judged" => ~Behind(t.judged)
       /\ t.stage = "stamped" /\ t.judged # NoRule => t.judged >= rulesAt[t.stamp + 1]

TasksTrue == (\A l \in RuleLanes : TaskTrue(inflow[l])) /\ (\A j \in JobNames : TaskTrue(job[j]))

StampInv == MemoryTrue /\ TasksTrue /\ StampIsTrue

(* A version that is marked, or about to be, has no row below it but the   *)
(* excused ones and those of the backfill that runs.                       *)
Straight == ~muddled /\ ~lowered

Clean(v) == Below(v) \subseteq excused \/ (Running(job["backfill"]) /\ v <= job["backfill"].target)

MarkInv ==
    Straight =>
        /\ version <= dbVersion
        /\ \A a \in Admins : edit[a].stage = "verSet" => edit[a].got <= dbVersion
        /\ boot.version \in 0 .. version /\ marks \subseteq 0 .. version
        /\ boot.stage \in {"check", "count"} => ~Running(job["backfill"])
        /\ \A v \in marks : Clean(v)
        /\ boot.stage = "mark" => Clean(boot.version)

RuleInv == RuleForm /\ StampInv /\ MarkInv

LEMMA OnlyChoice ==
    ASSUME NEW S, NEW f, NEW i \in S, \A n \in S : f[n] = f[i] => n = i
    PROVE  (CHOOSE n \in S : f[n] = f[i]) = i
OBVIOUS

LEMMA Stages ==
    /\ After("write") = "bumpRead" /\ After("bumpRead") = "bumpWrite"
    /\ After("bumpWrite") = "verRead" /\ After("verRead") = "verSet"
    /\ After("verSet") = "rulesRead" /\ After("rulesRead") = "rulesSet"
    /\ After("rulesSet") = "over"
<1>1. DOMAIN Order = 1 .. 7 /\ Len(Order) = 7
  BY DEF Order
<1>2. ASSUME NEW i \in 1 .. 7 PROVE (CHOOSE n \in DOMAIN Order : Order[n] = Order[i]) = i
  <2>1. \A n \in DOMAIN Order : Order[n] = Order[i] => n = i
    BY <1>1 DEF Order
  <2>2. i \in DOMAIN Order
    BY <1>1
  <2> HIDE DEF Order
  <2> QED BY <2>1, <2>2, OnlyChoice
<1>3. ASSUME NEW i \in 1 .. 7 PROVE After(Order[i]) = IF i = Len(Order) THEN "over" ELSE Order[i + 1]
  <2> HIDE DEF Order
  <2> DEFINE c == CHOOSE n \in DOMAIN Order : Order[n] = Order[i]
  <2>1. After(Order[i]) = IF c = Len(Order) THEN "over" ELSE Order[c + 1]
    BY DEF After
  <2>2. c = i
    BY <1>2
  <2> QED BY <2>1, <2>2
<1> QED BY <1>1, <1>3 DEF Order

LEMMA RuleInit0 == WebInit => RuleInv
<1> SUFFICES ASSUME WebInit PROVE RuleInv
  OBVIOUS
<1>1. /\ chores \in RuleAgendas /\ dbRules = 0 /\ rules = 0 /\ dbVersion = 0 /\ version = 0
      /\ marks = (IF chores.fresh THEN {} ELSE {0})
      /\ rows = [r \in RowIds |-> IF r \in chores.old THEN Old ELSE Unstored]
      /\ edit = [a \in Admins |-> Quiet]
      /\ inflow = [l \in RuleLanes |-> NoTask]
      /\ job = [j \in JobNames |-> NoJob]
      /\ boot = [stage |-> IF chores.fresh THEN "check" ELSE "done", version |-> 0]
      /\ rulesAt = <<0>>
  BY DEF WebInit, RuleInit
<1>2. Versions = {0} /\ rulesAt[1] = 0 /\ rulesAt \in Seq(Nat)
  BY <1>1 DEF Versions
<1>3. \A r \in RowIds : RowForm(rows[r])
  BY <1>1 DEF RowForm, Old, Unstamped
<1>4. /\ \A a \in Admins : EditForm(edit[a])
      /\ \A l \in RuleLanes : DOMAIN inflow[l] = DOMAIN NoTask /\ inflow[l].stage = "idle"
      /\ \A j \in JobNames : DOMAIN job[j] = DOMAIN NoJob /\ job[j].stage = "idle"
  BY <1>1 DEF EditForm, Quiet, NoTask, NoJob
<1>5. RuleForm
  BY <1>1, <1>2, <1>3, <1>4 DEF RuleForm, TaskForm, Running
<1>6. StampInv
  BY <1>1, <1>2, <1>4 DEF StampInv, MemoryTrue, Behind, TasksTrue, TaskTrue, StampIsTrue, Old,
     Unstamped
<1>7. MarkInv
  <2>1. CASE chores.fresh
    BY <1>1, <1>4, <2>1 DEF MarkInv, Running, JobNames, Quiet
  <2>2. CASE ~chores.fresh
    <3>1. Below(0) = {}
      BY <1>1, <2>2, RowsAssumption DEF Below
    <3> QED BY <1>1, <2>2, <3>1 DEF MarkInv, Clean, Quiet
  <2> QED BY <2>1, <2>2
<1> QED BY <1>5, <1>6, <1>7 DEF RuleInv
(* A step of one request, in which the program notes what it has read.     *)
LEMMA EditMoves ==
    ASSUME RuleInv, NEW a \in Admins, DOMAIN edit' = Admins,
           \A b \in Admins \ {a} : edit'[b] = edit[b], EditForm(edit'[a]),
           \/ edit[a].stage \notin {"rulesRead", "rulesSet"}
           \/ edit'[a].stage = "rulesRead"
           \/ edit'[a].stage = "rulesSet" /\ edit'[a].got >= dbRules
           \/ muddled',
           muddled => muddled',
           edit'[a].stage = "verSet" => edit'[a].got = dbVersion,
           dbRules' \in Nat, dbRules <= dbRules',
           job' = job \/ (~Running(job["user"]) /\ Start("user", version)),
           UNCHANGED <<dbVersion, marks, rows, rules, version, inflow, boot, rulesAt, mixed,
                       lowered, excused>>
    PROVE  RuleInv'
<1>1. Versions' = Versions /\ dbVersion \in Nat /\ version \in Nat
  BY DEF Versions, RuleInv, RuleForm
<1>2. /\ DOMAIN job' = JobNames /\ job'["backfill"] = job["backfill"]
      /\ \/ job'["user"] = job["user"]
         \/ /\ DOMAIN job'["user"] = DOMAIN NoJob
            /\ job'["user"].stage = "batch" /\ job'["user"].target = version
  <2>1. DOMAIN job = JobNames
    BY DEF RuleInv, RuleForm
  <2>2. CASE job' = job
    BY <2>1, <2>2
  <2>3. CASE Start("user", version)
    BY <2>1, <2>3 DEF Start, NoJob, JobNames
  <2> QED BY <2>2, <2>3
<1>3. \A j \in JobNames : TaskForm(job[j])' /\ TaskTrue(job[j])'
  <2> SUFFICES ASSUME NEW j \in JobNames PROVE TaskForm(job[j])' /\ TaskTrue(job[j])'
    OBVIOUS
  <2>1. CASE job'[j] = job[j]
    <3>1. TaskForm(job[j]) /\ TaskTrue(job[j])
      BY DEF RuleInv, RuleForm, StampInv, TasksTrue
    <3> QED BY <1>1, <2>1, <3>1 DEF TaskForm, TaskTrue, Behind
  <2>2. CASE job'[j].stage = "batch"
    BY <2>2 DEF TaskForm, TaskTrue
  <2> QED BY <1>2, <2>1, <2>2 DEF JobNames
<1>4. \A j \in JobNames : DOMAIN job'[j] = DOMAIN NoJob /\ (Running(job'[j]) => job'[j].target \in Nat)
  BY <1>1, <1>2 DEF JobNames, RuleInv, RuleForm
<1>5. \A v \in Versions : rulesAt[v + 1] <= dbRules /\ rulesAt[v + 1] \in Nat
  BY DEF Versions, RuleInv, RuleForm
<1>6. RuleForm'
  <2>1. \A b \in Admins : EditForm(edit[b])'
    BY <1>1 DEF EditForm, RuleInv, RuleForm
  <2>2. /\ \A r \in RowIds : RowForm(rows[r])'
        /\ \A l \in RuleLanes : TaskForm(inflow[l])'
    BY <1>1 DEF RowForm, TaskForm, RuleInv, RuleForm
  <2>3. \A v \in Versions : rulesAt[v + 1] <= dbRules'
    BY <1>5 DEF RuleInv, RuleForm
  <2> QED BY <1>1, <1>2, <1>3, <1>4, <2>1, <2>2, <2>3 DEF RuleInv, RuleForm
<1>7. StampInv'
  <2>1. edit'[a].stage = "rulesSet" /\ edit'[a].got >= dbRules => ~Behind(edit'[a].got)
    BY <1>5 DEF Behind, EditForm, RuleInv, RuleForm
  <2>2. MemoryTrue'
    BY <2>1 DEF MemoryTrue, Behind, RuleInv, StampInv
  <2>3. \A l \in RuleLanes : TaskTrue(inflow[l])'
    BY DEF TaskTrue, Behind, RuleInv, StampInv, TasksTrue
  <2>4. StampIsTrue'
    BY DEF StampIsTrue, RuleInv, StampInv
  <2> QED BY <1>3, <2>2, <2>3, <2>4 DEF StampInv, TasksTrue
<1>8. MarkInv'
  <2>1. \A v : Clean(v)' <=> Clean(v)
    BY <1>2 DEF Clean, Below
  <2> QED BY <1>1, <1>2, <2>1 DEF MarkInv, Straight, RuleInv
<1> QED BY <1>6, <1>7, <1>8 DEF RuleInv

LEMMA AheadIs ==
    ASSUME RuleForm, NEW a \in Admins, NEW got, Ahead(a, got)
    PROVE  /\ DOMAIN edit' = Admins /\ \A b \in Admins \ {a} : edit'[b] = edit[b]
           /\ DOMAIN edit'[a] = {"stage", "got", "forced"}
           /\ edit'[a].stage = After(edit[a].stage) /\ edit'[a].got = got
BY DEF Ahead, RuleForm, EditForm

LEMMA RequestStays ==
    ASSUME RuleInv, NEW a \in Admins,
           Request(a) \/ WriteRule(a) \/ BumpRead(a) \/ VersionRead(a) \/ RulesRead(a) \/ EditOver(a)
           \/ EditFails(a)
    PROVE  RuleInv'
<1>1. RuleForm /\ dbRules \in Nat /\ dbVersion \in Versions
  BY DEF RuleInv, RuleForm
<1>2. CASE Request(a)
  <2>1. /\ DOMAIN edit' = Admins /\ \A b \in Admins \ {a} : edit'[b] = edit[b]
        /\ DOMAIN edit'[a] = {"stage", "got", "forced"} /\ edit'[a].stage \in {"write", "bumpRead"}
        /\ edit[a].stage = "idle"
    BY <1>1, <1>2 DEF Request, Quiet, RuleForm
  <2>2. EditForm(edit'[a])
    BY <2>1 DEF EditForm
  <2> QED BY <1>1, <1>2, <2>1, <2>2, EditMoves DEF Request, stored, overtaken
<1>3. CASE WriteRule(a)
  <2>1. EditForm(edit'[a]) /\ edit'[a].stage = "bumpRead"
    BY <1>1, <1>3, AheadIs, Stages DEF WriteRule, EditForm
  <2>2. dbRules' \in Nat /\ dbRules <= dbRules' /\ job' = job
    BY <1>1, <1>3 DEF WriteRule
  <2> QED BY <1>1, <1>3, <2>1, <2>2, AheadIs, EditMoves DEF WriteRule, overtaken
<1>4. CASE BumpRead(a)
  <2>1. EditForm(edit'[a]) /\ edit'[a].stage = "bumpWrite"
    BY <1>1, <1>4, AheadIs, Stages DEF BumpRead, EditForm
  <2> QED BY <1>1, <1>4, <2>1, AheadIs, EditMoves DEF BumpRead, stored, overtaken
<1>5. CASE VersionRead(a)
  <2>1. EditForm(edit'[a]) /\ edit'[a].stage = "verSet" /\ edit'[a].got = dbVersion
    BY <1>1, <1>5, AheadIs, Stages DEF VersionRead, EditForm
  <2> QED BY <1>1, <1>5, <2>1, AheadIs, EditMoves DEF VersionRead, stored, overtaken
<1>6. CASE RulesRead(a)
  <2>1. EditForm(edit'[a]) /\ edit'[a].stage = "rulesSet" /\ edit'[a].got = dbRules
    BY <1>1, <1>6, AheadIs, Stages DEF RulesRead, EditForm
  <2>2. edit'[a].got >= dbRules
    BY <1>1, <2>1
  <2> QED BY <1>1, <1>6, <2>1, <2>2, AheadIs, EditMoves DEF RulesRead, stored, overtaken
<1>7. CASE EditOver(a)
  <2>1. /\ DOMAIN edit' = Admins /\ \A b \in Admins \ {a} : edit'[b] = edit[b]
        /\ edit'[a] = Quiet /\ edit[a].stage = "over"
    BY <1>1, <1>7 DEF EditOver, RuleForm
  <2>2. EditForm(edit'[a]) /\ edit'[a].stage = "idle"
    BY <2>1 DEF EditForm, Quiet
  <2>3. job' = job \/ (~Running(job["user"]) /\ Start("user", version))
    BY <1>7 DEF EditOver, Running, NoJob
  <2> QED BY <1>1, <1>7, <2>1, <2>2, <2>3, EditMoves DEF EditOver, stored, overtaken
<1>8. CASE EditFails(a)
  <2>1. /\ DOMAIN edit' = Admins /\ \A b \in Admins \ {a} : edit'[b] = edit[b]
        /\ edit'[a] = Quiet /\ edit[a].stage # "rulesSet"
        /\ muddled' = (muddled \/ edit[a].stage = "rulesRead")
    BY <1>1, <1>8 DEF EditFails, RuleForm
  <2>2. EditForm(edit'[a]) /\ edit'[a].stage = "idle"
    BY <2>1 DEF EditForm, Quiet
  <2>3. (muddled => muddled') /\ (edit[a].stage \notin {"rulesRead", "rulesSet"} \/ muddled')
    BY <2>1, Zenon
  <2> QED BY <1>1, <1>8, <2>1, <2>2, <2>3, EditMoves DEF EditFails, stored
<1> QED BY <1>2, <1>3, <1>4, <1>5, <1>6, <1>7, <1>8

LEMMA BumpStays == ASSUME RuleInv, NEW a \in Admins, BumpWrite(a) PROVE RuleInv'
<1> DEFINE new == edit[a].got + 1
<1>1. /\ edit[a].stage = "bumpWrite" /\ dbVersion' = new
      /\ rulesAt' = IF new < Len(rulesAt) THEN rulesAt ELSE Append(rulesAt, dbRules)
      /\ lowered' = (lowered \/ new < dbVersion)
      /\ UNCHANGED <<dbRules, marks, rows, rules, version, inflow, job, boot, mixed, muddled, excused>>
  BY DEF BumpWrite
<1>2. /\ DOMAIN edit' = Admins /\ \A b \in Admins \ {a} : edit'[b] = edit[b]
      /\ DOMAIN edit'[a] = {"stage", "got", "forced"} /\ edit'[a].stage = "verRead"
  BY <1>1, AheadIs, Stages DEF BumpWrite, RuleInv
<1>3. /\ edit[a].got \in Versions /\ rulesAt \in Seq(Nat) /\ dbRules \in Nat
      /\ \A v \in Versions : rulesAt[v + 1] <= dbRules
  BY <1>1 DEF RuleInv, RuleForm, EditForm
<1>4. /\ rulesAt' \in Seq(Nat) /\ Versions \subseteq Versions' /\ new \in Versions'
      /\ \A v \in Versions : rulesAt'[v + 1] = rulesAt[v + 1]
      /\ \A v \in Versions' : rulesAt'[v + 1] <= dbRules
  <2>1. CASE new < Len(rulesAt)
    BY <1>1, <1>3, <2>1 DEF Versions
  <2>2. CASE ~(new < Len(rulesAt))
    <3>1. rulesAt' = Append(rulesAt, dbRules) /\ new = Len(rulesAt)
      BY <1>1, <1>3, <2>2 DEF Versions
    <3>2. /\ rulesAt' \in Seq(Nat) /\ Len(rulesAt') = Len(rulesAt) + 1
          /\ \A i \in 1 .. Len(rulesAt) : rulesAt'[i] = rulesAt[i]
          /\ rulesAt'[Len(rulesAt) + 1] = dbRules
      BY <1>3, <3>1
    <3>3. Versions' = Versions \cup {Len(rulesAt)}
      BY <1>3, <3>2 DEF Versions
    <3> QED BY <1>3, <3>1, <3>2, <3>3 DEF Versions
  <2> QED BY <2>1, <2>2
<1>5. /\ version \in Versions /\ version \in Nat /\ dbVersion \in Nat /\ new \in Nat
      /\ \A v \in Versions : v \in Int
  BY <1>3 DEF Versions, RuleInv, RuleForm
<1> HIDE DEF new
<1>6. \A x : Behind(x)' <=> Behind(x)
  BY <1>1, <1>4, <1>5 DEF Behind
<1>7. RuleForm'
  <2>1. \A b \in Admins : EditForm(edit[b])'
    BY <1>2, <1>4 DEF EditForm, RuleInv, RuleForm
  <2>2. \A r \in RowIds : RowForm(rows[r])'
    BY <1>1, <1>4 DEF RowForm, RuleInv, RuleForm
  <2>3. /\ \A l \in RuleLanes : TaskForm(inflow[l])'
        /\ \A j \in JobNames : TaskForm(job[j])'
    BY <1>1, <1>4 DEF TaskForm, RuleInv, RuleForm
  <2> QED BY <1>1, <1>2, <1>4, <1>5, <2>1, <2>2, <2>3 DEF RuleInv, RuleForm
<1>8. StampInv'
  <2>1. MemoryTrue'
    BY <1>1, <1>2, <1>6 DEF MemoryTrue, RuleInv, StampInv
  <2>2. ASSUME NEW t, TaskTrue(t), TaskForm(t) PROVE TaskTrue(t)'
    BY <1>4, <1>6, <2>2 DEF TaskTrue, TaskForm
  <2>3. TasksTrue'
    BY <1>1, <2>2 DEF TasksTrue, RuleInv, RuleForm, StampInv
  <2>4. StampIsTrue'
    <3> SUFFICES ASSUME NEW r \in RowIds \ mixed, rows[r] # Unstored, rows[r].ver >= 0,
                        rows[r].judged # NoRule
                 PROVE  rows[r].judged >= rulesAt'[rows[r].ver + 1]
      BY <1>1 DEF StampIsTrue
    <3>1. rows[r].ver \in Versions
      BY DEF RuleInv, RuleForm, RowForm, Unstamped
    <3>2. rows[r].judged >= rulesAt[rows[r].ver + 1]
      BY DEF RuleInv, StampInv, StampIsTrue
    <3> QED BY <1>4, <3>1, <3>2
  <2> QED BY <2>1, <2>3, <2>4 DEF StampInv
<1>9. MarkInv'
  <2> SUFFICES ASSUME Straight' PROVE MarkInv'
    BY DEF MarkInv
  <2>1. Straight /\ dbVersion <= dbVersion'
    <3>1. Straight /\ ~(new < dbVersion)
      BY <1>1, Zenon DEF Straight
    <3> QED BY <1>1, <1>5, <3>1
  <2>2. \A v : Clean(v)' <=> Clean(v)
    BY <1>1 DEF Clean, Below
  <2>3. ASSUME NEW b \in Admins, edit'[b].stage = "verSet" PROVE edit'[b].got <= dbVersion'
    <3>1. b # a /\ edit'[b] = edit[b]
      BY <1>2, <2>3
    <3>2. edit[b].got <= dbVersion /\ edit[b].got \in Int
      BY <1>5, <2>1, <2>3, <3>1 DEF RuleInv, MarkInv, RuleForm, EditForm
    <3>3. dbVersion' \in Int
      BY <1>1, <1>5
    <3> QED BY <1>5, <2>1, <3>1, <3>2, <3>3
  <2> QED BY <1>1, <1>5, <2>1, <2>2, <2>3 DEF RuleInv, MarkInv
<1> QED BY <1>7, <1>8, <1>9 DEF RuleInv

(* What is being judged when the memory changes is judged beside a load.   *)
LEMMA Disturbed ==
    ASSUME RuleForm, Disturb
    PROVE  /\ DOMAIN inflow' = RuleLanes /\ DOMAIN job' = JobNames
           /\ \A l \in RuleLanes :
                 /\ DOMAIN inflow'[l] = DOMAIN NoTask /\ inflow'[l].stage = inflow[l].stage
                 /\ inflow'[l].stage = "judged" => inflow'[l].beside
                 /\ inflow'[l].stage # "judged" => inflow'[l] = inflow[l]
                 /\ inflow'[l].judged = inflow[l].judged
           /\ \A j \in JobNames :
                 /\ DOMAIN job'[j] = DOMAIN NoJob /\ job'[j].stage = job[j].stage
                 /\ job'[j].target = job[j].target
                 /\ job'[j].stage = "judged" => job'[j].beside
                 /\ job'[j].stage # "judged" => job'[j] = job[j]
                 /\ job'[j].judged = job[j].judged
<1>1. \A l \in RuleLanes : DOMAIN inflow[l] = {"stage", "row", "judged", "stamp", "beside"}
  BY DEF RuleForm, NoTask
<1>2. \A j \in JobNames : DOMAIN job[j] = {"stage", "target", "batch", "skipped", "did", "judged",
                                           "stamp", "beside"}
  BY DEF RuleForm, NoJob
<1>3. DOMAIN inflow' = RuleLanes /\ DOMAIN job' = JobNames
  BY DEF Disturb
<1>4. ASSUME NEW l \in RuleLanes
      PROVE  inflow'[l] = IF inflow[l].stage = "judged" THEN [inflow[l] EXCEPT !.beside = TRUE]
                          ELSE inflow[l]
  BY DEF Disturb
<1>5. ASSUME NEW j \in JobNames
      PROVE  job'[j] = IF job[j].stage = "judged" THEN [job[j] EXCEPT !.beside = TRUE] ELSE job[j]
  BY DEF Disturb
<1> QED BY <1>1, <1>2, <1>3, <1>4, <1>5 DEF NoTask, NoJob

(* A step that changes the memory disturbs what is being judged; the rest  *)
(* follows from what it does to the version and to who vouches for the     *)
(* rules.                                                                  *)
LEMMA LoadMoves ==
    ASSUME RuleInv, NEW a \in Admins, DOMAIN edit' = Admins, Disturb,
           \A b \in Admins \ {a} : edit'[b] = edit[b], EditForm(edit'[a]),
           edit'[a].stage # "verSet", version' \in Versions, rules' \in Nat,
           Straight' => Straight /\ version <= version' /\ version' <= dbVersion,
           MemoryTrue',
           UNCHANGED <<dbRules, dbVersion, marks, rows, boot, rulesAt, mixed, excused>>
    PROVE  RuleInv'
<1>1. Versions' = Versions /\ dbVersion \in Nat /\ version \in Nat /\ version' \in Nat
  BY DEF Versions, RuleInv, RuleForm
<1>2. RuleForm
  BY DEF RuleInv
<1>3. RuleForm'
  <2>1. \A b \in Admins : EditForm(edit[b])'
    BY <1>1, <1>2 DEF EditForm, RuleForm
  <2>2. \A r \in RowIds : RowForm(rows[r])'
    BY <1>1, <1>2 DEF RowForm, RuleForm
  <2>3. \A l \in RuleLanes : TaskForm(inflow[l])'
    BY <1>1, <1>2, Disturbed DEF TaskForm, RuleForm
  <2>4. \A j \in JobNames : TaskForm(job[j])' /\ (Running(job'[j]) => job'[j].target \in Nat)
    BY <1>1, <1>2, Disturbed DEF TaskForm, RuleForm, Running
  <2> QED BY <1>1, <1>2, <2>1, <2>2, <2>3, <2>4, Disturbed DEF RuleForm
<1>4. StampInv'
  <2>1. /\ \A l \in RuleLanes : TaskTrue(inflow[l])'
        /\ \A j \in JobNames : TaskTrue(job[j])'
    BY <1>2, Disturbed DEF TaskTrue, RuleInv, StampInv, TasksTrue
  <2>2. StampIsTrue'
    BY DEF StampIsTrue, RuleInv, StampInv
  <2> QED BY <2>1, <2>2 DEF StampInv, TasksTrue
<1>5. MarkInv'
  <2> SUFFICES ASSUME Straight' PROVE MarkInv'
    BY DEF MarkInv
  <2>1. \A v : Clean(v)' <=> Clean(v)
    BY <1>2, Disturbed DEF Clean, Below, Running, JobNames
  <2>2. Running(job'["backfill"]) <=> Running(job["backfill"])
    BY <1>2, Disturbed DEF Running, JobNames
  <2>3. 0 .. version \subseteq 0 .. version'
    BY <1>1
  <2> QED BY <1>1, <2>1, <2>2, <2>3 DEF RuleInv, MarkInv
<1> QED BY <1>3, <1>4, <1>5 DEF RuleInv

LEMMA VersionSetStays == ASSUME RuleInv, NEW a \in Admins, VersionSet(a) PROVE RuleInv'
<1>1. /\ edit[a].stage = "verSet" /\ version' = edit[a].got /\ Disturb
      /\ muddled' = (muddled \/ edit[a].got < version) /\ lowered' = lowered
      /\ UNCHANGED <<dbRules, dbVersion, marks, rows, rules, boot, rulesAt, mixed, excused>>
  BY DEF VersionSet, stored
<1>2. /\ DOMAIN edit' = Admins /\ \A b \in Admins \ {a} : edit'[b] = edit[b]
      /\ EditForm(edit'[a]) /\ edit'[a].stage = "rulesRead"
  BY <1>1, AheadIs, Stages DEF VersionSet, RuleInv, EditForm
<1>3. version' \in Versions /\ rules' \in Nat /\ version \in Nat /\ version' \in Nat
  BY <1>1 DEF RuleInv, RuleForm, EditForm, Versions
<1>4. Straight' => Straight /\ version <= version' /\ version' <= dbVersion
  <2>1. Straight' => Straight /\ ~(edit[a].got < version)
    BY <1>1, Zenon DEF Straight
  <2> QED BY <1>1, <1>3, <2>1 DEF RuleInv, MarkInv
<1>5. MemoryTrue'
  BY <1>2 DEF MemoryTrue
<1> QED BY <1>1, <1>2, <1>3, <1>4, <1>5, LoadMoves

LEMMA RulesSetStays == ASSUME RuleInv, NEW a \in Admins, RulesSet(a) PROVE RuleInv'
<1>1. /\ edit[a].stage = "rulesSet" /\ rules' = edit[a].got /\ Disturb
      /\ muddled' = (muddled \/ edit[a].got < rules) /\ lowered' = lowered
      /\ UNCHANGED <<dbRules, dbVersion, marks, rows, version, boot, rulesAt, mixed, excused>>
  BY DEF RulesSet, stored
<1>2. /\ DOMAIN edit' = Admins /\ \A b \in Admins \ {a} : edit'[b] = edit[b]
      /\ EditForm(edit'[a]) /\ edit'[a].stage = "over"
  BY <1>1, AheadIs, Stages DEF RulesSet, RuleInv, EditForm
<1>3. /\ version' \in Versions /\ rules' \in Nat /\ version \in Nat /\ version' = version
      /\ rulesAt[version + 1] \in Nat /\ rules \in Nat
  BY <1>1 DEF RuleInv, RuleForm, EditForm, Versions
<1>4. Straight' => Straight /\ version <= version' /\ version' <= dbVersion
  <2>1. Straight' => Straight
    BY <1>1, Zenon DEF Straight
  <2> QED BY <1>3, <2>1 DEF RuleInv, MarkInv
<1>5. MemoryTrue'
  <2>1. \A x : Behind(x)' <=> Behind(x)
    BY <1>1 DEF Behind
  <2>2. CASE muddled \/ edit[a].got < rules
    BY <1>1, <2>2, Zenon DEF MemoryTrue
  <2>3. CASE ~Behind(edit[a].got)
    BY <1>1, <2>1, <2>3 DEF MemoryTrue
  <2>4. CASE ~muddled /\ ~(edit[a].got < rules) /\ Behind(edit[a].got)
    <3>1. Behind(rules)
      BY <1>1, <1>3, <2>4 DEF Behind
    <3>2. PICK b \in Admins : edit[b].stage = "rulesRead" \/ (edit[b].stage = "rulesSet" /\ ~Behind(edit[b].got))
      BY <2>4, <3>1 DEF RuleInv, StampInv, MemoryTrue
    <3>3. b # a
      BY <1>1, <2>4, <3>2
    <3> QED BY <1>2, <2>1, <3>2, <3>3 DEF MemoryTrue
  <2> QED BY <2>2, <2>3, <2>4
<1> QED BY <1>1, <1>2, <1>3, <1>4, <1>5, LoadMoves

BelowNext(v) == {r \in RowIds : rows'[r] # Unstored /\ rows'[r].ver < v}

(* No row comes below a version up to the present one but an excused one.  *)
NoneComesBelow ==
    \A v \in 0 .. version : \A r \in Below(v)' : r \in excused' \/ (r \in Below(v) /\ r \notin excused)

RowsKept == DOMAIN rows' = RowIds /\ (\A r \in RowIds : RowForm(rows[r])') /\ StampIsTrue' /\ NoneComesBelow

(* A step of the tasks and jobs.  The backfill runs on, or it has left     *)
(* nothing below its version.                                              *)
LEMMA TasksMove ==
    ASSUME RuleInv, DOMAIN inflow' = RuleLanes, DOMAIN job' = JobNames,
           \A l \in RuleLanes : DOMAIN inflow'[l] = DOMAIN NoTask /\ TaskForm(inflow[l])'
                                /\ TaskTrue(inflow[l])',
           \A j \in JobNames : DOMAIN job'[j] = DOMAIN NoJob /\ TaskForm(job[j])'
                               /\ TaskTrue(job[j])' /\ (Running(job'[j]) => job'[j].target \in Nat),
           Running(job'["backfill"]) => Running(job["backfill"]),
           Running(job["backfill"]) =>
              \/ Running(job'["backfill"]) /\ job'["backfill"].target = job["backfill"].target
              \/ BelowNext(job["backfill"].target) \subseteq excused',
           RowsKept,
           UNCHANGED <<dbRules, dbVersion, marks, rules, version, edit, boot, rulesAt, overtaken>>
    PROVE  RuleInv'
<1>1. Versions' = Versions /\ version \in Nat /\ \A x : Behind(x)' <=> Behind(x)
  BY DEF Versions, Behind, RuleInv, RuleForm
<1>2. RuleForm'
  <2>1. \A b \in Admins : EditForm(edit[b])'
    BY <1>1 DEF EditForm, RuleInv, RuleForm
  <2> QED BY <1>1, <2>1 DEF RuleInv, RuleForm, RowsKept
<1>3. StampInv'
  <2>1. MemoryTrue'
    BY <1>1 DEF MemoryTrue, RuleInv, StampInv, overtaken
  <2> QED BY <2>1 DEF StampInv, TasksTrue, RowsKept
<1>4. MarkInv'
  <2> SUFFICES ASSUME Straight PROVE MarkInv'
    BY DEF MarkInv, Straight, overtaken
  <2>1. ASSUME NEW v \in 0 .. version, Clean(v) PROVE Clean(v)'
    <3>1. CASE Below(v) \subseteq excused
      BY <3>1 DEF RowsKept, NoneComesBelow, Clean
    <3>2. CASE Running(job["backfill"]) /\ v <= job["backfill"].target
      <4>1. CASE Running(job'["backfill"]) /\ job'["backfill"].target = job["backfill"].target
        BY <3>2, <4>1 DEF Clean
      <4>2. CASE BelowNext(job["backfill"].target) \subseteq excused'
        <5>1. job["backfill"].target \in Nat
          BY <3>2 DEF RuleInv, RuleForm, JobNames
        <5>2. \A r \in RowIds : rows'[r] # Unstored => rows'[r].ver \in Int
          BY <1>1 DEF RowsKept, RowForm, Unstamped, Versions
        <5>3. \A r \in RowIds : rows'[r] # Unstored /\ rows'[r].ver < v
                               => rows'[r].ver < job["backfill"].target
          BY <1>1, <3>2, <5>1, <5>2
        <5> QED BY <4>2, <5>3 DEF Clean, Below, BelowNext
      <4> QED BY <3>2, <4>1, <4>2
    <3> QED BY <2>1, <3>1, <3>2 DEF Clean
  <2>2. Straight' <=> Straight
    BY DEF Straight, overtaken
  <2> QED BY <1>1, <2>1, <2>2 DEF MarkInv, RuleInv
<1> QED BY <1>2, <1>3, <1>4 DEF RuleInv

LEMMA RowsRest == ASSUME RuleInv, UNCHANGED <<rows, mixed, rulesAt>>, excused \subseteq excused'
                  PROVE  RowsKept
BY DEF RuleInv, RuleForm, StampInv, StampIsTrue, RowsKept, RowForm, Versions, NoneComesBelow, Below

LEMMA TaskMoves ==
    ASSUME RuleInv, NEW l \in RuleLanes, NEW t, inflow' = [inflow EXCEPT ![l] = t],
           DOMAIN t = DOMAIN NoTask, TaskForm(t), TaskTrue(t), RowsKept,
           UNCHANGED <<dbRules, dbVersion, marks, rules, version, edit, job, boot, rulesAt, overtaken>>
    PROVE  RuleInv'
<1>1. DOMAIN inflow' = RuleLanes /\ inflow'[l] = t /\ \A k \in RuleLanes \ {l} : inflow'[k] = inflow[k]
  BY DEF RuleInv, RuleForm
<1>2. Versions' = Versions /\ \A x : Behind(x)' <=> Behind(x)
  BY DEF Versions, Behind
<1>3. \A u : (TaskForm(u)' <=> TaskForm(u)) /\ (TaskTrue(u)' <=> TaskTrue(u))
  BY <1>2 DEF TaskForm, TaskTrue
<1>4. \A k \in RuleLanes : /\ DOMAIN inflow'[k] = DOMAIN NoTask /\ TaskForm(inflow'[k])
                           /\ TaskTrue(inflow'[k])
  BY <1>1 DEF RuleInv, RuleForm, StampInv, TasksTrue
<1>5. \A j \in JobNames : /\ DOMAIN job[j] = DOMAIN NoJob /\ TaskForm(job[j]) /\ TaskTrue(job[j])
                          /\ (Running(job[j]) => job[j].target \in Nat)
  BY DEF RuleInv, RuleForm, StampInv, TasksTrue
<1>6. DOMAIN job = JobNames
  BY DEF RuleInv, RuleForm
<1>7. /\ \A k \in RuleLanes : TaskForm(inflow[k])' /\ TaskTrue(inflow[k])'
      /\ \A j \in JobNames : TaskForm(job[j])' /\ TaskTrue(job[j])'
  BY <1>2, <1>4, <1>5 DEF TaskForm, TaskTrue
<1> QED BY <1>1, <1>4, <1>5, <1>6, <1>7, TasksMove

LEMMA JobMoves ==
    ASSUME RuleInv, NEW j \in JobNames, NEW t, job' = [job EXCEPT ![j] = t],
           DOMAIN t = DOMAIN NoJob, TaskForm(t), TaskTrue(t), Running(t) => t.target \in Nat,
           j = "backfill" /\ Running(t) => Running(job[j]) /\ t.target = job[j].target,
           j = "backfill" /\ Running(job[j]) /\ ~Running(t) => BelowNext(job[j].target) \subseteq excused',
           RowsKept,
           UNCHANGED <<dbRules, dbVersion, marks, rules, version, edit, inflow, boot, rulesAt, overtaken>>
    PROVE  RuleInv'
<1>1. DOMAIN job' = JobNames /\ job'[j] = t /\ \A k \in JobNames \ {j} : job'[k] = job[k]
  BY DEF RuleInv, RuleForm
<1>2. Versions' = Versions /\ \A x : Behind(x)' <=> Behind(x)
  BY DEF Versions, Behind
<1>4. \A k \in JobNames : /\ DOMAIN job'[k] = DOMAIN NoJob /\ TaskForm(job'[k]) /\ TaskTrue(job'[k])
                          /\ (Running(job'[k]) => job'[k].target \in Nat)
  BY <1>1 DEF RuleInv, RuleForm, StampInv, TasksTrue
<1>5. \A l \in RuleLanes : /\ DOMAIN inflow[l] = DOMAIN NoTask /\ TaskForm(inflow[l])
                           /\ TaskTrue(inflow[l])
  BY DEF RuleInv, RuleForm, StampInv, TasksTrue
<1>6. DOMAIN inflow = RuleLanes
  BY DEF RuleInv, RuleForm
<1>7. /\ \A l \in RuleLanes : TaskForm(inflow[l])' /\ TaskTrue(inflow[l])'
      /\ \A k \in JobNames : TaskForm(job[k])' /\ TaskTrue(job[k])'
  BY <1>2, <1>4, <1>5 DEF TaskForm, TaskTrue
<1>8. /\ Running(job'["backfill"]) => Running(job["backfill"])
      /\ Running(job["backfill"]) =>
            \/ Running(job'["backfill"]) /\ job'["backfill"].target = job["backfill"].target
            \/ BelowNext(job["backfill"].target) \subseteq excused'
  BY <1>1 DEF JobNames
<1> QED BY <1>1, <1>4, <1>5, <1>6, <1>7, <1>8, TasksMove

(* With no load under way the rules in memory are as young as the version. *)
LEMMA CalmMemory == ASSUME RuleInv PROVE Loading \/ muddled \/ ~Behind(rules)
BY DEF RuleInv, StampInv, MemoryTrue, Loading

LEMMA KeepStays ==
    ASSUME RuleInv, NEW r, NEW t, Keep(r, t), t.stage = "stamped", TaskForm(t), TaskTrue(t),
           UNCHANGED <<version, rulesAt>>
    PROVE  RowsKept
<1>1. /\ rows' = [rows EXCEPT ![r] = [judged |-> t.judged, ver |-> t.stamp]]
      /\ mixed' = IF t.beside THEN mixed \cup {r} ELSE mixed \ {r}
      /\ excused' = IF t.stamp < version THEN excused \cup {r} ELSE excused \ {r}
  BY DEF Keep
<1>2. /\ t.judged \in Nat \cup {NoRule} /\ t.stamp \in Versions /\ t.stamp \in Nat
      /\ version \in Nat
      /\ t.beside \/ t.judged = NoRule \/ t.judged >= rulesAt[t.stamp + 1]
  BY DEF TaskForm, TaskTrue, Versions, RuleInv, RuleForm
<1>3. /\ DOMAIN rows = RowIds /\ DOMAIN rows' = RowIds
      /\ \A d \in RowIds : d # r => rows'[d] = rows[d]
      /\ r \in RowIds => rows'[r] = [judged |-> t.judged, ver |-> t.stamp]
  BY <1>1 DEF RuleInv, RuleForm
<1>4. \A d \in RowIds : RowForm(rows[d])'
  <2> SUFFICES ASSUME NEW d \in RowIds PROVE RowForm(rows[d])'
    OBVIOUS
  <2>1. CASE d = r
    BY <1>2, <1>3, <2>1 DEF RowForm, Versions
  <2>2. CASE d # r
    BY <1>3, <2>2 DEF RowForm, Versions, RuleInv, RuleForm
  <2> QED BY <2>1, <2>2
<1>5. StampIsTrue'
  <2> SUFFICES ASSUME NEW d \in RowIds, d \notin mixed', rows'[d] # Unstored, rows'[d].ver >= 0,
                      rows'[d].judged # NoRule
               PROVE  rows'[d].judged >= rulesAt[rows'[d].ver + 1]
    BY DEF StampIsTrue
  <2>1. CASE d = r
    BY <1>1, <1>2, <1>3, <2>1
  <2>2. CASE d # r
    <3>1. d \in RowIds \ mixed /\ rows'[d] = rows[d]
      BY <1>1, <1>3, <2>2
    <3> QED BY <3>1 DEF RuleInv, StampInv, StampIsTrue
  <2> QED BY <2>1, <2>2
<1>6. NoneComesBelow
  <2> SUFFICES ASSUME NEW v \in 0 .. version, NEW d \in RowIds, rows'[d] # Unstored, rows'[d].ver < v
               PROVE  d \in excused' \/ (d \in Below(v) /\ d \notin excused)
    BY DEF NoneComesBelow, Below
  <2>1. CASE d = r
    BY <1>1, <1>2, <1>3, <2>1
  <2>2. CASE d # r
    BY <1>1, <1>3, <2>2 DEF Below
  <2> QED BY <2>1, <2>2
<1> QED BY <1>3, <1>4, <1>5, <1>6 DEF RowsKept

LEMMA LaneStays ==
    ASSUME RuleInv, NEW l \in RuleLanes, Judge(l) \/ Stamp(l) \/ FallBack(l) \/ Insert(l)
    PROVE  RuleInv'
<1>1. /\ rules \in Nat /\ version \in Versions /\ TaskForm(inflow[l]) /\ TaskTrue(inflow[l])
      /\ DOMAIN inflow = RuleLanes
      /\ DOMAIN inflow[l] = {"stage", "row", "judged", "stamp", "beside"}
      /\ DOMAIN NoTask = {"stage", "row", "judged", "stamp", "beside"}
  BY DEF RuleInv, RuleForm, StampInv, TasksTrue, NoTask
<1>2. CASE Judge(l)
  <2>1. PICK r : inflow' = [inflow EXCEPT ![l] = [NoTask EXCEPT !.stage = "judged", !.row = r,
                                !.judged = rules, !.beside = Loading \/ muddled]]
    BY <1>2 DEF Judge
  <2> DEFINE t == [NoTask EXCEPT !.stage = "judged", !.row = r, !.judged = rules,
                                 !.beside = Loading \/ muddled]
  <2>2. /\ DOMAIN t = DOMAIN NoTask /\ t.stage = "judged" /\ t.judged = rules
        /\ t.beside = (Loading \/ muddled)
    BY DEF NoTask
  <2>3. TaskForm(t) /\ TaskTrue(t)
    BY <1>1, <2>2, CalmMemory DEF TaskForm, TaskTrue
  <2>4. RowsKept
    BY <1>2, RowsRest DEF Judge, stored
  <2> HIDE DEF t
  <2> QED BY <1>2, <2>1, <2>2, <2>3, <2>4, TaskMoves DEF Judge, stored, t
<1>3. CASE Stamp(l)
  <2> DEFINE t == [inflow[l] EXCEPT !.stage = "stamped", !.stamp = version]
  <2>1. inflow' = [inflow EXCEPT ![l] = t] /\ inflow[l].stage = "judged"
    BY <1>1, <1>3 DEF Stamp
  <2>2. /\ DOMAIN t = DOMAIN NoTask /\ t.stage = "stamped" /\ t.judged = inflow[l].judged
        /\ t.stamp = version /\ t.beside = inflow[l].beside
    BY <1>1
  <2>3. t.judged \in Nat /\ (t.beside \/ ~Behind(t.judged))
    BY <1>1, <2>1, <2>2 DEF TaskForm, TaskTrue
  <2>4. rulesAt[version + 1] \in Nat
    BY <1>1 DEF Versions, RuleInv, RuleForm
  <2>5. TaskForm(t) /\ TaskTrue(t)
    BY <1>1, <2>2, <2>3, <2>4 DEF TaskForm, TaskTrue, Behind
  <2>6. RowsKept
    BY <1>3, RowsRest DEF Stamp, stored
  <2> HIDE DEF t
  <2> QED BY <1>3, <2>1, <2>2, <2>5, <2>6, TaskMoves DEF Stamp, stored
<1>4. CASE Insert(l)
  <2>1. RowsKept
    BY <1>1, <1>4, KeepStays DEF Insert
  <2>2. TaskForm(NoTask) /\ TaskTrue(NoTask)
    BY DEF TaskForm, TaskTrue, NoTask
  <2> QED BY <1>4, <2>1, <2>2, TaskMoves DEF Insert, overtaken
<1>5. CASE FallBack(l)
  <2> DEFINE t == [inflow[l] EXCEPT !.stage = "stamped", !.judged = NoRule, !.stamp = version]
  <2>1. inflow' = [inflow EXCEPT ![l] = t]
    BY <1>1, <1>5 DEF FallBack
  <2>2. DOMAIN t = DOMAIN NoTask /\ t.stage = "stamped" /\ t.judged = NoRule /\ t.stamp = version
    BY <1>1
  <2>3. TaskForm(t) /\ TaskTrue(t)
    BY <1>1, <2>2 DEF TaskForm, TaskTrue
  <2>4. RowsKept
    BY <1>5, RowsRest DEF FallBack, stored
  <2> HIDE DEF t
  <2> QED BY <1>5, <2>1, <2>2, <2>3, <2>4, TaskMoves DEF FallBack, stored
<1> QED BY <1>2, <1>3, <1>4, <1>5

(* A batch is empty only when no row is left.                              *)
LEMMA BatchHasRows == ASSUME NEW target, NEW did, BatchOf(target, did) = {} PROVE Below(target) = {}
<1> SUFFICES ASSUME Below(target) # {} PROVE FALSE
  OBVIOUS
<1>1. Below(target) \in SUBSET Nat
  BY RowsAssumption DEF Below
<1>2. PICK m \in Below(target) : \A k \in Below(target) : m <= k
  BY <1>1, Least
<1>3. {o \in Below(target) : o < m} = {}
  BY <1>1, <1>2
<1>4. Cardinality({o \in Below(target) : o < m}) < BatchSize
  BY <1>3, FS_EmptySet, RowsAssumption
<1> QED BY <1>2, <1>4 DEF BatchOf, First

LEMMA StartJobStays == ASSUME RuleInv, StartJob PROVE RuleInv'
<1> DEFINE t == [NoJob EXCEPT !.stage = "batch", !.target = version]
<1>1. job' = [job EXCEPT !["user"] = t] /\ version \in Nat
  BY DEF StartJob, Start, RuleInv, RuleForm, Versions
<1>2. /\ DOMAIN t = DOMAIN NoJob /\ t.stage = "batch" /\ t.target = version
  BY DEF NoJob
<1>3. TaskForm(t) /\ TaskTrue(t)
  BY <1>2 DEF TaskForm, TaskTrue
<1>4. RowsKept
  BY RowsRest DEF StartJob, stored
<1> HIDE DEF t
<1> QED BY <1>1, <1>2, <1>3, <1>4, JobMoves DEF StartJob, stored, JobNames

LEMMA JobStays ==
    ASSUME RuleInv, NEW j \in JobNames, JobStep(j) \/ ReadFails(j) \/ FallBackRow(j)
    PROVE  RuleInv'
<1>1. /\ rules \in Nat /\ version \in Versions /\ TaskForm(job[j]) /\ TaskTrue(job[j])
      /\ DOMAIN job = JobNames /\ (Running(job[j]) => job[j].target \in Nat)
      /\ DOMAIN job[j] = {"stage", "target", "batch", "skipped", "did", "judged", "stamp", "beside"}
      /\ DOMAIN NoJob = {"stage", "target", "batch", "skipped", "did", "judged", "stamp", "beside"}
      /\ rulesAt[version + 1] \in Nat
  BY DEF RuleInv, RuleForm, StampInv, TasksTrue, NoJob, Versions
<1>2. CASE ReadBatch(j)
  <2> DEFINE b == BatchOf(job[j].target, job[j].did)
  <2>0. job[j].stage = "batch"
    BY <1>2 DEF ReadBatch
  <2>1. CASE b = {} \/ Stalled(b, job[j].skipped)
    <3> DEFINE t == [job[j] EXCEPT !.stage = "tidy"]
    <3>1. /\ job' = [job EXCEPT ![j] = t]
          /\ excused' = IF b = {} THEN excused ELSE excused \cup Below(job[j].target)
          /\ UNCHANGED <<rows, mixed, rulesAt>>
      BY <1>1, <1>2, <2>1 DEF ReadBatch, stored
    <3>2. DOMAIN t = DOMAIN NoJob /\ t.stage = "tidy"
      BY <1>1
    <3>3. TaskForm(t) /\ TaskTrue(t) /\ ~Running(t)
      BY <3>2 DEF TaskForm, TaskTrue, Running
    <3>4. RowsKept
      BY <3>1, RowsRest
    <3>5. BelowNext(job[j].target) \subseteq excused'
      <4>1. BelowNext(job[j].target) = Below(job[j].target)
        BY <3>1 DEF BelowNext, Below
      <4>2. b = {} => Below(job[j].target) = {}
        BY BatchHasRows
      <4> QED BY <3>1, <4>1, <4>2
    <3> HIDE DEF t, b
    <3> QED BY <1>2, <3>1, <3>2, <3>3, <3>4, <3>5, JobMoves DEF ReadBatch, stored
  <2>2. CASE ~(b = {} \/ Stalled(b, job[j].skipped))
    <3> DEFINE t == [job[j] EXCEPT !.stage = "row", !.batch = SetToSortSeq(b, <)]
    <3>1. job' = [job EXCEPT ![j] = t] /\ excused' = excused
      BY <1>1, <1>2, <2>2 DEF ReadBatch
    <3>2. DOMAIN t = DOMAIN NoJob /\ t.stage = "row" /\ t.target = job[j].target
      BY <1>1
    <3>3. TaskForm(t) /\ TaskTrue(t) /\ Running(t) /\ Running(job[j])
      BY <2>0, <3>2 DEF TaskForm, TaskTrue, Running
    <3>4. RowsKept
      BY <1>2, <3>1, RowsRest DEF ReadBatch, stored
    <3> HIDE DEF t, b
    <3> QED BY <1>1, <1>2, <3>1, <3>2, <3>3, <3>4, JobMoves DEF ReadBatch, stored
  <2> QED BY <2>1, <2>2
<1>3. CASE JudgeRow(j)
  <2>1. /\ job[j].stage = "row" /\ RowsKept
        /\ UNCHANGED <<dbRules, dbVersion, marks, rules, version, edit, inflow, boot, rulesAt, overtaken>>
    BY <1>3, RowsRest DEF JudgeRow, stored
  <2>2. CASE job[j].batch = <<>>
    <3> DEFINE t == [job[j] EXCEPT !.stage = "batch"]
    <3>1. job' = [job EXCEPT ![j] = t]
      BY <1>1, <1>3, <2>2 DEF JudgeRow
    <3>2. DOMAIN t = DOMAIN NoJob /\ t.stage = "batch" /\ t.target = job[j].target
      BY <1>1
    <3>3. TaskForm(t) /\ TaskTrue(t) /\ Running(t) /\ Running(job[j])
      BY <2>1, <3>2 DEF TaskForm, TaskTrue, Running
    <3> HIDE DEF t
    <3> QED BY <1>1, <2>1, <3>1, <3>2, <3>3, JobMoves
  <2>3. CASE job[j].batch # <<>>
    <3> DEFINE t == [job[j] EXCEPT !.stage = "judged", !.judged = rules, !.beside = Loading \/ muddled]
    <3>1. job' = [job EXCEPT ![j] = t]
      BY <1>1, <1>3, <2>3 DEF JudgeRow
    <3>2. /\ DOMAIN t = DOMAIN NoJob /\ t.stage = "judged" /\ t.target = job[j].target
          /\ t.judged = rules /\ t.beside = (Loading \/ muddled)
      BY <1>1
    <3>3. TaskForm(t) /\ TaskTrue(t) /\ Running(t) /\ Running(job[j])
      BY <1>1, <2>1, <3>2, CalmMemory DEF TaskForm, TaskTrue, Running
    <3> HIDE DEF t
    <3> QED BY <1>1, <2>1, <3>1, <3>2, <3>3, JobMoves
  <2> QED BY <2>2, <2>3
<1>4. CASE StampRow(j)
  <2> DEFINE t == [job[j] EXCEPT !.stage = "stamped", !.stamp = version]
  <2>1. job' = [job EXCEPT ![j] = t] /\ job[j].stage = "judged"
    BY <1>1, <1>4 DEF StampRow
  <2>2. /\ DOMAIN t = DOMAIN NoJob /\ t.stage = "stamped" /\ t.target = job[j].target
        /\ t.judged = job[j].judged /\ t.stamp = version /\ t.beside = job[j].beside
    BY <1>1
  <2>3. t.judged \in Nat /\ (t.beside \/ ~Behind(t.judged))
    BY <1>1, <2>1, <2>2 DEF TaskForm, TaskTrue
  <2>4. TaskForm(t) /\ TaskTrue(t) /\ Running(t) /\ Running(job[j])
    BY <1>1, <2>1, <2>2, <2>3 DEF TaskForm, TaskTrue, Behind, Running
  <2>5. RowsKept
    BY <1>4, RowsRest DEF StampRow, stored
  <2> HIDE DEF t
  <2> QED BY <1>1, <1>4, <2>1, <2>2, <2>4, <2>5, JobMoves DEF StampRow, stored
<1>5. CASE UpdateRow(j)
  <2>1. /\ job[j].stage = "stamped"
        /\ UNCHANGED <<dbRules, dbVersion, marks, rules, version, edit, inflow, boot, rulesAt, overtaken>>
    BY <1>5 DEF UpdateRow, overtaken
  <2>2. RowsKept
    <3>1. CASE UNCHANGED <<rows, mixed, excused>>
      BY <2>1, <3>1, RowsRest
    <3>2. CASE Keep(Head(job[j].batch), job[j])
      BY <1>1, <2>1, <3>2, KeepStays
    <3> QED BY <1>5, <3>1, <3>2 DEF UpdateRow
  <2> DEFINE Following(batch, did, skipped) ==
               [job[j] EXCEPT !.stage = "row", !.batch = batch, !.judged = None, !.stamp = None,
                              !.beside = FALSE, !.did = did, !.skipped = skipped]
             r == Head(job[j].batch)
  <2>3. \/ job' = [job EXCEPT ![j] = Following(Tail(job[j].batch), job[j].did, job[j].skipped \cup {r})]
        \/ job' = [job EXCEPT ![j] = Following(Tail(job[j].batch), job[j].did \cup {r}, job[j].skipped)]
    BY <1>1, <1>5 DEF UpdateRow
  <2>4. PICK t : /\ job' = [job EXCEPT ![j] = t]
                 /\ DOMAIN t = DOMAIN NoJob /\ t.stage = "row" /\ t.target = job[j].target
    BY <1>1, <2>3
  <2>5. TaskForm(t) /\ TaskTrue(t) /\ Running(t) /\ Running(job[j])
    BY <2>1, <2>4 DEF TaskForm, TaskTrue, Running
  <2> QED BY <1>1, <2>1, <2>2, <2>4, <2>5, JobMoves
<1>6. CASE Tidy(j)
  <2>1. RowsKept /\ job[j].stage = "tidy" /\ job' = [job EXCEPT ![j] = NoJob]
    BY <1>6, RowsRest DEF Tidy, stored
  <2>2. TaskForm(NoJob) /\ TaskTrue(NoJob) /\ ~Running(NoJob) /\ ~Running(job[j])
    BY <2>1 DEF TaskForm, TaskTrue, Running, NoJob
  <2> QED BY <1>6, <2>1, <2>2, JobMoves DEF Tidy, stored
<1>7. CASE ReadFails(j)
  <2> DEFINE t == [job[j] EXCEPT !.stage = "tidy"]
  <2>1. /\ job' = [job EXCEPT ![j] = t] /\ excused' = excused \cup Below(job[j].target)
        /\ UNCHANGED <<rows, mixed, rulesAt>>
    BY <1>7 DEF ReadFails, stored
  <2>2. DOMAIN t = DOMAIN NoJob /\ t.stage = "tidy"
    BY <1>1
  <2>3. TaskForm(t) /\ TaskTrue(t) /\ ~Running(t)
    BY <2>2 DEF TaskForm, TaskTrue, Running
  <2>4. RowsKept /\ BelowNext(job[j].target) \subseteq excused'
    BY <2>1, RowsRest DEF BelowNext, Below
  <2> HIDE DEF t
  <2> QED BY <1>7, <2>1, <2>2, <2>3, <2>4, JobMoves DEF ReadFails, stored
<1>8. CASE FallBackRow(j)
  <2> DEFINE t == [job[j] EXCEPT !.stage = "stamped", !.judged = NoRule, !.stamp = version]
  <2>1. job' = [job EXCEPT ![j] = t] /\ job[j].stage = "judged"
    BY <1>1, <1>8 DEF FallBackRow
  <2>2. /\ DOMAIN t = DOMAIN NoJob /\ t.stage = "stamped" /\ t.target = job[j].target
        /\ t.judged = NoRule /\ t.stamp = version
    BY <1>1
  <2>3. TaskForm(t) /\ TaskTrue(t) /\ Running(t) /\ Running(job[j])
    BY <1>1, <2>1, <2>2 DEF TaskForm, TaskTrue, Running
  <2>4. RowsKept
    BY <1>8, RowsRest DEF FallBackRow, stored
  <2> HIDE DEF t
  <2> QED BY <1>1, <1>8, <2>1, <2>2, <2>3, <2>4, JobMoves DEF FallBackRow, stored
<1> QED BY <1>2, <1>3, <1>4, <1>5, <1>6, <1>7, <1>8 DEF JobStep

(* A step of the start changes boot, and the marks or the backfill's job.  *)
LEMMA BootMoves ==
    ASSUME RuleInv, DOMAIN boot' = {"stage", "version"}, MarkInv',
           \/ job' = job
           \/ job' = [job EXCEPT !["backfill"] = [NoJob EXCEPT !.stage = "batch", !.target = version]],
           UNCHANGED <<dbRules, dbVersion, rows, rules, version, edit, inflow, rulesAt, mixed, muddled>>
    PROVE  RuleInv'
<1>1. Versions' = Versions /\ version \in Nat /\ \A x : Behind(x)' <=> Behind(x)
  BY DEF Versions, Behind, RuleInv, RuleForm
<1>2. \A t : (TaskForm(t)' <=> TaskForm(t)) /\ (TaskTrue(t)' <=> TaskTrue(t))
  BY <1>1 DEF TaskForm, TaskTrue
<1>3. /\ DOMAIN job' = JobNames
      /\ \A j \in JobNames : \/ job'[j] = job[j]
                             \/ job'[j] = [NoJob EXCEPT !.stage = "batch", !.target = version]
  BY DEF RuleInv, RuleForm
<1>4. \A j \in JobNames : /\ DOMAIN job'[j] = DOMAIN NoJob /\ TaskForm(job'[j]) /\ TaskTrue(job'[j])
                          /\ (Running(job'[j]) => job'[j].target \in Nat)
  <2> SUFFICES ASSUME NEW j \in JobNames
               PROVE  /\ DOMAIN job'[j] = DOMAIN NoJob /\ TaskForm(job'[j]) /\ TaskTrue(job'[j])
                      /\ (Running(job'[j]) => job'[j].target \in Nat)
    OBVIOUS
  <2>1. CASE job'[j] = job[j]
    BY <2>1 DEF RuleInv, RuleForm, StampInv, TasksTrue
  <2>2. CASE job'[j] = [NoJob EXCEPT !.stage = "batch", !.target = version]
    <3>1. DOMAIN job'[j] = DOMAIN NoJob /\ job'[j].stage = "batch" /\ job'[j].target = version
      BY <2>2 DEF NoJob
    <3> QED BY <1>1, <3>1 DEF TaskForm, TaskTrue
  <2> QED BY <1>3, <2>1, <2>2
<1>5. /\ \A j \in JobNames : TaskForm(job[j])' /\ TaskTrue(job[j])'
      /\ \A l \in RuleLanes : TaskForm(inflow[l])' /\ TaskTrue(inflow[l])'
  BY <1>1, <1>4 DEF TaskForm, TaskTrue, RuleInv, RuleForm, StampInv, TasksTrue
<1>6. /\ \A b \in Admins : EditForm(edit[b])'
      /\ \A r \in RowIds : RowForm(rows[r])'
  BY <1>1 DEF EditForm, RowForm, RuleInv, RuleForm
<1>7. RuleForm'
  BY <1>1, <1>3, <1>4, <1>5, <1>6 DEF RuleForm, RuleInv
<1>8. MemoryTrue' /\ StampIsTrue'
  BY <1>1 DEF MemoryTrue, StampIsTrue, RuleInv, StampInv
<1> QED BY <1>5, <1>7, <1>8 DEF RuleInv, StampInv, TasksTrue

LEMMA BootStays == ASSUME RuleInv, CheckMark \/ Backfill \/ Mark \/ BootFails PROVE RuleInv'
<1>1. /\ DOMAIN boot = {"stage", "version"} /\ DOMAIN job = JobNames /\ version \in Nat
      /\ \A r \in RowIds : rows[r] # Unstored => rows[r].ver \in Int
  BY DEF RuleInv, RuleForm, Versions, RowForm, Unstamped
<1>2. CASE CheckMark
  <2>1. /\ boot.stage = "check" /\ boot'.version = version /\ DOMAIN boot' = {"stage", "version"}
        /\ boot'.stage \in {"done", "count"} /\ job' = job /\ excused' = excused
        /\ UNCHANGED <<dbRules, dbVersion, marks, rows, rules, version, edit, inflow, rulesAt, mixed,
                       muddled, lowered>>
    BY <1>1, <1>2 DEF CheckMark, stored, overtaken
  <2>2. \A v : Clean(v)' <=> Clean(v)
    BY <2>1 DEF Clean, Below
  <2>3. MarkInv'
    BY <1>1, <2>1, <2>2 DEF MarkInv, Straight, RuleInv
  <2> QED BY <2>1, <2>3, BootMoves
<1>3. CASE Backfill
  <2>1. /\ boot.stage = "count" /\ boot'.version = boot.version /\ DOMAIN boot' = {"stage", "version"}
        /\ boot'.stage = "mark" /\ excused' = excused
        /\ UNCHANGED <<dbRules, dbVersion, marks, rows, rules, version, edit, inflow, rulesAt, mixed,
                       muddled, lowered>>
    BY <1>1, <1>3 DEF Backfill, stored, overtaken
  <2>2. IF Below(version) # {}
        THEN job' = [job EXCEPT !["backfill"] = [NoJob EXCEPT !.stage = "batch", !.target = version]]
        ELSE job' = job
    BY <1>3 DEF Backfill, Start
  <2>3. MarkInv'
    <3> SUFFICES ASSUME Straight PROVE MarkInv'
      BY <2>1 DEF MarkInv, Straight
    <3>1. /\ \A v \in marks : Below(v) \subseteq excused
          /\ boot.version \in 0 .. version
      BY <2>1 DEF MarkInv, RuleInv, Clean
    <3>2. \A v : Below(v)' = Below(v)
      BY <2>1 DEF Below
    <3>3. \A v \in marks : Clean(v)'
      BY <2>1, <3>1, <3>2 DEF Clean
    <3>4. Clean(boot.version)'
      <4>1. CASE Below(version) # {}
        <5>1. job'["backfill"].stage = "batch" /\ job'["backfill"].target = version
          BY <1>1, <2>2, <4>1 DEF JobNames, NoJob
        <5> QED BY <2>1, <3>1, <5>1 DEF Clean, Running
      <4>2. CASE Below(version) = {}
        <5>1. Below(boot.version) = {}
          BY <1>1, <3>1, <4>2 DEF Below
        <5> QED BY <2>1, <3>2, <5>1 DEF Clean
      <4> QED BY <4>1, <4>2
    <3> QED BY <1>1, <2>1, <3>1, <3>3, <3>4 DEF MarkInv, Straight, RuleInv
  <2> QED BY <2>1, <2>2, <2>3, BootMoves
<1>4. CASE Mark
  <2>1. /\ boot.stage = "mark" /\ boot'.version = boot.version /\ DOMAIN boot' = {"stage", "version"}
        /\ boot'.stage = "done" /\ excused' = excused /\ marks' = marks \cup {boot.version} /\ job' = job
        /\ UNCHANGED <<dbRules, dbVersion, rows, rules, version, edit, inflow, rulesAt, mixed,
                       muddled, lowered>>
    BY <1>1, <1>4 DEF Mark, overtaken
  <2>2. \A v : Clean(v)' <=> Clean(v)
    BY <2>1 DEF Clean, Below
  <2>3. MarkInv'
    BY <1>1, <2>1, <2>2 DEF MarkInv, Straight, RuleInv
  <2> QED BY <2>1, <2>3, BootMoves
<1>5. CASE BootFails
  <2>1. /\ boot'.version = boot.version /\ DOMAIN boot' = {"stage", "version"}
        /\ boot'.stage = "done" /\ excused' = excused /\ marks' = marks /\ job' = job
        /\ UNCHANGED <<dbRules, dbVersion, rows, rules, version, edit, inflow, rulesAt, mixed,
                       muddled, lowered>>
    BY <1>1, <1>5 DEF BootFails, stored, overtaken
  <2>2. \A v : Clean(v)' <=> Clean(v)
    BY <2>1 DEF Clean, Below
  <2>3. MarkInv'
    BY <1>1, <2>1, <2>2 DEF MarkInv, Straight, RuleInv
  <2> QED BY <2>1, <2>3, BootMoves
<1> QED BY <1>2, <1>3, <1>4, <1>5

LEMMA RestartStays == ASSUME RuleInv, RestartRules PROVE RuleInv'
<1>1. /\ rules' = dbRules' /\ version' = dbVersion
      /\ edit' = [a \in Admins |-> Quiet]
      /\ inflow' = [l \in RuleLanes |-> NoTask]
      /\ job' = [j \in JobNames |-> NoJob]
      /\ boot' = [stage |-> "check", version |-> 0]
      /\ excused' = (IF job["backfill"] = NoJob THEN excused
                     ELSE excused \cup Below(job["backfill"].target))
      /\ UNCHANGED <<dbVersion, marks, rows, rulesAt, mixed, muddled, lowered>>
  BY DEF RestartRules, overtaken
<1>2. dbRules' \in Nat /\ dbRules \in Nat /\ dbRules <= dbRules'
  BY DEF RestartRules, RuleInv, RuleForm
<1>3. /\ Versions' = Versions /\ dbVersion \in Versions /\ dbVersion \in Nat
      /\ \A v \in Versions : rulesAt[v + 1] <= dbRules /\ rulesAt[v + 1] \in Nat
      /\ \A r \in RowIds : rows[r] # Unstored => rows[r].ver \in Int
  BY <1>1 DEF Versions, RuleInv, RuleForm, RowForm, Unstamped
<1>4. /\ \A a \in Admins : edit'[a].stage = "idle" /\ EditForm(edit[a])'
      /\ \A l \in RuleLanes : inflow'[l].stage = "idle" /\ DOMAIN inflow'[l] = DOMAIN NoTask
      /\ \A j \in JobNames : job'[j].stage = "idle" /\ DOMAIN job'[j] = DOMAIN NoJob
  BY <1>1 DEF Quiet, NoTask, NoJob, EditForm
<1>5. RuleForm'
  <2>1. ASSUME NEW v \in Versions PROVE rulesAt[v + 1] <= dbRules'
    <3>1. v \in Nat /\ rulesAt[v + 1] \in Nat /\ rulesAt[v + 1] <= dbRules
      BY <1>3 DEF Versions
    <3> QED BY <1>2, <3>1
  <2>2. \A r \in RowIds : RowForm(rows[r])'
    BY <1>1, <1>3 DEF RowForm, RuleInv, RuleForm
  <2> QED BY <1>1, <1>2, <1>3, <1>4, <2>1, <2>2 DEF RuleForm, RuleInv, TaskForm, Running
<1>6. StampInv'
  <2>1. MemoryTrue'
    BY <1>1, <1>2, <1>3 DEF MemoryTrue, Behind
  <2>2. TasksTrue'
    BY <1>4 DEF TasksTrue, TaskTrue
  <2>3. StampIsTrue'
    BY <1>1 DEF StampIsTrue, RuleInv, StampInv
  <2> QED BY <2>1, <2>2, <2>3 DEF StampInv
<1>7. MarkInv'
  <2> SUFFICES ASSUME Straight PROVE MarkInv'
    BY <1>1 DEF MarkInv, Straight
  <2>1. ASSUME NEW v \in Nat, Clean(v) PROVE Clean(v)'
    <3>1. Below(v)' = Below(v)
      BY <1>1 DEF Below
    <3>2. CASE Below(v) \subseteq excused
      BY <1>1, <3>1, <3>2 DEF Clean
    <3>3. CASE Running(job["backfill"]) /\ v <= job["backfill"].target
      <4>1. job["backfill"].target \in Nat
        BY <3>3 DEF RuleInv, RuleForm, JobNames
      <4>2. Below(v) \subseteq Below(job["backfill"].target)
        BY <1>3, <3>3, <4>1 DEF Below
      <4>3. job["backfill"] # NoJob
        BY <3>3 DEF Running, NoJob
      <4> QED BY <1>1, <3>1, <4>2, <4>3 DEF Clean
    <3> QED BY <2>1, <3>2, <3>3 DEF Clean
  <2>2. marks \subseteq 0 .. dbVersion /\ \A v \in marks : Clean(v) /\ v \in Nat
    BY <1>3 DEF RuleInv, MarkInv, RuleForm, Versions
  <2> QED BY <1>1, <1>3, <1>4, <2>1, <2>2 DEF MarkInv, Running, JobNames
<1> QED BY <1>5, <1>6, <1>7 DEF RuleInv

LEMMA RulesStay == RuleInv /\ [WebNext]_webVars => RuleInv'
<1> SUFFICES ASSUME RuleInv, [WebNext]_webVars PROVE RuleInv'
  OBVIOUS
<1>1. CASE UNCHANGED ruleVars
  <2>1. UNCHANGED <<dbRules, dbVersion, marks, rows, rules, version, edit, inflow, job, boot, rulesAt,
                    mixed, muddled, lowered, excused>>
    BY <1>1 DEF ruleVars, stored, overtaken
  <2>2. /\ \A x : Behind(x)' <=> Behind(x)
        /\ \A v : Clean(v)' <=> Clean(v)
        /\ Versions' = Versions
    BY <2>1 DEF Behind, Clean, Below, Versions
  <2>3. RuleForm'
    BY <2>1, <2>2 DEF RuleInv, RuleForm, RowForm, EditForm, TaskForm
  <2>4. StampInv'
    BY <2>1, <2>2 DEF RuleInv, StampInv, MemoryTrue, TasksTrue, TaskTrue, StampIsTrue
  <2>5. MarkInv'
    BY <2>1, <2>2 DEF RuleInv, MarkInv, Straight
  <2> QED BY <2>3, <2>4, <2>5 DEF RuleInv
<1>2. CASE RuleNext
  <2>1. ASSUME NEW a \in Admins,
               \/ Request(a) \/ WriteRule(a) \/ BumpRead(a) \/ BumpWrite(a) \/ VersionRead(a)
               \/ VersionSet(a) \/ RulesRead(a) \/ RulesSet(a) \/ EditOver(a) \/ EditFails(a)
        PROVE  RuleInv'
    BY <2>1, RequestStays, BumpStays, VersionSetStays, RulesSetStays
  <2> QED BY <1>2, <2>1, LaneStays, JobStays, StartJobStays, BootStays, RestartStays DEF RuleNext
<1> QED BY <1>1, <1>2 DEF WebNext, StreamStep, PushStep, RuleStep, webVars

(* The version of a row that a rule has judged and the mark of a backfill  *)
(* mean what they say, however edits, loads, jobs, messages, restarts and  *)
(* errors interleave (classify, load, reclassify, _run_reclassify,         *)
(* _maybe_backfill_classifier).                                            *)
THEOREM VersionsStayTrue == WebSpec => []VersionsAreTrue
<1>1. RuleInv => VersionsAreTrue
  <2> SUFFICES ASSUME RuleInv, boot.stage = "done", job = [j \in JobNames |-> NoJob], ~muddled, ~lowered,
                      NEW v \in marks
               PROVE  Below(v) \subseteq excused
    BY DEF VersionsAreTrue, MarkIsTrue, RuleInv, StampInv
  <2>1. ~Running(job["backfill"])
    BY DEF Running, JobNames, NoJob
  <2> QED BY <2>1 DEF RuleInv, MarkInv, Straight, Clean
<1> QED BY <1>1, RuleInit0, RulesStay, PTL DEF WebSpec
=============================================================================
