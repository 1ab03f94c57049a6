---------------------------- MODULE IngestProofs ----------------------------
(***************************************************************************)
(* What is proved of the ingest, for all agendas of frames and all windows *)
(* (storage/ingest.py, storage/telemetry_reconcile.py):                    *)
(*  - what the merge of two readings guarantees for every pair of them;    *)
(*  - that the table of messages implements the log of MessageLog: copies  *)
(*    of a transmission within the window have one row, whatever the two   *)
(*    tasks do between each other's steps, and whatever fails, is deleted  *)
(*    or starts again;                                                     *)
(*  - that the other tables keep their promises beside it: the stations    *)
(*    (StationsKept), the acknowledgements (StatusesAgree), the signals    *)
(*    (EverySignalCounts) and the telemetry (NoReadingIsLost).             *)
(*                                                                         *)
(* The argument of the second: a frame that has passed its claim holds the *)
(* claim until it is stored (ClaimsHold), so two frames past their claims  *)
(* are no copies of each other (PastApart); the table is looked at after   *)
(* the claim, so what was not there then comes from nobody else            *)
(* (RowsClear); and the insert is the last step of a frame.  The claim may *)
(* be dropped early for one reason: a notification was under way for       *)
(* longer than the window.  What the other task hears then is later by a   *)
(* window, as frames spend less than that in store_message (Slow).         *)
(*                                                                         *)
(* The others rest on the order of the steps (Form): what a frame's plan   *)
(* holds comes in one order, and what was found puts few steps in front of *)
(* the rest.  So a task that has written something has the step that makes *)
(* it good still to do, or was broken off, and then excused or torn say    *)
(* so.                                                                     *)
(***************************************************************************)
EXTENDS Ingest, SequenceTheorems, WellFoundedInduction, TLAPS

-----------------------------------------------------------------------------
(* The merge of two readings *)

Better(r, s) == r.prov >= s.prov

(* One field: what is chosen is one of the two, at least as well founded   *)
(* as either.                                                              *)
LEMMA ChooseBetter ==
    ASSUME NEW old \in Reading, NEW new \in Reading, NEW newer \in BOOLEAN
    PROVE  /\ Choose(old, new, newer) \in {old, new}
           /\ Better(Choose(old, new, newer), old)
           /\ Better(Choose(old, new, newer), new)
    BY DEF Choose, Better, Reading, ABSENT, DERIVED, MEASURED

(* A value is there exactly when its provenance says so (__post_init__).   *)
LEMMA AbsentHasNoValue ==
    ASSUME NEW r \in Reading PROVE r.value = None <=> r.prov = ABSENT
    BY NoneAssumption DEF Reading, ABSENT, DERIVED, MEASURED

LEMMA MergeType ==
    ASSUME NEW old \in Readings, NEW new \in Readings, NEW newer \in BOOLEAN
    PROVE  Merge(old, new, newer) \in Readings
<1>1. ASSUME NEW f \in Fields PROVE Choose(old[f], new[f], newer) \in Reading
    <2>1. old[f] \in Reading /\ new[f] \in Reading
        BY DEF Readings
    <2> QED
        BY <2>1, ChooseBetter
<1> QED
    BY <1>1 DEF Merge, Readings

(* Nothing that either copy of a transmission measured is lost when they   *)
(* are merged, whichever came first (reconcile).                           *)
THEOREM MergeLosesNothing ==
    ASSUME NEW old \in Readings, NEW new \in Readings, NEW newer \in BOOLEAN, NEW f \in Fields
    PROVE  Merge(old, new, newer)[f].value = None => old[f].value = None /\ new[f].value = None
<1>1. old[f] \in Reading /\ new[f] \in Reading
    BY DEF Readings
<1>2. Merge(old, new, newer)[f] = Choose(old[f], new[f], newer)
    BY DEF Merge
<1> DEFINE m == Choose(old[f], new[f], newer)
<1>3. m \in Reading /\ m.prov >= old[f].prov /\ m.prov >= new[f].prov
    BY <1>1, ChooseBetter DEF Better
<1>4. m.prov = ABSENT => old[f].prov = ABSENT /\ new[f].prov = ABSENT
    BY <1>1, <1>3 DEF Reading, ABSENT, DERIVED, MEASURED
<1> QED
    BY <1>1, <1>2, <1>3, <1>4, AbsentHasNoValue

(* What the row holds once two copies of a window have come one after the  *)
(* other: the second is merged with what the first left in the row.        *)
InRow(first, at, second, later) ==
    values_for(Merge(FromRow(values_for(first)), second, later > at))

(* A field that both copies have, at different values, ends up the same in *)
(* either order exactly when the newer of the two was measured: an         *)
(* estimate read back from its row counts as measured, and of two copies   *)
(* of one time neither is newer (_choose, Reading).                        *)
THEOREM WhenOrderMatters ==
    ASSUME NEW a \in Readings, NEW b \in Readings, NEW at \in Nat, NEW bt \in Nat, NEW f \in Fields
    PROVE  InRow(a, at, b, bt)[f] = InRow(b, bt, a, at)[f] <=>
                \/ a[f].value = b[f].value
                \/ a[f].prov = ABSENT
                \/ b[f].prov = ABSENT
                \/ at > bt /\ a[f].prov = MEASURED
                \/ bt > at /\ b[f].prov = MEASURED
<1> DEFINE Back(r) == IF r.value = None THEN absent ELSE measured(r.value)
<1>1. a[f] \in Reading /\ b[f] \in Reading
    BY DEF Readings
<1>2. /\ InRow(a, at, b, bt)[f] = Choose(Back(a[f]), b[f], bt > at).value
      /\ InRow(b, bt, a, at)[f] = Choose(Back(b[f]), a[f], at > bt).value
    BY DEF InRow, values_for, Merge, FromRow
<1>3. ASSUME NEW x \in Reading, NEW y \in Reading, NEW newer \in BOOLEAN
      PROVE  Choose(Back(x), y, newer).value =
                (IF y.prov = ABSENT THEN x.value
                 ELSE IF x.prov = ABSENT THEN y.value
                 ELSE IF y.prov = MEASURED /\ newer THEN y.value
                 ELSE x.value)
    <2>1. /\ x.value = None <=> x.prov = ABSENT
          /\ y.value = None <=> y.prov = ABSENT
        BY AbsentHasNoValue
    <2>2. CASE x.prov = ABSENT
        <3>1. Back(x) = absent
            BY <2>1, <2>2
        <3>2. Choose(absent, y, newer) = y
            BY DEF Choose, absent
        <3>3. y.prov = ABSENT => y.value = x.value
            BY <2>1, <2>2
        <3> QED
            BY <2>2, <3>1, <3>2, <3>3
    <2>3. CASE x.prov # ABSENT
        <3>1. Back(x) = measured(x.value)
            BY <2>1, <2>3
        <3> QED
            BY <2>3, <3>1 DEF Choose, measured, Reading, ABSENT, DERIVED, MEASURED
    <2> QED
        BY <2>2, <2>3
<1> HIDE DEF Back
<1>4. (at > bt) \in BOOLEAN /\ (bt > at) \in BOOLEAN /\ ~(at > bt /\ bt > at)
    OBVIOUS
<1>5. PICK x, y : x = a[f] /\ y = b[f]
    OBVIOUS
<1>6. x \in Reading /\ y \in Reading
    BY <1>1, <1>5
<1>7. /\ InRow(a, at, b, bt)[f] =
            (IF y.prov = ABSENT THEN x.value
             ELSE IF x.prov = ABSENT THEN y.value
             ELSE IF y.prov = MEASURED /\ bt > at THEN y.value
             ELSE x.value)
      /\ InRow(b, bt, a, at)[f] =
            (IF x.prov = ABSENT THEN y.value
             ELSE IF y.prov = ABSENT THEN x.value
             ELSE IF x.prov = MEASURED /\ at > bt THEN x.value
             ELSE y.value)
    <2>1. Choose(Back(x), y, bt > at).value =
            (IF y.prov = ABSENT THEN x.value
             ELSE IF x.prov = ABSENT THEN y.value
             ELSE IF y.prov = MEASURED /\ bt > at THEN y.value
             ELSE x.value)
        BY <1>3, <1>4, <1>6, Zenon
    <2>2. Choose(Back(y), x, at > bt).value =
            (IF x.prov = ABSENT THEN y.value
             ELSE IF y.prov = ABSENT THEN x.value
             ELSE IF x.prov = MEASURED /\ at > bt THEN x.value
             ELSE y.value)
        BY <1>3, <1>4, <1>6, Zenon
    <2> QED
        BY <1>2, <1>5, <2>1, <2>2, Zenon
<1>8. /\ x.value = None <=> x.prov = ABSENT
      /\ y.value = None <=> y.prov = ABSENT
    BY <1>6, AbsentHasNoValue
<1>9. CASE x.prov = ABSENT \/ y.prov = ABSENT
    BY <1>5, <1>7, <1>8, <1>9
<1>10. CASE x.prov # ABSENT /\ y.prov # ABSENT
    <2>1. CASE at > bt /\ x.prov = MEASURED
        BY <1>4, <1>5, <1>7, <1>10, <2>1
    <2>2. CASE bt > at /\ y.prov = MEASURED
        BY <1>4, <1>5, <1>7, <1>10, <2>2
    <2>3. CASE ~(at > bt /\ x.prov = MEASURED) /\ ~(bt > at /\ y.prov = MEASURED)
        <3>1. InRow(a, at, b, bt)[f] = x.value /\ InRow(b, bt, a, at)[f] = y.value
            BY <1>7, <1>10, <2>3
        <3> QED
            BY <1>5, <1>10, <2>3, <3>1
    <2> QED
        BY <2>1, <2>2, <2>3
<1> QED
    BY <1>9, <1>10

(* A copy that comes a third time changes nothing and writes nothing       *)
(* (reconcile answers SKIP).                                               *)
THEOREM MergeIdempotent ==
    ASSUME NEW old \in Readings, NEW new \in Readings, NEW newer \in BOOLEAN
    PROVE  /\ Merge(Merge(old, new, newer), new, newer) = Merge(old, new, newer)
           /\ Action(Merge(old, new, newer), new, newer) = "skip"
<1> DEFINE m == Merge(old, new, newer)
<1>1. ASSUME NEW f \in Fields PROVE Choose(m[f], new[f], newer) = m[f]
    <2>1. old[f] \in Reading /\ new[f] \in Reading
        BY DEF Readings
    <2>2. m[f] = Choose(old[f], new[f], newer)
        BY DEF Merge
    <2> QED
        BY <2>1, <2>2 DEF Choose, Reading, ABSENT, DERIVED, MEASURED
<1>2. Merge(m, new, newer) = m
    <2>1. m \in [Fields -> Reading] /\ m = [f \in Fields |-> m[f]]
        BY MergeType DEF Readings
    <2>2. Merge(m, new, newer) = [f \in Fields |-> m[f]]
        BY <1>1 DEF Merge
    <2> QED
        BY <2>1, <2>2
<1>3. Changed(m, new, newer) = {}
    BY <1>2 DEF Changed
<1> QED
    BY <1>2, <1>3 DEF Action

(* An older copy never moves the row to its own time: REPLACE_EXISTING     *)
(* re-stamps the row, and only a newer copy may (reconcile).               *)
THEOREM OnlyNewerRestamps ==
    ASSUME NEW old \in Readings, NEW new \in Readings
    PROVE  Action(old, new, FALSE) # "replace"
    BY DEF Action

-----------------------------------------------------------------------------
(* The steps that a call of store_message has still to do *)

In(step, s) == \E i \in 1 .. Len(s) : s[i] = step

(* The table is looked at right after the claim; the insert comes last.    *)
Shape(s) ==
    \A i \in 1 .. Len(s) :
        /\ s[i] = "claim" => i < Len(s) /\ s[i + 1] = "look"
        /\ s[i] = "insert" => i = Len(s)

StepNames ==
    {"original", "confirm", "claim", "look", "log", "count", "flush", "signal", "place", "heard",
     "again", "insert", "sent", "acked", "receipt", "tell", "recall", "add", "amend", "drop",
     "weather"}
Steps == {s \in Seq(StepNames) : Shape(s)}

LEMMA Shifted ==
    ASSUME NEW s, NEW r, NEW n \in Nat, n # 0, Len(s) = n, Len(r) = n - 1,
           \A i \in 1 .. n - 1 : r[i] = s[i + 1], Shape(s)
    PROVE  /\ Shape(r)
           /\ \A x : In(x, s) <=> x = s[1] \/ In(x, r)
           /\ s[1] = "claim" => In("look", r)
           /\ s[1] = "insert" => n = 1
<1>2. Shape(r)
  BY DEF Shape
<1>3. ASSUME NEW x PROVE In(x, s) <=> x = s[1] \/ In(x, r)
    <2>1. ASSUME NEW i \in 1 .. n, s[i] = x, x # s[1] PROVE In(x, r)
        <3>1. i - 1 \in 1 .. n - 1 /\ r[i - 1] = x
            BY <2>1
        <3> QED
            BY <3>1 DEF In
    <2>2. ASSUME NEW i \in 1 .. n - 1, r[i] = x PROVE In(x, s)
        <3>1. i + 1 \in 1 .. n /\ s[i + 1] = x
            BY <2>2
        <3> QED
            BY <3>1 DEF In
    <2> QED
        BY <2>1, <2>2 DEF In
<1>4. s[1] = "claim" => In("look", r)
    <2>1. s[1] = "claim" => 1 \in 1 .. n - 1 /\ r[1] = "look"
        BY DEF Shape
    <2> QED
        BY <2>1 DEF In
<1>5. s[1] = "insert" => n = 1
    BY DEF Shape
<1> QED
    BY <1>2, <1>3, <1>4, <1>5

LEMMA RestOfSteps ==
    ASSUME NEW s \in Steps, s # <<>>
    PROVE  /\ Tail(s) \in Steps
           /\ \A x : In(x, s) <=> x = Head(s) \/ In(x, Tail(s))
           /\ Head(s) = "claim" => In("look", Tail(s))
           /\ Head(s) = "insert" => Tail(s) = <<>>
<1>1. /\ Len(s) \in Nat \ {0} /\ Len(Tail(s)) = Len(s) - 1 /\ Tail(s) \in Seq(StepNames)
      /\ \A i \in 1 .. Len(s) - 1 : Tail(s)[i] = s[i + 1]
      /\ Head(s) = s[1] /\ Shape(s)
    BY DEF Steps
<1>2. /\ Shape(Tail(s))
      /\ \A x : In(x, s) <=> x = s[1] \/ In(x, Tail(s))
      /\ s[1] = "claim" => In("look", Tail(s))
      /\ s[1] = "insert" => Len(s) = 1
    BY <1>1, Shifted
<1>3. ASSUME NEW r \in Seq(StepNames), Len(r) = 0 PROVE r = <<>>
    BY <1>3, EmptySeq
<1>4. Len(s) = 1 => Tail(s) = <<>>
    <2>1. Len(s) = 1 => Len(Tail(s)) = 0
        BY <1>1
    <2> QED
        BY <1>1, <1>3, <2>1, Zenon
<1> QED
    BY <1>1, <1>2, <1>4 DEF Steps

LEMMA Joined ==
    ASSUME NEW s, NEW t, NEW st, Len(s) \in Nat, Len(t) \in Nat, Len(st) = Len(s) + Len(t),
           Shape(s), Shape(t), ~In("insert", s),
           \A i \in 1 .. Len(s) : st[i] = s[i],
           \A i \in 1 .. Len(t) : st[Len(s) + i] = t[i]
    PROVE  /\ Shape(st)
           /\ \A x : In(x, st) <=> In(x, s) \/ In(x, t)
<1> DEFINE m == Len(s)
           n == Len(t)
<1>0. /\ m \in Nat /\ n \in Nat /\ m = Len(s) /\ n = Len(t) /\ Len(st) = m + n
      /\ \A i \in 1 .. m : st[i] = s[i]
      /\ \A i \in 1 .. n : st[m + i] = t[i]
    OBVIOUS
<1> USE <1>0
<1> HIDE DEF m, n
<1>1. ASSUME NEW i \in 1 .. m + n, i > m
      PROVE  i - m \in 1 .. n /\ st[i] = t[i - m]
    <2>1. i - m \in 1 .. n /\ m + (i - m) = i
        BY <1>1
    <2> QED
        BY <2>1
<1>2. ASSUME NEW i \in 1 .. m + n, st[i] = "claim" PROVE i < m + n /\ st[i + 1] = "look"
    <2>1. CASE i <= m
        <3>1. i \in 1 .. m /\ s[i] = "claim"
            BY <1>2, <2>1
        <3>2. i < m /\ s[i + 1] = "look" /\ i + 1 \in 1 .. m
            BY <3>1 DEF Shape
        <3> QED
            BY <3>2
    <2>2. CASE i > m
        <3>1. i - m \in 1 .. n /\ t[i - m] = "claim"
            BY <1>1, <1>2, <2>2
        <3>2. i - m < n /\ t[(i - m) + 1] = "look"
            BY <3>1 DEF Shape
        <3>3. (i - m) + 1 \in 1 .. n /\ m + ((i - m) + 1) = i + 1
            BY <3>1, <3>2
        <3> QED
            BY <3>2, <3>3
    <2> QED
        BY <2>1, <2>2
<1>3. ASSUME NEW i \in 1 .. m + n, st[i] = "insert" PROVE i = m + n
    <2>0. i > m
        BY <1>3 DEF In
    <2>1. i - m \in 1 .. n /\ t[i - m] = "insert"
        BY <1>1, <1>3, <2>0
    <2>2. i - m = n
        BY <2>1 DEF Shape
    <2> QED
        BY <2>2
<1>4. ASSUME NEW x PROVE In(x, st) <=> In(x, s) \/ In(x, t)
    <2>1. ASSUME NEW i \in 1 .. m + n, st[i] = x PROVE In(x, s) \/ In(x, t)
        BY <1>1, <2>1 DEF In
    <2>2. ASSUME NEW i \in 1 .. m, s[i] = x PROVE In(x, st)
        <3>1. i \in 1 .. m + n /\ st[i] = x
            BY <2>2
        <3> QED
            BY <3>1 DEF In
    <2>3. ASSUME NEW i \in 1 .. n, t[i] = x PROVE In(x, st)
        <3>1. m + i \in 1 .. m + n /\ st[m + i] = x
            BY <2>3
        <3> QED
            BY <3>1 DEF In
    <2> QED
        BY <2>1, <2>2, <2>3 DEF In
<1> QED
    BY <1>2, <1>3, <1>4 DEF Shape

(* What may come before the other steps of a call. *)
Early(s) == s \in Steps /\ ~In("insert", s)

LEMMA StepsBefore ==
    ASSUME NEW s, NEW t \in Steps, Early(s)
    PROVE  /\ s \o t \in Steps
           /\ \A x : In(x, s \o t) <=> In(x, s) \/ In(x, t)
           /\ Early(t) => Early(s \o t)
<1>1. t \in Seq(StepNames) /\ s \in Seq(StepNames) /\ Shape(s) /\ Shape(t)
    BY DEF Steps, Early
<1>2. /\ s \o t \in Seq(StepNames) /\ Len(s) \in Nat /\ Len(t) \in Nat
      /\ Len(s \o t) = Len(s) + Len(t)
    BY <1>1
<1>3. ASSUME NEW i \in 1 .. Len(s) PROVE (s \o t)[i] = s[i]
    BY <1>1
<1>4. ASSUME NEW i \in 1 .. Len(t) PROVE (s \o t)[Len(s) + i] = t[i]
    BY <1>1
<1>5. ~In("insert", s)
    BY DEF Early
<1> DEFINE st == s \o t
<1>0. /\ Len(st) = Len(s) + Len(t)
      /\ \A i \in 1 .. Len(s) : st[i] = s[i]
      /\ \A i \in 1 .. Len(t) : st[Len(s) + i] = t[i]
    BY <1>2, <1>3, <1>4
<1> HIDE DEF st
<1>6. Shape(st) /\ \A x : In(x, st) <=> In(x, s) \/ In(x, t)
    BY <1>0, <1>1, <1>2, <1>5, Joined
<1> QED
    BY <1>2, <1>5, <1>6 DEF Steps, Early, st

LEMMA NoSteps == Early(<<>>) /\ \A x : ~In(x, <<>>)
<1>1. <<>> \in Seq(StepNames) /\ Len(<<>>) = 0
    OBVIOUS
<1> QED
    BY <1>1 DEF Early, Steps, Shape, In

LEMMA FewSteps ==
    ASSUME NEW a \in StepNames \ {"claim", "insert"}, NEW b \in StepNames \ {"claim", "insert"},
           NEW c \in StepNames \ {"claim", "insert"}
    PROVE  /\ Early(<<a>>) /\ Early(<<a, b>>) /\ Early(<<a, b, c>>)
           /\ \A x : In(x, <<a>>) <=> x = a
           /\ \A x : In(x, <<a, b>>) <=> x \in {a, b}
           /\ \A x : In(x, <<a, b, c>>) <=> x \in {a, b, c}
<1>1. ASSUME NEW s \in Seq(StepNames), NEW n \in 1 .. 3, Len(s) = n, s[1] = a,
             n >= 2 => s[2] = b, n = 3 => s[3] = c
      PROVE  /\ Early(s)
             /\ \A x : In(x, s) <=> x = a \/ (n >= 2 /\ x = b) \/ (n = 3 /\ x = c)
    <2>0. \A i \in 1 .. n : i = 1 \/ i = 2 \/ i = 3
        OBVIOUS
    <2>1. \A i \in 1 .. n : s[i] \notin {"claim", "insert"}
        BY <1>1, <2>0
    <2>2. Early(s)
        BY <1>1, <2>1 DEF Early, Steps, Shape, In
    <2> QED
        BY <1>1, <2>0, <2>2 DEF In
<1>2. <<a>> \in Seq(StepNames) /\ Len(<<a>>) = 1 /\ <<a>>[1] = a
    OBVIOUS
<1>3. /\ <<a, b>> \in Seq(StepNames) /\ Len(<<a, b>>) = 2 /\ <<a, b>>[1] = a /\ <<a, b>>[2] = b
    OBVIOUS
<1>4. /\ <<a, b, c>> \in Seq(StepNames) /\ Len(<<a, b, c>>) = 3
      /\ <<a, b, c>>[1] = a /\ <<a, b, c>>[2] = b /\ <<a, b, c>>[3] = c
    OBVIOUS
<1>5. Early(<<a>>) /\ \A x : In(x, <<a>>) <=> x = a
    <2>0. 1 \in 1 .. 3 /\ ~(1 >= 2) /\ 1 # 3
        OBVIOUS
    <2> QED BY <1>1, <1>2, <2>0
<1>6. Early(<<a, b>>) /\ \A x : In(x, <<a, b>>) <=> x \in {a, b}
    <2>0. 2 \in 1 .. 3 /\ 2 >= 2 /\ 2 # 3
        OBVIOUS
    <2> QED BY <1>1, <1>3, <2>0
<1>7. Early(<<a, b, c>>) /\ \A x : In(x, <<a, b, c>>) <=> x \in {a, b, c}
    <2>0. 3 \in 1 .. 3 /\ 3 >= 2
        OBVIOUS
    <2> QED BY <1>1, <1>4, <2>0
<1> QED
    BY <1>5, <1>6, <1>7

(* What is planned for a frame: whatever has an id and becomes a row is    *)
(* claimed before.                                                         *)
LEMMA PlanOfFrame ==
    ASSUME NEW f
    PROVE  Plan(f) \in Steps /\ (f.id # None /\ In("insert", Plan(f)) => In("claim", Plan(f)))
<1> DEFINE place == IF f.kind = "pos" THEN Weather(f) ELSE <<>>
           original == IF f.acks # None THEN <<"original">> ELSE <<>>
           claims == IF f.id # None THEN <<"claim", "look">> ELSE <<>>
<1>0. {"original", "look", "log", "count", "signal", "place", "heard", "again", "sent", "acked",
       "recall"} \subseteq StepNames \ {"claim", "insert"}
    BY DEF StepNames
<1>1. Early(Weather(f)) /\ Early(Signal(f)) /\ Early(Place(f)) /\ Early(place) /\ Early(original)
    <2>1. Early(<<"recall">>) /\ Early(<<"place">>) /\ Early(<<"original">>)
        BY <1>0, FewSteps
    <2>2. Early(<<"log", "count", "signal">>)
        BY <1>0, FewSteps
    <2> QED
        BY NoSteps, <2>1, <2>2 DEF Weather, Signal, Place
<1>2. <<"sent">> \in Steps /\ <<"sent", "acked">> \in Steps /\ ~In("insert", <<"sent">>)
      /\ ~In("insert", <<"sent", "acked">>)
    BY <1>0, FewSteps DEF Early
<1>3. Row(f) \in Steps
    <2>1. <<"insert">> \in Seq(StepNames) /\ Len(<<"insert">>) = 1
        BY DEF StepNames
    <2>2. /\ <<"heard", "again", "insert">> \in Seq(StepNames)
          /\ Len(<<"heard", "again", "insert">>) = 3
        BY DEF StepNames
    <2>3. <<"insert">> \in Steps /\ <<"heard", "again", "insert">> \in Steps
        BY <2>1, <2>2 DEF Steps, Shape
    <2> QED
        BY <2>3, NoSteps DEF Row, Early
<1>4. Kept(f) \in Steps
    <2>1. Early(Signal(f) \o Place(f))
        BY <1>1, StepsBefore DEF Early
    <2>2. Early((Signal(f) \o Place(f)) \o place)
        BY <1>1, <2>1, StepsBefore DEF Early
    <2> QED
        BY <1>3, <2>2, StepsBefore DEF Kept
<1>5. Early(claims) /\ (f.id # None => In("claim", claims))
    <2>1. <<"claim", "look">> \in Seq(StepNames) /\ Len(<<"claim", "look">>) = 2
        BY DEF StepNames
    <2>2. Early(<<"claim", "look">>) /\ In("claim", <<"claim", "look">>)
        BY <2>1 DEF Early, Steps, Shape, In
    <2> QED
        BY <2>2, NoSteps
<1>6. /\ (original \o claims) \o Kept(f) \in Steps
      /\ f.id # None => In("claim", (original \o claims) \o Kept(f))
    <2>1. /\ Early(original \o claims)
          /\ f.id # None => In("claim", original \o claims)
        BY <1>1, <1>5, StepsBefore DEF Early
    <2> QED
        BY <1>4, <2>1, StepsBefore
<1>7. CASE f.kind = "tele"
    BY <1>1, <1>7 DEF Plan, Early
<1>8. CASE f.kind = "ack"
    BY <1>2, <1>8 DEF Plan
<1>9. CASE f.kind \notin {"tele", "ack"}
    BY <1>6, <1>9 DEF Plan
<1> QED
    BY <1>7, <1>8, <1>9

-----------------------------------------------------------------------------
(* The inductive invariant *)

Apart(s, t) == s - t >= DedupWindow \/ t - s >= DedupWindow

Todo(p) == task[p].todo

(* The frame will become a row under its id, and has been claimed, or been *)
(* looked up in the table as well.                                         *)
Past(p) == Frame(p).id # None /\ In("insert", Todo(p)) /\ ~In("claim", Todo(p))
Looked(p) == Past(p) /\ ~In("look", Todo(p))

ClockType ==
    /\ now \in Nat /\ next \in Nat
    /\ agenda \in [coming : SUBSET (Paths \X Frames), ticks : Nat, restarts : Nat, faults : Nat,
                   deletes : SUBSET Talks]
    /\ \E a \in Agendas : now + agenda.ticks <= a.ticks

TaskType ==
    /\ DOMAIN task = Paths
    /\ \A p \in Paths :
          /\ Todo(p) \in Steps
          /\ Busy(p) => /\ Frame(p) \in Frames /\ At(p) \in 0 .. now
                        /\ p = "udp" => now - At(p) <= Slow

(* A claim stays while its frame is being stored.  If a notification was   *)
(* under way for longer than the window the UDP task may drop its claim,   *)
(* but all that this task hears afterwards is later by a window.           *)
ClaimsHold ==
    \A p \in Paths : Past(p) =>
        \/ <<Key(Frame(p)), At(p)>> \in recent
        \/ /\ p = "ble" /\ now - At("ble") >= DedupWindow
           /\ In("claim", Todo("udp")) => At("udp") - At("ble") >= DedupWindow

(* Two copies past their claims are no copies of one transmission. *)
PastApart ==
    \A p, q \in Paths :
        p # q /\ Past(p) /\ Past(q) /\ Key(Frame(p)) = Key(Frame(q)) => Apart(At(p), At(q))

(* Nothing is inserted beside a row that was not there when it looked. *)
RowsClear ==
    \A p \in Paths : Looked(p) =>
        \A r \in rows : <<r.src, r.id>> = Key(Frame(p)) => Apart(r.at, At(p))

TaskInv == TaskType /\ ClaimsHold /\ PastApart /\ RowsClear

MessageRow ==
    [n : Nat, id : {f.id : f \in Frames}, src : {f.src : f \in Frames}, at : LogTimes,
     kind : {f.kind : f \in Frames}, dst : Talks, echo : {f.echo : f \in Frames},
     status : [sent : BOOLEAN, acked : BOOLEAN]]

RowsType ==
    /\ rows \subseteq MessageRow
    /\ \A r \in rows :
          /\ r.n < next /\ <<r.src, r.id>> \in LogKeys
          /\ r.kind = "mheard" => r.id = None
    /\ \A r, s \in rows : r.n = s.n => r = s

(* One transmission has one row within the window. *)
RowsSpaced ==
    \A r, s \in rows : r.id # None /\ r.src = s.src /\ r.id = s.id /\ r # s => Apart(r.at, s.at)

RowsInv == RowsType /\ RowsSpaced

IngestInv == ClockType /\ TaskInv /\ RowsInv

-----------------------------------------------------------------------------
(* What a step does to the tasks *)

LEMMA Numbers ==
    /\ DedupWindow \in Nat \ {0} /\ Slow \in Nat /\ Slow < DedupWindow
    /\ LogTimes \subseteq Nat
<1>1. \A a \in Agendas : a.ticks \in Nat
    BY AgendasAssumption
<1> QED
    BY <1>1, IngestAssumption DEF LogTimes

LEMMA RowTimes ==
    ASSUME RowsType, NEW r \in rows PROVE r.at \in LogTimes /\ r.at \in Int
<1>1. r.at \in LogTimes
    BY DEF RowsType, MessageRow
<1>2. r.at \in Nat
    BY <1>1, Numbers, Zenon
<1> QED
    BY <1>1, <1>2

LEMMA GoesOnDoes ==
    ASSUME TaskType, NEW p \in Paths, Busy(p), NEW s \in Steps, NEW found, GoesOn(p, s, found),
           UNCHANGED now
    PROVE  /\ TaskType'
           /\ Todo(p)' = s
           /\ s # <<>> => Frame(p)' = Frame(p) /\ At(p)' = At(p)
           /\ \A q \in Paths \ {p} : task'[q] = task[q]
<1>1. /\ DOMAIN task' = Paths
      /\ \A q \in Paths \ {p} : task'[q] = task[q]
      /\ task'[p] = IF s = <<>> THEN Idle
                    ELSE [frame |-> Frame(p), at |-> At(p), todo |-> s, found |-> found]
    BY DEF GoesOn, TaskType
<1>2. /\ task'[p].todo = s
      /\ s # <<>> => task'[p].frame = task[p].frame /\ task'[p].at = task[p].at
    BY <1>1 DEF Idle, Frame, At
<1>3. TaskType'
    BY <1>1, <1>2 DEF TaskType, Todo, Busy, Frame, At
<1> QED
    BY <1>1, <1>2, <1>3 DEF Todo, Frame, At

(* Steps that neither claim nor look nor insert, and ends of calls. *)
Tame(p, s) ==
    /\ s \in Steps
    /\ \/ \A x \in {"claim", "look", "insert"} : In(x, s) <=> In(x, Todo(p))
       \/ ~In("insert", s) /\ ~In("claim", s)

LEMMA RestIsTame ==
    ASSUME TaskType, NEW p \in Paths, Busy(p), Head(Todo(p)) \notin {"claim", "look", "insert"}
    PROVE  /\ Tame(p, Rest(p))
           /\ \A a : Early(a) /\ ~In("claim", a) /\ ~In("look", a) => Tame(p, a \o Rest(p))
<1>1. Todo(p) \in Steps /\ Todo(p) # <<>> /\ Rest(p) = Tail(Todo(p))
    BY DEF TaskType, Busy, Todo, Rest
<1>2. /\ Rest(p) \in Steps
      /\ \A x \in {"claim", "look", "insert"} : In(x, Rest(p)) <=> In(x, Todo(p))
    BY <1>1, RestOfSteps
<1>3. ASSUME NEW a, Early(a), ~In("claim", a), ~In("look", a) PROVE Tame(p, a \o Rest(p))
    BY <1>2, <1>3, StepsBefore DEF Tame, Early
<1> QED
    BY <1>2, <1>3 DEF Tame

(* Whatever is past its claim has been there before the step. *)
LEMMA SteadyStep ==
    ASSUME TaskInv, NEW p \in Paths, Busy(p), NEW s \in Steps, NEW found, GoesOn(p, s, found),
           \/ \A x \in {"claim", "insert"} : In(x, s) <=> In(x, Todo(p))
           \/ ~In("insert", s) /\ ~In("claim", s),
           UNCHANGED <<now, recent>>
    PROVE  /\ TaskType' /\ ClaimsHold' /\ PastApart'
           /\ \A q \in Paths : Past(q)' => Past(q) /\ Frame(q)' = Frame(q) /\ At(q)' = At(q)
<1>1. /\ TaskType' /\ Todo(p)' = s
      /\ s # <<>> => Frame(p)' = Frame(p) /\ At(p)' = At(p)
      /\ \A q \in Paths \ {p} : task'[q] = task[q]
    BY GoesOnDoes DEF TaskInv
<1>2. ASSUME NEW q \in Paths, NEW x, In(x, Todo(q)')
      PROVE  Frame(q)' = Frame(q) /\ At(q)' = At(q)
    BY <1>1, <1>2, NoSteps DEF Todo, Frame, At
<1>3. ASSUME NEW q \in Paths, In("claim", Todo(q)') PROVE In("claim", Todo(q))
    BY <1>1, <1>3 DEF Todo
<1>4. ASSUME NEW q \in Paths, In("insert", Todo(q)')
      PROVE  In("insert", Todo(q)) /\ (In("claim", Todo(q)) => In("claim", Todo(q)'))
    BY <1>1, <1>4 DEF Todo
<1>5. ASSUME NEW q \in Paths, Past(q)'
      PROVE  Past(q) /\ Frame(q)' = Frame(q) /\ At(q)' = At(q)
    BY <1>2, <1>4, <1>5 DEF Past
<1>6. ClaimsHold'
    <2>1. In("claim", Todo("udp")') => In("claim", Todo("udp")) /\ At("udp")' = At("udp")
        BY <1>2, <1>3 DEF Paths
    <2>2. ASSUME NEW q \in Paths, Past(q)'
          PROVE  \/ <<Key(Frame(q)'), At(q)'>> \in recent
                 \/ /\ q = "ble" /\ now - At("ble")' >= DedupWindow
                    /\ In("claim", Todo("udp")') => At("udp")' - At("ble")' >= DedupWindow
        BY <1>5, <2>1, <2>2 DEF TaskInv, ClaimsHold
    <2> QED
        BY <2>2 DEF ClaimsHold, Key
<1>7. PastApart'
    BY <1>5 DEF TaskInv, PastApart, Key
<1> QED
    BY <1>1, <1>5, <1>6, <1>7

RowsFromRows ==
    \A r \in rows' : r.id # None => \E o \in rows : o.src = r.src /\ o.id = r.id /\ o.at = r.at

LEMMA TameStep ==
    ASSUME TaskInv, NEW p \in Paths, Busy(p), NEW s, Tame(p, s), NEW found, GoesOn(p, s, found),
           UNCHANGED <<now, recent>>, RowsFromRows
    PROVE  TaskInv'
<1>1. /\ TaskType' /\ ClaimsHold' /\ PastApart'
      /\ \A q \in Paths : Past(q)' => Past(q) /\ Frame(q)' = Frame(q) /\ At(q)' = At(q)
    BY SteadyStep DEF Tame
<1>2. Todo(p)' = s /\ \A q \in Paths \ {p} : task'[q] = task[q]
    BY GoesOnDoes DEF Tame, TaskInv
<1>3. ASSUME NEW q \in Paths, Looked(q)' PROVE Looked(q)
    BY <1>1, <1>2, <1>3 DEF Looked, Past, Tame, Todo
<1>4. ASSUME NEW q \in Paths, Looked(q)', NEW r \in rows', <<r.src, r.id>> = Key(Frame(q)')
      PROVE  Apart(r.at, At(q)')
    <2>1. Looked(q) /\ Frame(q)' = Frame(q) /\ At(q)' = At(q) /\ r.id # None
        BY <1>1, <1>3, <1>4 DEF Looked, Past, Key
    <2>2. PICK o \in rows : o.src = r.src /\ o.id = r.id /\ o.at = r.at
        BY <2>1 DEF RowsFromRows
    <2> QED
        BY <1>4, <2>1, <2>2 DEF TaskInv, RowsClear
<1>5. RowsClear'
    BY <1>4 DEF RowsClear, Key
<1> QED
    BY <1>1, <1>5 DEF TaskInv

(* The claim of another task is dropped or replaced only by a claim that   *)
(* is later by a window.                                                   *)
LEMMA ClaimStep ==
    ASSUME IngestInv, NEW p \in Paths, Claim(p)
    PROVE  TaskInv'
<1>1. /\ Busy(p) /\ Todo(p) \in Steps /\ Todo(p) # <<>> /\ Head(Todo(p)) = "claim"
      /\ Rest(p) = Tail(Todo(p)) /\ ~Claimed(Frame(p), At(p)) /\ GoesOn(p, Rest(p), None)
      /\ recent' = {e \in Pruned(At(p)) : e[1] # Key(Frame(p))} \cup {<<Key(Frame(p)), At(p)>>}
      /\ UNCHANGED <<now, rows>>
    BY DEF Claim, Does, Busy, Todo, Rest, IngestInv, TaskInv, TaskType, Finishes, tables
<1>2. /\ Rest(p) \in Steps /\ In("look", Rest(p)) /\ In("claim", Todo(p))
    BY <1>1, RestOfSteps
<1>3. /\ TaskType' /\ Todo(p)' = Rest(p) /\ Frame(p)' = Frame(p) /\ At(p)' = At(p)
      /\ \A q \in Paths \ {p} : task'[q] = task[q]
    BY <1>1, <1>2, GoesOnDoes, NoSteps DEF IngestInv, TaskInv
<1>4. /\ DedupWindow \in Nat /\ now \in Nat /\ Slow < DedupWindow /\ Slow \in Nat
      /\ \A q \in Paths : Busy(q) => At(q) \in Int /\ At(q) <= now
                                   /\ (q = "udp" => now - At(q) <= Slow)
    BY Numbers DEF IngestInv, ClockType, TaskInv, TaskType
<1>5. ASSUME NEW q \in Paths \ {p}, Past(q)
      PROVE  \/ /\ Key(Frame(q)) # Key(Frame(p)) /\ <<Key(Frame(q)), At(q)>> \in recent'
             \/ q = "ble" /\ p = "udp" /\ At(p) - At(q) >= DedupWindow
    <2>1. Busy(q)
        BY <1>5, NoSteps DEF Past, Busy, Todo
    <2>2. CASE <<Key(Frame(q)), At(q)>> \in recent
        <3> DEFINE e == <<Key(Frame(q)), At(q)>>
        <3>1. e[1] = Key(Frame(q)) /\ e[2] = At(q)
            OBVIOUS
        <3>2. Key(Frame(q)) = Key(Frame(p)) => At(p) - At(q) >= DedupWindow
            BY <1>1, <1>4, <2>1, <2>2, <3>1 DEF Claimed
        <3>3. e \notin Pruned(At(p)) => At(p) - At(q) >= DedupWindow
            BY <1>1, <1>4, <2>1, <2>2, <3>1 DEF Pruned
        <3>4. At(p) - At(q) >= DedupWindow => q = "ble" /\ p = "udp"
            BY <1>1, <1>4, <2>1 DEF Paths
        <3> QED
            BY <1>1, <3>1, <3>2, <3>3, <3>4
    <2>3. CASE <<Key(Frame(q)), At(q)>> \notin recent
        BY <1>2, <1>5, <2>3 DEF IngestInv, TaskInv, ClaimsHold, Paths
    <2> QED
        BY <2>2, <2>3
<1>6. ASSUME NEW q \in Paths, Past(q)'
      PROVE  Frame(q)' = Frame(q) /\ At(q)' = At(q) /\ (q # p => Past(q))
    BY <1>3, <1>6 DEF Past, Todo, Frame, At
<1>7. ClaimsHold'
    <2>1. ASSUME NEW q \in Paths, Past(q)'
          PROVE  \/ <<Key(Frame(q)'), At(q)'>> \in recent'
                 \/ /\ q = "ble" /\ now' - At("ble")' >= DedupWindow
                    /\ In("claim", Todo("udp")') => At("udp")' - At("ble")' >= DedupWindow
        <3>1. CASE q = p
            BY <1>1, <1>3, <3>1
        <3>2. CASE q # p
            <4>1. Past(q) /\ Frame(q)' = Frame(q) /\ At(q)' = At(q)
                BY <1>6, <2>1, <3>2
            <4>2. CASE <<Key(Frame(q)), At(q)>> \in recent'
                BY <4>1, <4>2
            <4>3. CASE q = "ble" /\ p = "udp" /\ At(p) - At(q) >= DedupWindow
                <5>1. Busy(q)
                    BY <4>1, NoSteps DEF Past, Busy, Todo
                <5>2. now - At(q) >= DedupWindow
                    BY <1>1, <1>4, <4>3, <5>1
                <5> QED
                    BY <1>1, <1>3, <4>1, <4>3, <5>2
            <4> QED
                BY <1>5, <3>2, <4>1, <4>2, <4>3
        <3> QED
            BY <3>1, <3>2
    <2> QED
        BY <2>1 DEF ClaimsHold, Key
<1>8. PastApart'
    <2>1. ASSUME NEW q \in Paths \ {p}, Past(q), Key(Frame(q)) = Key(Frame(p))
          PROVE  Apart(At(p), At(q)) /\ Apart(At(q), At(p))
        BY <1>5, <2>1 DEF Apart
    <2>2. ASSUME NEW q \in Paths, NEW r \in Paths, q # r, Past(q)', Past(r)',
                 Key(Frame(q)) = Key(Frame(r))
          PROVE  Apart(At(q), At(r))
        BY <1>6, <2>1, <2>2 DEF IngestInv, TaskInv, PastApart
    <2> QED
        BY <1>6, <2>2 DEF PastApart, Key
<1>9. RowsClear'
    <2>1. ASSUME NEW q \in Paths, Looked(q)'
          PROVE  Looked(q) /\ Frame(q)' = Frame(q) /\ At(q)' = At(q)
        BY <1>2, <1>3, <1>6, <2>1 DEF Looked, Past, Todo
    <2> QED
        BY <1>1, <2>1 DEF IngestInv, TaskInv, RowsClear, Key
<1> QED
    BY <1>3, <1>7, <1>8, <1>9 DEF TaskInv

(* The table is looked at after the claim: what is not found then is not   *)
(* stored in the window by anybody else.                                   *)
LEMMA LookStep ==
    ASSUME IngestInv, NEW p \in Paths, Look(p)
    PROVE  TaskInv'
<1>1. /\ Busy(p) /\ Todo(p) \in Steps /\ Todo(p) # <<>> /\ Head(Todo(p)) = "look"
      /\ Rest(p) = Tail(Todo(p)) /\ UNCHANGED <<now, rows, recent>>
    BY DEF Look, Does, Busy, Todo, Rest, IngestInv, TaskInv, TaskType, memory, tables
<1>2. CASE Stored(Frame(p), At(p))
    <2>1. \E s \in {Weather(Frame(p)), <<>>} : GoesOn(p, s, None)
        BY <1>2 DEF Look, Duplicate
    <2>2. \A s \in {Weather(Frame(p)), <<>>} : Tame(p, s)
        <3>1. Tame(p, <<>>)
            BY NoSteps DEF Tame, Early
        <3>2. Tame(p, <<"recall">>)
            <4>1. "recall" \in StepNames \ {"claim", "insert"}
                BY DEF StepNames
            <4> QED
                BY <4>1, FewSteps DEF Tame, Early
        <3> QED
            BY <3>1, <3>2 DEF Weather
    <2> QED
        BY <1>1, <2>1, <2>2, TameStep DEF IngestInv, RowsFromRows
<1>3. CASE ~Stored(Frame(p), At(p))
    <2>1. /\ GoesOn(p, Rest(p), None) /\ Rest(p) \in Steps
          /\ \A x \in {"claim", "insert"} : In(x, Rest(p)) <=> In(x, Todo(p))
        BY <1>1, <1>3, RestOfSteps DEF Look, Finishes
    <2>2. /\ TaskType' /\ ClaimsHold' /\ PastApart'
          /\ \A q \in Paths : Past(q)' => Past(q) /\ Frame(q)' = Frame(q) /\ At(q)' = At(q)
        BY <1>1, <2>1, SteadyStep DEF IngestInv
    <2>3. \A q \in Paths \ {p} : task'[q] = task[q]
        BY <1>1, <2>1, GoesOnDoes DEF IngestInv, TaskInv
    <2>4. ASSUME NEW r \in rows, <<r.src, r.id>> = Key(Frame(p)) PROVE Apart(r.at, At(p))
        <3>1. r.at \in Int /\ DedupWindow \in Nat
            BY Numbers, RowTimes DEF IngestInv, RowsInv
        <3>3. At(p) \in Int
            BY <1>1 DEF IngestInv, TaskInv, TaskType
        <3>2. ~(r.at > At(p) - DedupWindow)
            BY <1>3, <2>4 DEF Stored
        <3> QED
            BY <3>1, <3>2, <3>3 DEF Apart
    <2>5. ASSUME NEW q \in Paths, Looked(q)', NEW r \in rows, <<r.src, r.id>> = Key(Frame(q))
          PROVE  Apart(r.at, At(q))
        <3>1. CASE q = p
            BY <2>4, <2>5, <3>1
        <3>2. CASE q # p
            BY <2>2, <2>3, <2>5, <3>2 DEF Looked, Todo, IngestInv, TaskInv, RowsClear
        <3> QED
            BY <3>1, <3>2
    <2>6. RowsClear'
        BY <1>1, <2>2, <2>5 DEF RowsClear, Looked, Key
    <2> QED
        BY <2>2, <2>6 DEF TaskInv
<1> QED
    BY <1>2, <1>3

LEMMA ArriveStep ==
    ASSUME IngestInv, NEW p, NEW f, <<p, f>> \in agenda.coming, Arrive(p, f)
    PROVE  TaskInv'
<1>1. p \in Paths /\ f \in Frames /\ ~Busy(p) /\ UNCHANGED <<now, recent, rows>>
    BY DEF Arrive, IngestInv, ClockType, memory, tables
<1>2. PICK t \in Stamps(p) :
          task' = [task EXCEPT ![p] = [frame |-> f, at |-> t, todo |-> Plan(f), found |-> None]]
    BY DEF Arrive
<1>3. /\ DOMAIN task' = Paths /\ \A q \in Paths \ {p} : task'[q] = task[q]
      /\ task'[p].frame = f /\ task'[p].at = t /\ task'[p].todo = Plan(f)
    BY <1>1, <1>2 DEF IngestInv, TaskInv, TaskType
<1>4. now \in Nat /\ t \in 0 .. now /\ (p = "udp" => t = now) /\ Slow \in Nat
    BY Numbers DEF IngestInv, ClockType, Stamps
<1>5. TaskType'
    BY <1>1, <1>3, <1>4, PlanOfFrame DEF IngestInv, TaskInv, TaskType, Todo, Busy, Frame, At
<1>6. ~Past(p)'
    BY <1>3, PlanOfFrame DEF Past, Frame, Todo
<1>7. ASSUME NEW q \in Paths, Past(q)'
      PROVE  /\ q # p /\ Past(q) /\ Frame(q)' = Frame(q) /\ At(q)' = At(q)
             /\ (Looked(q)' => Looked(q))
    BY <1>3, <1>6, <1>7 DEF Past, Looked, Todo, Frame, At
<1>8. ClaimsHold'
    <2>1. ASSUME NEW q \in Paths, Past(q)'
          PROVE  \/ <<Key(Frame(q)'), At(q)'>> \in recent
                 \/ /\ q = "ble" /\ now - At("ble")' >= DedupWindow
                    /\ In("claim", Todo("udp")') => At("udp")' - At("ble")' >= DedupWindow
        <3>1. CASE <<Key(Frame(q)), At(q)>> \in recent
            BY <1>7, <2>1, <3>1
        <3>2. CASE q = "ble" /\ now - At("ble") >= DedupWindow
            <4>1. p = "udp" /\ At(p)' = now /\ At(q)' = At(q)
                BY <1>1, <1>3, <1>4, <1>7, <2>1, <3>2 DEF Paths, At
            <4> QED
                BY <3>2, <4>1
        <3> QED
            BY <1>7, <2>1, <3>1, <3>2 DEF IngestInv, TaskInv, ClaimsHold
    <2> QED
        BY <1>1, <2>1 DEF ClaimsHold, Key
<1>9. PastApart' /\ RowsClear'
    BY <1>1, <1>7 DEF IngestInv, TaskInv, PastApart, RowsClear, Looked, Key
<1> QED
    BY <1>5, <1>8, <1>9 DEF TaskInv

LEMMA TickStep ==
    ASSUME IngestInv, Tick
    PROVE  ClockType' /\ TaskInv'
<1>0. agenda.ticks > 0 /\ agenda' = [agenda EXCEPT !.ticks = @ - 1]
    BY DEF Tick
<1>1. /\ now' = now + 1 /\ UNCHANGED <<next, task, recent, rows>>
      /\ \A p \in Paths : Busy(p) => now - At(p) < Slow
    BY DEF Tick, memory, tables
<1>2. ClockType'
    <2>1. PICK a \in Agendas : now + agenda.ticks <= a.ticks
        BY DEF IngestInv, ClockType
    <2>2. a.ticks \in Nat
        BY AgendasAssumption
    <2>3. /\ agenda.ticks \in Nat /\ agenda'.ticks = agenda.ticks - 1
          /\ agenda' \in [coming : SUBSET (Paths \X Frames), ticks : Nat, restarts : Nat,
                          faults : Nat, deletes : SUBSET Talks]
        BY <1>0 DEF IngestInv, ClockType
    <2> QED
        BY <1>1, <2>1, <2>2, <2>3 DEF IngestInv, ClockType
<1>3. now \in Nat /\ Slow \in Nat /\ DedupWindow \in Nat
    BY Numbers DEF IngestInv, ClockType
<1>4. TaskType'
    BY <1>1, <1>3 DEF IngestInv, TaskInv, TaskType, Todo, Busy, Frame, At
<1>5. \A q \in Paths : Past(q)' = Past(q) /\ Looked(q)' = Looked(q) /\ Frame(q)' = Frame(q)
                        /\ At(q)' = At(q) /\ Todo(q)' = Todo(q)
    BY <1>1 DEF Past, Looked, Todo, Frame, At
<1>6. ClaimsHold'
    <2>1. ASSUME Past("ble") PROVE At("ble") \in Int
        BY <2>1, NoSteps DEF Past, Busy, Todo, IngestInv, TaskInv, TaskType, Paths
    <2>2. ASSUME NEW q \in Paths, Past(q)
          PROVE  \/ <<Key(Frame(q)), At(q)>> \in recent
                 \/ /\ q = "ble" /\ now + 1 - At("ble") >= DedupWindow
                    /\ In("claim", Todo("udp")) => At("udp") - At("ble") >= DedupWindow
        BY <1>3, <2>1, <2>2 DEF IngestInv, TaskInv, ClaimsHold
    <2>3. ASSUME NEW q \in Paths, Past(q)'
          PROVE  \/ <<Key(Frame(q)'), At(q)'>> \in recent'
                 \/ /\ q = "ble" /\ now' - At("ble")' >= DedupWindow
                    /\ In("claim", Todo("udp")') => At("udp")' - At("ble")' >= DedupWindow
        <3>1. At("ble")' = At("ble") /\ At("udp")' = At("udp") /\ Todo("udp")' = Todo("udp")
            BY <1>5 DEF Paths
        <3>2. Past(q) /\ Frame(q)' = Frame(q) /\ At(q)' = At(q)
            BY <1>5, <2>3
        <3>3. \/ <<Key(Frame(q)), At(q)>> \in recent
              \/ /\ q = "ble" /\ now + 1 - At("ble") >= DedupWindow
                 /\ In("claim", Todo("udp")) => At("udp") - At("ble") >= DedupWindow
            BY <2>2, <3>2
        <3>4. now' = now + 1 /\ recent' = recent
            BY <1>1
        <3> QED
            BY <1>3, <2>1, <3>1, <3>2, <3>3, <3>4
    <2> QED
        BY <2>3 DEF ClaimsHold, Key
<1>7. PastApart' /\ RowsClear'
    BY <1>1, <1>5 DEF IngestInv, TaskInv, PastApart, RowsClear, Key
<1> QED
    BY <1>2, <1>4, <1>6, <1>7 DEF TaskInv

LEMMA RestartStep ==
    ASSUME IngestInv, NEW closed, Restart(closed)
    PROVE  ClockType' /\ TaskInv'
<1>1. /\ task' = [p \in Paths |-> Idle] /\ UNCHANGED <<now, next, rows>> /\ agenda.restarts > 0
      /\ agenda' = [agenda EXCEPT !.restarts = @ - 1]
    BY DEF Restart
<1>2. ClockType'
    <2>1. /\ agenda'.ticks = agenda.ticks
          /\ agenda' \in [coming : SUBSET (Paths \X Frames), ticks : Nat, restarts : Nat,
                          faults : Nat, deletes : SUBSET Talks]
        BY <1>1 DEF IngestInv, ClockType
    <2> QED
        BY <1>1, <2>1 DEF IngestInv, ClockType
<1>3. \A q \in Paths : Todo(q)' = <<>>
    BY <1>1 DEF Todo, Idle
<1>4. TaskType' /\ \A q \in Paths : ~Past(q)'
    BY <1>1, <1>3, NoSteps DEF TaskType, Todo, Busy, Past, Early
<1> QED
    BY <1>2, <1>4 DEF TaskInv, ClaimsHold, PastApart, RowsClear, Looked

(* Steps beside the tasks *)
LEMMA BesideStep ==
    ASSUME TaskInv, UNCHANGED <<now, task, recent>>, RowsFromRows
    PROVE  TaskInv'
<1>1. \A q \in Paths : Past(q)' = Past(q) /\ Looked(q)' = Looked(q) /\ Frame(q)' = Frame(q)
                        /\ At(q)' = At(q) /\ Todo(q)' = Todo(q)
    BY DEF Past, Looked, Todo, Frame, At
<1>2. TaskType' /\ ClaimsHold' /\ PastApart'
    BY <1>1 DEF TaskInv, TaskType, ClaimsHold, PastApart, Busy, Key, Paths, Todo
<1>3. ASSUME NEW q \in Paths, Looked(q), NEW r \in rows', <<r.src, r.id>> = Key(Frame(q))
      PROVE  Apart(r.at, At(q))
    <2>1. r.id # None
        BY <1>3 DEF Looked, Past, Key
    <2>2. PICK o \in rows : o.src = r.src /\ o.id = r.id /\ o.at = r.at
        BY <2>1 DEF RowsFromRows
    <2> QED
        BY <1>3, <2>2 DEF TaskInv, RowsClear
<1> QED
    BY <1>1, <1>2, <1>3 DEF TaskInv, RowsClear, Key

-----------------------------------------------------------------------------
(* What a step does to the table *)

TheLog == {LogEntry(r) : r \in {q \in rows : q.id # None}}

LogStep == Log!Next \/ UNCHANGED TheLog

LEMMA RowsStay ==
    ASSUME RowsInv, UNCHANGED rows, next \in Nat, next' \in Nat, next' >= next
    PROVE  RowsInv' /\ LogStep /\ RowsFromRows
<1>1. UNCHANGED TheLog
    BY DEF TheLog
<1>2. \A r \in rows : r.n \in Nat
    BY DEF RowsInv, RowsType, MessageRow
<1>3. RowsInv'
    BY <1>2 DEF RowsInv, RowsType, RowsSpaced, MessageRow
<1> QED
    BY <1>1, <1>3 DEF LogStep, RowsFromRows

(* Different rows of the log are different entries of it. *)
LEMMA OneEntryPerRow ==
    ASSUME RowsInv, NEW r \in rows, NEW s \in rows, r.id # None, r.src = s.src, r.id = s.id,
           r.at = s.at
    PROVE  r = s
<1>1. r.at \in Int /\ DedupWindow \in Nat \ {0}
    BY RowTimes, Numbers DEF RowsInv
<1>2. ~Apart(r.at, r.at)
    BY <1>1 DEF Apart
<1> QED
    BY <1>2 DEF RowsInv, RowsSpaced

LEMMA OneNewest ==
    ASSUME RowsInv, NEW S \in SUBSET rows, NEW r \in Newest(S), NEW s \in Newest(S)
    PROVE  r = s
<1>1. /\ r \in rows /\ s \in rows /\ (s.at < r.at \/ (s.at = r.at /\ s.n <= r.n))
      /\ (r.at < s.at \/ (r.at = s.at /\ r.n <= s.n))
    BY DEF Newest
<1>2. r.at \in Int /\ s.at \in Int
    BY <1>1, RowTimes DEF RowsInv
<1>3. r.n \in Nat /\ s.n \in Nat
    BY <1>1 DEF RowsInv, RowsType, MessageRow
<1>4. r.n = s.n
    BY <1>1, <1>2, <1>3
<1> QED
    BY <1>1, <1>4 DEF RowsInv, RowsType

MarkedRow(r, st) == [r EXCEPT !.status[st] = TRUE]

LEMMA MarkedRowIs ==
    ASSUME NEW r \in MessageRow, NEW st \in {"sent", "acked"}
    PROVE  LET m == MarkedRow(r, st) IN
           /\ m \in MessageRow
           /\ m.n = r.n /\ m.id = r.id /\ m.src = r.src /\ m.at = r.at /\ m.kind = r.kind
           /\ m.dst = r.dst
           /\ r.status.sent => m.status.sent
           /\ r.status.acked => m.status.acked
           /\ m.status \in [sent : BOOLEAN, acked : BOOLEAN]
<1>1. CASE st = "sent"
    BY <1>1 DEF MarkedRow, MessageRow
<1>2. CASE st = "acked"
    BY <1>2 DEF MarkedRow, MessageRow
<1> QED
    BY <1>1, <1>2

LEMMA MarkStep ==
    ASSUME RowsInv, NEW hit \in SUBSET rows, \A r, s \in hit : r = s, NEW st \in {"sent", "acked"},
           rows' = Marked(hit, st), next \in Nat, UNCHANGED next
    PROVE  RowsInv' /\ LogStep /\ RowsFromRows
<1>1. CASE hit = {}
    <2>1. rows' = rows
        BY <1>1 DEF Marked
    <2> QED
        BY <2>1, RowsStay
<1>2. ASSUME NEW r \in hit PROVE RowsInv' /\ LogStep /\ RowsFromRows
    <2> DEFINE m == MarkedRow(r, st)
    <2>1. /\ r \in rows /\ r \in MessageRow /\ rows' = (rows \ {r}) \cup {m}
        <3>1. hit = {r} /\ r \in rows
            BY <1>2
        <3> QED
            BY <3>1 DEF Marked, MarkedRow, RowsInv, RowsType
    <2>2. /\ m \in MessageRow
          /\ m.n = r.n /\ m.id = r.id /\ m.src = r.src /\ m.at = r.at /\ m.kind = r.kind
          /\ m.dst = r.dst
          /\ (r.status.sent => m.status.sent) /\ (r.status.acked => m.status.acked)
          /\ m.status \in [sent : BOOLEAN, acked : BOOLEAN]
        BY <2>1, MarkedRowIs
    <2> HIDE DEF m
    <2>3. CASE m = r
        <3>1. rows' = rows
            BY <2>1, <2>3
        <3> QED
            BY <3>1, RowsStay
    <2>4. CASE m # r
        <3> DEFINE Was(x) == IF x = m THEN r ELSE x
        <3>1. m \notin rows
            BY <2>1, <2>2, <2>4 DEF RowsInv, RowsType
        <3>2. ASSUME NEW x \in rows'
              PROVE  /\ Was(x) \in rows /\ Was(x).n = x.n /\ Was(x).id = x.id /\ Was(x).src = x.src
                     /\ Was(x).at = x.at /\ Was(x).kind = x.kind
            BY <2>1, <2>2
        <3>3. ASSUME NEW x \in rows', NEW y \in rows', x # y PROVE Was(x) # Was(y)
            BY <2>1, <3>1, <3>3
        <3> HIDE DEF Was
        <3>4. RowsType'
            <4>1. rows' \subseteq MessageRow
                BY <2>1, <2>2 DEF RowsInv, RowsType
            <4>2. \A x \in rows' :
                      /\ x.n < next' /\ <<x.src, x.id>> \in LogKeys
                      /\ x.kind = "mheard" => x.id = None
                <5>1. ASSUME NEW x \in rows', NEW o \in rows, o.n = x.n, o.id = x.id, o.src = x.src,
                             o.kind = x.kind
                      PROVE  /\ x.n < next /\ <<x.src, x.id>> \in LogKeys
                             /\ x.kind = "mheard" => x.id = None
                    <6>1. /\ o.n < next /\ <<o.src, o.id>> \in LogKeys
                          /\ o.kind = "mheard" => o.id = None
                        BY DEF RowsInv, RowsType
                    <6> QED
                        BY <5>1, <6>1
                <5> QED
                    BY <3>2, <5>1
            <4>3. \A x, y \in rows' : x.n = y.n => x = y
                BY <3>2, <3>3 DEF RowsInv, RowsType
            <4> QED
                BY <4>1, <4>2, <4>3 DEF RowsType
        <3>5. RowsSpaced'
            BY <3>2, <3>3 DEF RowsInv, RowsSpaced
        <3>6. RowsFromRows
            BY <3>2 DEF RowsFromRows
        <3>7. LogStep
            <4>1. CASE r.id = None
                <5>1. {q \in rows' : q.id # None} = {q \in rows : q.id # None}
                    BY <2>1, <2>2, <4>1
                <5> QED
                    BY <5>1 DEF LogStep, TheLog
            <4>2. CASE r.id # None
                <5> DEFINE e == LogEntry(r)
                           f == LogEntry(m)
                <5>1. e \in TheLog
                    BY <2>1, <4>2 DEF TheLog
                <5>2. ASSUME NEW x \in rows, x.id # None, LogEntry(x) = e PROVE x = r
                    <6>1. x.src = r.src /\ x.id = r.id /\ x.at = r.at
                        BY <5>2 DEF LogEntry
                    <6> QED
                        BY <2>1, <5>2, <6>1, OneEntryPerRow
                <5>3. {q \in rows' : q.id # None} = ({q \in rows : q.id # None} \ {r}) \cup {m}
                    BY <2>1, <2>2, <4>2
                <5>4. TheLog' = (TheLog \ {e}) \cup {f}
                    BY <5>2, <5>3 DEF TheLog
                <5>5. CASE e = f
                    BY <5>1, <5>4, <5>5 DEF LogStep
                <5>6. CASE e # f
                    <6>1. e \in TheLog \ TheLog'
                        BY <5>1, <5>4, <5>6
                    <6>2. f = [e EXCEPT !.status = m.status] /\ e.status = r.status
                        BY <2>2 DEF LogEntry
                    <6>3. Log!Confirm
                        BY <2>2, <5>4, <6>1, <6>2 DEF Log!Confirm, Log!NotBefore, Log!Status, TheLog
                    <6> QED
                        BY <6>3 DEF LogStep, Log!Next
                <5> QED
                    BY <5>5, <5>6
            <4> QED
                BY <4>1, <4>2
        <3> QED
            BY <3>4, <3>5, <3>6, <3>7 DEF RowsInv
    <2> QED
        BY <2>3, <2>4
<1> QED
    BY <1>1, <1>2

-----------------------------------------------------------------------------
(* The operations *)

LEMMA TimeOfCall ==
    ASSUME IngestInv, NEW p \in Paths, Busy(p)
    PROVE  Frame(p) \in Frames /\ At(p) \in Nat /\ At(p) \in LogTimes
<1>1. now \in Nat /\ Frame(p) \in Frames /\ At(p) \in 0 .. now
    BY DEF IngestInv, ClockType, TaskInv, TaskType
<1>2. PICK a \in Agendas : now + agenda.ticks <= a.ticks
    BY DEF IngestInv, ClockType
<1>3. a.ticks \in Nat /\ agenda.ticks \in Nat
    BY <1>2, AgendasAssumption DEF IngestInv, ClockType
<1>4. At(p) \in 0 .. a.ticks
    BY <1>1, <1>2, <1>3
<1> QED
    BY <1>1, <1>2, <1>4 DEF LogTimes

LEMMA ClockStays ==
    ASSUME ClockType, UNCHANGED <<agenda, now>>, next' \in {next, next + 1}
    PROVE  ClockType' /\ next' \in Nat /\ next' >= next
BY DEF ClockType

(* Neither the claims nor the table of messages are touched. *)
LEMMA PlainStep ==
    ASSUME IngestInv, NEW p \in Paths, Busy(p), NEW s, Tame(p, s), NEW found, GoesOn(p, s, found),
           UNCHANGED <<agenda, now, recent, rows>>, next' \in {next, next + 1}
    PROVE  IngestInv' /\ LogStep
<1>1. ClockType' /\ next \in Nat /\ next' \in Nat /\ next' >= next
    BY ClockStays DEF IngestInv, ClockType
<1>2. RowsInv' /\ LogStep /\ RowsFromRows
    BY <1>1, RowsStay DEF IngestInv
<1>3. TaskInv'
    BY <1>2, TameStep DEF IngestInv
<1> QED
    BY <1>1, <1>2, <1>3 DEF IngestInv

(* One row is marked as sent or as acknowledged. *)
LEMMA MarkingStep ==
    ASSUME IngestInv, NEW p \in Paths, Busy(p), NEW s, Tame(p, s), NEW found, GoesOn(p, s, found),
           UNCHANGED <<agenda, now, recent, next>>,
           NEW hit \in SUBSET rows, \A r, t \in hit : r = t, NEW st \in {"sent", "acked"},
           rows' = Marked(hit, st)
    PROVE  IngestInv' /\ LogStep
<1>1. ClockType' /\ next \in Nat
    BY ClockStays DEF IngestInv, ClockType
<1>2. RowsInv' /\ LogStep /\ RowsFromRows
    BY <1>1, MarkStep DEF IngestInv
<1>3. TaskInv'
    BY <1>2, TameStep DEF IngestInv
<1> QED
    BY <1>1, <1>2, <1>3 DEF IngestInv

LEMMA NextStepOf ==
    ASSUME IngestInv, NEW p \in Paths, NEW step, Does(p, step)
    PROVE  /\ TaskType /\ Busy(p) /\ Head(Todo(p)) = step /\ Tame(p, <<>>)
           /\ step \notin {"claim", "look", "insert"} =>
                 /\ Tame(p, Rest(p))
                 /\ \A a : Early(a) /\ ~In("claim", a) /\ ~In("look", a) => Tame(p, a \o Rest(p))
<1>1. TaskType /\ Busy(p) /\ Head(Todo(p)) = step
    BY DEF Does, Todo, IngestInv, TaskInv
<1>2. Tame(p, <<>>)
    BY NoSteps DEF Tame, Early
<1> QED
    BY <1>1, <1>2, RestIsTame

(* Steps that begin no frame. *)
LEMMA Follows ==
    ASSUME NEW a \in StepNames \ {"claim", "look", "insert"},
           NEW b \in StepNames \ {"claim", "look", "insert"},
           NEW c \in StepNames \ {"claim", "look", "insert"}, NEW p \in Paths
    PROVE  \A s \in {<<>>, <<a>>, <<a, b>>, <<a, b, c>>} :
               /\ Early(s) /\ ~In("claim", s) /\ ~In("look", s)
               /\ Tame(p, s)
<1>1. /\ Early(<<a>>) /\ Early(<<a, b>>) /\ Early(<<a, b, c>>)
      /\ \A x : In(x, <<a>>) <=> x = a
      /\ \A x : In(x, <<a, b>>) <=> x \in {a, b}
      /\ \A x : In(x, <<a, b, c>>) <=> x \in {a, b, c}
    BY FewSteps
<1>2. a \notin {"claim", "look"} /\ b \notin {"claim", "look"} /\ c \notin {"claim", "look"}
    OBVIOUS
<1>3. \A s \in {<<>>, <<a>>, <<a, b>>, <<a, b, c>>} : Early(s) /\ ~In("claim", s) /\ ~In("look", s)
    BY <1>1, <1>2, NoSteps
<1> QED
    BY <1>3 DEF Tame, Early

LEMMA RefuseStep ==
    ASSUME IngestInv, NEW p \in Paths, RefuseClaimed(p)
    PROVE  IngestInv' /\ LogStep
<1>0. "recall" \in StepNames \ {"claim", "look", "insert"}
    BY DEF StepNames
<1>1. Busy(p) /\ Tame(p, <<>>) /\ Tame(p, <<"recall">>)
    BY <1>0, NextStepOf, Follows DEF RefuseClaimed
<1>2. PICK s \in {<<>>, <<"recall">>} : GoesOn(p, s, None)
    BY DEF RefuseClaimed, Duplicate, Weather
<1> QED
    BY <1>1, <1>2, PlainStep DEF RefuseClaimed, memory, tables

LEMMA SignalSteps ==
    ASSUME IngestInv, NEW p \in Paths,
           LogSignal(p) \/ CountSignal(p) \/ FlushBuckets(p) \/ UpsertStation(p)
    PROVE  IngestInv' /\ LogStep
<1>1. PICK step \in {"log", "count", "flush", "signal", "place", "heard"} : Does(p, step)
    BY DEF LogSignal, CountSignal, FlushBuckets, UpsertStation
<1>2. Busy(p) /\ Tame(p, Rest(p)) /\ Tame(p, <<"flush">> \o Rest(p))
    <2>1. Early(<<"flush">>) /\ ~In("claim", <<"flush">>) /\ ~In("look", <<"flush">>)
        BY Follows DEF StepNames
    <2> QED
        BY <1>1, <2>1, NextStepOf
<1>3. PICK s \in {Rest(p), <<"flush">> \o Rest(p)} : \E found : GoesOn(p, s, found)
    BY DEF LogSignal, CountSignal, FlushBuckets, UpsertStation, Finishes
<1>4. UNCHANGED <<agenda, now, recent, rows>> /\ next' \in {next, next + 1}
    BY DEF LogSignal, CountSignal, FlushBuckets, UpsertStation, memory, tables
<1> QED
    BY <1>2, <1>3, <1>4, PlainStep

(* A heard line has no id, so the log does not see that it is renewed. *)
LEMMA RenewStep ==
    ASSUME IngestInv, NEW p \in Paths, Renew(p)
    PROVE  IngestInv' /\ LogStep
<1> DEFINE old == Newest({r \in rows : r.kind = "mheard" /\ r.src = Frame(p).src
                                       /\ r.at > At(p) - MheardWindow})
<1>1. /\ Does(p, "again") /\ Busy(p) /\ Tame(p, <<>>) /\ Tame(p, Rest(p))
      /\ UNCHANGED <<agenda, now, next, recent>>
    BY NextStepOf DEF Renew, memory
<1>2. /\ IF old = {}
         THEN GoesOn(p, Rest(p), None) /\ rows' = rows
         ELSE /\ GoesOn(p, <<>>, None)
              /\ rows' = (rows \ old) \cup {[r EXCEPT !.at = At(p)] : r \in old}
      /\ \A r \in old : r \in rows /\ r.kind = "mheard"
      /\ \A r, s \in old : r = s
    <2>1. \A r \in old : r \in rows /\ r.kind = "mheard"
        BY DEF Newest
    <2>2. \A r, s \in old : r = s
        BY OneNewest DEF IngestInv
    <2>3. IF old = {}
          THEN GoesOn(p, Rest(p), None) /\ rows' = rows
          ELSE /\ GoesOn(p, <<>>, None)
               /\ rows' = (rows \ old) \cup {[r EXCEPT !.at = At(p)] : r \in old}
        BY DEF Renew, Finishes
    <2> QED
        BY <2>1, <2>2, <2>3
<1> HIDE DEF old
<1>3. CASE old = {}
    BY <1>1, <1>2, <1>3, PlainStep
<1>4. ASSUME NEW r \in old PROVE IngestInv' /\ LogStep
    <2> DEFINE m == [r EXCEPT !.at = At(p)]
    <2>1. /\ r \in rows /\ r.kind = "mheard" /\ rows' = (rows \ {r}) \cup {m}
          /\ GoesOn(p, <<>>, None)
        <3>1. old = {r}
            BY <1>2, <1>4
        <3> QED
            BY <1>2, <3>1
    <2>2. /\ m \in MessageRow /\ m.n = r.n /\ m.id = r.id /\ m.src = r.src /\ m.kind = r.kind
        <3>1. At(p) \in LogTimes /\ r \in MessageRow
            BY <1>1, <2>1, TimeOfCall DEF IngestInv, RowsInv, RowsType
        <3> QED
            BY <3>1 DEF MessageRow
    <2> HIDE DEF m
    <2>3. r.id = None /\ m.id = None
        BY <2>1, <2>2 DEF IngestInv, RowsInv, RowsType
    <2>4. \A x \in rows' : x.id # None => x \in rows
        BY <2>1, <2>3
    <2>5. RowsType'
        <3>1. rows' \subseteq MessageRow
            BY <2>1, <2>2 DEF IngestInv, RowsInv, RowsType
        <3>2. ASSUME NEW x \in rows'
              PROVE  x.n < next /\ <<x.src, x.id>> \in LogKeys /\ (x.kind = "mheard" => x.id = None)
            <4>1. CASE x \in rows
                BY <4>1 DEF IngestInv, RowsInv, RowsType
            <4>2. CASE x = m
                BY <2>1, <2>2, <4>2 DEF IngestInv, RowsInv, RowsType
            <4> QED
                BY <2>1, <4>1, <4>2
        <3>3. ASSUME NEW x \in rows', NEW y \in rows', x.n = y.n PROVE x = y
            BY <2>1, <2>2, <3>3 DEF IngestInv, RowsInv, RowsType
        <3> QED
            BY <1>1, <3>1, <3>2, <3>3 DEF RowsType
    <2>6. RowsSpaced'
        BY <2>4 DEF IngestInv, RowsInv, RowsSpaced
    <2>7. RowsFromRows
        BY <2>4 DEF RowsFromRows
    <2>8. LogStep
        <3>1. {q \in rows' : q.id # None} = {q \in rows : q.id # None}
            BY <2>1, <2>3
        <3> QED
            BY <3>1 DEF LogStep, TheLog
    <2>9. TaskInv'
        BY <1>1, <2>1, <2>7, TameStep DEF IngestInv
    <2>10. ClockType'
        BY <1>1, ClockStays DEF IngestInv
    <2> QED
        BY <2>5, <2>6, <2>8, <2>9, <2>10 DEF IngestInv, RowsInv
<1> QED
    BY <1>3, <1>4

LEMMA MarkSteps ==
    ASSUME IngestInv, NEW p \in Paths, MarkSent(p) \/ MarkAcked(p) \/ Confirm(p)
    PROVE  IngestInv' /\ LogStep
<1> USE DEF MarkSent, MarkAcked, Confirm
<1>0. {"receipt", "tell"} \subseteq StepNames \ {"claim", "look", "insert"}
    BY DEF StepNames
<1>1. PICK step \in {"sent", "acked", "confirm"} : Does(p, step)
    OBVIOUS
<1>2. /\ Busy(p) /\ Tame(p, Rest(p)) /\ Tame(p, <<>>) /\ Tame(p, <<"tell">> \o Rest(p))
      /\ Tame(p, <<"tell">>) /\ Tame(p, <<"receipt", "tell">>)
    BY <1>0, <1>1, NextStepOf, Follows
<1>3. PICK s \in {Rest(p), <<>>, <<"tell">>, <<"receipt", "tell">>, <<"tell">> \o Rest(p)} :
          \E found : GoesOn(p, s, found)
    OBVIOUS
<1>4. UNCHANGED <<agenda, now, recent, next>>
    BY DEF memory
<1>5. \E hit \in SUBSET rows, st \in {"sent", "acked"} :
          rows' = Marked(hit, st) /\ \A r, t \in hit : r = t
    <2>1. Newest(Texts(Frame(p).id)) \in SUBSET rows
        BY DEF Newest, Texts
    <2>2. \A r, t \in Newest(Texts(Frame(p).id)) : r = t
        <3>1. Texts(Frame(p).id) \in SUBSET rows
            BY DEF Texts
        <3> QED
            BY <3>1, OneNewest DEF IngestInv
    <2>3. \A r, t \in {x \in rows : x.n = Found(p).n} : r = t
        BY DEF IngestInv, RowsInv, RowsType
    <2> QED
        BY <2>1, <2>2, <2>3
<1> QED
    BY <1>2, <1>3, <1>4, <1>5, MarkingStep

LEMMA AckSteps ==
    ASSUME IngestInv, NEW p \in Paths, Receipt(p) \/ Tell(p) \/ FindOriginal(p)
    PROVE  IngestInv' /\ LogStep
<1> USE DEF Receipt, Tell, FindOriginal
<1>0. "confirm" \in StepNames \ {"claim", "look", "insert"}
    BY DEF StepNames
<1>1. PICK step \in {"receipt", "tell", "original"} : Does(p, step)
    OBVIOUS
<1>2. Busy(p) /\ Tame(p, Rest(p)) /\ Tame(p, <<"confirm">> \o Rest(p))
    BY <1>0, <1>1, NextStepOf, Follows
<1>3. PICK s \in {Rest(p), <<"confirm">> \o Rest(p)} : \E found : GoesOn(p, s, found)
    BY DEF Finishes
<1>4. UNCHANGED <<agenda, now, recent, rows, next>>
    BY DEF memory, tables
<1> QED
    BY <1>2, <1>3, <1>4, PlainStep

LEMMA TelemetrySteps ==
    ASSUME IngestInv, NEW p \in Paths,
           \/ Recall(p) \/ AddReading(p) \/ AmendReading(p) \/ DropReading(p) \/ UpsertWeather(p)
    PROVE  IngestInv' /\ LogStep
<1>0. {"add", "amend", "drop", "weather"} \subseteq StepNames \ {"claim", "look", "insert"}
    BY DEF StepNames
<1> DEFINE Befores == {<<>>, <<"amend">>, <<"drop", "add">>}
<1>1. PICK step \in {"recall", "add", "amend", "drop", "weather"} : Does(p, step)
    BY DEF Recall, AddReading, AmendReading, DropReading, UpsertWeather
<1>2. Busy(p) /\ Tame(p, Rest(p)) /\ Tame(p, <<"add", "weather">> \o Rest(p))
    BY <1>0, <1>1, NextStepOf, Follows
<1>3. \A a \in Befores : Tame(p, (a \o <<"weather">>) \o Rest(p))
    <2>1. \A a \in Befores : Early(a) /\ ~In("claim", a) /\ ~In("look", a)
        BY <1>0, Follows
    <2>2. Early(<<"weather">>) /\ ~In("claim", <<"weather">>) /\ ~In("look", <<"weather">>)
          /\ <<"weather">> \in Steps
        BY <1>0, Follows DEF Early
    <2>3. \A a \in Befores :
              Early(a \o <<"weather">>) /\ ~In("claim", a \o <<"weather">>)
              /\ ~In("look", a \o <<"weather">>)
        BY <2>1, <2>2, StepsBefore
    <2> QED
        BY <1>1, <2>3, NextStepOf
<1>4. CASE Recall(p)
    <2> DEFINE row == Newest(Near(Frame(p).src, At(p)))
    <2>2. ASSUME NEW old, NEW w, NEW newer PROVE Writes(Action(old, w, newer)) \in Befores
        BY DEF Action, Writes
    <2>3. \/ \E found : GoesOn(p, <<"add", "weather">> \o Rest(p), found)
          \/ \E a \in Befores : \E found : GoesOn(p, (a \o <<"weather">>) \o Rest(p), found)
        <3>1. CASE row = {}
            BY <1>4, <3>1 DEF Recall
        <3>2. CASE row # {}
            <4>1. PICK r \in row :
                      LET old == FromRow(r.vals)
                          newer == At(p) > r.at
                      IN GoesOn(p, (Writes(Action(old, Frame(p).weather, newer)) \o <<"weather">>)
                                       \o Rest(p),
                                [row |-> r.n, vals |-> values_for(Merge(old, Frame(p).weather, newer))])
                BY <1>4, <3>2 DEF Recall
            <4> QED
                BY <2>2, <4>1
        <3> QED
            BY <3>1, <3>2
    <2>4. UNCHANGED <<agenda, now, recent, rows, next>>
        BY <1>4 DEF Recall, memory, tables
    <2> QED
        BY <1>2, <1>3, <2>3, <2>4, PlainStep
<1>5. CASE AddReading(p) \/ AmendReading(p) \/ DropReading(p) \/ UpsertWeather(p)
    <2>1. PICK found : GoesOn(p, Rest(p), found)
        BY <1>5 DEF AddReading, AmendReading, DropReading, UpsertWeather, Finishes
    <2>2. UNCHANGED <<agenda, now, recent, rows>> /\ next' \in {next, next + 1}
        BY <1>5 DEF AddReading, AmendReading, DropReading, UpsertWeather, memory
    <2> QED
        BY <1>2, <2>1, <2>2, PlainStep
<1> QED
    BY <1>4, <1>5

LEMMA FailStep ==
    ASSUME IngestInv, NEW p \in Paths, Fails(p)
    PROVE  IngestInv' /\ LogStep
<1>1. ClockType'
    <2>1. agenda.faults > 0 /\ agenda' = [agenda EXCEPT !.faults = @ - 1]
          /\ UNCHANGED <<now, next>>
        BY DEF Fails
    <2>2. /\ agenda'.ticks = agenda.ticks
          /\ agenda' \in [coming : SUBSET (Paths \X Frames), ticks : Nat, restarts : Nat,
                          faults : Nat, deletes : SUBSET Talks]
        BY <2>1 DEF IngestInv, ClockType
    <2> QED
        BY <2>1, <2>2 DEF IngestInv, ClockType
<1>2. Busy(p) /\ UNCHANGED <<now, next, recent, rows>>
    BY DEF Fails, memory, tables
<1>3. PICK s : GoesOn(p, s, Found(p)) /\ Tame(p, s)
    <2>1. CASE Does(p, "receipt")
        <3>1. Tame(p, Rest(p))
            BY <2>1, NextStepOf
        <3> QED
            BY <2>1, <3>1 DEF Fails
    <2>2. CASE ~Does(p, "receipt")
        <3>1. Tame(p, <<>>)
            BY NoSteps DEF Tame, Early
        <3> QED
            BY <2>2, <3>1 DEF Fails
    <2> QED
        BY <2>1, <2>2
<1>4. next \in Nat
    BY DEF IngestInv, ClockType
<1>5. RowsInv' /\ LogStep /\ RowsFromRows
    BY <1>2, <1>4, RowsStay DEF IngestInv
<1>6. TaskInv'
    BY <1>2, <1>3, <1>5, TameStep DEF IngestInv
<1> QED
    BY <1>1, <1>5, <1>6 DEF IngestInv

LEMMA DeleteStep ==
    ASSUME IngestInv, NEW d \in Talks, DeleteTalk(d)
    PROVE  IngestInv' /\ LogStep
<1>1. /\ rows' = {r \in rows : r.dst # d} /\ UNCHANGED <<now, next, task, recent>>
    BY DEF DeleteTalk, memory
<1>2. ClockType'
    <2>1. agenda' = [agenda EXCEPT !.deletes = @ \ {d}]
        BY DEF DeleteTalk
    <2>2. /\ agenda'.ticks = agenda.ticks
          /\ agenda' \in [coming : SUBSET (Paths \X Frames), ticks : Nat, restarts : Nat,
                          faults : Nat, deletes : SUBSET Talks]
        BY <2>1 DEF IngestInv, ClockType
    <2> QED
        BY <1>1, <2>2 DEF IngestInv, ClockType
<1>3. RowsInv'
    BY <1>1 DEF IngestInv, RowsInv, RowsType, RowsSpaced
<1>4. RowsFromRows
    BY <1>1 DEF RowsFromRows
<1>5. TaskInv'
    BY <1>1, <1>4, BesideStep DEF IngestInv
<1>6. LogStep
    <2>1. \A r : LogEntry(r).talk = r.dst
        BY DEF LogEntry
    <2>2. TheLog' = {e \in TheLog : e.talk # d}
        BY <1>1, <2>1 DEF TheLog
    <2>3. Log!Delete
        BY <2>2 DEF Log!Delete, TheLog
    <2> QED
        BY <2>3 DEF LogStep, Log!Next
<1> QED
    BY <1>2, <1>3, <1>5, <1>6 DEF IngestInv

LEMMA InsertStep ==
    ASSUME IngestInv, NEW p \in Paths, InsertRow(p)
    PROVE  IngestInv' /\ LogStep
<1> DEFINE f == Frame(p)
           w == [n |-> next, id |-> f.id, src |-> f.src, at |-> At(p), kind |-> f.kind,
                 dst |-> f.dst, echo |-> f.echo, status |-> [sent |-> FALSE, acked |-> FALSE]]
<1>1. /\ Does(p, "insert") /\ rows' = rows \cup {w} /\ next' = next + 1 /\ GoesOn(p, Rest(p), None)
      /\ UNCHANGED <<agenda, now, recent>>
    BY DEF InsertRow, Finishes, memory
<1>2. f \in Frames /\ At(p) \in Nat /\ At(p) \in LogTimes /\ next \in Nat /\ Busy(p)
    BY <1>1, TimeOfCall DEF Does, IngestInv, ClockType
<1>3. /\ w \in MessageRow /\ w.n = next /\ w.id = f.id /\ w.src = f.src /\ w.at = At(p)
      /\ w.kind = f.kind /\ w.dst = f.dst /\ w.status = [sent |-> FALSE, acked |-> FALSE]
    BY <1>2 DEF MessageRow, Talks
<1> HIDE DEF w
<1>4. /\ Rest(p) = <<>> /\ In("insert", Todo(p)) /\ ~In("claim", Todo(p)) /\ ~In("look", Todo(p))
    <2>1. Todo(p) \in Steps /\ Todo(p) # <<>> /\ Head(Todo(p)) = "insert" /\ Rest(p) = Tail(Todo(p))
        BY <1>1 DEF Does, Busy, Todo, Rest, IngestInv, TaskInv, TaskType
    <2>2. Tail(Todo(p)) = <<>> /\ \A x : In(x, Todo(p)) <=> x = "insert" \/ In(x, Tail(Todo(p)))
        BY <2>1, RestOfSteps
    <2>3. \A x : In(x, Todo(p)) <=> x = "insert"
        BY <2>2, NoSteps
    <2>4. In("insert", Todo(p)) /\ ~In("claim", Todo(p)) /\ ~In("look", Todo(p))
        BY <2>3
    <2> QED
        BY <2>1, <2>2, <2>4
<1>5. f.id # None => Past(p) /\ Looked(p)
    BY <1>4 DEF Past, Looked
<1>6. ASSUME NEW r \in rows, f.id # None, r.src = f.src, r.id = f.id
      PROVE  Apart(r.at, At(p)) /\ Apart(At(p), r.at)
    <2>1. <<r.src, r.id>> = Key(Frame(p)) /\ Looked(p)
        BY <1>5, <1>6 DEF Key
    <2> QED
        BY <2>1 DEF IngestInv, TaskInv, RowsClear, Apart
<1>7. /\ TaskType' /\ ClaimsHold' /\ PastApart' /\ Todo(p)' = <<>>
      /\ \A q \in Paths : Past(q)' => Past(q) /\ Frame(q)' = Frame(q) /\ At(q)' = At(q)
      /\ \A q \in Paths \ {p} : task'[q] = task[q]
    <2>1. <<>> \in Steps /\ ~In("insert", <<>>) /\ ~In("claim", <<>>)
        BY NoSteps DEF Early
    <2>2. GoesOn(p, <<>>, None)
        BY <1>1, <1>4
    <2> QED
        BY <1>1, <1>2, <2>1, <2>2, SteadyStep, GoesOnDoes DEF IngestInv, TaskInv
<1>8. RowsClear'
    <2>1. ASSUME NEW q \in Paths, Looked(q)', NEW r \in rows', <<r.src, r.id>> = Key(Frame(q))
          PROVE  Apart(r.at, At(q))
        <3>1. q # p /\ Looked(q) /\ Past(q)
            BY <1>7, <2>1, NoSteps DEF Looked, Past, Todo
        <3>2. CASE r \in rows
            BY <2>1, <3>1, <3>2 DEF IngestInv, TaskInv, RowsClear
        <3>3. CASE r = w
            <4>1. Key(Frame(q)) = Key(Frame(p)) /\ Frame(p).id # None
                BY <1>3, <2>1, <3>1, <3>3 DEF Key, Past
            <4>2. Apart(At(p), At(q))
                BY <1>5, <3>1, <4>1 DEF IngestInv, TaskInv, PastApart
            <4> QED
                BY <1>3, <3>3, <4>2
        <3> QED
            BY <1>1, <2>1, <3>2, <3>3
    <2> QED
        BY <1>7, <2>1 DEF RowsClear, Looked, Key
<1>9. RowsType'
    <2>1. rows' \subseteq MessageRow
        BY <1>1, <1>3 DEF IngestInv, RowsInv, RowsType
    <2>2. ASSUME NEW x \in rows'
          PROVE  x.n < next' /\ <<x.src, x.id>> \in LogKeys /\ (x.kind = "mheard" => x.id = None)
        <3>1. CASE x \in rows
            <4>1. x.n < next /\ x.n \in Nat /\ <<x.src, x.id>> \in LogKeys
                  /\ (x.kind = "mheard" => x.id = None)
                BY <3>1 DEF IngestInv, RowsInv, RowsType, MessageRow
            <4> QED
                BY <1>1, <1>2, <4>1
        <3>2. CASE x = w
            <4>1. <<f.src, f.id>> \in LogKeys /\ (f.kind = "mheard" => f.id = None)
                BY <1>2, AgendasAssumption DEF LogKeys
            <4> QED
                BY <1>1, <1>2, <1>3, <3>2, <4>1
        <3> QED
            BY <1>1, <2>2, <3>1, <3>2
    <2>3. ASSUME NEW x \in rows', NEW y \in rows', x.n = y.n PROVE x = y
        <3>1. \A r \in rows : r.n < next /\ r.n \in Nat
            BY DEF IngestInv, RowsInv, RowsType, MessageRow
        <3>2. \A r \in rows : r.n # w.n
            BY <1>2, <1>3, <3>1
        <3> QED
            BY <1>1, <2>3, <3>2 DEF IngestInv, RowsInv, RowsType
    <2> QED
        BY <2>1, <2>2, <2>3 DEF RowsType
<1>10. RowsSpaced'
    <2>1. ASSUME NEW r \in rows', NEW s \in rows', r.id # None, r.src = s.src, r.id = s.id, r # s
          PROVE  Apart(r.at, s.at)
        <3>1. CASE r \in rows /\ s \in rows
            BY <2>1, <3>1 DEF IngestInv, RowsInv, RowsSpaced
        <3>2. CASE r = w /\ s \in rows
            BY <1>3, <1>6, <2>1, <3>2
        <3>3. CASE s = w /\ r \in rows
            BY <1>3, <1>6, <2>1, <3>3
        <3> QED
            BY <1>1, <2>1, <3>1, <3>2, <3>3
    <2> QED
        BY <2>1 DEF RowsSpaced
<1>11. LogStep
    <2>1. CASE f.id = None
        <3>1. {q \in rows' : q.id # None} = {q \in rows : q.id # None}
            BY <1>1, <1>3, <2>1
        <3> QED
            BY <3>1 DEF LogStep, TheLog
    <2>2. CASE f.id # None
        <3> DEFINE new == LogEntry(w)
        <3>1. TheLog' = TheLog \cup {new}
            <4>1. {q \in rows' : q.id # None} = {q \in rows : q.id # None} \cup {w}
                BY <1>1, <1>3, <2>2
            <4> QED
                BY <4>1 DEF TheLog
        <3>2. new \in Log!Entry /\ new.status = Log!Fresh /\ new.key = <<f.src, f.id>>
              /\ new.at = At(p)
            <4>1. <<f.src, f.id>> \in LogKeys /\ f.dst \in Talks
                BY <1>2 DEF LogKeys, Talks
            <4> QED
                BY <1>2, <1>3, <4>1 DEF LogEntry, Log!Entry, Log!Status, Log!Fresh
        <3>3. ASSUME NEW e \in TheLog, e.key = new.key PROVE Apart(new.at, e.at)
            <4>1. PICK r \in rows : r.id # None /\ e = LogEntry(r)
                BY DEF TheLog
            <4>2. r.src = f.src /\ r.id = f.id /\ e.at = r.at
                BY <3>2, <3>3, <4>1 DEF LogEntry
            <4> QED
                BY <1>6, <2>2, <3>2, <4>1, <4>2
        <3>4. ~Apart(At(p), At(p))
            BY <1>2, Numbers DEF Apart
        <3>5. new \in TheLog' \ TheLog
            BY <3>1, <3>2, <3>3, <3>4
        <3> HIDE DEF new
        <3>6. Log!Accept
            BY <3>1, <3>2, <3>3, <3>5 DEF Log!Accept, Log!Apart, Apart, TheLog
        <3> QED
            BY <3>6 DEF LogStep, Log!Next
    <2> QED
        BY <2>1, <2>2
<1>12. ClockType'
    BY <1>1, ClockStays DEF IngestInv
<1> QED
    BY <1>7, <1>8, <1>9, <1>10, <1>11, <1>12 DEF IngestInv, TaskInv, RowsInv

LEMMA IngestNext ==
    ASSUME IngestInv, [Next]_vars
    PROVE  IngestInv' /\ LogStep
<1>1. ASSUME NEW e \in agenda.coming, Arrive(e[1], e[2]) PROVE IngestInv' /\ LogStep
    <2>0. PICK p \in Paths, f \in Frames : e = <<p, f>>
        BY <1>1 DEF IngestInv, ClockType
    <2>1. TaskInv'
        BY <1>1, <2>0, ArriveStep
    <2>2. ClockType'
        <3>1. agenda' = [agenda EXCEPT !.coming = @ \ {<<p, f>>}] /\ UNCHANGED <<now, next>>
            BY <1>1, <2>0 DEF Arrive
        <3>2. /\ agenda'.ticks = agenda.ticks
              /\ agenda' \in [coming : SUBSET (Paths \X Frames), ticks : Nat, restarts : Nat,
                              faults : Nat, deletes : SUBSET Talks]
            BY <3>1 DEF IngestInv, ClockType
        <3> QED
            BY <3>1, <3>2 DEF IngestInv, ClockType
    <2>3. UNCHANGED <<rows, next>> /\ next \in Nat
        BY <1>1 DEF Arrive, tables, IngestInv, ClockType
    <2> QED
        BY <2>1, <2>2, <2>3, RowsStay DEF IngestInv
<1>2. ASSUME NEW p \in Paths, Step(p) PROVE IngestInv' /\ LogStep
    <2>1. CASE Claim(p) \/ Look(p)
        <3>1. TaskInv' /\ UNCHANGED <<agenda, now, next, rows>>
            BY <2>1, ClaimStep, LookStep DEF Claim, Look, tables
        <3>2. ClockType' /\ next \in Nat
            BY <3>1, ClockStays DEF IngestInv, ClockType
        <3> QED
            BY <3>1, <3>2, RowsStay DEF IngestInv
    <2> QED
        BY <1>2, <2>1, RefuseStep, SignalSteps, RenewStep, InsertStep, MarkSteps, AckSteps,
           TelemetrySteps, FailStep DEF Step
<1>3. ASSUME NEW closed, Restart(closed) PROVE IngestInv' /\ LogStep
    <2>1. UNCHANGED <<rows, next>> /\ next \in Nat
        BY <1>3 DEF Restart, IngestInv, ClockType
    <2> QED
        BY <1>3, <2>1, RestartStep, RowsStay DEF IngestInv
<1>4. CASE Tick
    <2>1. UNCHANGED <<rows, next>> /\ next \in Nat
        BY <1>4 DEF Tick, tables, IngestInv, ClockType
    <2> QED
        BY <1>4, <2>1, TickStep, RowsStay DEF IngestInv
<1>5. CASE UNCHANGED vars
    <2>1. UNCHANGED <<agenda, now, next, task, recent, rows>>
        BY <1>5 DEF vars, memory, tables
    <2>2. ClockType' /\ next \in Nat
        BY <2>1, ClockStays DEF IngestInv, ClockType
    <2>3. RowsInv' /\ LogStep /\ RowsFromRows
        BY <2>1, <2>2, RowsStay DEF IngestInv
    <2> QED
        BY <2>1, <2>2, <2>3, BesideStep DEF IngestInv
<1> QED
    BY <1>1, <1>2, <1>3, <1>4, <1>5, DeleteStep DEF Next

LEMMA IngestStart ==
    ASSUME Init
    PROVE  IngestInv /\ TheLog = {}
<1>1. ClockType
    <2>1. /\ agenda \in Agendas /\ now = 0 /\ next = 1
          /\ agenda \in [coming : SUBSET (Paths \X Frames), ticks : Nat, restarts : Nat,
                         faults : Nat, deletes : SUBSET Talks]
        BY AgendasAssumption DEF Init
    <2> QED
        BY <2>1 DEF ClockType
<1>2. task = [p \in Paths |-> Idle] /\ rows = {}
    BY DEF Init
<1>3. \A p \in Paths : Todo(p) = <<>>
    BY <1>2 DEF Todo, Idle
<1>4. TaskType /\ \A p \in Paths : ~Past(p)
    BY <1>2, <1>3, NoSteps DEF TaskType, Todo, Busy, Past, Early
<1>5. TaskInv
    BY <1>4 DEF TaskInv, ClaimsHold, PastApart, RowsClear, Looked
<1> QED
    BY <1>1, <1>2, <1>5 DEF IngestInv, RowsInv, RowsType, RowsSpaced, TheLog

(* Two rows of one transmission are never closer than the window, however  *)
(* the two tasks of store_message are interleaved and whatever fails or    *)
(* restarts between their steps.                                           *)
THEOREM IngestIsOrderly == Spec => []IngestInv
<1>1. Init => IngestInv
    BY IngestStart
<1>2. IngestInv /\ [Next]_vars => IngestInv'
    BY IngestNext
<1> QED
    BY <1>1, <1>2, PTL DEF Spec

(* The tables and the memory of storage/ingest.py implement the log of     *)
(* MessageLog: every step is a step of the log or leaves it as it was.     *)
THEOREM IngestKeepsTheLog == Spec => ImplementsLog
<1>1. Init => Log!Init
    BY IngestStart DEF Log!Init, TheLog
<1>2. IngestInv /\ [Next]_vars => [Log!Next]_TheLog
    BY IngestNext DEF LogStep
<1>3. [Log!Next]_TheLog => [Log!Next]_{LogEntry(r) : r \in {q \in rows : q.id # None}}
    BY DEF TheLog
<1> QED
    BY <1>1, <1>2, <1>3, IngestIsOrderly, PTL DEF Spec, ImplementsLog, Log!Spec

(* Copies of a transmission, over either path, before and after a restart: *)
(* two entries of one sender and id are at least the window apart          *)
(* (store_message, _claim_recent_ingest).                                  *)
THEOREM OneRowInTheWindow == Spec => []Log!Spaced
<1>1. IngestInv => Log!Spaced
    <2>1. ASSUME IngestInv, NEW d \in TheLog, NEW e \in TheLog, d.key = e.key, d # e
          PROVE  Apart(d.at, e.at)
        <3>1. PICK r \in rows : r.id # None /\ d = LogEntry(r)
            BY DEF TheLog
        <3>2. PICK s \in rows : s.id # None /\ e = LogEntry(s)
            BY DEF TheLog
        <3>3. /\ r.src = s.src /\ r.id = s.id /\ r # s /\ d.at = r.at /\ e.at = s.at
            BY <2>1, <3>1, <3>2 DEF LogEntry
        <3> QED
            BY <2>1, <3>1, <3>3 DEF IngestInv, RowsInv, RowsSpaced
    <2> QED
        BY <2>1 DEF Log!Spaced, Log!Apart, Apart, TheLog
<1> QED
    BY <1>1, IngestIsOrderly, PTL

\* What an entry says of a delivery is never taken back.
Forward(old, new) ==
    \A d \in old, e \in new :
        d.key = e.key /\ d.at = e.at => Log!NotBefore(d.status, e.status)

(* As long as a row stands, its delivery status only goes forward: a late  *)
(* ACK of the own node does not undo the acknowledgement of the peer       *)
(* (_handle_ack, store_message).                                           *)
THEOREM StatusGoesForward == Spec => [][Forward(TheLog, TheLog')]_TheLog
<1>1. ASSUME IngestInv, Log!Next PROVE Forward(TheLog, TheLog')
    <2>1. ASSUME NEW d \in TheLog, NEW e \in TheLog, d.key = e.key, d.at = e.at PROVE d = e
        <3>1. PICK r \in rows : r.id # None /\ d = LogEntry(r)
            BY DEF TheLog
        <3>2. PICK s \in rows : s.id # None /\ e = LogEntry(s)
            BY DEF TheLog
        <3>3. r.src = s.src /\ r.id = s.id /\ r.at = s.at
            BY <2>1, <3>1, <3>2 DEF LogEntry
        <3> QED
            BY <1>1, <3>1, <3>2, <3>3, OneEntryPerRow DEF IngestInv
    <2>2. \A d \in TheLog : \A e \in TheLog :
              d.key = e.key /\ d.at = e.at => Log!NotBefore(d.status, e.status)
        BY <2>1 DEF Log!NotBefore
    <2>3. CASE Log!Accept
        <3>1. PICK new \in TheLog' \ TheLog :
                  /\ \A e \in TheLog : e.key = new.key => Log!Apart(new.at, e.at)
                  /\ new.at \in LogTimes /\ TheLog' = TheLog \cup {new}
            BY <2>3 DEF Log!Accept, Log!Entry, TheLog
        <3>2. new.at \in Nat /\ DedupWindow \in Nat \ {0}
            BY <3>1, Numbers
        <3>3. ~Log!Apart(new.at, new.at)
            BY <3>2 DEF Log!Apart
        <3>4. ASSUME NEW d \in TheLog, d.key = new.key PROVE d.at # new.at
            BY <3>1, <3>3, <3>4
        <3> QED
            BY <2>2, <3>1, <3>4 DEF Forward
    <2>4. CASE Log!Confirm
        <3>1. PICK e \in TheLog \ TheLog', s \in Log!Status :
                  /\ Log!NotBefore(e.status, s)
                  /\ TheLog' = (TheLog \ {e}) \cup {[e EXCEPT !.status = s]}
            BY <2>4 DEF Log!Confirm, TheLog
        <3> DEFINE changed == [e EXCEPT !.status = s]
        <3>2. changed.key = e.key /\ changed.at = e.at /\ changed.status = s
            <4>1. PICK r \in rows : e = LogEntry(r)
                BY <3>1 DEF TheLog
            <4> QED
                BY <4>1 DEF LogEntry
        <3>3. TheLog' = (TheLog \ {e}) \cup {changed}
            BY <3>1
        <3> HIDE DEF changed
        <3>4. ASSUME NEW d \in TheLog, d.key = changed.key, d.at = changed.at PROVE d = e
            BY <2>1, <3>1, <3>2, <3>4
        <3> QED
            BY <2>2, <3>1, <3>2, <3>3, <3>4 DEF Forward
    <2>5. CASE Log!Delete
        <3>1. TheLog' \subseteq TheLog
            BY <2>5 DEF Log!Delete, TheLog
        <3> QED
            BY <2>2, <3>1 DEF Forward
    <2> QED
        BY <1>1, <2>3, <2>4, <2>5 DEF Log!Next
<1>2. IngestInv /\ [Next]_vars => [Forward(TheLog, TheLog')]_TheLog
    BY <1>1, IngestNext DEF LogStep
<1> QED
    BY <1>2, IngestIsOrderly, PTL DEF Spec

-----------------------------------------------------------------------------
(* The order of the steps of a call *)

(* What a frame's plan may hold, in its order; the other steps are put in  *)
(* front of the rest of a plan by what was found.                          *)
Planned ==
    {"original", "claim", "look", "log", "count", "signal", "place", "recall", "heard", "again",
     "insert", "sent", "acked"}

Rank(x) ==
    CASE x = "original" -> 1 [] x = "claim" -> 2 [] x = "look" -> 3 [] x = "log" -> 4
      [] x = "count" -> 5 [] x = "signal" -> 6 [] x = "place" -> 7 [] x = "recall" -> 8
      [] x = "heard" -> 9 [] x = "again" -> 10 [] x = "insert" -> 11 [] x = "sent" -> 12
      [] x = "acked" -> 13

Form(s) ==
    /\ \A i, j \in 1 .. Len(s) :
          i < j /\ s[i] \in Planned => s[j] \in Planned /\ Rank(s[i]) < Rank(s[j])
    /\ \A i \in 1 .. Len(s) :
          /\ s[i] \in {"drop", "add", "amend", "receipt", "log", "count"} => i < Len(s)
          /\ s[i] = "drop" => s[i + 1] = "add"
          /\ s[i] \in {"add", "amend"} => s[i + 1] = "weather"
          /\ s[i] = "receipt" => s[i + 1] = "tell"
          /\ s[i] = "log" => s[i + 1] = "count"
          /\ s[i] = "count" => s[i + 1] = "signal" /\ (i = 1 \/ s[i - 1] = "log")
          /\ s[i] \in {"flush", "weather", "confirm", "tell"} /\ i < Len(s) => s[i + 1] \in Planned

TodoForm == \A p \in Paths : Form(Todo(p))

AllPlanned(s) == \A i \in 1 .. Len(s) : s[i] \in Planned

LEMMA ShiftedForm ==
    ASSUME NEW s, NEW r, NEW n \in Nat, n # 0, Len(s) = n, Len(r) = n - 1,
           \A i \in 1 .. n - 1 : r[i] = s[i + 1], Form(s)
    PROVE  /\ Form(r)
           /\ s[1] \in Planned => \A i \in 1 .. n - 1 : r[i] \in Planned /\ Rank(s[1]) < Rank(r[i])
           /\ s[1] \in {"flush", "weather", "confirm", "tell"} => AllPlanned(r)
           /\ n > 1 /\ s[1] # "log" => r[1] # "count"
           /\ s[1] \in {"drop", "add", "amend", "receipt", "log", "count"} => n > 1
           /\ s[1] = "drop" => r[1] = "add"
           /\ s[1] \in {"add", "amend"} => r[1] = "weather"
           /\ s[1] = "receipt" => r[1] = "tell"
           /\ s[1] = "log" => r[1] = "count"
           /\ s[1] = "count" => r[1] = "signal"
<1>1. ASSUME NEW i \in 1 .. n - 1
      PROVE  i + 1 \in 1 .. n /\ r[i] = s[i + 1]
    OBVIOUS
<1>2. ASSUME NEW i \in 1 .. n - 1, NEW j \in 1 .. n - 1, i < j, r[i] \in Planned
      PROVE  r[j] \in Planned /\ Rank(r[i]) < Rank(r[j])
    <2>1. i + 1 \in 1 .. n /\ j + 1 \in 1 .. n /\ i + 1 < j + 1 /\ s[i + 1] \in Planned
        BY <1>1, <1>2
    <2>2. s[j + 1] \in Planned /\ Rank(s[i + 1]) < Rank(s[j + 1])
        BY <2>1 DEF Form
    <2> QED
        BY <1>1, <2>2
<1>3. ASSUME NEW i \in 1 .. n - 1
      PROVE  /\ r[i] \in {"drop", "add", "amend", "receipt", "log", "count"} => i < n - 1
             /\ r[i] = "drop" => r[i + 1] = "add"
             /\ r[i] \in {"add", "amend"} => r[i + 1] = "weather"
             /\ r[i] = "receipt" => r[i + 1] = "tell"
             /\ r[i] = "log" => r[i + 1] = "count"
             /\ r[i] = "count" => r[i + 1] = "signal" /\ (i = 1 \/ r[i - 1] = "log")
             /\ r[i] \in {"flush", "weather", "confirm", "tell"} /\ i < n - 1 => r[i + 1] \in Planned
    <2>1. /\ i + 1 \in 1 .. n /\ r[i] = s[i + 1]
          /\ i < n - 1 => i + 1 \in 1 .. n - 1 /\ r[i + 1] = s[(i + 1) + 1]
          /\ i # 1 => i - 1 \in 1 .. n - 1 /\ r[i - 1] = s[i]
          /\ (i + 1) - 1 = i /\ i + 1 # 1
        OBVIOUS
    <2>2. PICK k : k = i + 1
        OBVIOUS
    <2>3. /\ s[k] \in {"drop", "add", "amend", "receipt", "log", "count"} => k < n
          /\ s[k] = "drop" => s[k + 1] = "add"
          /\ s[k] \in {"add", "amend"} => s[k + 1] = "weather"
          /\ s[k] = "receipt" => s[k + 1] = "tell"
          /\ s[k] = "log" => s[k + 1] = "count"
          /\ s[k] = "count" => s[k + 1] = "signal" /\ (k = 1 \/ s[k - 1] = "log")
          /\ s[k] \in {"flush", "weather", "confirm", "tell"} /\ k < n => s[k + 1] \in Planned
        BY <2>1, <2>2 DEF Form
    <2> QED
        BY <2>1, <2>2, <2>3
<1>4. Form(r)
    BY <1>2, <1>3 DEF Form
<1>5. ASSUME s[1] \in Planned, NEW i \in 1 .. n - 1
      PROVE  r[i] \in Planned /\ Rank(s[1]) < Rank(r[i])
    BY <1>1, <1>5 DEF Form
<1>6. ASSUME s[1] \in {"flush", "weather", "confirm", "tell"}, NEW i \in 1 .. n - 1
      PROVE  r[i] \in Planned
    <2>1. 1 \in 1 .. n /\ 1 < n /\ 2 \in 1 .. n /\ i + 1 \in 1 .. n /\ 1 + 1 = 2
        OBVIOUS
    <2>2. s[2] \in Planned
        BY <1>6, <2>1 DEF Form
    <2>3. i + 1 = 2 \/ 2 < i + 1
        OBVIOUS
    <2>4. s[i + 1] \in Planned
        BY <2>1, <2>2, <2>3 DEF Form
    <2> QED
        BY <1>1, <2>4
<1>7. /\ n > 1 /\ s[1] # "log" => r[1] # "count"
      /\ s[1] \in {"drop", "add", "amend", "receipt", "log", "count"} => n > 1
      /\ s[1] = "drop" => r[1] = "add"
      /\ s[1] \in {"add", "amend"} => r[1] = "weather"
      /\ s[1] = "receipt" => r[1] = "tell"
      /\ s[1] = "log" => r[1] = "count"
      /\ s[1] = "count" => r[1] = "signal"
    <2>1. 1 \in 1 .. n /\ 1 + 1 = 2
        OBVIOUS
    <2>2. n > 1 => 2 \in 1 .. n /\ r[1] = s[2] /\ 2 # 1 /\ 2 - 1 = 1
        BY <1>1
    <2>3. n > 1 /\ s[2] = "count" => s[1] = "log"
        BY <2>2 DEF Form
    <2>4. /\ s[1] \in {"drop", "add", "amend", "receipt", "log", "count"} => n > 1
          /\ s[1] = "drop" => s[2] = "add"
          /\ s[1] \in {"add", "amend"} => s[2] = "weather"
          /\ s[1] = "receipt" => s[2] = "tell"
          /\ s[1] = "log" => s[2] = "count"
          /\ s[1] = "count" => s[2] = "signal"
        BY <2>1 DEF Form
    <2> QED
        BY <2>2, <2>3, <2>4
<1> QED
    BY <1>4, <1>5, <1>6, <1>7 DEF AllPlanned

LEMMA FormOfRest ==
    ASSUME NEW s \in Steps, s # <<>>, Form(s)
    PROVE  /\ Form(Tail(s))
           /\ Head(s) \in Planned =>
                 \A x : In(x, Tail(s)) => x \in Planned /\ Rank(Head(s)) < Rank(x)
           /\ Head(s) \in Planned \cup {"flush", "weather", "confirm", "tell"} => AllPlanned(Tail(s))
           /\ Tail(s) # <<>> /\ Head(s) # "log" => Tail(s)[1] # "count"
           /\ Head(s) = "drop" => Tail(s) # <<>> /\ Head(Tail(s)) = "add"
           /\ Head(s) \in {"add", "amend"} => Tail(s) # <<>> /\ Head(Tail(s)) = "weather"
           /\ Head(s) = "receipt" => Tail(s) # <<>> /\ Head(Tail(s)) = "tell"
           /\ Head(s) = "log" => Tail(s) # <<>> /\ Head(Tail(s)) = "count"
           /\ Head(s) = "count" => Tail(s) # <<>> /\ Head(Tail(s)) = "signal"
<1> DEFINE r == Tail(s)
           n == Len(s)
<1>1. /\ n \in Nat \ {0} /\ Len(r) = n - 1 /\ r \in Seq(StepNames)
      /\ \A i \in 1 .. n - 1 : r[i] = s[i + 1]
      /\ Head(s) = s[1]
    BY DEF Steps
<1>2. r # <<>> => Len(r) \in Nat \ {0} /\ Head(r) = r[1]
    BY <1>1, EmptySeq
<1>3. Len(r) # 0 => r # <<>>
    BY EmptySeq
<1> HIDE DEF r
<1>4. /\ Form(r)
      /\ s[1] \in Planned => \A i \in 1 .. n - 1 : r[i] \in Planned /\ Rank(s[1]) < Rank(r[i])
      /\ s[1] \in {"flush", "weather", "confirm", "tell"} => AllPlanned(r)
      /\ n > 1 /\ s[1] # "log" => r[1] # "count"
      /\ s[1] \in {"drop", "add", "amend", "receipt", "log", "count"} => n > 1
      /\ s[1] = "drop" => r[1] = "add"
      /\ s[1] \in {"add", "amend"} => r[1] = "weather"
      /\ s[1] = "receipt" => r[1] = "tell"
      /\ s[1] = "log" => r[1] = "count"
      /\ s[1] = "count" => r[1] = "signal"
    BY <1>1, ShiftedForm
<1>5. s[1] \in Planned => \A x : In(x, r) => x \in Planned /\ Rank(s[1]) < Rank(x)
    BY <1>1, <1>4 DEF In
<1>6. s[1] \in Planned => AllPlanned(r)
    BY <1>1, <1>4 DEF AllPlanned
<1>7. n > 1 => Len(r) # 0
    BY <1>1
<1>8. r # <<>> => n > 1
    BY <1>1, <1>2
<1> QED
    BY <1>1, <1>2, <1>3, <1>4, <1>5, <1>6, <1>7, <1>8 DEF r

(* Where the steps stand that are not planned. *)
LEMMA FormHeads ==
    ASSUME NEW s \in Steps, Form(s)
    PROVE  /\ In("drop", s) => s # <<>> /\ Head(s) = "drop"
           /\ In("add", s) => s # <<>> /\ Head(s) \in {"drop", "add"}
           /\ In("amend", s) => s # <<>> /\ Head(s) = "amend"
           /\ In("weather", s) => s # <<>> /\ Head(s) \in {"drop", "add", "amend", "weather"}
           /\ In("flush", s) => s # <<>> /\ Head(s) = "flush"
           /\ In("confirm", s) => s # <<>> /\ Head(s) = "confirm"
           /\ In("tell", s) => s # <<>> /\ Head(s) \in {"receipt", "tell"}
           /\ In("count", s) => s # <<>> /\ (Head(s) = "count" \/ In("log", s))
           /\ In("log", s) => In("count", s) /\ In("signal", s)
<1>1. Len(s) \in Nat /\ s \in Seq(StepNames) /\ (Len(s) > 0 => s # <<>> /\ Head(s) = s[1])
      /\ \A i \in 1 .. Len(s) : s[i] \in StepNames
    BY DEF Steps
<1>2. ASSUME NEW i \in 1 .. Len(s), i # 1, s[i] \notin Planned
      PROVE  /\ i - 1 \in 1 .. Len(s)
             /\ \/ s[i - 1] = "drop" /\ s[i] = "add"
                \/ s[i - 1] \in {"add", "amend"} /\ s[i] = "weather"
                \/ s[i - 1] = "receipt" /\ s[i] = "tell"
    <2>1. i - 1 \in 1 .. Len(s) /\ i - 1 < i /\ (i - 1) + 1 = i /\ i - 1 < Len(s)
        BY <1>1, <1>2
    <2>2. PICK k : k = i - 1
        OBVIOUS
    <2>3. s[k] \notin Planned
        BY <1>2, <2>1, <2>2 DEF Form
    <2>4. s[k] \notin {"flush", "weather", "confirm", "tell"}
        BY <1>2, <2>1, <2>2 DEF Form
    <2>5. s[k] \in {"drop", "add", "amend", "receipt"}
        BY <1>1, <2>1, <2>2, <2>3, <2>4 DEF StepNames, Planned
    <2>6. /\ s[k] = "drop" => s[i] = "add"
          /\ s[k] \in {"add", "amend"} => s[i] = "weather"
          /\ s[k] = "receipt" => s[i] = "tell"
        BY <2>1, <2>2 DEF Form
    <2> QED
        BY <2>1, <2>2, <2>5, <2>6
<1>3. \A i \in 1 .. Len(s) : s[i] \in {"drop", "amend", "flush", "confirm", "receipt"} => i = 1
    BY <1>2 DEF Planned
<1>4. \A i \in 1 .. Len(s) : s[i] = "add" => s[1] \in {"drop", "add"}
    <2> SUFFICES ASSUME NEW i \in 1 .. Len(s), s[i] = "add", i # 1 PROVE s[1] = "drop"
        OBVIOUS
    <2>1. i - 1 \in 1 .. Len(s) /\ s[i - 1] = "drop"
        BY <1>2 DEF Planned
    <2>2. i - 1 = 1
        BY <1>3, <2>1
    <2> QED
        BY <2>1, <2>2
<1>5. \A i \in 1 .. Len(s) : s[i] = "weather" => s[1] \in {"drop", "add", "amend", "weather"}
    <2> SUFFICES ASSUME NEW i \in 1 .. Len(s), s[i] = "weather", i # 1
                 PROVE  s[1] \in {"drop", "add", "amend"}
        OBVIOUS
    <2>1. i - 1 \in 1 .. Len(s) /\ s[i - 1] \in {"add", "amend"}
        BY <1>2 DEF Planned
    <2>2. s[i - 1] = "amend" => i - 1 = 1
        BY <1>3, <2>1
    <2>3. s[i - 1] = "add" => s[1] \in {"drop", "add"}
        BY <1>4, <2>1
    <2> QED
        BY <2>1, <2>2, <2>3
<1>6. \A i \in 1 .. Len(s) : s[i] = "tell" => s[1] \in {"receipt", "tell"}
    <2> SUFFICES ASSUME NEW i \in 1 .. Len(s), s[i] = "tell", i # 1 PROVE s[1] = "receipt"
        OBVIOUS
    <2>1. i - 1 \in 1 .. Len(s) /\ s[i - 1] = "receipt"
        BY <1>2 DEF Planned
    <2>2. i - 1 = 1
        BY <1>3, <2>1
    <2> QED
        BY <2>1, <2>2
<1>7. \A i \in 1 .. Len(s) : s[i] = "count" => s[1] = "count" \/ In("log", s)
    <2> SUFFICES ASSUME NEW i \in 1 .. Len(s), s[i] = "count", i # 1 PROVE In("log", s)
        OBVIOUS
    <2>1. i - 1 \in 1 .. Len(s) /\ s[i - 1] = "log"
        BY <1>1 DEF Form
    <2> QED
        BY <2>1 DEF In
<1>8. In("log", s) => In("count", s) /\ In("signal", s)
    <2> SUFFICES ASSUME NEW i \in 1 .. Len(s), s[i] = "log" PROVE In("count", s) /\ In("signal", s)
        BY DEF In
    <2>1. i + 1 \in 1 .. Len(s) /\ s[i + 1] = "count"
        BY <1>1 DEF Form
    <2>2. PICK k : k = i + 1
        OBVIOUS
    <2>3. k + 1 \in 1 .. Len(s) /\ s[k + 1] = "signal"
        BY <1>1, <2>1, <2>2 DEF Form
    <2> QED
        BY <2>1, <2>3 DEF In
<1>9. \A x : In(x, s) => s # <<>> /\ Head(s) = s[1] /\ Len(s) > 0
    BY <1>1 DEF In
<1> QED
    BY <1>3, <1>4, <1>5, <1>6, <1>7, <1>8, <1>9 DEF In

LEMMA JoinedForm ==
    ASSUME NEW s, NEW t, NEW st, Len(s) \in Nat, Len(t) \in Nat, Len(st) = Len(s) + Len(t),
           Form(s), Form(t), AllPlanned(t), Len(t) > 0 => t[1] # "count",
           \A i \in 1 .. Len(s), j \in 1 .. Len(t) : s[i] \in Planned => Rank(s[i]) < Rank(t[j]),
           \A i \in 1 .. Len(s) : st[i] = s[i],
           \A i \in 1 .. Len(t) : st[Len(s) + i] = t[i]
    PROVE  Form(st)
<1> DEFINE m == Len(s)
           n == Len(t)
<1>0. /\ m \in Nat /\ n \in Nat /\ m = Len(s) /\ n = Len(t) /\ Len(st) = m + n
      /\ \A i \in 1 .. m : st[i] = s[i]
      /\ \A i \in 1 .. n : st[m + i] = t[i]
    OBVIOUS
<1> USE <1>0
<1> HIDE DEF m, n
<1>1. ASSUME NEW i \in 1 .. m + n, i > m
      PROVE  i - m \in 1 .. n /\ st[i] = t[i - m] /\ st[i] \in Planned
    <2>1. i - m \in 1 .. n /\ m + (i - m) = i
        BY <1>1
    <2> QED
        BY <2>1 DEF AllPlanned
<1>2. ASSUME NEW i \in 1 .. m + n, NEW j \in 1 .. m + n, i < j, st[i] \in Planned
      PROVE  st[j] \in Planned /\ Rank(st[i]) < Rank(st[j])
    <2>1. CASE j <= m
        <3>1. i \in 1 .. m /\ j \in 1 .. m
            BY <1>2, <2>1
        <3> QED
            BY <1>2, <3>1 DEF Form
    <2>2. CASE i <= m /\ j > m
        <3>1. i \in 1 .. m /\ j - m \in 1 .. n /\ st[j] = t[j - m] /\ st[j] \in Planned
            BY <1>1, <2>2
        <3> QED
            BY <1>2, <3>1
    <2>3. CASE i > m
        <3>1. /\ i - m \in 1 .. n /\ st[i] = t[i - m] /\ j - m \in 1 .. n /\ st[j] = t[j - m]
              /\ i - m < j - m
            BY <1>1, <1>2, <2>3
        <3> QED
            BY <1>2, <3>1 DEF Form
    <2> QED
        BY <2>1, <2>2, <2>3
<1>3. ASSUME NEW i \in 1 .. m + n
      PROVE  /\ st[i] \in {"drop", "add", "amend", "receipt", "log", "count"} => i < m + n
             /\ st[i] = "drop" => st[i + 1] = "add"
             /\ st[i] \in {"add", "amend"} => st[i + 1] = "weather"
             /\ st[i] = "receipt" => st[i + 1] = "tell"
             /\ st[i] = "log" => st[i + 1] = "count"
             /\ st[i] = "count" => st[i + 1] = "signal" /\ (i = 1 \/ st[i - 1] = "log")
             /\ st[i] \in {"flush", "weather", "confirm", "tell"} /\ i < m + n => st[i + 1] \in Planned
    <2>1. CASE i <= m
        <3>0. /\ i \in 1 .. m /\ (i < m => i + 1 \in 1 .. m)
              /\ i # 1 => i - 1 \in 1 .. m
            BY <2>1
        <3>1. /\ i \in 1 .. m /\ st[i] = s[i] /\ (i < m => i + 1 \in 1 .. m /\ st[i + 1] = s[i + 1])
              /\ i # 1 => i - 1 \in 1 .. m /\ st[i - 1] = s[i - 1]
            BY <3>0
        <3>2. /\ s[i] \in {"drop", "add", "amend", "receipt", "log", "count"} => i < m
              /\ s[i] = "drop" => s[i + 1] = "add"
              /\ s[i] \in {"add", "amend"} => s[i + 1] = "weather"
              /\ s[i] = "receipt" => s[i + 1] = "tell"
              /\ s[i] = "log" => s[i + 1] = "count"
              /\ s[i] = "count" => s[i + 1] = "signal" /\ (i = 1 \/ s[i - 1] = "log")
              /\ s[i] \in {"flush", "weather", "confirm", "tell"} /\ i < m => s[i + 1] \in Planned
            BY <3>1 DEF Form
        <3>3. i = m /\ i < m + n => st[i + 1] \in Planned
            <4>1. i = m /\ i < m + n => i + 1 \in 1 .. m + n /\ i + 1 > m
                OBVIOUS
            <4> QED
                BY <1>1, <4>1
        <3>4. i < m \/ i = m
            BY <2>1
        <3> QED
            BY <3>1, <3>2, <3>3, <3>4
    <2>2. CASE i > m
        <3>0. PICK k : k = i - m
            OBVIOUS
        <3>1. /\ k \in 1 .. n /\ st[i] = t[k] /\ st[i] \in Planned /\ (k < n <=> i < m + n)
            BY <1>1, <2>2, <3>0
        <3>2. k < n => st[i + 1] = t[k + 1]
            <4>1. k < n => k + 1 \in 1 .. n /\ m + (k + 1) = i + 1
                BY <3>0, <3>1
            <4> QED
                BY <4>1
        <3>3. k # 1 => st[i - 1] = t[k - 1]
            <4>1. k # 1 => k - 1 \in 1 .. n /\ m + (k - 1) = i - 1
                BY <3>0, <3>1
            <4> QED
                BY <4>1
        <3>4. /\ t[k] \in {"drop", "add", "amend", "receipt", "log", "count"} => k < n
              /\ t[k] = "log" => t[k + 1] = "count"
              /\ t[k] = "count" => t[k + 1] = "signal" /\ (k = 1 \/ t[k - 1] = "log")
            BY <3>1 DEF Form
        <3>5. t[k] \notin {"drop", "add", "amend", "receipt", "flush", "weather", "confirm", "tell"}
            BY <3>1 DEF Planned
        <3>6. t[k] = "count" => k # 1
            BY <3>1
        <3> QED
            BY <3>1, <3>2, <3>3, <3>4, <3>5, <3>6
    <2> QED
        BY <2>1, <2>2
<1> QED
    BY <1>2, <1>3 DEF Form

LEMMA FormBefore ==
    ASSUME NEW s \in Steps, NEW t \in Steps, Form(s), Form(t), AllPlanned(t),
           t # <<>> => t[1] # "count",
           \A x, y : In(x, s) /\ In(y, t) /\ x \in Planned => Rank(x) < Rank(y)
    PROVE  Form(s \o t)
<1>1. t \in Seq(StepNames) /\ s \in Seq(StepNames) /\ (Len(t) > 0 => t # <<>>)
    BY DEF Steps
<1>2. /\ s \o t \in Seq(StepNames) /\ Len(s) \in Nat /\ Len(t) \in Nat
      /\ Len(s \o t) = Len(s) + Len(t)
    BY <1>1
<1>3. ASSUME NEW i \in 1 .. Len(s) PROVE (s \o t)[i] = s[i]
    BY <1>1
<1>4. ASSUME NEW i \in 1 .. Len(t) PROVE (s \o t)[Len(s) + i] = t[i]
    BY <1>1
<1>5. \A i \in 1 .. Len(s), j \in 1 .. Len(t) : s[i] \in Planned => Rank(s[i]) < Rank(t[j])
    BY DEF In
<1> DEFINE st == s \o t
<1>0. /\ Len(st) = Len(s) + Len(t)
      /\ \A i \in 1 .. Len(s) : st[i] = s[i]
      /\ \A i \in 1 .. Len(t) : st[Len(s) + i] = t[i]
    BY <1>2, <1>3, <1>4
<1> HIDE DEF st
<1>6. Form(st)
    BY <1>0, <1>1, <1>2, <1>5, JoinedForm
<1> QED
    BY <1>6 DEF st

(* What is put in front of the rest of a plan. *)
Leads ==
    {<<>>, <<"flush">>, <<"confirm">>, <<"tell">>, <<"add", "weather">>, <<"weather">>,
     <<"amend", "weather">>, <<"drop", "add", "weather">>}

LEMMA LeadForms ==
    ASSUME NEW a \in Leads \cup {<<"receipt", "tell">>}
    PROVE  /\ Early(a) /\ Form(a)
           /\ \A x : In(x, a) => x \notin Planned
<1>1. Early(a)
    <2> DEFINE Free == StepNames \ {"claim", "insert"}
    <2>0. /\ "flush" \in Free /\ "confirm" \in Free /\ "tell" \in Free /\ "add" \in Free
          /\ "weather" \in Free /\ "amend" \in Free /\ "drop" \in Free /\ "receipt" \in Free
        BY DEF StepNames
    <2>1. \A x, y, z \in Free : Early(<<x>>) /\ Early(<<x, y>>) /\ Early(<<x, y, z>>)
        BY FewSteps
    <2> HIDE DEF Free
    <2> QED
        BY <2>0, <2>1, NoSteps DEF Leads
<1>2. ASSUME NEW n \in 0 .. 3, Len(a) = n,
             n = 1 => a[1] \in {"flush", "confirm", "tell", "weather"},
             n = 2 =>
                 <<a[1], a[2]>> \in {<<"add", "weather">>, <<"amend", "weather">>, <<"receipt", "tell">>},
             n = 3 => a[1] = "drop" /\ a[2] = "add" /\ a[3] = "weather"
      PROVE  Form(a) /\ \A x : In(x, a) => x \notin Planned
    <2>1. \A i \in 1 .. n : i \in {1, 2, 3} /\ a[i] \notin Planned
        BY <1>2 DEF Planned
    <2>2. \A i \in 1 .. n :
              /\ a[i] \in {"drop", "add", "amend", "receipt"} => i < n
              /\ a[i] \notin {"log", "count"}
              /\ a[i] = "drop" => a[i + 1] = "add"
              /\ a[i] \in {"add", "amend"} => a[i + 1] = "weather"
              /\ a[i] = "receipt" => a[i + 1] = "tell"
              /\ a[i] \in {"flush", "weather", "confirm", "tell"} => i = n
        BY <1>2, <2>1
    <2>3. Form(a)
        BY <1>2, <2>1, <2>2 DEF Form
    <2> QED
        BY <1>2, <2>1, <2>3 DEF In
<1>3. Form(a) /\ \A x : In(x, a) => x \notin Planned
    <2>1. CASE a = <<>>
        BY <1>2, <2>1
    <2>2. CASE a \in {<<"flush">>, <<"confirm">>, <<"tell">>, <<"weather">>}
        <3>1. Len(a) = 1 /\ a[1] \in {"flush", "confirm", "tell", "weather"}
            BY <2>2
        <3> QED
            BY <1>2, <3>1
    <2>3. CASE a \in {<<"add", "weather">>, <<"amend", "weather">>, <<"receipt", "tell">>}
        <3>1. Len(a) = 2 /\ <<a[1], a[2]>> \in {<<"add", "weather">>, <<"amend", "weather">>, <<"receipt", "tell">>}
            BY <2>3
        <3> QED
            BY <1>2, <3>1
    <2>4. CASE a = <<"drop", "add", "weather">>
        <3>1. Len(a) = 3 /\ a[1] = "drop" /\ a[2] = "add" /\ a[3] = "weather"
            BY <2>4
        <3> QED
            BY <1>2, <3>1
    <2> QED
        BY <2>1, <2>2, <2>3, <2>4 DEF Leads
<1> QED
    BY <1>1, <1>3

LEMMA Ranks == \A x \in Planned : Rank(x) \in 1 .. 13
BY DEF Planned, Rank

Between(s, lo, hi) ==
    /\ s \in Steps /\ Form(s) /\ AllPlanned(s)
    /\ s # <<>> => s[1] # "count"
    /\ \A x : In(x, s) => Rank(x) \in lo .. hi

LEMMA JoinBetween ==
    ASSUME NEW s, NEW t, NEW lo \in Nat, NEW l \in Nat, NEW k \in Nat, NEW hi \in Nat,
           lo <= l, l < k, k <= hi, Early(s), Between(s, lo, l), Between(t, k, hi)
    PROVE  /\ Between(s \o t, lo, hi) /\ (Early(t) => Early(s \o t))
           /\ \A x : In(x, s \o t) <=> In(x, s) \/ In(x, t)
<1>1. /\ s \o t \in Steps /\ (Early(t) => Early(s \o t))
      /\ \A x : In(x, s \o t) <=> In(x, s) \/ In(x, t)
    BY StepsBefore DEF Between
<1>2. Form(s \o t)
    BY FormBefore DEF Between
<1>3. /\ s \in Seq(StepNames) /\ t \in Seq(StepNames) /\ s \o t \in Seq(StepNames)
      /\ Len(s \o t) = Len(s) + Len(t) /\ Len(s) \in Nat /\ Len(t) \in Nat
      /\ \A i \in 1 .. Len(s) : (s \o t)[i] = s[i]
      /\ \A i \in 1 .. Len(t) : (s \o t)[Len(s) + i] = t[i]
    BY DEF Between, Steps
<1>4. \A x : In(x, s \o t) => x \in Planned /\ Rank(x) \in lo .. hi
    BY <1>1, <1>3 DEF Between, AllPlanned, In
<1>5. AllPlanned(s \o t)
    BY <1>4 DEF AllPlanned, In
<1>6. s \o t # <<>> => (s \o t)[1] # "count"
    <2>1. CASE s = <<>>
        <3>1. s \o t = t
            BY <1>3, <2>1
        <3> QED
            BY <3>1 DEF Between
    <2>2. CASE s # <<>>
        <3>1. 1 \in 1 .. Len(s)
            BY <1>3, <2>2, EmptySeq
        <3> QED
            BY <1>3, <2>2, <3>1 DEF Between
    <2> QED
        BY <2>1, <2>2
<1> QED
    BY <1>1, <1>2, <1>4, <1>5, <1>6 DEF Between

LEMMA NothingBetween == \A lo, hi \in Nat : Between(<<>>, lo, hi) /\ Early(<<>>)
<1>1. <<>> \in Steps /\ Len(<<>>) = 0
    BY NoSteps DEF Early
<1> QED
    BY <1>1, NoSteps DEF Between, Form, AllPlanned

LEMMA PartsOfPlan ==
    /\ Between(<<"original">>, 1, 1) /\ Between(<<"claim", "look">>, 2, 3)
    /\ Between(<<"log", "count", "signal">>, 4, 6) /\ Between(<<"place">>, 7, 7)
    /\ Between(<<"recall">>, 8, 8) /\ Between(<<"insert">>, 9, 11)
    /\ Between(<<"heard", "again", "insert">>, 9, 11)
    /\ Between(<<"sent">>, 12, 13) /\ Between(<<"sent", "acked">>, 12, 13)
    /\ Early(<<"original">>) /\ Early(<<"claim", "look">>) /\ Early(<<"log", "count", "signal">>)
    /\ Early(<<"place">>) /\ Early(<<"recall">>)
<1>1. ASSUME NEW x \in {"original", "place", "recall", "insert", "sent"}
      PROVE  /\ <<x>> \in Steps /\ Form(<<x>>) /\ AllPlanned(<<x>>) /\ <<x>>[1] # "count"
             /\ \A y : In(y, <<x>>) => y = x
             /\ x # "insert" => Early(<<x>>)
    <2>1. <<x>> \in Seq(StepNames) /\ Len(<<x>>) = 1 /\ <<x>>[1] = x
        BY DEF StepNames
    <2>2. PICK s : s = <<x>>
        OBVIOUS
    <2>3. s \in Seq(StepNames) /\ Len(s) = 1 /\ s[1] = x
        BY <2>1, <2>2
    <2>a. \A i \in 1 .. 1 : i = 1
        OBVIOUS
    <2>b. s \in Steps
        BY <2>3, <2>a DEF Steps, Shape
    <2>c. Form(s) /\ AllPlanned(s)
        BY <2>3, <2>a DEF Form, AllPlanned, Planned
    <2>d. \A y : In(y, s) => y = x
        BY <2>3, <2>a DEF In
    <2>4. s \in Steps /\ Form(s) /\ AllPlanned(s) /\ \A y : In(y, s) => y = x
        BY <2>b, <2>c, <2>d
    <2> QED
        BY <2>1, <2>2, <2>4 DEF Early
<1>2. ASSUME NEW s \in {<<"claim", "look">>, <<"sent", "acked">>}
      PROVE  /\ s \in Steps /\ Form(s) /\ AllPlanned(s) /\ s[1] # "count" /\ Early(s)
             /\ \A y : In(y, s) => y \in {s[1], s[2]}
    <2>0. /\ <<"claim", "look">> \in Seq(StepNames) /\ <<"sent", "acked">> \in Seq(StepNames)
          /\ Len(<<"claim", "look">>) = 2 /\ Len(<<"sent", "acked">>) = 2
        BY DEF StepNames
    <2>1. /\ s \in Seq(StepNames) /\ Len(s) = 2
          /\ (s[1] = "claim" /\ s[2] = "look") \/ (s[1] = "sent" /\ s[2] = "acked")
        <3>1. CASE s = <<"claim", "look">>
            BY <2>0, <3>1
        <3>2. CASE s = <<"sent", "acked">>
            BY <2>0, <3>2
        <3> QED
            BY <3>1, <3>2
    <2>2. Rank("claim") < Rank("look") /\ Rank("sent") < Rank("acked")
        BY DEF Rank
    <2>3. \A i \in 1 .. 2 : i = 1 \/ i = 2
        OBVIOUS
    <2>4. \A i \in 1 .. 2 : s[i] \in {"claim", "look", "sent", "acked"}
        BY <2>1, <2>3
    <2>a. Shape(s)
        BY <2>1, <2>3, <2>4 DEF Shape
    <2>5. s \in Steps /\ AllPlanned(s)
        BY <2>1, <2>4, <2>a DEF Steps, AllPlanned, Planned
    <2>6. Form(s)
        BY <2>1, <2>2, <2>3, <2>4 DEF Form, Planned
    <2>7. \A y : In(y, s) => y \in {s[1], s[2]}
        BY <2>1, <2>3 DEF In
    <2> QED
        BY <2>1, <2>4, <2>5, <2>6, <2>7 DEF Early, In
<1>3. ASSUME NEW s \in {<<"log", "count", "signal">>, <<"heard", "again", "insert">>}
      PROVE  /\ s \in Steps /\ Form(s) /\ AllPlanned(s) /\ s[1] # "count"
             /\ \A y : In(y, s) => y \in {s[1], s[2], s[3]}
             /\ s[1] = "log" => Early(s)
    <2>0. /\ <<"log", "count", "signal">> \in Seq(StepNames)
          /\ <<"heard", "again", "insert">> \in Seq(StepNames)
          /\ Len(<<"log", "count", "signal">>) = 3 /\ Len(<<"heard", "again", "insert">>) = 3
        BY DEF StepNames
    <2>1. /\ s \in Seq(StepNames) /\ Len(s) = 3
          /\ \/ s[1] = "log" /\ s[2] = "count" /\ s[3] = "signal"
             \/ s[1] = "heard" /\ s[2] = "again" /\ s[3] = "insert"
        <3>1. CASE s = <<"log", "count", "signal">>
            BY <2>0, <3>1
        <3>2. CASE s = <<"heard", "again", "insert">>
            BY <2>0, <3>2
        <3> QED
            BY <3>1, <3>2
    <2>2. /\ Rank("log") < Rank("count") /\ Rank("log") < Rank("signal")
          /\ Rank("count") < Rank("signal")
          /\ Rank("heard") < Rank("again") /\ Rank("heard") < Rank("insert")
          /\ Rank("again") < Rank("insert")
        BY DEF Rank
    <2>3. \A i \in 1 .. 3 : i = 1 \/ i = 2 \/ i = 3
        OBVIOUS
    <2>4. \A i \in 1 .. 3 : s[i] \in {"log", "count", "signal", "heard", "again", "insert"}
        BY <2>1, <2>3
    <2>5. s \in Steps /\ AllPlanned(s)
        BY <2>1, <2>3, <2>4 DEF Steps, Shape, AllPlanned, Planned
    <2>6. Form(s)
        BY <2>1, <2>2, <2>3, <2>4 DEF Form, Planned
    <2>7. \A y : In(y, s) => y \in {s[1], s[2], s[3]}
        BY <2>1, <2>3 DEF In
    <2> QED
        BY <2>1, <2>4, <2>5, <2>6, <2>7 DEF Early
<1>4. /\ Rank("original") \in 1 .. 1 /\ Rank("claim") \in 2 .. 3 /\ Rank("look") \in 2 .. 3
      /\ Rank("log") \in 4 .. 6 /\ Rank("count") \in 4 .. 6 /\ Rank("signal") \in 4 .. 6
      /\ Rank("place") \in 7 .. 7 /\ Rank("recall") \in 8 .. 8
      /\ Rank("heard") \in 9 .. 11 /\ Rank("again") \in 9 .. 11 /\ Rank("insert") \in 9 .. 11
      /\ Rank("sent") \in 12 .. 13 /\ Rank("acked") \in 12 .. 13
    BY DEF Rank
<1>5. /\ <<"claim", "look">>[1] = "claim" /\ <<"claim", "look">>[2] = "look"
      /\ <<"sent", "acked">>[1] = "sent" /\ <<"sent", "acked">>[2] = "acked"
      /\ <<"log", "count", "signal">>[1] = "log" /\ <<"log", "count", "signal">>[2] = "count"
      /\ <<"log", "count", "signal">>[3] = "signal"
      /\ <<"heard", "again", "insert">>[1] = "heard" /\ <<"heard", "again", "insert">>[2] = "again"
      /\ <<"heard", "again", "insert">>[3] = "insert"
    OBVIOUS
<1>6. /\ Between(<<"original">>, 1, 1) /\ Between(<<"place">>, 7, 7)
      /\ Between(<<"recall">>, 8, 8) /\ Between(<<"insert">>, 9, 11) /\ Between(<<"sent">>, 12, 13)
      /\ Early(<<"original">>) /\ Early(<<"place">>) /\ Early(<<"recall">>)
    BY <1>1, <1>4 DEF Between
<1>7. /\ Between(<<"claim", "look">>, 2, 3) /\ Between(<<"sent", "acked">>, 12, 13)
      /\ Early(<<"claim", "look">>)
    BY <1>2, <1>4, <1>5 DEF Between
<1>8. /\ Between(<<"log", "count", "signal">>, 4, 6) /\ Between(<<"heard", "again", "insert">>, 9, 11)
      /\ Early(<<"log", "count", "signal">>)
    BY <1>3, <1>4, <1>5 DEF Between
<1> QED
    BY <1>6, <1>7, <1>8

LEMMA PlanForm ==
    ASSUME NEW f
    PROVE  /\ Plan(f) \in Steps /\ Form(Plan(f)) /\ AllPlanned(Plan(f))
           /\ Plan(f) # <<>> => Plan(f)[1] # "count"
           /\ In("recall", Plan(f)) <=> HasWeather(f) /\ f.kind \in {"tele", "pos"}
           /\ In("original", Plan(f)) => f.acks # None
<1> DEFINE weather == IF f.kind = "pos" THEN Weather(f) ELSE <<>>
           original == IF f.acks # None THEN <<"original">> ELSE <<>>
           claims == IF f.id # None THEN <<"claim", "look">> ELSE <<>>
<1>0. /\ {0, 1, 2, 3, 4, 6, 7, 8, 9, 11, 12, 13} \subseteq Nat
      /\ Rank("recall") = 8 /\ Rank("original") = 1
    BY DEF Rank
<1>1. /\ Between(original, 1, 1) /\ Early(original) /\ (In("original", original) => f.acks # None)
      /\ Between(claims, 2, 3) /\ Early(claims)
      /\ Between(Signal(f), 4, 6) /\ Early(Signal(f))
      /\ Between(Place(f), 7, 7) /\ Early(Place(f))
    BY <1>0, PartsOfPlan, NothingBetween, NoSteps DEF Signal, Place
<1>2. /\ Between(Weather(f), 8, 8) /\ Early(Weather(f)) /\ (In("recall", Weather(f)) <=> HasWeather(f))
    <2>1. In("recall", <<"recall">>)
        <3>1. Len(<<"recall">>) = 1 /\ <<"recall">>[1] = "recall"
            OBVIOUS
        <3> QED
            BY <3>1 DEF In
    <2> QED
        BY <1>0, <2>1, PartsOfPlan, NothingBetween, NoSteps DEF Weather
<1>3. /\ Between(weather, 8, 8) /\ Early(weather)
      /\ In("recall", weather) <=> f.kind = "pos" /\ HasWeather(f)
    BY <1>0, <1>2, NothingBetween, NoSteps
<1>4. Between(Row(f), 9, 11)
    BY <1>0, PartsOfPlan, NothingBetween DEF Row
<1> HIDE DEF original, claims, weather
<1>5. Between(Signal(f) \o Place(f), 4, 7) /\ Early(Signal(f) \o Place(f))
    BY <1>0, <1>1, JoinBetween
<1>6. /\ Between((Signal(f) \o Place(f)) \o weather, 4, 8)
      /\ Early((Signal(f) \o Place(f)) \o weather)
      /\ \A x : In(x, (Signal(f) \o Place(f)) \o weather)
                  <=> In(x, Signal(f) \o Place(f)) \/ In(x, weather)
    BY <1>0, <1>3, <1>5, JoinBetween
<1>7. /\ Between(((Signal(f) \o Place(f)) \o weather) \o Row(f), 4, 11)
      /\ \A x : In(x, ((Signal(f) \o Place(f)) \o weather) \o Row(f))
                  <=> In(x, (Signal(f) \o Place(f)) \o weather) \/ In(x, Row(f))
    BY <1>0, <1>4, <1>6, JoinBetween
<1>8. Kept(f) = ((Signal(f) \o Place(f)) \o weather) \o Row(f)
    BY DEF Kept, weather
<1>9. /\ Between(original \o claims, 1, 3) /\ Early(original \o claims)
      /\ \A x : In(x, original \o claims) <=> In(x, original) \/ In(x, claims)
    BY <1>0, <1>1, JoinBetween
<1>10. /\ Between((original \o claims) \o Kept(f), 1, 11)
       /\ \A x : In(x, (original \o claims) \o Kept(f)) <=> In(x, original \o claims) \/ In(x, Kept(f))
    BY <1>0, <1>7, <1>8, <1>9, JoinBetween
<1>11. /\ In("recall", (original \o claims) \o Kept(f)) <=> f.kind = "pos" /\ HasWeather(f)
       /\ In("original", (original \o claims) \o Kept(f)) => f.acks # None
    <2>1. /\ ~In("recall", original) /\ ~In("recall", claims) /\ ~In("recall", Signal(f) \o Place(f))
          /\ ~In("recall", Row(f))
        BY <1>0, <1>1, <1>4, <1>5 DEF Between
    <2>2. ~In("original", claims) /\ ~In("original", Kept(f))
        <3>1. 1 \notin 2 .. 3 /\ 1 \notin 4 .. 11
            OBVIOUS
        <3>2. ~In("original", claims)
            BY <1>0, <1>1, <3>1 DEF Between
        <3>3. Between(Kept(f), 4, 11)
            BY <1>7, <1>8
        <3>4. ~In("original", Kept(f))
            BY <1>0, <3>1, <3>3 DEF Between
        <3> QED
            BY <3>2, <3>4
    <2> QED
        BY <1>1, <1>3, <1>6, <1>7, <1>8, <1>9, <1>10, <2>1, <2>2
<1>12. CASE f.kind = "tele"
    <2>1. Plan(f) = Weather(f)
        BY <1>12 DEF Plan
    <2>2. ~In("original", Weather(f))
        BY <1>0, <1>2 DEF Between
    <2> QED
        BY <1>2, <1>12, <2>1, <2>2 DEF Between
<1>13. CASE f.kind = "ack"
    <2>1. Plan(f) = <<"sent">> \/ Plan(f) = <<"sent", "acked">>
        BY <1>13 DEF Plan
    <2>2. Between(Plan(f), 12, 13)
        BY <2>1, PartsOfPlan
    <2>3. ~In("original", Plan(f)) /\ ~In("recall", Plan(f))
        BY <1>0, <2>2 DEF Between
    <2> QED
        BY <1>13, <2>2, <2>3 DEF Between
<1>14. CASE f.kind \notin {"tele", "ack"}
    <2>1. Plan(f) = (original \o claims) \o Kept(f)
        BY <1>14 DEF Plan, original, claims
    <2> QED
        BY <1>10, <1>11, <1>14, <2>1 DEF Between
<1> QED
    BY <1>12, <1>13, <1>14

LEMMA FormReceipt ==
    ASSUME NEW s \in Steps, Form(s)
    PROVE  In("receipt", s) => s # <<>> /\ Head(s) = "receipt"
<1>1. Len(s) \in Nat /\ (Len(s) > 0 => s # <<>> /\ Head(s) = s[1])
      /\ \A i \in 1 .. Len(s) : s[i] \in StepNames
    BY DEF Steps
<1> SUFFICES ASSUME NEW i \in 1 .. Len(s), s[i] = "receipt", i # 1 PROVE FALSE
    BY <1>1 DEF In
<1>2. PICK k : k = i - 1
    OBVIOUS
<1>3. k \in 1 .. Len(s) /\ k < i /\ k + 1 = i /\ k < Len(s)
    BY <1>1, <1>2
<1>4. s[k] \notin Planned /\ s[k] \notin {"flush", "weather", "confirm", "tell"}
    BY <1>3 DEF Form, Planned
<1>5. s[k] \notin {"drop", "add", "amend", "receipt"}
    BY <1>3 DEF Form
<1> QED
    BY <1>1, <1>3, <1>4, <1>5 DEF StepNames, Planned

(* What a step does to its task, and that it leaves the others alone. *)
LEMMA TaskGoesOn ==
    ASSUME IngestInv, NEW p \in Paths, Busy(p), NEW s \in Steps, NEW found, GoesOn(p, s, found)
    PROVE  /\ Todo(p)' = s
           /\ s # <<>> => Frame(p)' = Frame(p) /\ At(p)' = At(p) /\ Found(p)' = found
           /\ \A q \in Paths \ {p} : task'[q] = task[q]
           /\ \A q \in Paths \ {p} :
                 Todo(q)' = Todo(q) /\ Frame(q)' = Frame(q) /\ At(q)' = At(q) /\ Found(q)' = Found(q)
<1>1. /\ \A q \in Paths \ {p} : task'[q] = task[q]
      /\ task'[p] = IF s = <<>> THEN Idle
                    ELSE [frame |-> Frame(p), at |-> At(p), todo |-> s, found |-> found]
    BY DEF GoesOn, IngestInv, TaskInv, TaskType
<1>2. /\ task'[p].todo = s
      /\ s # <<>> =>
             task'[p].frame = task[p].frame /\ task'[p].at = task[p].at /\ task'[p].found = found
    BY <1>1 DEF Idle, Frame, At
<1> QED
    BY <1>1, <1>2 DEF Todo, Frame, At, Found

Heading(p) == Head(Todo(p))

LEMMA RestOfTask ==
    ASSUME IngestInv, TodoForm, NEW p \in Paths, Busy(p)
    PROVE  /\ Todo(p) \in Steps /\ Todo(p) # <<>> /\ Form(Todo(p)) /\ Rest(p) = Tail(Todo(p))
           /\ Heading(p) \in StepNames
           /\ Rest(p) \in Steps /\ Form(Rest(p))
           /\ \A x : In(x, Todo(p)) <=> x = Heading(p) \/ In(x, Rest(p))
           /\ Heading(p) \in Planned =>
                 \A x : In(x, Rest(p)) => x \in Planned /\ Rank(Heading(p)) < Rank(x) /\ x # Heading(p)
           /\ Heading(p) \in (Planned \ {"log"}) \cup {"flush", "weather", "confirm", "tell"} =>
                 \A a \in Leads :
                     /\ a \o Rest(p) \in Steps /\ Form(a \o Rest(p))
                     /\ \A x : In(x, a \o Rest(p)) <=> In(x, a) \/ In(x, Rest(p))
<1>1. /\ Todo(p) \in Steps /\ Todo(p) # <<>> /\ Form(Todo(p)) /\ Rest(p) = Tail(Todo(p))
    BY DEF IngestInv, TaskInv, TaskType, Busy, Todo, Rest, TodoForm
<1>2. Heading(p) \in StepNames
    BY <1>1 DEF Steps, Heading
<1>3. /\ Rest(p) \in Steps
      /\ \A x : In(x, Todo(p)) <=> x = Heading(p) \/ In(x, Rest(p))
    BY <1>1, RestOfSteps DEF Heading
<1>4. /\ Form(Rest(p))
      /\ Heading(p) \in Planned => \A x : In(x, Rest(p)) => x \in Planned /\ Rank(Heading(p)) < Rank(x)
      /\ Heading(p) \in Planned \cup {"flush", "weather", "confirm", "tell"} => AllPlanned(Rest(p))
      /\ Rest(p) # <<>> /\ Heading(p) # "log" => Rest(p)[1] # "count"
    BY <1>1, FormOfRest DEF Heading
<1>5. ASSUME Heading(p) \in Planned, NEW x, In(x, Rest(p)) PROVE x # Heading(p)
    <2>1. Rank(Heading(p)) \in 1 .. 13 /\ Rank(Heading(p)) < Rank(x)
        BY <1>4, <1>5, Ranks
    <2> QED
        BY <2>1
<1>6. ASSUME Heading(p) \in (Planned \ {"log"}) \cup {"flush", "weather", "confirm", "tell"},
             NEW a \in Leads
      PROVE  /\ a \o Rest(p) \in Steps /\ Form(a \o Rest(p))
             /\ \A x : In(x, a \o Rest(p)) <=> In(x, a) \/ In(x, Rest(p))
    <2>1. Early(a) /\ a \in Steps /\ Form(a) /\ \A x : In(x, a) => x \notin Planned
        BY LeadForms DEF Early
    <2>2. Heading(p) # "log"
        BY <1>6 DEF Planned
    <2>3. Form(a \o Rest(p))
        BY <1>3, <1>4, <1>6, <2>1, <2>2, FormBefore
    <2>4. a \o Rest(p) \in Steps /\ \A x : In(x, a \o Rest(p)) <=> In(x, a) \/ In(x, Rest(p))
        BY <1>3, <2>1, StepsBefore
    <2> QED
        BY <2>3, <2>4
<1> QED
    BY <1>1, <1>2, <1>3, <1>4, <1>5, <1>6

(* How a call goes on after one of its steps. *)
GoesOnWell(p, s) ==
    /\ Form(s)
    /\ s # <<>> /\ s[1] = "count" => Heading(p) = "log"
    /\ \A x \in Planned \ {"recall"} : In(x, s) => In(x, Todo(p)) /\ x # Heading(p)
    /\ In("recall", s) =>
          \/ In("recall", Todo(p)) /\ Heading(p) # "recall"
          \/ Heading(p) \in {"claim", "look"} /\ Frame(p).kind = "pos" /\ HasWeather(Frame(p))
    /\ \A x \in {"drop", "add", "amend", "weather"} :
          In(x, s) => Heading(p) = "recall" \/ In(x, Todo(p))
    /\ \A x \in {"tell", "receipt"} : In(x, s) =>
           Heading(p) \in {"sent", "acked", "confirm"} \/ In(x, Todo(p))
    /\ In("confirm", s) => Heading(p) = "original"
    /\ In("flush", s) => Heading(p) = "count"

Drops(p, s) ==
    \/ Heading(p) \in {"claim", "look"}
    \/ Heading(p) \in {"again", "sent", "acked"}
    \/ Fails(p)
    \/ \A x \in Planned : In(x, Todo(p)) => x = Heading(p) \/ In(x, s)

LEMMA RestGoesWell ==
    ASSUME IngestInv, TodoForm, NEW p \in Paths, Busy(p)
    PROVE  Rest(p) \in Steps /\ GoesOnWell(p, Rest(p)) /\ Drops(p, Rest(p))
<1>1. /\ Rest(p) \in Steps /\ Form(Rest(p)) /\ Todo(p) \in Steps /\ Form(Todo(p))
      /\ Rest(p) = Tail(Todo(p)) /\ Todo(p) # <<>>
      /\ \A x : In(x, Todo(p)) <=> x = Heading(p) \/ In(x, Rest(p))
      /\ Heading(p) \in Planned =>
            \A x : In(x, Rest(p)) => x \in Planned /\ x # Heading(p)
    BY RestOfTask
<1>2. \A x \in Planned : In(x, Rest(p)) => In(x, Todo(p)) /\ x # Heading(p)
    BY <1>1
<1>3. Heading(p) \in {"flush", "confirm"} => \A x : In(x, Rest(p)) => x \in Planned
    BY <1>1, FormOfRest DEF Heading, AllPlanned, In
<1>4. ~In("flush", Rest(p)) /\ ~In("confirm", Rest(p))
    <2>1. In("flush", Todo(p)) => Heading(p) = "flush"
        BY <1>1, FormHeads DEF Heading
    <2>2. In("confirm", Todo(p)) => Heading(p) = "confirm"
        BY <1>1, FormHeads DEF Heading
    <2>3. "flush" \notin Planned /\ "confirm" \notin Planned
        BY DEF Planned
    <2> QED
        BY <1>1, <1>3, <2>1, <2>2, <2>3
<1>5. GoesOnWell(p, Rest(p))
    <2>1. "recall" \in Planned
        BY DEF Planned
    <2>2. Rest(p) # <<>> /\ Heading(p) # "log" => Rest(p)[1] # "count"
        BY <1>1, FormOfRest DEF Heading
    <2> QED
        BY <1>1, <1>2, <1>4, <2>1, <2>2 DEF GoesOnWell
<1> QED
    BY <1>1, <1>5 DEF Drops

LEMMA LeadGoesWell ==
    ASSUME IngestInv, TodoForm, NEW p \in Paths, Busy(p), NEW a \in Leads,
           Heading(p) \in {"count", "original", "confirm", "recall"},
           In("flush", a) => Heading(p) = "count", In("confirm", a) => Heading(p) = "original",
           In("tell", a) => Heading(p) = "confirm",
           \A x \in {"drop", "add", "amend", "weather"} : In(x, a) => Heading(p) = "recall"
    PROVE  a \o Rest(p) \in Steps /\ GoesOnWell(p, a \o Rest(p)) /\ Drops(p, a \o Rest(p))
<1>1. Heading(p) \in (Planned \ {"log"}) \cup {"flush", "weather", "confirm", "tell"}
    BY DEF Planned
<1>2. /\ a \o Rest(p) \in Steps /\ Form(a \o Rest(p))
      /\ \A x : In(x, a \o Rest(p)) <=> In(x, a) \/ In(x, Rest(p))
      /\ \A x : In(x, Todo(p)) <=> x = Heading(p) \/ In(x, Rest(p))
    BY <1>1, RestOfTask
<1>3. /\ \A x : In(x, a) => x \notin Planned
      /\ ~In("receipt", a)
    <2>1. \A x : In(x, a) => x \notin Planned
        BY LeadForms
    <2>2. ~In("receipt", a)
        <3>1. In("receipt", a) => a # <<>> /\ Head(a) = "receipt"
            BY LeadForms, FormReceipt DEF Early
        <3> QED
            BY <3>1 DEF Leads
    <2> QED
        BY <2>1, <2>2
<1>4. GoesOnWell(p, Rest(p)) /\ Drops(p, Rest(p))
    BY RestGoesWell
<1>5. GoesOnWell(p, a \o Rest(p))
    <2>1. /\ "recall" \in Planned /\ Form(a \o Rest(p))
          /\ \A x \in {"drop", "add", "amend", "weather", "tell", "receipt", "confirm", "flush"} : x \notin Planned
        BY <1>2 DEF Planned
    <2>2. a \o Rest(p) # <<>> => (a \o Rest(p))[1] # "count"
        <3>0. a \in Seq(StepNames) /\ Rest(p) \in Seq(StepNames)
            BY LeadForms, RestGoesWell DEF Early, Steps
        <3>1. CASE a = <<>>
            <4>1. Rest(p) # <<>> => Rest(p)[1] # "count"
                BY <1>4 DEF GoesOnWell
            <4>2. a \o Rest(p) = Rest(p)
                BY <3>0, <3>1
            <4> QED
                BY <4>1, <4>2
        <3>2. CASE a # <<>>
            <4>1. Len(a) \in Nat /\ Len(a) # 0
                BY <3>0, <3>2, EmptySeq
            <4>2. 1 \in 1 .. Len(a) /\ (a \o Rest(p))[1] = a[1]
                BY <3>0, <4>1
            <4>3. In(a[1], a)
                BY <4>2 DEF In
            <4> QED
                BY <1>3, <4>2, <4>3 DEF Planned
        <3> QED
            BY <3>1, <3>2
    <2> QED
        BY <1>2, <1>3, <1>4, <2>1, <2>2 DEF GoesOnWell
<1>6. Drops(p, a \o Rest(p))
    BY <1>2, <1>4 DEF Drops
<1> QED
    BY <1>2, <1>5, <1>6

Recalled(p) == Newest(Near(Frame(p).src, At(p)))

Lead(action) ==
    CASE action = "skip" -> <<"weather">>
      [] action = "update" -> <<"amend", "weather">>
      [] action = "replace" -> <<"drop", "add", "weather">>

LEMMA RecallGoesOn ==
    ASSUME NEW p \in Paths, Recall(p)
    PROVE  /\ Busy(p) /\ Heading(p) = "recall"
           /\ \/ /\ Recalled(p) = {}
                 /\ GoesOn(p, <<"add", "weather">> \o Rest(p),
                           [row |-> None, vals |-> values_for(Frame(p).weather)])
              \/ \E r \in Recalled(p) :
                    LET newer == At(p) > r.at IN
                    GoesOn(p, Lead(Action(FromRow(r.vals), Frame(p).weather, newer)) \o Rest(p),
                           [row |-> r.n,
                            vals |-> values_for(Merge(FromRow(r.vals), Frame(p).weather, newer))])
<1>1. Busy(p) /\ Heading(p) = "recall"
    BY DEF Recall, Does, Heading, Todo
<1>2. ASSUME NEW action \in {"skip", "update", "replace"}
      PROVE  Writes(action) \o <<"weather">> = Lead(action)
    <2>0. /\ <<"amend">> \in Seq(StepNames) /\ <<"drop", "add">> \in Seq(StepNames)
          /\ <<"weather">> \in Seq(StepNames)
        BY DEF StepNames
    <2>1. CASE action = "skip"
        BY <2>1 DEF Writes, Lead
    <2>2. CASE action = "update"
        <3>1. PICK s : s = <<"amend">> \o <<"weather">>
            OBVIOUS
        <3>2. s \in Seq(StepNames) /\ Len(s) = 2 /\ s[1] = "amend" /\ s[2] = "weather"
            BY <2>0, <3>1
        <3>3. PICK t : t = <<"amend", "weather">>
            OBVIOUS
        <3>4. t \in Seq(StepNames) /\ Len(t) = 2 /\ t[1] = "amend" /\ t[2] = "weather"
            BY <3>3 DEF StepNames
        <3>5. s = t
            BY <3>2, <3>4, SeqEqual
        <3> QED
            BY <2>2, <3>1, <3>3, <3>5 DEF Writes, Lead
    <2>3. CASE action = "replace"
        <3>1. PICK s : s = <<"drop", "add">> \o <<"weather">>
            OBVIOUS
        <3>2. /\ s \in Seq(StepNames) /\ Len(s) = 3
              /\ s[1] = "drop" /\ s[2] = "add" /\ s[3] = "weather"
            BY <2>0, <3>1
        <3>3. PICK t : t = <<"drop", "add", "weather">>
            OBVIOUS
        <3>4. /\ t \in Seq(StepNames) /\ Len(t) = 3
              /\ t[1] = "drop" /\ t[2] = "add" /\ t[3] = "weather"
            BY <3>3 DEF StepNames
        <3>5. s = t
            BY <3>2, <3>4, SeqEqual
        <3> QED
            BY <2>3, <3>1, <3>3, <3>5 DEF Writes, Lead
    <2> QED
        BY <2>1, <2>2, <2>3
<1>3. \A old, new, newer : Action(old, new, newer) \in {"skip", "update", "replace"}
    BY DEF Action
<1> QED
    BY <1>1, <1>2, <1>3 DEF Recall, Recalled

LEMMA LeadSteps ==
    /\ \A x : In(x, <<"weather">>) <=> x = "weather"
    /\ \A x : In(x, <<"add", "weather">>) <=> x = "add" \/ x = "weather"
    /\ \A x : In(x, <<"amend", "weather">>) <=> x = "amend" \/ x = "weather"
    /\ \A x : In(x, <<"drop", "add", "weather">>) <=> x = "drop" \/ x = "add" \/ x = "weather"
    /\ \A x : In(x, <<"flush">>) <=> x = "flush"
    /\ \A x : In(x, <<"confirm">>) <=> x = "confirm"
    /\ \A x : In(x, <<"tell">>) <=> x = "tell"
    /\ \A x : In(x, <<"receipt", "tell">>) <=> x = "receipt" \/ x = "tell"
    /\ \A x : In(x, <<"recall">>) <=> x = "recall"
<1>1. ASSUME NEW a, NEW b, NEW x
      PROVE  (In(x, <<a>>) <=> x = a) /\ (In(x, <<a, b>>) <=> x = a \/ x = b)
    <2>1. Len(<<a>>) = 1 /\ Len(<<a, b>>) = 2 /\ <<a>>[1] = a /\ <<a, b>>[1] = a /\ <<a, b>>[2] = b
        OBVIOUS
    <2>2. (\A i \in 1 .. 1 : i = 1) /\ (\A i \in 1 .. 2 : i = 1 \/ i = 2)
        OBVIOUS
    <2> QED
        BY <2>1, <2>2 DEF In
<1>2. ASSUME NEW x PROVE In(x, <<"drop", "add", "weather">>) <=> x = "drop" \/ x = "add" \/ x = "weather"
    <2>1. PICK s : s = <<"drop", "add", "weather">>
        OBVIOUS
    <2>2. Len(s) = 3 /\ s[1] = "drop" /\ s[2] = "add" /\ s[3] = "weather"
        BY <2>1
    <2>3. \A i \in 1 .. 3 : i = 1 \/ i = 2 \/ i = 3
        OBVIOUS
    <2>4. In(x, s) <=> x = "drop" \/ x = "add" \/ x = "weather"
        BY <2>2, <2>3 DEF In
    <2> QED
        BY <2>1, <2>4
<1> QED
    BY <1>1, <1>2, Zenon

LEMMA EndGoesWell ==
    ASSUME NEW p \in Paths
    PROVE  <<>> \in Steps /\ GoesOnWell(p, <<>>)
<1>1. <<>> \in Steps /\ Form(<<>>) /\ \A x : ~In(x, <<>>)
    BY NoSteps, NothingBetween DEF Early, Between
<1> QED
    BY <1>1 DEF GoesOnWell

LEMMA TellGoesWell ==
    ASSUME NEW p \in Paths, Heading(p) \in {"sent", "acked"},
           NEW s \in {<<"tell">>, <<"receipt", "tell">>}
    PROVE  s \in Steps /\ GoesOnWell(p, s)
<1>1. s \in Steps /\ Form(s) /\ \A x : In(x, s) => x \notin Planned
    <2>1. <<"tell">> \in Leads
        BY DEF Leads
    <2> QED
        BY <2>1, LeadForms DEF Early
<1>2. \A x : In(x, s) => x \in {"tell", "receipt"}
    BY LeadSteps
<1>3. "recall" \in Planned
    BY DEF Planned
<1> QED
    BY <1>1, <1>2, <1>3 DEF GoesOnWell

LEMMA CopyGoesWell ==
    ASSUME NEW p \in Paths, Heading(p) \in {"claim", "look"},
           Frame(p).kind = "pos", HasWeather(Frame(p))
    PROVE  <<"recall">> \in Steps /\ GoesOnWell(p, <<"recall">>)
<1>1. <<"recall">> \in Steps /\ Form(<<"recall">>)
    BY PartsOfPlan DEF Between
<1>2. \A x : In(x, <<"recall">>) => x = "recall"
    BY LeadSteps
<1> QED
    BY <1>1, <1>2 DEF GoesOnWell

LEMMA StepGoes ==
    ASSUME IngestInv, TodoForm, NEW p \in Paths, Step(p)
    PROVE  \E s \in Steps : \E found :
               Busy(p) /\ GoesOn(p, s, found) /\ GoesOnWell(p, s) /\ Drops(p, s)
<1> DEFINE Well(s) == \E found : Busy(p) /\ GoesOn(p, s, found) /\ GoesOnWell(p, s) /\ Drops(p, s)
<1>0. <<>> \in Steps /\ GoesOnWell(p, <<>>)
    BY EndGoesWell
<1>a. Busy(p) => Rest(p) \in Steps /\ GoesOnWell(p, Rest(p)) /\ Drops(p, Rest(p))
    BY RestGoesWell
<1>1. CASE \/ Claim(p) \/ LogSignal(p) \/ FlushBuckets(p) \/ UpsertStation(p) \/ InsertRow(p)
           \/ Receipt(p) \/ Tell(p) \/ AddReading(p) \/ AmendReading(p) \/ DropReading(p)
           \/ UpsertWeather(p)
    <2>1. PICK found : Busy(p) /\ GoesOn(p, Rest(p), found)
        BY <1>1 DEF Claim, LogSignal, FlushBuckets, UpsertStation, InsertRow, Receipt, Tell,
                    AddReading, AmendReading, DropReading, UpsertWeather, Does, Finishes
    <2> QED
        BY <1>a, <2>1
<1>2. CASE RefuseClaimed(p) \/ Look(p)
    <2>1. Busy(p) /\ Heading(p) \in {"claim", "look"}
        BY <1>2 DEF RefuseClaimed, Look, Does, Heading, Todo
    <2>2. \/ GoesOn(p, Rest(p), None) \/ GoesOn(p, <<>>, None)
          \/ GoesOn(p, <<"recall">>, None) /\ Frame(p).kind = "pos" /\ HasWeather(Frame(p))
        BY <1>2 DEF RefuseClaimed, Look, Duplicate, Weather, Finishes
    <2>3. \A s : Drops(p, s)
        BY <2>1 DEF Drops
    <2> QED
        BY <1>0, <1>a, <2>1, <2>2, <2>3, CopyGoesWell
<1>3. CASE Renew(p) \/ MarkSent(p) \/ MarkAcked(p)
    <2>1. Busy(p) /\ Heading(p) \in {"again", "sent", "acked"}
        BY <1>3 DEF Renew, MarkSent, MarkAcked, Does, Heading, Todo
    <2>2. \E found :
              \/ GoesOn(p, Rest(p), found) \/ GoesOn(p, <<>>, found)
              \/ /\ GoesOn(p, <<"tell">>, found) \/ GoesOn(p, <<"receipt", "tell">>, found)
                 /\ Heading(p) \in {"sent", "acked"}
        <3>1. CASE Renew(p)
            BY <3>1 DEF Renew, Finishes
        <3>2. CASE MarkSent(p)
            BY <3>2 DEF MarkSent, Does, Heading, Todo
        <3>3. CASE MarkAcked(p)
            BY <3>3 DEF MarkAcked, Does, Heading, Todo
        <3> QED
            BY <1>3, <3>1, <3>2, <3>3
    <2>3. \A s : Drops(p, s)
        BY <2>1 DEF Drops
    <2> QED
        BY <1>0, <1>a, <2>1, <2>2, <2>3, TellGoesWell
<1>4. CASE CountSignal(p) \/ FindOriginal(p) \/ Confirm(p) \/ Recall(p)
    <2>1. Busy(p) /\ Heading(p) \in {"count", "original", "confirm", "recall"}
        BY <1>4 DEF CountSignal, FindOriginal, Confirm, Recall, Does, Heading, Todo
    <2>2. \E found : \E a \in Leads :
              /\ GoesOn(p, Rest(p), found) \/ GoesOn(p, a \o Rest(p), found)
              /\ In("flush", a) => Heading(p) = "count"
              /\ In("confirm", a) => Heading(p) = "original"
              /\ In("tell", a) => Heading(p) = "confirm"
              /\ \A x \in {"drop", "add", "amend", "weather"} : In(x, a) => Heading(p) = "recall"
        <3>0. /\ \A x : In(x, <<"flush">>) => x = "flush"
              /\ \A x : In(x, <<"confirm">>) => x = "confirm"
              /\ \A x : In(x, <<"tell">>) => x = "tell"
              /\ <<>> \in Leads /\ <<"flush">> \in Leads /\ <<"confirm">> \in Leads
              /\ <<"tell">> \in Leads
            BY LeadSteps DEF Leads
        <3>1. CASE CountSignal(p)
            <4>1. Heading(p) = "count" /\ \E found : GoesOn(p, Rest(p), found) \/ GoesOn(p, <<"flush">> \o Rest(p), found)
                BY <3>1 DEF CountSignal, Does, Heading, Todo, Finishes
            <4> QED
                BY <3>0, <4>1
        <3>2. CASE FindOriginal(p)
            <4>1. Heading(p) = "original" /\ \E found : GoesOn(p, Rest(p), found) \/ GoesOn(p, <<"confirm">> \o Rest(p), found)
                BY <3>2 DEF FindOriginal, Does, Heading, Todo, Finishes
            <4> QED
                BY <3>0, <4>1
        <3>3. CASE Confirm(p)
            <4>1. Heading(p) = "confirm" /\ \E found : GoesOn(p, Rest(p), found) \/ GoesOn(p, <<"tell">> \o Rest(p), found)
                BY <3>3 DEF Confirm, Does, Heading, Todo
            <4> QED
                BY <3>0, <4>1
        <3>4. CASE Recall(p)
            <4> DEFINE Wet == {<<"weather">>, <<"add", "weather">>, <<"amend", "weather">>,
                               <<"drop", "add", "weather">>}
            <4>1. Heading(p) = "recall" /\ \E found : \E a \in Wet : GoesOn(p, a \o Rest(p), found)
                <5>1. \A action : action \in {"skip", "update", "replace"} => Lead(action) \in Wet
                    BY DEF Lead
                <5>2. \A old, new, newer : Action(old, new, newer) \in {"skip", "update", "replace"}
                    BY DEF Action
                <5> QED
                    BY <3>4, <5>1, <5>2, RecallGoesOn
            <4>2. Wet \subseteq Leads /\ \A a \in Wet : ~In("flush", a) /\ ~In("confirm", a) /\ ~In("tell", a)
                BY LeadSteps DEF Leads
            <4> QED
                BY <4>1, <4>2
        <3> QED
            BY <1>4, <3>1, <3>2, <3>3, <3>4
    <2>3. PICK found : \E a \in Leads :
              /\ GoesOn(p, Rest(p), found) \/ GoesOn(p, a \o Rest(p), found)
              /\ In("flush", a) => Heading(p) = "count"
              /\ In("confirm", a) => Heading(p) = "original"
              /\ In("tell", a) => Heading(p) = "confirm"
              /\ \A x \in {"drop", "add", "amend", "weather"} : In(x, a) => Heading(p) = "recall"
        BY <2>2
    <2>4. PICK a \in Leads :
              /\ GoesOn(p, Rest(p), found) \/ GoesOn(p, a \o Rest(p), found)
              /\ In("flush", a) => Heading(p) = "count"
              /\ In("confirm", a) => Heading(p) = "original"
              /\ In("tell", a) => Heading(p) = "confirm"
              /\ \A x \in {"drop", "add", "amend", "weather"} : In(x, a) => Heading(p) = "recall"
        BY <2>3
    <2>5. a \o Rest(p) \in Steps /\ GoesOnWell(p, a \o Rest(p)) /\ Drops(p, a \o Rest(p))
        BY <2>1, <2>4, LeadGoesWell
    <2> QED
        BY <1>a, <2>1, <2>4, <2>5
<1>5. CASE Fails(p)
    <2>1. Busy(p) /\ (GoesOn(p, Rest(p), Found(p)) \/ GoesOn(p, <<>>, Found(p)))
        BY <1>5 DEF Fails
    <2>2. \A s : Drops(p, s)
        BY <1>5 DEF Drops
    <2> QED
        BY <1>0, <1>a, <2>1, <2>2
<1> QED
    BY <1>1, <1>2, <1>3, <1>4, <1>5 DEF Step

(* What becomes of a task, whatever happens. *)
Same(q) == Todo(q)' = Todo(q) /\ Frame(q)' = Frame(q) /\ At(q)' = At(q) /\ Found(q)' = Found(q)
Begins(q) ==
    \E f \in Frames :
        /\ Arrive(q, f) /\ Todo(q) = <<>>
        /\ Todo(q)' = Plan(f) /\ Frame(q)' = f /\ At(q)' \in 0 .. now /\ Found(q)' = None
Moves(q) ==
    /\ Step(q) /\ Busy(q)
    /\ Todo(q)' \in Steps /\ GoesOnWell(q, Todo(q)') /\ Drops(q, Todo(q)')
    /\ Todo(q)' # <<>> => Frame(q)' = Frame(q) /\ At(q)' = At(q)
    /\ \A r \in Paths \ {q} : Same(r)
Broken(q) == (\E closed \in BOOLEAN : Restart(closed)) /\ Todo(q)' = <<>>

LEMMA TaskCases ==
    ASSUME IngestInv, TodoForm, [Next]_vars, NEW q \in Paths
    PROVE  Same(q) \/ Begins(q) \/ Moves(q) \/ Broken(q)
<1>0. DOMAIN task = Paths
    BY DEF IngestInv, TaskInv, TaskType
<1>1. ASSUME task'[q] = task[q] PROVE Same(q)
    BY <1>1 DEF Same, Todo, Frame, At, Found
<1>2. ASSUME NEW e \in agenda.coming, Arrive(e[1], e[2]) PROVE Same(q) \/ Begins(q)
    <2>0. PICK p \in Paths, f \in Frames : e = <<p, f>>
        BY DEF IngestInv, ClockType
    <2>1. Arrive(p, f)
        BY <1>2, <2>0
    <2>2. PICK t \in Stamps(p) :
              task' = [task EXCEPT ![p] = [frame |-> f, at |-> t, todo |-> Plan(f), found |-> None]]
        BY <2>1 DEF Arrive
    <2>3. t \in 0 .. now
        BY DEF Stamps, IngestInv, ClockType
    <2>4. p # q => task'[q] = task[q]
        BY <1>0, <2>2
    <2>5. /\ task'[p].todo = Plan(f) /\ task'[p].frame = f /\ task'[p].at = t
          /\ task'[p].found = None /\ Todo(p) = <<>>
        BY <1>0, <2>1, <2>2 DEF Arrive, Busy, Todo
    <2>6. p = q => Begins(q)
        BY <2>1, <2>3, <2>5 DEF Begins, Todo, Frame, At, Found
    <2> QED
        BY <1>1, <2>4, <2>6
<1>3. ASSUME NEW p \in Paths, Step(p) PROVE Same(q) \/ Moves(q)
    <2>1. PICK s \in Steps : \E found :
              Busy(p) /\ GoesOn(p, s, found) /\ GoesOnWell(p, s) /\ Drops(p, s)
        BY <1>3, StepGoes
    <2>2. PICK found : Busy(p) /\ GoesOn(p, s, found) /\ GoesOnWell(p, s) /\ Drops(p, s)
        BY <2>1
    <2>3. /\ Todo(p)' = s
          /\ s # <<>> => Frame(p)' = Frame(p) /\ At(p)' = At(p)
          /\ \A r \in Paths \ {p} : Same(r)
        BY <2>2, TaskGoesOn DEF Same
    <2>4. Moves(p)
        BY <1>3, <2>2, <2>3 DEF Moves
    <2> QED
        BY <2>3, <2>4
<1>4. ASSUME NEW closed \in BOOLEAN, Restart(closed) PROVE Broken(q)
    <2>1. task'[q] = Idle
        BY <1>4 DEF Restart
    <2> QED
        BY <1>4, <2>1 DEF Broken, Todo, Idle
<1>5. CASE (\E d \in Talks : DeleteTalk(d)) \/ Tick \/ UNCHANGED vars
    <2>1. task' = task
        BY <1>5 DEF DeleteTalk, Tick, vars
    <2> QED
        BY <1>1, <2>1
<1> QED
    BY <1>2, <1>3, <1>4, <1>5 DEF Next

LEMMA FormStays ==
    ASSUME IngestInv, TodoForm, [Next]_vars PROVE TodoForm'
<1> SUFFICES ASSUME NEW q \in Paths PROVE Form(Todo(q)')
    BY DEF TodoForm, Form, Todo
<1>1. ASSUME NEW s, s = Todo(q)', Form(s) PROVE Form(Todo(q)')
    BY <1>1
<1>2. CASE Same(q)
    BY <1>2 DEF Same, TodoForm
<1>3. CASE Begins(q)
    BY <1>3, PlanForm DEF Begins
<1>4. CASE Moves(q)
    BY <1>4 DEF Moves, GoesOnWell
<1>5. CASE Broken(q)
    BY <1>5, NothingBetween DEF Broken, Between
<1> QED
    BY <1>2, <1>3, <1>4, <1>5, TaskCases

(* A step that drops what was planned has done it, or ends the call. *)
LEMMA WhatIsDropped ==
    ASSUME IngestInv, TodoForm, NEW q \in Paths, Moves(q), NEW x \in Planned, In(x, Todo(q)),
           ~In(x, Todo(q)')
    PROVE  \/ Heading(q) = x
           \/ Fails(q)
           \/ Heading(q) \in {"claim", "look"}
           \/ Heading(q) \in {"again", "sent", "acked"} /\ Rank(Heading(q)) < Rank(x)
<1>1. /\ \A y : In(y, Todo(q)) <=> y = Heading(q) \/ In(y, Rest(q))
      /\ Heading(q) \in Planned =>
            \A y : In(y, Rest(q)) => y \in Planned /\ Rank(Heading(q)) < Rank(y) /\ y # Heading(q)
    BY RestOfTask DEF Moves
<1>2. CASE Heading(q) \in {"again", "sent", "acked"}
    <2>1. Heading(q) \in Planned
        BY <1>2 DEF Planned
    <2> QED
        BY <1>1, <1>2, <2>1
<1>3. CASE Heading(q) \notin {"again", "sent", "acked"}
    BY <1>3 DEF Moves, Drops
<1> QED
    BY <1>2, <1>3

-----------------------------------------------------------------------------
(* Stations *)

Known(c, t) == seen[c] # None /\ seen[c] >= t

SeenType ==
    /\ seen \in [Calls -> Nat \cup {None}]
    /\ \A s \in signals : s.call \in Calls /\ s.at \in Nat
    /\ \A v \in taken : v[1] \in Calls /\ v[2] \in Nat

(* A signal is of a known station, or its task has still to note it. *)
Noting(p, s) ==
    /\ In("signal", Todo(p)) /\ ~In("claim", Todo(p)) /\ ~In("look", Todo(p))
    /\ Frame(p).src = s.call /\ At(p) = s.at
SignalsKnown ==
    \A s \in signals : s.call \notin torn => Known(s.call, s.at) \/ \E p \in Paths : Noting(p, s)

TakenKnown == \A v \in taken : Known(v[1], v[2])

SeenInv == SeenType /\ SignalsKnown /\ TakenKnown
StationsInv == IngestInv /\ TodoForm /\ SeenInv

LEMMA TornGrows ==
    ASSUME [Next]_vars PROVE torn \subseteq torn'
<1>1. ASSUME NEW p \in Paths, NEW f, Arrive(p, f) PROVE torn \subseteq torn'
    BY <1>1 DEF Arrive
<1>a. ASSUME NEW e, Arrive(e[1], e[2]) PROVE torn \subseteq torn'
    BY <1>a DEF Arrive
<1>2. ASSUME NEW p \in Paths, Step(p) PROVE torn \subseteq torn'
    BY <1>2 DEF Step, Claim, RefuseClaimed, Look, LogSignal, CountSignal, FlushBuckets,
                UpsertStation, Renew, InsertRow, MarkSent, MarkAcked, Receipt, Tell, FindOriginal,
                Confirm, Recall, AddReading, AmendReading, DropReading, UpsertWeather, Fails,
                history
<1>3. ASSUME NEW closed, Restart(closed) PROVE torn \subseteq torn'
    BY <1>3 DEF Restart
<1>4. CASE (\E d \in Talks : DeleteTalk(d)) \/ Tick \/ UNCHANGED vars
    BY <1>4 DEF DeleteTalk, Tick, vars, history
<1> QED
    BY <1>a, <1>2, <1>3, <1>4 DEF Next

(* The three tables that this is about, and who writes them. *)
LEMMA SeenSteps ==
    ASSUME IngestInv, [Next]_vars
    PROVE  \/ UNCHANGED <<seen, signals, taken>>
           \/ \E p \in Paths :
                 \/ LogSignal(p) /\ UNCHANGED <<seen, taken>>
                 \/ UpsertStation(p) /\ UNCHANGED <<signals, taken>>
                 \/ UpsertWeather(p) /\ UNCHANGED signals
<1>1. ASSUME NEW e, Arrive(e[1], e[2]) PROVE UNCHANGED <<seen, signals, taken>>
    BY <1>1 DEF Arrive, tables
<1>2. ASSUME NEW p \in Paths, Step(p)
      PROVE  \/ UNCHANGED <<seen, signals, taken>>
             \/ LogSignal(p) /\ UNCHANGED <<seen, taken>>
             \/ UpsertStation(p) /\ UNCHANGED <<signals, taken>>
             \/ UpsertWeather(p) /\ UNCHANGED signals
    BY <1>2 DEF Step, Claim, RefuseClaimed, Look, LogSignal, CountSignal, FlushBuckets,
                UpsertStation, Renew, InsertRow, MarkSent, MarkAcked, Receipt, Tell, FindOriginal,
                Confirm, Recall, AddReading, AmendReading, DropReading, UpsertWeather, Fails,
                history, tables
<1>3. ASSUME NEW closed, Restart(closed) PROVE UNCHANGED <<seen, signals, taken>>
    BY <1>3 DEF Restart
<1>4. CASE (\E d \in Talks : DeleteTalk(d)) \/ Tick \/ UNCHANGED vars
    BY <1>4 DEF DeleteTalk, Tick, vars, history, tables
<1> QED
    BY <1>1, <1>2, <1>3, <1>4 DEF Next

LEMMA FrameOfStep ==
    ASSUME IngestInv, NEW p \in Paths, Busy(p)
    PROVE  /\ Frame(p) \in Frames /\ Frame(p).src \in Calls /\ Frame(p).hop \in Calls
           /\ At(p) \in Nat
BY DEF IngestInv, TaskInv, TaskType, Calls, ClockType

(* The time of a station never goes back (_upsert_station_position). *)
LEMMA SeenGrows ==
    ASSUME IngestInv, SeenType, [Next]_vars
    PROVE  /\ seen' \in [Calls -> Nat \cup {None}]
           /\ \A c \in Calls, t \in Nat : Known(c, t) => Known(c, t)'
           /\ \A p \in Paths, c \in Calls, t \in Nat :
                 (UpsertStation(p) \/ UpsertWeather(p)) /\ c = Frame(p).src /\ t = At(p) =>
                     Known(c, t)'
<1>0. None \notin Nat
    BY IngestAssumption
<1>1. ASSUME NEW p \in Paths, UpsertStation(p) \/ UpsertWeather(p)
      PROVE  /\ seen' \in [Calls -> Nat \cup {None}]
             /\ \A c \in Calls, t \in Nat : Known(c, t) => Known(c, t)'
             /\ \A c \in Calls, t \in Nat : c = Frame(p).src /\ t = At(p) => Known(c, t)'
    <2>1. Frame(p).src \in Calls /\ At(p) \in Nat
        <3>1. Busy(p)
            BY <1>1 DEF UpsertStation, UpsertWeather, Does
        <3> QED
            BY <3>1, FrameOfStep
    <2>2. seen' = [seen EXCEPT ![Frame(p).src] = LastSeen(Frame(p).src, At(p))]
        BY <1>1 DEF UpsertStation, UpsertWeather
    <2>3. PICK call \in Calls, time \in Nat : call = Frame(p).src /\ time = At(p)
        BY <2>1
    <2>4. /\ seen' \in [Calls -> Nat \cup {None}]
          /\ \A c \in Calls : c # call => seen'[c] = seen[c]
          /\ seen'[call] = IF seen[call] = None \/ seen[call] < time THEN time ELSE seen[call]
        BY <2>2, <2>3 DEF SeenType, LastSeen, Later
    <2>5. \A c \in Calls : seen[c] \in Nat \cup {None}
        BY DEF SeenType
    <2>6. seen'[call] # None /\ seen'[call] >= time
        BY <1>0, <2>4, <2>5
    <2>7. ASSUME NEW c \in Calls, NEW t \in Nat, seen[c] # None, seen[c] >= t
          PROVE  seen'[c] # None /\ seen'[c] >= t
        BY <1>0, <2>4, <2>5, <2>7
    <2> QED
        BY <2>3, <2>4, <2>6, <2>7 DEF Known
<1>2. CASE UNCHANGED seen
    BY <1>1, <1>2 DEF Known, SeenType
<1> QED
    BY <1>1, <1>2, SeenSteps

LEMMA SeenTypeStays ==
    ASSUME IngestInv, TodoForm, SeenType, [Next]_vars PROVE SeenType'
<1>1. seen' \in [Calls -> Nat \cup {None}]
    BY SeenGrows
<1>2. ASSUME NEW s \in signals' PROVE s.call \in Calls /\ s.at \in Nat
    <2>1. CASE s \in signals
        BY <2>1 DEF SeenType
    <2>2. CASE s \notin signals
        <3>1. PICK p \in Paths : LogSignal(p)
            BY <2>2, SeenSteps
        <3>2. s = [call |-> Frame(p).src, hop |-> Frame(p).hop, at |-> At(p), n |-> next]
            BY <2>2, <3>1 DEF LogSignal
        <3>3. Busy(p)
            BY <3>1 DEF LogSignal, Does
        <3> QED
            BY <3>2, <3>3, FrameOfStep
    <2> QED
        BY <2>1, <2>2
<1>3. ASSUME NEW v \in taken' PROVE v[1] \in Calls /\ v[2] \in Nat
    <2>1. CASE v \in taken
        BY <2>1 DEF SeenType
    <2>2. CASE v \notin taken
        <3>1. PICK p \in Paths : UpsertWeather(p)
            BY <2>2, SeenSteps
        <3>2. v[1] = Frame(p).src /\ v[2] = At(p) /\ Busy(p)
            BY <2>2, <3>1 DEF UpsertWeather, Does
        <3> QED
            BY <3>2, FrameOfStep
    <2> QED
        BY <2>1, <2>2
<1> QED
    BY <1>1, <1>2, <1>3 DEF SeenType

LEMMA TakenKnownStays ==
    ASSUME IngestInv, TodoForm, SeenInv, [Next]_vars PROVE TakenKnown'
<1> SUFFICES ASSUME NEW v \in taken' PROVE Known(v[1], v[2])'
    BY DEF TakenKnown
<1>1. v[1] \in Calls /\ v[2] \in Nat
    BY SeenTypeStays DEF SeenInv, SeenType
<1>2. CASE v \in taken
    BY <1>1, <1>2, SeenGrows DEF SeenInv, TakenKnown
<1>3. CASE v \notin taken
    <2>1. PICK p \in Paths : UpsertWeather(p)
        BY <1>3, SeenSteps
    <2>2. v[1] = Frame(p).src /\ v[2] = At(p)
        BY <1>3, <2>1 DEF UpsertWeather
    <2> QED
        BY <1>1, <2>1, <2>2, SeenGrows DEF SeenInv
<1> QED
    BY <1>2, <1>3

(* What notes the station is the step of that name, unless it is broken off. *)
LEMMA NotingStays ==
    ASSUME IngestInv, TodoForm, SeenInv, [Next]_vars, NEW p \in Paths, NEW s \in signals, Noting(p, s),
           s.call \notin torn'
    PROVE  Noting(p, s)' \/ Known(s.call, s.at)'
<1>0. "signal" \in Planned /\ Rank("signal") = 6
    BY DEF Planned, Rank
<1>a. s.call \in Calls /\ s.at \in Nat /\ s.call = Frame(p).src /\ s.at = At(p)
    BY DEF SeenInv, SeenType, Noting
<1>b. \A x : In(x, Todo(p)) => Busy(p)
    BY NoSteps DEF Busy, Todo
<1>1. CASE Same(p)
    BY <1>1 DEF Same, Noting
<1>2. CASE Begins(p)
    BY <1>2, NoSteps DEF Begins, Noting
<1>3. CASE Broken(p)
    <2>1. PICK closed \in BOOLEAN : Restart(closed)
        BY <1>3 DEF Broken
    <2>2. Frame(p).src \in torn'
        BY <1>b, <2>1 DEF Restart, BrokenCalls, Noting
    <2> QED
        BY <1>a, <2>2
<1>4. CASE Moves(p)
    <2>1. CASE In("signal", Todo(p)')
        <3>1. Todo(p)' # <<>>
            BY <2>1, NoSteps
        <3>2. Frame(p)' = Frame(p) /\ At(p)' = At(p)
            BY <1>4, <3>1 DEF Moves
        <3>3. ~In("claim", Todo(p)') /\ ~In("look", Todo(p)')
            BY <1>4 DEF Moves, GoesOnWell, Noting, Planned
        <3> QED
            BY <2>1, <3>2, <3>3 DEF Noting
    <2>2. CASE ~In("signal", Todo(p)')
        <3>1. \/ Heading(p) = "signal" \/ Fails(p) \/ Heading(p) \in {"claim", "look"}
              \/ Heading(p) \in {"again", "sent", "acked"} /\ Rank(Heading(p)) < Rank("signal")
            BY <1>0, <1>4, <2>2, WhatIsDropped DEF Noting
        <3>2. Heading(p) \notin {"claim", "look"}
            BY <1>4, RestOfTask DEF Noting, Moves
        <3>3. Heading(p) \in {"again", "sent", "acked"} => ~(Rank(Heading(p)) < 6)
            BY DEF Rank
        <3>4. ~Fails(p)
            <4>1. Fails(p) => Frame(p).src \in torn'
                BY DEF Fails, BrokenCalls
            <4> QED
                BY <1>a, <4>1
        <3>5. Heading(p) = "signal"
            BY <1>0, <3>1, <3>2, <3>3, <3>4
        <3>6. UpsertStation(p)
            BY <1>4, <3>4, <3>5 DEF Moves, Step, Heading, Todo, Does, Claim, RefuseClaimed, Look,
                LogSignal, CountSignal, FlushBuckets, Renew, InsertRow, MarkSent, MarkAcked,
                Receipt, Tell, FindOriginal, Confirm, Recall, AddReading, AmendReading,
                DropReading, UpsertWeather
        <3> QED
            BY <1>a, <3>6, SeenGrows DEF SeenInv
    <2> QED
        BY <2>1, <2>2
<1> QED
    BY <1>1, <1>2, <1>3, <1>4, TaskCases

LEMMA SignalsKnownStays ==
    ASSUME IngestInv, TodoForm, SeenInv, [Next]_vars PROVE SignalsKnown'
<1> SUFFICES ASSUME NEW s \in signals', s.call \notin torn'
             PROVE  Known(s.call, s.at)' \/ \E p \in Paths : Noting(p, s)'
    BY DEF SignalsKnown
<1>1. s.call \notin torn
    BY TornGrows
<1>2. CASE s \in signals
    <2>1. s.call \in Calls /\ s.at \in Nat
        BY <1>2 DEF SeenInv, SeenType
    <2>2. Known(s.call, s.at) => Known(s.call, s.at)'
        BY <2>1, SeenGrows DEF SeenInv
    <2>3. \A p \in Paths : Noting(p, s) => Noting(p, s)' \/ Known(s.call, s.at)'
        BY <1>2, NotingStays
    <2> QED
        BY <1>1, <1>2, <2>2, <2>3 DEF SeenInv, SignalsKnown
<1>3. CASE s \notin signals
    <2>1. PICK p \in Paths : LogSignal(p)
        BY <1>3, SeenSteps
    <2>2. s.call = Frame(p).src /\ s.at = At(p)
        BY <1>3, <2>1 DEF LogSignal
    <2>3. Busy(p) /\ Heading(p) = "log" /\ GoesOn(p, Rest(p), next)
        BY <2>1 DEF LogSignal, Does, Heading, Todo
    <2>4. /\ Todo(p) \in Steps /\ Form(Todo(p)) /\ Rest(p) \in Steps
          /\ \A x : In(x, Todo(p)) <=> x = "log" \/ In(x, Rest(p))
          /\ \A x : In(x, Rest(p)) => x \in Planned /\ Rank("log") < Rank(x)
        BY <2>3, RestOfTask DEF Planned
    <2>5. In("signal", Rest(p))
        BY <2>4, FormHeads
    <2>6. ~In("claim", Rest(p)) /\ ~In("look", Rest(p))
        BY <2>4 DEF Rank
    <2>7. Todo(p)' = Rest(p) /\ Frame(p)' = Frame(p) /\ At(p)' = At(p)
        <3>1. Rest(p) # <<>>
            BY <2>5, NoSteps
        <3>2. PICK r, n : r \in Steps /\ r = Rest(p) /\ n = next
            BY <2>4
        <3>3. GoesOn(p, r, n)
            BY <2>3, <3>2
        <3> QED
            BY <2>3, <3>1, <3>2, <3>3, TaskGoesOn
    <2>8. Noting(p, s)'
        BY <2>2, <2>5, <2>6, <2>7 DEF Noting
    <2> QED
        BY <2>8
<1> QED
    BY <1>2, <1>3

(* station_positions knows every station at least as late as the tables of *)
(* signals and of telemetry do, in whatever order the two tasks note it    *)
(* (_upsert_station_position keeps the later time).                        *)
THEOREM StationsKept == Spec => []StationsKeepUp
<1>1. Init => StationsInv
    <2>1. Init => IngestInv
        BY IngestStart
    <2>2. Init => TodoForm
        BY NothingBetween DEF Init, TodoForm, Todo, Idle, Between
    <2>3. Init => SeenInv
        BY DEF Init, SeenInv, SeenType, SignalsKnown, TakenKnown
    <2> QED
        BY <2>1, <2>2, <2>3 DEF StationsInv
<1>2. StationsInv /\ [Next]_vars => StationsInv'
    BY IngestNext, FormStays, SeenTypeStays, SignalsKnownStays, TakenKnownStays
       DEF StationsInv, SeenInv
<1>3. StationsInv => StationsKeepUp
    <2> SUFFICES ASSUME StationsInv, AtRest
                 PROVE  /\ \A s \in signals : s.call \notin torn => Known(s.call, s.at)
                        /\ \A v \in taken : Known(v[1], v[2])
        BY DEF StationsKeepUp, Known
    <2>1. \A p \in Paths : \A s : ~Noting(p, s)
        BY NoSteps DEF AtRest, Busy, Todo, Noting
    <2> QED
        BY <2>1 DEF StationsInv, SeenInv, SignalsKnown, TakenKnown
<1> QED
    BY <1>1, <1>2, <1>3, PTL DEF Spec

-----------------------------------------------------------------------------
(* Acknowledgements *)

(* A row and what became of it. *)
Continues(r, s) == s.n = r.n /\ s.id = r.id /\ s.kind = r.kind /\ s.echo = r.echo

LEMMA MarkedRowToo ==
    ASSUME NEW r \in MessageRow, NEW st \in {"sent", "acked"}
    PROVE  /\ Continues(r, MarkedRow(r, st))
           /\ r.status.acked => MarkedRow(r, st).status.acked
           /\ st = "acked" => MarkedRow(r, st).status.acked
           /\ st = "sent" => MarkedRow(r, st).status.acked = r.status.acked
<1>1. CASE st = "sent"
    BY <1>1 DEF MarkedRow, MessageRow, Continues
<1>2. CASE st = "acked"
    BY <1>2 DEF MarkedRow, MessageRow, Continues
<1> QED
    BY <1>1, <1>2

LEMMA MarkedRows ==
    ASSUME RowsType, NEW hit \in SUBSET rows, NEW st \in {"sent", "acked"}, rows' = Marked(hit, st)
    PROVE  /\ \A s \in rows' : \E r \in rows :
                 /\ Continues(r, s)
                 /\ s.status.acked => r.status.acked \/ (st = "acked" /\ r \in hit)
           /\ \A r \in rows : \E s \in rows' :
                 /\ Continues(r, s)
                 /\ r.status.acked \/ (st = "acked" /\ r \in hit) => s.status.acked
<1>1. rows' = (rows \ hit) \cup {MarkedRow(r, st) : r \in hit}
    BY DEF Marked, MarkedRow
<1>2. \A r \in rows : /\ Continues(r, r)
                      /\ Continues(r, MarkedRow(r, st))
                      /\ r.status.acked => MarkedRow(r, st).status.acked
                      /\ st = "acked" => MarkedRow(r, st).status.acked
                      /\ st = "sent" => MarkedRow(r, st).status.acked = r.status.acked
    BY MarkedRowToo DEF RowsType, Continues
<1>3. ASSUME NEW s \in rows'
      PROVE  \E r \in rows :
                 /\ Continues(r, s)
                 /\ s.status.acked => r.status.acked \/ (st = "acked" /\ r \in hit)
    <2>1. CASE s \in rows \ hit
        BY <1>2, <2>1
    <2>2. ASSUME NEW r \in hit, s = MarkedRow(r, st)
          PROVE  /\ r \in rows /\ Continues(r, s)
                 /\ s.status.acked => r.status.acked \/ (st = "acked" /\ r \in hit)
        BY <1>2, <2>2
    <2> QED
        BY <1>1, <2>1, <2>2
<1>4. ASSUME NEW r \in rows
      PROVE  \E s \in rows' :
                 /\ Continues(r, s)
                 /\ r.status.acked \/ (st = "acked" /\ r \in hit) => s.status.acked
    <2>1. CASE r \in hit
        <3>1. MarkedRow(r, st) \in rows'
            BY <1>1, <2>1
        <3> QED
            BY <1>2, <3>1
    <2>2. CASE r \notin hit
        BY <1>1, <1>2, <2>2
    <2> QED
        BY <2>1, <2>2
<1> QED
    BY <1>3, <1>4

LEMMA RenewedRows ==
    ASSUME RowsType, NEW p \in Paths, Renew(p)
    PROVE  /\ \A s \in rows' : \E r \in rows : Continues(r, s) /\ s.status = r.status
           /\ \A r \in rows : \E s \in rows' : Continues(r, s) /\ s.status = r.status
<1> DEFINE old == Newest({r \in rows : r.kind = "mheard" /\ r.src = Frame(p).src
                                       /\ r.at > At(p) - MheardWindow})
           New(r) == [r EXCEPT !.at = At(p)]
<1>1. rows' = rows \/ rows' = (rows \ old) \cup {New(r) : r \in old}
    BY DEF Renew
<1>2. old \subseteq rows
    BY DEF Newest
<1>3. \A r \in rows : /\ Continues(r, r) /\ Continues(r, New(r)) /\ New(r).status = r.status
    BY DEF RowsType, MessageRow, Continues
<1> HIDE DEF old, New
<1>4. CASE rows' = rows
    BY <1>3, <1>4
<1>5. CASE rows' = (rows \ old) \cup {New(r) : r \in old}
    <2>1. ASSUME NEW s \in rows' PROVE \E r \in rows : Continues(r, s) /\ s.status = r.status
        BY <1>2, <1>3, <1>5
    <2>2. ASSUME NEW r \in rows PROVE \E s \in rows' : Continues(r, s) /\ s.status = r.status
        BY <1>2, <1>3, <1>5
    <2> QED
        BY <2>1, <2>2
<1> QED
    BY <1>1, <1>4, <1>5

LEMMA RowSteps ==
    ASSUME IngestInv, [Next]_vars
    PROVE  \/ UNCHANGED rows
           \/ \E p \in Paths :
                 Renew(p) \/ InsertRow(p) \/ MarkSent(p) \/ MarkAcked(p) \/ Confirm(p)
           \/ \E d \in Talks : DeleteTalk(d)
<1>1. ASSUME NEW e, Arrive(e[1], e[2]) PROVE UNCHANGED rows
    BY <1>1 DEF Arrive, tables
<1>2. ASSUME NEW p \in Paths, Step(p)
      PROVE  \/ UNCHANGED rows
             \/ Renew(p) \/ InsertRow(p) \/ MarkSent(p) \/ MarkAcked(p) \/ Confirm(p)
    BY <1>2 DEF Step, Claim, RefuseClaimed, Look, LogSignal, CountSignal, FlushBuckets,
                UpsertStation, Receipt, Tell, FindOriginal, Recall, AddReading, AmendReading,
                DropReading, UpsertWeather, Fails, tables
<1>3. ASSUME NEW closed, Restart(closed) PROVE UNCHANGED rows
    BY <1>3 DEF Restart
<1>4. CASE Tick \/ UNCHANGED vars
    BY <1>4 DEF Tick, vars, tables
<1> QED
    BY <1>1, <1>2, <1>3, <1>4 DEF Next

LEMMA ExcusedGrows ==
    ASSUME [Next]_vars PROVE excused \subseteq excused'
<1>1. ASSUME NEW e, Arrive(e[1], e[2]) PROVE excused \subseteq excused'
    BY <1>1 DEF Arrive
<1>2. ASSUME NEW p \in Paths, Step(p) PROVE excused \subseteq excused'
    BY <1>2 DEF Step, Claim, RefuseClaimed, Look, LogSignal, CountSignal, FlushBuckets,
                UpsertStation, Renew, InsertRow, MarkSent, MarkAcked, Receipt, Tell, FindOriginal,
                Confirm, Recall, AddReading, AmendReading, DropReading, UpsertWeather, Fails,
                history
<1>3. ASSUME NEW closed, Restart(closed) PROVE excused \subseteq excused'
    BY <1>3 DEF Restart
<1>4. CASE (\E d \in Talks : DeleteTalk(d)) \/ Tick \/ UNCHANGED vars
    BY <1>4 DEF DeleteTalk, Tick, vars, history
<1> QED
    BY <1>1, <1>2, <1>3, <1>4 DEF Next

(* A row is newly acknowledged by one of two steps. *)
Newly(p, r) ==
    \/ MarkAcked(p) /\ r \in Newest(Texts(Frame(p).id))
    \/ Confirm(p) /\ r.n = Found(p).n

LEMMA RowsContinue ==
    ASSUME IngestInv, [Next]_vars
    PROVE  /\ \A s \in rows' :
                 \/ s.n = next /\ ~s.status.acked
                 \/ \E r \in rows :
                       /\ Continues(r, s)
                       /\ s.status.acked => r.status.acked \/ \E p \in Paths : Newly(p, r)
           /\ \A r \in rows : r.id \notin excused' =>
                 \E s \in rows' : Continues(r, s) /\ (r.status.acked => s.status.acked)
<1>0. RowsType /\ \A r : Continues(r, r)
    BY DEF IngestInv, RowsInv, Continues
<1>1. CASE UNCHANGED rows
    BY <1>0, <1>1
<1>2. ASSUME NEW p \in Paths, Renew(p)
      PROVE  /\ \A s \in rows' : \E r \in rows : Continues(r, s) /\ s.status = r.status
             /\ \A r \in rows : \E s \in rows' : Continues(r, s) /\ s.status = r.status
    BY <1>0, <1>2, RenewedRows
<1>3. ASSUME NEW p \in Paths, InsertRow(p)
      PROVE  /\ rows \subseteq rows'
             /\ \A s \in rows' \ rows : s.n = next /\ ~s.status.acked
    BY <1>3 DEF InsertRow
<1>4. ASSUME NEW p \in Paths, MarkSent(p) \/ MarkAcked(p) \/ Confirm(p)
      PROVE  /\ \A s \in rows' : \E r \in rows :
                    Continues(r, s) /\ (s.status.acked => r.status.acked \/ Newly(p, r))
             /\ \A r \in rows : \E s \in rows' :
                    Continues(r, s) /\ (r.status.acked => s.status.acked)
    <2>1. Newest(Texts(Frame(p).id)) \in SUBSET rows /\ {r \in rows : r.n = Found(p).n} \in SUBSET rows
        BY DEF Newest, Texts
    <2>2. CASE MarkSent(p)
        <3>1. rows' = Marked(Newest(Texts(Frame(p).id)), "sent")
            BY <2>2 DEF MarkSent
        <3> QED
            BY <1>0, <2>1, <3>1, MarkedRows
    <2>3. CASE MarkAcked(p)
        <3>1. rows' = Marked(Newest(Texts(Frame(p).id)), "acked")
            BY <2>3 DEF MarkAcked
        <3> QED
            BY <1>0, <2>1, <2>3, <3>1, MarkedRows DEF Newly
    <2>4. CASE Confirm(p)
        <3>1. rows' = Marked({r \in rows : r.n = Found(p).n}, "acked")
            BY <2>4 DEF Confirm
        <3> QED
            BY <1>0, <2>1, <2>4, <3>1, MarkedRows DEF Newly
    <2> QED
        BY <1>4, <2>2, <2>3, <2>4
<1>5. ASSUME NEW d \in Talks, DeleteTalk(d)
      PROVE  rows' \subseteq rows /\ \A r \in rows \ rows' : r.id \in excused'
    BY <1>5 DEF DeleteTalk
<1> QED
    <2>1. CASE \E p \in Paths : Renew(p)
        BY <1>2, <2>1
    <2>2. CASE \E p \in Paths : InsertRow(p)
        BY <1>0, <1>3, <2>2
    <2>3. CASE \E p \in Paths : MarkSent(p) \/ MarkAcked(p) \/ Confirm(p)
        <3>1. PICK p \in Paths : MarkSent(p) \/ MarkAcked(p) \/ Confirm(p)
            BY <2>3
        <3>2. /\ \A s \in rows' : \E r \in rows :
                    Continues(r, s) /\ (s.status.acked => r.status.acked \/ Newly(p, r))
              /\ \A r \in rows : \E s \in rows' :
                    Continues(r, s) /\ (r.status.acked => s.status.acked)
            BY <1>4, <3>1
        <3> QED
            BY <3>2
    <2>4. CASE \E d \in Talks : DeleteTalk(d)
        BY <1>0, <1>5, <2>4
    <2> QED
        BY <1>1, <2>1, <2>2, <2>3, <2>4, RowSteps

(* The step that comes next is taken, or fails. *)
LEMMA HeadSteps ==
    ASSUME NEW p \in Paths, Step(p)
    PROVE  /\ Heading(p) = "tell" => Tell(p)
           /\ Heading(p) = "count" => CountSignal(p)
           /\ \/ Fails(p)
              \/ /\ Heading(p) = "receipt" => Receipt(p)
                 /\ Heading(p) = "sent" => MarkSent(p)
                 /\ Heading(p) = "acked" => MarkAcked(p)
                 /\ Heading(p) = "original" => FindOriginal(p)
                 /\ Heading(p) = "confirm" => Confirm(p)
                 /\ Heading(p) = "log" => LogSignal(p)
                 /\ Heading(p) = "flush" => FlushBuckets(p)
                 /\ Heading(p) = "signal" => UpsertStation(p)
                 /\ Heading(p) = "recall" => Recall(p)
                 /\ Heading(p) = "add" => AddReading(p)
                 /\ Heading(p) = "amend" => AmendReading(p)
                 /\ Heading(p) = "drop" => DropReading(p)
                 /\ Heading(p) = "weather" => UpsertWeather(p)
           /\ Fails(p) => \/ Heading(p) = "receipt" /\ GoesOn(p, Rest(p), Found(p))
                          \/ Heading(p) # "receipt" /\ GoesOn(p, <<>>, Found(p))
BY DEF Step, Heading, Todo, Does, Claim, RefuseClaimed, Look, LogSignal, CountSignal,
       FlushBuckets, UpsertStation, Renew, InsertRow, MarkSent, MarkAcked, Receipt, Tell,
       FindOriginal, Confirm, Recall, AddReading, AmendReading, DropReading, UpsertWeather, Fails

(* What is announced: what was found by the step that marked the row. *)
LEMMA TellCases ==
    ASSUME IngestInv, TodoForm, [Next]_vars, NEW p \in Paths, In("tell", Todo(p)')
    PROVE  /\ Frame(p)' = Frame(p)
           /\ \/ In("tell", Todo(p)) /\ Found(p)' = Found(p)
              \/ Found(p)' = [id |-> Frame(p).id, status |-> "sent"]
              \/ /\ MarkAcked(p) /\ Newest(Texts(Frame(p).id)) # {}
                 /\ Found(p)' = [id |-> Frame(p).id, status |-> "acked"]
              \/ /\ Confirm(p) /\ {r \in rows : r.n = Found(p).n} # {}
                 /\ Found(p)' = [id |-> Found(p).id, status |-> "acked"]
<1>1. CASE Same(p)
    BY <1>1 DEF Same
<1>2. CASE Begins(p)
    <2>1. PICK f \in Frames : Todo(p)' = Plan(f)
        BY <1>2 DEF Begins
    <2>2. "tell" \notin Planned
        BY DEF Planned
    <2> QED
        BY <2>1, <2>2, PlanForm DEF AllPlanned, In
<1>3. CASE Broken(p)
    BY <1>3, NoSteps DEF Broken
<1>4. CASE Moves(p)
    <2>0. /\ Todo(p)' # <<>> /\ Frame(p)' = Frame(p) /\ Busy(p) /\ Step(p)
          /\ Todo(p) \in Steps /\ Form(Todo(p)) /\ Todo(p) # <<>> /\ Rest(p) = Tail(Todo(p))
          /\ Rest(p) \in Steps
        BY <1>4, NoSteps, RestOfTask DEF Moves
    <2>1. Heading(p) \in {"sent", "acked", "confirm"} \/ In("tell", Todo(p))
        BY <1>4 DEF Moves, GoesOnWell
    <2>2. Heading(p) # "receipt" => ~Fails(p)
        <3>1. ASSUME Heading(p) # "receipt", Fails(p) PROVE FALSE
            <4>1. PICK s, found : s \in Steps /\ s = <<>> /\ found = Found(p)
                BY EndGoesWell
            <4>2. GoesOn(p, s, found)
                BY <2>0, <3>1, <4>1, HeadSteps
            <4>3. Todo(p)' = <<>>
                BY <2>0, <4>1, <4>2, TaskGoesOn
            <4> QED
                BY <2>0, <4>3
        <3> QED
            BY <3>1
    <2>3. ASSUME NEW s \in Steps, NEW found, GoesOn(p, s, found) PROVE Found(p)' = found
        BY <2>0, <2>3, TaskGoesOn
    <2>4. CASE In("tell", Todo(p)) /\ Heading(p) \notin {"sent", "acked", "confirm"}
        <3>1. Heading(p) \in {"receipt", "tell"}
            BY <2>0, <2>4, FormHeads DEF Heading
        <3>2. CASE Heading(p) = "receipt"
            <4>1. GoesOn(p, Rest(p), Found(p))
                BY <2>0, <3>2, HeadSteps DEF Receipt
            <4>2. PICK s, found : s \in Steps /\ s = Rest(p) /\ found = Found(p)
                BY <2>0
            <4> QED
                BY <2>0, <2>3, <2>4, <4>1, <4>2
        <3>3. CASE Heading(p) = "tell"
            <4>1. GoesOn(p, Rest(p), None)
                BY <2>0, <3>3, HeadSteps DEF Tell, Finishes
            <4>2. PICK s, found : s \in Steps /\ s = Rest(p) /\ found = None
                BY <2>0
            <4>3. Todo(p)' = Rest(p)
                BY <2>0, <4>1, <4>2, TaskGoesOn
            <4>4. AllPlanned(Rest(p)) /\ "tell" \notin Planned
                BY <2>0, <3>3, FormOfRest DEF Heading, Planned
            <4> QED
                BY <4>3, <4>4 DEF AllPlanned, In
        <3> QED
            BY <3>1, <3>2, <3>3
    <2>5. CASE Heading(p) = "sent"
        <3>1. MarkSent(p)
            BY <2>0, <2>2, <2>5, HeadSteps
        <3>2. \E s \in Steps : GoesOn(p, s, [id |-> Frame(p).id, status |-> "sent"])
            <4>1. /\ \/ GoesOn(p, Rest(p), [id |-> Frame(p).id, status |-> "sent"])
                     \/ GoesOn(p, <<"tell">>, [id |-> Frame(p).id, status |-> "sent"])
                     \/ GoesOn(p, <<"receipt", "tell">>, [id |-> Frame(p).id, status |-> "sent"])
                BY <3>1 DEF MarkSent
            <4> QED
                BY <2>0, <2>5, <4>1, TellGoesWell
        <3>3. PICK found : found = [id |-> Frame(p).id, status |-> "sent"]
            OBVIOUS
        <3> QED
            BY <2>0, <2>3, <3>2, <3>3
    <2>6. CASE Heading(p) = "acked"
        <3> DEFINE hit == Newest(Texts(Frame(p).id))
        <3>1. MarkAcked(p)
            BY <2>0, <2>2, <2>6, HeadSteps
        <3>2. PICK found : found = [id |-> Frame(p).id, status |-> "acked"]
            OBVIOUS
        <3>3. GoesOn(p, IF hit # {} THEN <<"receipt", "tell">> ELSE <<>>, found)
            BY <3>1, <3>2 DEF MarkAcked, Announced
        <3> HIDE DEF hit
        <3>4. PICK s : s = (IF hit # {} THEN <<"receipt", "tell">> ELSE <<>>)
            OBVIOUS
        <3>5. s \in Steps /\ GoesOn(p, s, found)
            BY <2>6, <3>3, <3>4, TellGoesWell, EndGoesWell
        <3>6. Todo(p)' = s /\ Found(p)' = found
            BY <2>0, <3>5, TaskGoesOn
        <3>7. hit # {}
            BY <2>0, <3>4, <3>6
        <3> QED
            BY <2>0, <3>1, <3>2, <3>6, <3>7 DEF hit
    <2>7. CASE Heading(p) = "confirm"
        <3> DEFINE hit == {r \in rows : r.n = Found(p).n}
        <3>1. Confirm(p)
            BY <2>0, <2>2, <2>7, HeadSteps
        <3>2. PICK found : found = [id |-> Found(p).id, status |-> "acked"]
            OBVIOUS
        <3>3. GoesOn(p, IF hit = {} THEN Rest(p) ELSE <<"tell">> \o Rest(p), found)
            BY <3>1, <3>2 DEF Confirm
        <3> HIDE DEF hit
        <3>4. PICK s : s = (IF hit = {} THEN Rest(p) ELSE <<"tell">> \o Rest(p))
            OBVIOUS
        <3>5. s \in Steps /\ GoesOn(p, s, found)
            <4>1. <<"tell">> \in Leads
                BY DEF Leads
            <4>2. <<"tell">> \o Rest(p) \in Steps
                BY <2>0, <2>7, <4>1, RestOfTask
            <4> QED
                BY <2>0, <3>3, <3>4, <4>2
        <3>6. Todo(p)' = s /\ Found(p)' = found
            BY <2>0, <3>5, TaskGoesOn
        <3>7. hit # {}
            <4>1. AllPlanned(Rest(p)) /\ "tell" \notin Planned
                BY <2>0, <2>7, FormOfRest DEF Heading, Planned
            <4>2. ~In("tell", Rest(p))
                BY <4>1 DEF AllPlanned, In
            <4> QED
                BY <3>4, <3>6, <4>2
        <3> QED
            BY <2>0, <3>1, <3>2, <3>6, <3>7 DEF hit
    <2> QED
        BY <2>1, <2>4, <2>5, <2>6, <2>7
<1> QED
    BY <1>1, <1>2, <1>3, <1>4, TaskCases

LEMMA TellEnds ==
    ASSUME IngestInv, TodoForm, [Next]_vars, NEW p \in Paths, In("tell", Todo(p))
    PROVE  \/ In("tell", Todo(p)') /\ Found(p)' = Found(p)
           \/ Tell(p)
           \/ Broken(p)
<1>0. Busy(p)
    BY NoSteps DEF Busy, Todo
<1>1. CASE Same(p)
    BY <1>1 DEF Same
<1>2. CASE Begins(p)
    BY <1>2, NoSteps DEF Begins
<1>3. CASE Moves(p)
    <2>0. /\ Step(p) /\ Busy(p) /\ Todo(p) \in Steps /\ Form(Todo(p)) /\ Rest(p) \in Steps
          /\ \A x : In(x, Todo(p)) <=> x = Heading(p) \/ In(x, Rest(p))
        BY <1>3, RestOfTask DEF Moves
    <2>1. Heading(p) \in {"receipt", "tell"}
        BY <2>0, FormHeads DEF Heading
    <2>2. CASE Heading(p) = "receipt"
        <3>1. GoesOn(p, Rest(p), Found(p))
            BY <2>0, <2>2, HeadSteps DEF Receipt
        <3>2. PICK s, found : s \in Steps /\ s = Rest(p) /\ found = Found(p)
            BY <2>0
        <3>3. In("tell", s) /\ s # <<>>
            BY <2>0, <2>2, <3>2, NoSteps
        <3>4. GoesOn(p, s, found)
            BY <3>1, <3>2
        <3>5. Todo(p)' = s /\ Found(p)' = found
            BY <2>0, <3>2, <3>3, <3>4, TaskGoesOn
        <3> QED
            BY <3>2, <3>3, <3>5
    <2>3. CASE Heading(p) = "tell"
        BY <2>0, <2>3, HeadSteps
    <2> QED
        BY <2>1, <2>2, <2>3
<1> QED
    BY <1>1, <1>2, <1>3, TaskCases

(* An acknowledged row has been announced, or its task has still to do it; *)
(* what is announced, or about to be, stands in the table.                 *)
Telling(p, id) == In("tell", Todo(p)) /\ Found(p) = [id |-> id, status |-> "acked"]
Echoed(id, acks) == \E r \in rows : r.id = id /\ r.echo # None /\ r.echo = acks
HasAcked(id) == \E r \in rows : r.kind = "text" /\ r.id = id /\ r.status.acked

AckedTold ==
    \A r \in rows :
        r.kind = "text" /\ r.status.acked /\ r.id \notin excused =>
            <<r.id, "acked">> \in told \/ \E p \in Paths : Telling(p, r.id)
ToldAcked == \A t \in told : t[2] = "acked" /\ t[1] \notin excused => HasAcked(t[1])
TellingTrue ==
    \A p \in Paths : In("tell", Todo(p)) /\ Found(p).status = "acked" /\ Found(p).id \notin excused =>
        /\ HasAcked(Found(p).id)
        /\ Found(p).id = Frame(p).id \/ Echoed(Found(p).id, Frame(p).acks)

(* The row that a direct message confirms, as it was found. *)
Confirming ==
    \A p \in Paths :
        /\ In("original", Todo(p)) => Frame(p).acks # None
        /\ In("confirm", Todo(p)) =>
              /\ Found(p).n \in Nat /\ Found(p).n < next
              /\ \A r \in rows : r.n = Found(p).n =>
                    r.id = Found(p).id /\ r.kind = "text" /\ r.echo # None /\ r.echo = Frame(p).acks

StatusInv == AckedTold /\ ToldAcked /\ TellingTrue /\ Confirming

LEMMA AckedStays ==
    ASSUME IngestInv, [Next]_vars, NEW id, id \notin excused'
    PROVE  /\ HasAcked(id) => HasAcked(id)'
           /\ \A acks : Echoed(id, acks) => Echoed(id, acks)'
<1>1. \A r \in rows : r.id \notin excused' =>
          \E s \in rows' : Continues(r, s) /\ (r.status.acked => s.status.acked)
    BY RowsContinue
<1> QED
    BY <1>1 DEF HasAcked, Echoed, Continues

LEMMA ToldSteps ==
    ASSUME [Next]_vars
    PROVE  UNCHANGED told
           \/ \E p \in Paths : Tell(p) /\ told' = told \cup {<<Found(p).id, Found(p).status>>}
<1>1. ASSUME NEW e, Arrive(e[1], e[2]) PROVE UNCHANGED told
    BY <1>1 DEF Arrive
<1>2. ASSUME NEW p \in Paths, Step(p)
      PROVE  UNCHANGED told \/ (Tell(p) /\ told' = told \cup {<<Found(p).id, Found(p).status>>})
    <2>1. CASE Tell(p)
        BY <2>1 DEF Tell
    <2>2. ASSUME \/ Claim(p) \/ RefuseClaimed(p) \/ Look(p) \/ LogSignal(p) \/ CountSignal(p)
                 \/ FlushBuckets(p) \/ UpsertStation(p) \/ Renew(p) \/ InsertRow(p)
                 \/ MarkSent(p) \/ MarkAcked(p) \/ Receipt(p)
          PROVE  told' = told
        BY <2>2 DEF Claim, RefuseClaimed, Look, LogSignal, CountSignal, FlushBuckets,
            UpsertStation, Renew, InsertRow, MarkSent, MarkAcked, Receipt, history
    <2>3. ASSUME \/ FindOriginal(p) \/ Confirm(p) \/ Recall(p) \/ AddReading(p) \/ AmendReading(p)
                 \/ DropReading(p) \/ UpsertWeather(p) \/ Fails(p)
          PROVE  told' = told
        BY <2>3 DEF FindOriginal, Confirm, Recall, AddReading, AmendReading, DropReading,
            UpsertWeather, Fails, history
    <2> QED
        BY <1>2, <2>1, <2>2, <2>3 DEF Step
<1>3. ASSUME NEW closed, Restart(closed) PROVE UNCHANGED told
    BY <1>3 DEF Restart
<1>4. CASE (\E d \in Talks : DeleteTalk(d)) \/ Tick \/ UNCHANGED vars
    BY <1>4 DEF DeleteTalk, Tick, vars, history
<1> QED
    BY <1>1, <1>2, <1>3, <1>4 DEF Next

LEMMA ToldAckedStays ==
    ASSUME IngestInv, TodoForm, StatusInv, [Next]_vars PROVE ToldAcked'
<1> SUFFICES ASSUME NEW t \in told', t[2] = "acked", t[1] \notin excused' PROVE HasAcked(t[1])'
    BY DEF ToldAcked
<1>1. t[1] \notin excused
    BY ExcusedGrows
<1>2. PICK id : id = t[1]
    OBVIOUS
<1>3. HasAcked(id) => HasAcked(id)'
    BY <1>2, AckedStays
<1>4. HasAcked(id)
    <2>1. CASE t \in told
        BY <1>1, <1>2, <2>1 DEF StatusInv, ToldAcked
    <2>2. CASE t \notin told
        <3>1. PICK p \in Paths : Tell(p) /\ t = <<Found(p).id, Found(p).status>>
            BY <2>2, ToldSteps
        <3>2. Heading(p) = "tell" /\ Busy(p)
            BY <3>1 DEF Tell, Does, Heading, Todo
        <3>3. In("tell", Todo(p))
            BY <3>2, RestOfSteps DEF Heading, Busy, Todo, IngestInv, TaskInv, TaskType
        <3> QED
            BY <1>1, <1>2, <3>1, <3>3 DEF StatusInv, TellingTrue
    <2> QED
        BY <2>1, <2>2
<1> QED
    BY <1>2, <1>3, <1>4

LEMMA AckedToldStays ==
    ASSUME IngestInv, TodoForm, StatusInv, [Next]_vars PROVE AckedTold'
<1> SUFFICES ASSUME NEW s \in rows', s.kind = "text", s.status.acked, s.id \notin excused'
             PROVE  <<s.id, "acked">> \in told' \/ \E p \in Paths : Telling(p, s.id)'
    BY DEF AckedTold
<1>1. PICK r \in rows :
          /\ Continues(r, s)
          /\ s.status.acked => r.status.acked \/ \E p \in Paths : Newly(p, r)
    BY RowsContinue
<1>2. r.id = s.id /\ r.kind = "text" /\ r.n = s.n /\ r.echo = s.echo /\ s.id \notin excused
    BY <1>1, ExcusedGrows DEF Continues
<1>3. PICK id : id = s.id
    OBVIOUS
<1>4. CASE r.status.acked
    <2>1. <<id, "acked">> \in told \/ \E p \in Paths : Telling(p, id)
        BY <1>2, <1>3, <1>4 DEF StatusInv, AckedTold
    <2>2. told \subseteq told'
        BY ToldSteps
    <2>3. ASSUME NEW p \in Paths, Telling(p, id)
          PROVE  <<id, "acked">> \in told' \/ Telling(p, id)'
        <3>1. CASE In("tell", Todo(p)') /\ Found(p)' = Found(p)
            BY <2>3, <3>1 DEF Telling
        <3>2. CASE Tell(p)
            <4>1. told' = told \cup {<<Found(p).id, Found(p).status>>}
                BY <3>2 DEF Tell
            <4>2. Found(p).id = id /\ Found(p).status = "acked"
                BY <2>3 DEF Telling
            <4> QED
                BY <4>1, <4>2
        <3>3. CASE Broken(p)
            <4>1. /\ Found(p).id = id /\ Found(p).status = "acked" /\ In("tell", Todo(p)) /\ Busy(p)
                BY <2>3, NoSteps DEF Telling, Busy, Todo
            <4>2. id = Frame(p).id \/ Echoed(id, Frame(p).acks)
                BY <1>2, <1>3, <4>1 DEF StatusInv, TellingTrue
            <4>3. PICK closed \in BOOLEAN : Restart(closed)
                BY <3>3 DEF Broken
            <4>4. PICK P : p \in P /\ excused' = excused \cup BrokenIds(P)
                BY <4>1, <4>3 DEF Restart
            <4>5. id \in BrokenIds(P)
                BY <4>2, <4>4 DEF BrokenIds, Echoed
            <4> QED
                BY <1>3, <4>4, <4>5
        <3> QED
            BY <2>3, <3>1, <3>2, <3>3, TellEnds DEF Telling
    <2> QED
        BY <1>3, <2>1, <2>2, <2>3
<1>5. ASSUME NEW p \in Paths, Newly(p, r)
      PROVE  Telling(p, id)'
    <2>1. CASE MarkAcked(p) /\ r \in Newest(Texts(Frame(p).id))
        <3>1. /\ Heading(p) = "acked" /\ Busy(p)
              /\ GoesOn(p, <<"receipt", "tell">>, [id |-> Frame(p).id, status |-> "acked"])
            BY <2>1 DEF MarkAcked, Announced, Does, Heading, Todo
        <3>2. r.id = Frame(p).id
            BY <2>1 DEF Newest, Texts
        <3>3. PICK l, found : l = <<"receipt", "tell">> /\ found = [id |-> Frame(p).id, status |-> "acked"]
            OBVIOUS
        <3>4. l \in Steps /\ GoesOn(p, l, found) /\ In("tell", l) /\ l # <<>>
            BY <3>1, <3>3, TellGoesWell, LeadSteps
        <3>5. Todo(p)' = l /\ Found(p)' = found
            BY <3>1, <3>4, TaskGoesOn
        <3> QED
            BY <1>2, <1>3, <3>2, <3>3, <3>4, <3>5 DEF Telling
    <2>2. CASE Confirm(p) /\ r.n = Found(p).n
        <3>1. /\ Heading(p) = "confirm" /\ Busy(p)
              /\ GoesOn(p, <<"tell">> \o Rest(p), [id |-> Found(p).id, status |-> "acked"])
            BY <2>2 DEF Confirm, Does, Heading, Todo
        <3>2. r.id = Found(p).id
            <4>1. In("confirm", Todo(p))
                BY <3>1, RestOfSteps DEF Heading, Busy, Todo, IngestInv, TaskInv, TaskType
            <4> QED
                BY <2>2, <4>1 DEF StatusInv, Confirming
        <3>3. PICK l, found : l = <<"tell">> \o Rest(p) /\ found = [id |-> Found(p).id, status |-> "acked"]
            OBVIOUS
        <3>4. l \in Steps /\ GoesOn(p, l, found) /\ In("tell", l) /\ l # <<>>
            <4>1. <<"tell">> \in Leads
                BY DEF Leads
            <4>2. <<"tell">> \o Rest(p) \in Steps /\ In("tell", <<"tell">> \o Rest(p))
                BY <3>1, <4>1, RestOfTask, LeadSteps
            <4> QED
                BY <3>1, <3>3, <4>2, NoSteps
        <3>5. Todo(p)' = l /\ Found(p)' = found
            BY <3>1, <3>4, TaskGoesOn
        <3> QED
            BY <1>2, <1>3, <3>2, <3>3, <3>4, <3>5 DEF Telling
    <2> QED
        BY <1>5, <2>1, <2>2 DEF Newly
<1> QED
    BY <1>1, <1>3, <1>4, <1>5

LEMMA TellingTrueStays ==
    ASSUME IngestInv, TodoForm, StatusInv, [Next]_vars PROVE TellingTrue'
<1> SUFFICES ASSUME NEW p \in Paths, In("tell", Todo(p)'), Found(p)'.status = "acked",
                    Found(p)'.id \notin excused'
             PROVE  /\ HasAcked(Found(p).id)'
                    /\ (Found(p).id = Frame(p).id \/ Echoed(Found(p).id, Frame(p).acks))'
    BY DEF TellingTrue
<1>1. PICK id, acks : id = Found(p)'.id /\ acks = Frame(p)'.acks
    OBVIOUS
<1>2. /\ Frame(p)' = Frame(p)
      /\ \/ In("tell", Todo(p)) /\ Found(p)' = Found(p)
         \/ Found(p)' = [id |-> Frame(p).id, status |-> "sent"]
         \/ /\ MarkAcked(p) /\ Newest(Texts(Frame(p).id)) # {}
            /\ Found(p)' = [id |-> Frame(p).id, status |-> "acked"]
         \/ /\ Confirm(p) /\ {r \in rows : r.n = Found(p).n} # {}
            /\ Found(p)' = [id |-> Found(p).id, status |-> "acked"]
    BY TellCases
<1>3. id \notin excused /\ id \notin excused'
    BY <1>1, ExcusedGrows
<1> SUFFICES HasAcked(id)' /\ (id = Frame(p).id \/ Echoed(id, acks)')
    BY <1>1, <1>2 DEF HasAcked, Echoed
<1>4. CASE In("tell", Todo(p)) /\ Found(p)' = Found(p)
    <2>1. HasAcked(id) /\ (id = Frame(p).id \/ Echoed(id, acks))
        BY <1>1, <1>2, <1>3, <1>4 DEF StatusInv, TellingTrue
    <2> QED
        BY <1>3, <2>1, AckedStays
<1>5. CASE Found(p)' = [id |-> Frame(p).id, status |-> "sent"]
    BY <1>5
<1>6. CASE /\ MarkAcked(p) /\ Newest(Texts(Frame(p).id)) # {}
           /\ Found(p)' = [id |-> Frame(p).id, status |-> "acked"]
    <2>1. id = Frame(p).id
        BY <1>1, <1>6
    <2>2. PICK r \in Newest(Texts(Frame(p).id)) : TRUE
        BY <1>6
    <2>3. /\ Newest(Texts(Frame(p).id)) \in SUBSET rows /\ r \in rows /\ r.id = id /\ r.kind = "text"
        BY <2>1, <2>2 DEF Newest, Texts
    <2>4. rows' = Marked(Newest(Texts(Frame(p).id)), "acked") /\ RowsType
        BY <1>6 DEF MarkAcked, IngestInv, RowsInv
    <2>5. PICK s \in rows' : Continues(r, s) /\ s.status.acked
        BY <2>2, <2>3, <2>4, MarkedRows
    <2>6. HasAcked(id)'
        BY <2>3, <2>5 DEF HasAcked, Continues
    <2> QED
        BY <2>1, <2>6
<1>7. CASE /\ Confirm(p) /\ {r \in rows : r.n = Found(p).n} # {}
           /\ Found(p)' = [id |-> Found(p).id, status |-> "acked"]
    <2>1. id = Found(p).id
        BY <1>1, <1>7
    <2>2. PICK r \in rows : r.n = Found(p).n
        BY <1>7
    <2>3. In("confirm", Todo(p))
        <3>1. Heading(p) = "confirm" /\ Busy(p)
            BY <1>7 DEF Confirm, Does, Heading, Todo
        <3> QED
            BY <3>1, RestOfSteps DEF Heading, Busy, Todo, IngestInv, TaskInv, TaskType
    <2>4. r.id = id /\ r.kind = "text" /\ r.echo # None /\ r.echo = acks
        BY <1>1, <1>2, <2>1, <2>2, <2>3 DEF StatusInv, Confirming
    <2>5. /\ rows' = Marked({q \in rows : q.n = Found(p).n}, "acked") /\ RowsType
          /\ {q \in rows : q.n = Found(p).n} \in SUBSET rows
        BY <1>7 DEF Confirm, IngestInv, RowsInv
    <2>6. PICK s \in rows' : Continues(r, s) /\ s.status.acked
        BY <2>2, <2>5, MarkedRows
    <2>7. HasAcked(id)' /\ Echoed(id, acks)'
        BY <2>4, <2>6 DEF HasAcked, Echoed, Continues
    <2> QED
        BY <2>7
<1> QED
    BY <1>1, <1>2, <1>4, <1>5, <1>6, <1>7

LEMMA NextGrows ==
    ASSUME IngestInv, [Next]_vars PROVE next \in Nat /\ next' \in Nat /\ next <= next'
<1>0. next \in Nat
    BY DEF IngestInv, ClockType
<1>1. ASSUME NEW e, Arrive(e[1], e[2]) PROVE next' = next
    BY <1>1 DEF Arrive
<1>2. ASSUME NEW p \in Paths, Step(p) PROVE next' = next \/ next' = next + 1
    BY <1>2 DEF Step, Claim, RefuseClaimed, Look, LogSignal, CountSignal, FlushBuckets,
                UpsertStation, Renew, InsertRow, MarkSent, MarkAcked, Receipt, Tell, FindOriginal,
                Confirm, Recall, AddReading, AmendReading, DropReading, UpsertWeather, Fails
<1>3. ASSUME NEW closed, Restart(closed) PROVE next' = next
    BY <1>3 DEF Restart
<1>4. ASSUME (\E d \in Talks : DeleteTalk(d)) \/ Tick \/ UNCHANGED vars PROVE next' = next
    BY <1>4 DEF DeleteTalk, Tick, vars
<1> QED
    BY <1>0, <1>1, <1>2, <1>3, <1>4 DEF Next

LEMMA ConfirmingStays ==
    ASSUME IngestInv, TodoForm, StatusInv, [Next]_vars PROVE Confirming'
<1> SUFFICES ASSUME NEW p \in Paths
             PROVE  /\ In("original", Todo(p)') => Frame(p)'.acks # None
                    /\ In("confirm", Todo(p)') =>
                          /\ Found(p)'.n \in Nat /\ Found(p)'.n < next'
                          /\ \A s \in rows' : s.n = Found(p)'.n =>
                                /\ s.id = Found(p)'.id /\ s.kind = "text" /\ s.echo # None
                                /\ s.echo = Frame(p)'.acks
    BY DEF Confirming
<1>0. "original" \in Planned /\ "confirm" \notin Planned
    BY DEF Planned
<1>1. next \in Nat /\ next' \in Nat /\ next <= next'
    BY NextGrows
<1>2. CASE Same(p)
    <2>1. In("original", Todo(p)') => Frame(p)'.acks # None
        BY <1>2 DEF Same, StatusInv, Confirming
    <2>2. ASSUME In("confirm", Todo(p)')
          PROVE  /\ Found(p).n \in Nat /\ Found(p).n < next'
                 /\ \A s \in rows' : s.n = Found(p).n =>
                       s.id = Found(p).id /\ s.kind = "text" /\ s.echo # None /\ s.echo = Frame(p).acks
        <3>1. /\ Found(p).n \in Nat /\ Found(p).n < next
              /\ \A r \in rows : r.n = Found(p).n =>
                    r.id = Found(p).id /\ r.kind = "text" /\ r.echo # None /\ r.echo = Frame(p).acks
            BY <1>2, <2>2 DEF Same, StatusInv, Confirming
        <3>2. ASSUME NEW s \in rows', s.n = Found(p).n
              PROVE  s.id = Found(p).id /\ s.kind = "text" /\ s.echo # None /\ s.echo = Frame(p).acks
            <4>1. s.n # next
                BY <1>1, <3>1, <3>2
            <4>2. PICK r \in rows : Continues(r, s)
                BY <4>1, RowsContinue
            <4> QED
                BY <3>1, <3>2, <4>2 DEF Continues
        <3> QED
            BY <1>1, <3>1, <3>2
    <2> QED
        BY <1>2, <2>1, <2>2 DEF Same
<1>3. CASE Begins(p)
    <2>1. PICK f \in Frames : Todo(p)' = Plan(f) /\ Frame(p)' = f
        BY <1>3 DEF Begins
    <2>2. ~In("confirm", Plan(f))
        BY <1>0, PlanForm DEF AllPlanned, In
    <2> QED
        BY <2>1, <2>2, PlanForm
<1>4. CASE Broken(p)
    BY <1>4, NoSteps DEF Broken
<1>5. CASE Moves(p)
    <2>1. In("original", Todo(p)') => Frame(p)'.acks # None
        <3>1. In("original", Todo(p)') => In("original", Todo(p)) /\ Frame(p)' = Frame(p)
            BY <1>0, <1>5, NoSteps DEF Moves, GoesOnWell
        <3> QED
            BY <3>1 DEF StatusInv, Confirming
    <2>2. ASSUME In("confirm", Todo(p)')
          PROVE  /\ Found(p)'.n \in Nat /\ Found(p)'.n < next'
                 /\ \A s \in rows' : s.n = Found(p)'.n =>
                       /\ s.id = Found(p)'.id /\ s.kind = "text" /\ s.echo # None
                       /\ s.echo = Frame(p)'.acks
        <3>1. /\ Heading(p) = "original" /\ Todo(p)' # <<>> /\ Busy(p) /\ Step(p)
              /\ Frame(p)' = Frame(p) /\ Rest(p) \in Steps
            BY <1>5, <2>2, NoSteps, RestOfTask DEF Moves, GoesOnWell
        <3>2. FindOriginal(p)
            <4>1. ASSUME Fails(p) PROVE FALSE
                <5>1. PICK s, found : s \in Steps /\ s = <<>> /\ found = Found(p)
                    BY EndGoesWell
                <5>2. GoesOn(p, s, found)
                    BY <3>1, <4>1, <5>1, HeadSteps
                <5> QED
                    BY <3>1, <5>1, <5>2, TaskGoesOn
            <4> QED
                BY <3>1, <4>1, HeadSteps
        <3>3. ~In("confirm", Rest(p))
            <4>1. \A x : In(x, Rest(p)) => x \in Planned
                BY <3>1, RestOfTask DEF Planned
            <4> QED
                BY <1>0, <4>1
        <3>4. PICK r \in Newest({q \in rows : q.kind = "text" /\ q.echo = Frame(p).acks}) :
                  GoesOn(p, <<"confirm">> \o Rest(p), r)
            <4>1. ASSUME GoesOn(p, Rest(p), None) PROVE FALSE
                <5>1. PICK s, found : s \in Steps /\ s = Rest(p) /\ found = None
                    BY <3>1
                <5>2. Todo(p)' = s
                    BY <3>1, <4>1, <5>1, TaskGoesOn
                <5> QED
                    BY <2>2, <3>3, <5>1, <5>2
            <4> QED
                BY <3>2, <4>1 DEF FindOriginal, Finishes
        <3>5. r \in rows /\ r.kind = "text" /\ r.echo = Frame(p).acks
            BY DEF Newest
        <3>6. Found(p)' = r
            <4>1. <<"confirm">> \in Leads
                BY DEF Leads
            <4>2. PICK s \in Steps : s = <<"confirm">> \o Rest(p)
                BY <3>1, <4>1, RestOfTask DEF Planned
            <4>3. PICK found : found = r
                OBVIOUS
            <4>4. GoesOn(p, s, found) /\ s # <<>>
                <5>1. In("confirm", s)
                    BY <3>1, <4>1, <4>2, RestOfTask, LeadSteps DEF Planned
                <5> QED
                    BY <3>4, <4>2, <4>3, <5>1, NoSteps
            <4> QED
                BY <3>1, <4>3, <4>4, TaskGoesOn
        <3>7. rows' = rows /\ next' = next
            BY <3>2 DEF FindOriginal, tables
        <3>8. Frame(p).acks # None
            <4>1. In("original", Todo(p))
                BY <3>1, RestOfTask
            <4> QED
                BY <4>1 DEF StatusInv, Confirming
        <3>9. r.n \in Nat /\ r.n < next /\ \A s \in rows : s.n = r.n => s = r
            BY <3>5 DEF IngestInv, RowsInv, RowsType, MessageRow
        <3> QED
            BY <3>1, <3>5, <3>6, <3>7, <3>8, <3>9
    <2> QED
        BY <2>1, <2>2
<1> QED
    BY <1>2, <1>3, <1>4, <1>5, TaskCases

(* What the clients were told of an acknowledgement and what the table     *)
(* says agree whenever both tasks are at rest (_handle_ack, the ":ackN" of *)
(* store_message), for ids whose ACK was not broken off and whose row was  *)
(* not deleted.                                                            *)
THEOREM StatusesAgree == Spec => []StatusAgrees
<1> DEFINE Inv == IngestInv /\ TodoForm /\ StatusInv
<1>1. Init => Inv
    <2>1. Init => IngestInv
        BY IngestStart
    <2>2. Init => TodoForm /\ \A p \in Paths : \A x : ~In(x, Todo(p))
        BY NothingBetween, NoSteps DEF Init, TodoForm, Todo, Idle, Between
    <2>3. Init => StatusInv
        BY <2>2 DEF Init, StatusInv, AckedTold, ToldAcked, TellingTrue, Confirming
    <2> QED
        BY <2>1, <2>2, <2>3
<1>2. Inv /\ [Next]_vars => Inv'
    BY IngestNext, FormStays, AckedToldStays, ToldAckedStays, TellingTrueStays, ConfirmingStays
       DEF StatusInv
<1>3. Inv => StatusAgrees
    <2>1. AtRest => \A p \in Paths : \A id : ~Telling(p, id)
        BY NoSteps DEF AtRest, Busy, Todo, Telling
    <2> QED
        BY <2>1 DEF StatusAgrees, StatusInv, AckedTold, ToldAcked, HasAcked, Texts
<1> QED
    BY <1>1, <1>2, <1>3, PTL DEF Spec

-----------------------------------------------------------------------------
(* Signals *)

(* Where a reading of a station h in a bucket b may be. *)
Logs(h, b, n) == \E s \in signals : s.hop = h /\ Bucket(s.at) = b /\ s.n = n
Waits(h, b, n) == [hop |-> h, bucket |-> b, n |-> n] \in accum
Holds(h, b, n) == \E x \in buckets : x.hop = h /\ x.bucket = b /\ n \in x.of

Counting(p) == Todo(p) # <<>> /\ Heading(p) = "count"
Flushing(p) == Todo(p) # <<>> /\ Heading(p) = "flush"
Silent(p) == ~Counting(p) /\ ~Flushing(p)
Counts(p, h, b, n) == Counting(p) /\ Frame(p).hop = h /\ Bucket(At(p)) = b /\ Found(p) = n
Carries(p, h, b, n) == Flushing(p) /\ [hop |-> h, bucket |-> b, n |-> n] \in Found(p)

CountType ==
    /\ accum \subseteq [hop : Calls, bucket : Nat, n : Nat]
    /\ buckets \subseteq [hop : Calls, bucket : Nat, of : SUBSET Nat]
    /\ \A s \in signals : s.call \in Calls /\ s.hop \in Calls /\ s.at \in Nat /\ s.n \in Nat
    /\ \A p \in Paths : Counting(p) => Found(p) \in Nat
    /\ \A p \in Paths :
          Flushing(p) => Found(p) \subseteq [hop : {Frame(p).hop}, bucket : Nat, n : Nat]

(* Nothing is counted that was not logged. *)
OnlyLogged(h, b) ==
    \A n \in Nat :
        /\ Waits(h, b, n) \/ Holds(h, b, n) => Logs(h, b, n)
        /\ \A p \in Paths : Counts(p, h, b, n) \/ Carries(p, h, b, n) => Logs(h, b, n)

(* What was completed is carried to the table by one task, while a later   *)
(* bucket fills; nothing waits for it any more.                            *)
CarriedOnce(h, b) ==
    \A p \in Paths, n \in Nat : Carries(p, h, b, n) =>
        /\ \E c, m \in Nat : c > b /\ Waits(h, c, m)
        /\ \A m \in Nat : ~Waits(h, b, m)
        /\ \A q \in Paths, m \in Nat : Carries(q, h, b, m) => q = p

(* What was logged is about to be counted, or is where the others are.     *)
AllCounted(h, b) ==
    \A n \in Nat : Logs(h, b, n) =>
        \/ \E p \in Paths : Counts(p, h, b, n)
        \/ /\ (\E m \in Nat : Waits(h, b, m)) => Waits(h, b, n)
           /\ \A p \in Paths : (\E m \in Nat : Carries(p, h, b, m)) => Carries(p, h, b, n)
           /\ \/ \E m \in Nat : Waits(h, b, m) \/ \E p \in Paths : Carries(p, h, b, m)
              \/ Holds(h, b, n)

Counted(h, b) == OnlyLogged(h, b) /\ CarriedOnce(h, b) /\ AllCounted(h, b)
CountInv == CountType /\ \A h \in Calls \ torn, b \in Nat : Counted(h, b)

LEMMA BucketType ==
    ASSUME NEW t \in Nat PROVE Bucket(t) \in Nat
<1>1. BucketSpan \in Nat \ {0}
    BY IngestAssumption
<1>2. t \div BucketSpan \in Nat
    BY <1>1
<1> QED
    BY <1>1, <1>2 DEF Bucket

(* The buckets are in the order of their times. *)
LEMMA BucketOrder ==
    ASSUME NEW t \in Nat, NEW u \in Nat, t >= Bucket(u) PROVE Bucket(t) >= Bucket(u)
<1>1. PICK w \in Nat \ {0} : w = BucketSpan
    BY IngestAssumption
<1>2. PICK i \in Nat, j \in Nat : i = t \div w /\ j = u \div w
    BY <1>1
<1>3. t = w * i + (t % w) /\ t % w \in 0 .. w - 1
    BY <1>1, <1>2
<1>4. t < w * i + w
    BY <1>1, <1>2, <1>3
<1>5. t >= j * w
    BY <1>1, <1>2 DEF Bucket
<1>6. j <= i
    <2> SUFFICES ASSUME i + 1 <= j PROVE FALSE
        BY <1>2
    <2>1. (i + 1) * w <= j * w
        BY <1>1, <1>2
    <2>2. (i + 1) * w = w * i + w
        BY <1>1, <1>2
    <2> QED
        BY <1>1, <1>2, <1>4, <1>5, <2>1, <2>2
<1>7. j * w <= i * w
    BY <1>1, <1>2, <1>6
<1> QED
    BY <1>1, <1>2, <1>7 DEF Bucket

(* Which tasks a step concerns, and which it leaves as they were. *)
Quiet(q) ==
    \/ Same(q)
    \/ (Silent(q) \/ Fails(q)) /\ Silent(q)'

LEMMA SignalCases ==
    ASSUME IngestInv, TodoForm, [Next]_vars
    PROVE  \/ UNCHANGED <<signals, accum, buckets>> /\ \A q \in Paths : Quiet(q)
           \/ \E p \in Paths : Moves(p) /\ (LogSignal(p) \/ CountSignal(p) \/ FlushBuckets(p))
           \/ \E closed \in BOOLEAN : Restart(closed)
<1>0. DOMAIN task = Paths
    BY DEF IngestInv, TaskInv, TaskType
<1>1. ASSUME NEW q, task'[q] = task[q] PROVE Same(q)
    BY <1>1 DEF Same, Todo, Frame, At, Found
<1>2. ASSUME NEW e \in agenda.coming, Arrive(e[1], e[2])
      PROVE  UNCHANGED <<signals, accum, buckets>> /\ \A q \in Paths : Quiet(q)
    <2>0. PICK p \in Paths, f \in Frames : e = <<p, f>>
        BY DEF IngestInv, ClockType
    <2>1. Arrive(p, f)
        BY <1>2, <2>0
    <2>2. PICK t \in Stamps(p) :
              task' = [task EXCEPT ![p] = [frame |-> f, at |-> t, todo |-> Plan(f), found |-> None]]
        BY <2>1 DEF Arrive
    <2>3. \A q \in Paths : q # p => task'[q] = task[q]
        BY <1>0, <2>2
    <2>4. Todo(p)' = Plan(f) /\ Todo(p) = <<>>
        BY <1>0, <2>1, <2>2 DEF Arrive, Busy, Todo
    <2>5. Plan(f) # <<>> => Head(Plan(f)) # "count" /\ Head(Plan(f)) # "flush"
        <3>1. PICK s \in Steps : s = Plan(f)
            BY PlanOfFrame
        <3>2. s # <<>> => s[1] # "count" /\ s[1] # "flush"
            <4>1. s # <<>> => s[1] # "count" /\ (1 \in 1 .. Len(s) => s[1] \in Planned)
                BY <3>1, PlanForm DEF AllPlanned
            <4> QED
                BY <4>1 DEF Steps, Planned
        <3> QED
            BY <3>1, <3>2 DEF Steps
    <2>6. Quiet(p)
        BY <2>4, <2>5 DEF Quiet, Silent, Counting, Flushing, Heading
    <2>7. ASSUME NEW q \in Paths PROVE Quiet(q)
        <3>1. q # p => Same(q)
            BY <1>1, <2>3
        <3> QED
            BY <2>6, <3>1 DEF Quiet
    <2> QED
        BY <2>1, <2>7 DEF Arrive, memory, tables
<1>3. ASSUME NEW p \in Paths, Step(p)
      PROVE  /\ Moves(p)
             /\ \/ LogSignal(p) \/ CountSignal(p) \/ FlushBuckets(p)
                \/ UNCHANGED <<signals, accum, buckets>> /\ \A q \in Paths : Quiet(q)
    <2>1. PICK s \in Steps : \E found :
              Busy(p) /\ GoesOn(p, s, found) /\ GoesOnWell(p, s) /\ Drops(p, s)
        BY <1>3, StepGoes
    <2>2. PICK found : Busy(p) /\ GoesOn(p, s, found) /\ GoesOnWell(p, s) /\ Drops(p, s)
        BY <2>1
    <2>3. /\ Todo(p)' = s
          /\ s # <<>> => Frame(p)' = Frame(p) /\ At(p)' = At(p)
          /\ \A r \in Paths \ {p} : Same(r)
        BY <2>2, TaskGoesOn DEF Same
    <2>4. Moves(p)
        BY <1>3, <2>2, <2>3 DEF Moves
    <2>5. UNCHANGED <<signals, accum, buckets>> \/ LogSignal(p) \/ CountSignal(p) \/ FlushBuckets(p)
        BY <1>3 DEF Step, Claim, RefuseClaimed, Look, UpsertStation, Renew, InsertRow, MarkSent,
                    MarkAcked, Receipt, Tell, FindOriginal, Confirm, Recall, AddReading,
                    AmendReading, DropReading, UpsertWeather, Fails, memory, tables
    <2>6. ASSUME ~LogSignal(p), ~CountSignal(p), ~FlushBuckets(p) PROVE Quiet(p)
        <3>1. /\ Heading(p) = "count" => CountSignal(p)
              /\ \/ Fails(p)
                 \/ /\ Heading(p) = "log" => LogSignal(p)
                    /\ Heading(p) = "flush" => FlushBuckets(p)
              /\ Fails(p) => \/ Heading(p) = "receipt" /\ GoesOn(p, Rest(p), Found(p))
                             \/ Heading(p) # "receipt" /\ GoesOn(p, <<>>, Found(p))
            BY <1>3, HeadSteps, Zenon
        <3>2. s # <<>> /\ Head(s) = "flush" => In("flush", s)
            BY DEF Steps, In
        <3>3. s # <<>> /\ Head(s) = "count" => Heading(p) = "log"
            BY <2>2 DEF GoesOnWell, Steps
        <3>4. In("flush", s) => Heading(p) = "count"
            BY <2>2 DEF GoesOnWell
        <3>5. ASSUME Fails(p), s # <<>> PROVE Heading(p) # "log"
            <4>1. ASSUME Heading(p) = "log" PROVE FALSE
                <5>1. PICK n, found2 : n \in Steps /\ n = <<>> /\ found2 = Found(p)
                    BY EndGoesWell
                <5>2. GoesOn(p, n, found2)
                    BY <3>1, <3>5, <4>1, <5>1
                <5> QED
                    BY <2>2, <2>3, <3>5, <5>1, <5>2, TaskGoesOn
            <4> QED
                BY <4>1
        <3>6. ~(s # <<>> /\ Head(s) = "count") /\ ~(s # <<>> /\ Head(s) = "flush")
            BY <2>6, <3>1, <3>2, <3>3, <3>4, <3>5
        <3>7. Silent(p)'
            BY <2>3, <3>6 DEF Silent, Counting, Flushing, Heading
        <3>8. Silent(p) \/ Fails(p)
            BY <2>6, <3>1 DEF Silent, Counting, Flushing
        <3> QED
            BY <3>7, <3>8 DEF Quiet
    <2> QED
        <3>1. ASSUME NEW q \in Paths, Quiet(p) PROVE Quiet(q)
            BY <2>3, <3>1 DEF Quiet
        <3> QED
            BY <2>4, <2>5, <2>6, <3>1
<1>4. CASE (\E d \in Talks : DeleteTalk(d)) \/ Tick \/ UNCHANGED vars
    <2>1. task' = task /\ UNCHANGED <<signals, accum, buckets>>
        BY <1>4 DEF DeleteTalk, Tick, vars, memory, tables
    <2>2. ASSUME NEW q \in Paths PROVE Quiet(q)
        <3>1. Same(q)
            BY <1>1, <2>1
        <3> QED
            BY <3>1 DEF Quiet
    <2> QED
        BY <2>1, <2>2
<1> QED
    BY <1>2, <1>3, <1>4 DEF Next

(* A set of readings replaces what its buckets held (INSERT OR REPLACE). *)
LEMMA ReplacedHolds ==
    ASSUME CountType, NEW done \in SUBSET [hop : Calls, bucket : Nat, n : Nat]
    PROVE  /\ Replaced(done) \subseteq [hop : Calls, bucket : Nat, of : SUBSET Nat]
           /\ \A h \in Calls, b \in Nat, n \in Nat :
                 (\E x \in Replaced(done) : x.hop = h /\ x.bucket = b /\ n \in x.of) <=>
                     IF \E m \in Nat : [hop |-> h, bucket |-> b, n |-> m] \in done
                     THEN [hop |-> h, bucket |-> b, n |-> n] \in done
                     ELSE Holds(h, b, n)
<1> DEFINE Part(y) == {z \in done : z.hop = y.hop /\ z.bucket = y.bucket}
           AsRow(y) == [hop |-> y.hop, bucket |-> y.bucket, of |-> {z.n : z \in Part(y)}]
           Old == {x \in buckets : \A y \in done : <<x.hop, x.bucket>> # <<y.hop, y.bucket>>}
<1>1. Replaced(done) = Old \cup {AsRow(y) : y \in done}
    BY DEF Replaced, AsRows
<1>2. ASSUME NEW y \in done
      PROVE  /\ AsRow(y) \in [hop : Calls, bucket : Nat, of : SUBSET Nat]
             /\ AsRow(y).hop = y.hop /\ AsRow(y).bucket = y.bucket
             /\ \A n \in Nat : n \in AsRow(y).of <=> [hop |-> y.hop, bucket |-> y.bucket, n |-> n] \in done
    <2>1. y \in [hop : Calls, bucket : Nat, n : Nat]
        OBVIOUS
    <2>2. {z.n : z \in Part(y)} \subseteq Nat
        OBVIOUS
    <2>3. ASSUME NEW n \in Nat
          PROVE  n \in {z.n : z \in Part(y)} <=> [hop |-> y.hop, bucket |-> y.bucket, n |-> n] \in done
        <3>1. ASSUME NEW z \in Part(y), n = z.n
              PROVE  [hop |-> y.hop, bucket |-> y.bucket, n |-> n] \in done
            <4>1. z \in [hop : Calls, bucket : Nat, n : Nat] /\ z.hop = y.hop /\ z.bucket = y.bucket
                OBVIOUS
            <4>2. z = [hop |-> y.hop, bucket |-> y.bucket, n |-> n]
                BY <3>1, <4>1
            <4> QED
                BY <4>2
        <3>2. ASSUME [hop |-> y.hop, bucket |-> y.bucket, n |-> n] \in done
              PROVE  n \in {z.n : z \in Part(y)}
            BY <3>2
        <3> QED
            BY <3>1, <3>2
    <2> QED
        BY <2>1, <2>2, <2>3
<1>3. ASSUME NEW h \in Calls, NEW b \in Nat, NEW n \in Nat
      PROVE  (\E x \in Replaced(done) : x.hop = h /\ x.bucket = b /\ n \in x.of) <=>
                 IF \E m \in Nat : [hop |-> h, bucket |-> b, n |-> m] \in done
                 THEN [hop |-> h, bucket |-> b, n |-> n] \in done
                 ELSE Holds(h, b, n)
    <2> HIDE DEF AsRow
    <2>1. ASSUME NEW m \in Nat, [hop |-> h, bucket |-> b, n |-> m] \in done
          PROVE  (\E x \in Replaced(done) : x.hop = h /\ x.bucket = b /\ n \in x.of) <=>
                     [hop |-> h, bucket |-> b, n |-> n] \in done
        <3>1. PICK y \in done : y.hop = h /\ y.bucket = b
            BY <2>1
        <3>2. ~ \E x \in Old : x.hop = h /\ x.bucket = b
            BY <3>1
        <3>3. \A x : x \in Replaced(done) /\ x.hop = h /\ x.bucket = b =>
                        \E z \in done : x = AsRow(z) /\ z.hop = h /\ z.bucket = b
            BY <1>1, <1>2, <3>2
        <3> QED
            BY <1>1, <1>2, <3>1, <3>3
    <2>2. ASSUME ~ \E m \in Nat : [hop |-> h, bucket |-> b, n |-> m] \in done
          PROVE  (\E x \in Replaced(done) : x.hop = h /\ x.bucket = b /\ n \in x.of) <=> Holds(h, b, n)
        <3>1. \A y \in done : ~(y.hop = h /\ y.bucket = b)
            <4>1. ASSUME NEW y \in done, y.hop = h, y.bucket = b PROVE FALSE
                <5>1. y \in [hop : Calls, bucket : Nat, n : Nat]
                    OBVIOUS
                <5>2. y = [hop |-> h, bucket |-> b, n |-> y.n] /\ y.n \in Nat
                    BY <4>1, <5>1
                <5> QED
                    BY <2>2, <5>2
            <4> QED
                BY <4>1
        <3>2. \A x : x \in Replaced(done) /\ x.hop = h /\ x.bucket = b <=>
                         x \in buckets /\ x.hop = h /\ x.bucket = b
            BY <1>1, <1>2, <3>1
        <3> QED
            BY <3>2 DEF Holds
    <2> QED
        BY <2>1, <2>2
<1>4. Replaced(done) \subseteq [hop : Calls, bucket : Nat, of : SUBSET Nat]
    <2> HIDE DEF AsRow
    <2> QED
        BY <1>1, <1>2 DEF CountType
<1> QED
    BY <1>3, <1>4

LEMMA LogEffect ==
    ASSUME IngestInv, TodoForm, NEW p \in Paths, Moves(p), LogSignal(p)
    PROVE  /\ Silent(p) /\ Counting(p)' /\ ~Flushing(p)'
           /\ Frame(p)' = Frame(p) /\ At(p)' = At(p) /\ Found(p)' = next
<1>1. Busy(p) /\ Heading(p) = "log" /\ GoesOn(p, Rest(p), next)
    BY DEF LogSignal, Does, Heading, Todo
<1>2. Todo(p) \in Steps /\ Todo(p) # <<>> /\ Form(Todo(p)) /\ Rest(p) = Tail(Todo(p)) /\ Rest(p) \in Steps
    BY <1>1, RestOfTask
<1>3. Rest(p) # <<>> /\ Head(Rest(p)) = "count"
    <2>1. PICK s \in Seq(StepNames) : s = Todo(p) /\ s # <<>> /\ s[1] = "log" /\ Form(s)
        BY <1>1, <1>2 DEF Steps, Heading
    <2>2. 1 < Len(s) /\ s[2] = "count"
        BY <2>1 DEF Form
    <2>3. Tail(s) # <<>> /\ Head(Tail(s)) = s[2]
        BY <2>1, <2>2
    <2> QED
        BY <1>2, <2>1, <2>2, <2>3
<1>4. PICK s, n : s \in Steps /\ s = Rest(p) /\ n = next
    BY <1>2
<1>5. Todo(p)' = s /\ Frame(p)' = Frame(p) /\ At(p)' = At(p) /\ Found(p)' = n
    <2>1. GoesOn(p, s, n)
        BY <1>1, <1>4
    <2> QED
        BY <1>1, <1>3, <1>4, <2>1, TaskGoesOn
<1> QED
    BY <1>1, <1>3, <1>4, <1>5 DEF Silent, Counting, Flushing, Heading

LEMMA CountEffect ==
    ASSUME IngestInv, TodoForm, CountType, NEW p \in Paths, Moves(p), CountSignal(p),
           NEW hop \in Calls, hop = Frame(p).hop, NEW start \in Nat, start = Bucket(At(p)),
           NEW new \in Nat, new = Found(p)
    PROVE  /\ Counting(p) /\ ~Flushing(p) /\ ~Counting(p)'
           /\ Flushing(p)' =>
                  Found(p)' \subseteq [hop : {hop}, bucket : Nat, n : Nat] /\ Frame(p)' = Frame(p)
           /\ accum' \subseteq [hop : Calls, bucket : Nat, n : Nat]
           /\ \A h \in Calls, b \in Nat, n \in Nat :
                 /\ Carries(p, h, b, n)' <=> h = hop /\ b < start /\ Waits(h, b, n)
                 /\ Waits(h, b, n)' <=>
                        \/ Waits(h, b, n) /\ ~(h = hop /\ b < start)
                        \/ h = hop /\ b = start /\ n = new
           /\ hop \notin torn' =>
                 /\ \A x \in accum \cup buckets : x.hop = hop => x.bucket <= start
                 /\ (\E n \in Nat : Holds(hop, start, n)) => \E n \in Nat : Waits(hop, start, n)
<1> DEFINE all == accum \cup {[hop |-> hop, bucket |-> start, n |-> new]}
           done == Completed(all, hop, start)
           late == \/ \E x \in accum \cup buckets : x.hop = hop /\ x.bucket > start
                   \/ /\ \E x \in buckets : x.hop = hop /\ x.bucket = start
                      /\ \A x \in accum : x.hop = hop => x.bucket # start
<1>1. /\ Does(p, "count") /\ accum' = all \ done
      /\ torn' = IF late THEN torn \cup {hop} ELSE torn
      /\ IF done = {} THEN GoesOn(p, Rest(p), None) ELSE GoesOn(p, <<"flush">> \o Rest(p), done)
    BY DEF CountSignal, Finishes
<1>2. Busy(p) /\ Heading(p) = "count"
    BY <1>1 DEF Does, Heading, Todo
<1>3. /\ all \subseteq [hop : Calls, bucket : Nat, n : Nat]
      /\ done = {x \in all : x.hop = hop /\ x.bucket < start}
    BY DEF CountType, Completed
<1>4. done \subseteq [hop : {hop}, bucket : Nat, n : Nat]
    BY <1>3
<1>5. /\ \A h \in Calls, b \in Nat, n \in Nat :
            /\ [hop |-> h, bucket |-> b, n |-> n] \in done <=> h = hop /\ b < start /\ Waits(h, b, n)
            /\ Waits(h, b, n)' <=>
                   \/ Waits(h, b, n) /\ ~(h = hop /\ b < start)
                   \/ h = hop /\ b = start /\ n = new
    <2> SUFFICES ASSUME NEW h \in Calls, NEW b \in Nat, NEW n \in Nat
                 PROVE  /\ [hop |-> h, bucket |-> b, n |-> n] \in done
                               <=> h = hop /\ b < start /\ Waits(h, b, n)
                        /\ Waits(h, b, n)' <=>
                               \/ Waits(h, b, n) /\ ~(h = hop /\ b < start)
                               \/ h = hop /\ b = start /\ n = new
        OBVIOUS
    <2>1. PICK r : r = [hop |-> h, bucket |-> b, n |-> n]
        OBVIOUS
    <2>2. /\ r.hop = h /\ r.bucket = b
          /\ r \in all <=> r \in accum \/ (h = hop /\ b = start /\ n = new)
        BY <2>1
    <2>3. r \in done <=> r \in all /\ h = hop /\ b < start
        BY <1>3, <2>2
    <2>4. r \in accum' <=> r \in all /\ ~(h = hop /\ b < start)
        BY <1>1, <2>3
    <2>5. ~(start < start)
        OBVIOUS
    <2> QED
        BY <2>1, <2>2, <2>3, <2>4, <2>5 DEF Waits
<1>6. accum' \subseteq [hop : Calls, bucket : Nat, n : Nat]
    BY <1>1, <1>3
<1>7. hop \notin torn' =>
          /\ \A x \in accum \cup buckets : x.hop = hop => x.bucket <= start
          /\ (\E n \in Nat : Holds(hop, start, n)) => \E n \in Nat : Waits(hop, start, n)
    <2> SUFFICES ASSUME hop \notin torn'
                 PROVE  /\ \A x \in accum \cup buckets : x.hop = hop => x.bucket <= start
                        /\ (\E n \in Nat : Holds(hop, start, n)) => \E n \in Nat : Waits(hop, start, n)
        OBVIOUS
    <2>1. ~late
        BY <1>1
    <2>2. \A x \in accum \cup buckets : x.bucket \in Nat
        BY DEF CountType
    <2>3. ASSUME NEW x \in accum, x.hop = hop, x.bucket = start PROVE \E n \in Nat : Waits(hop, start, n)
        <3>1. x \in [hop : Calls, bucket : Nat, n : Nat]
            BY DEF CountType
        <3>2. x = [hop |-> hop, bucket |-> start, n |-> x.n] /\ x.n \in Nat
            BY <2>3, <3>1
        <3> QED
            BY <3>2 DEF Waits
    <2> QED
        BY <2>1, <2>2, <2>3 DEF Holds
<1> HIDE DEF all, done, late
<1>8. PICK readings : readings = done
    OBVIOUS
<1>9. /\ Rest(p) \in Steps /\ <<"flush">> \o Rest(p) \in Steps
      /\ Rest(p) # <<>> => Head(Rest(p)) # "count" /\ Head(Rest(p)) # "flush"
    <2>1. GoesOnWell(p, Rest(p)) /\ Rest(p) \in Steps
        BY <1>2, RestGoesWell
    <2>2. Rest(p) # <<>> => Rest(p)[1] # "count"
        BY <1>2, <2>1 DEF GoesOnWell
    <2>3. \A x : In(x, Rest(p)) => x \in Planned
        BY <1>2, RestOfTask DEF Planned
    <2>4. Rest(p) # <<>> => Rest(p)[1] # "flush"
        <3>1. Rest(p) # <<>> => In(Rest(p)[1], Rest(p))
            BY <2>1 DEF In, Steps
        <3> QED
            BY <2>3, <3>1 DEF Planned
    <2>5. <<"flush">> \o Rest(p) \in Steps
        <3>1. <<"flush">> \in Leads
            BY DEF Leads
        <3> QED
            BY <1>2, <3>1, RestOfTask DEF Planned
    <2> QED
        BY <2>1, <2>2, <2>4, <2>5 DEF Steps
<1>10. CASE done = {}
    <2>1. PICK s, found : s \in Steps /\ s = Rest(p) /\ found = None
        BY <1>9
    <2>2. Todo(p)' = s
        <3>1. GoesOn(p, s, found)
            BY <1>1, <1>10, <2>1
        <3> QED
            BY <1>2, <2>1, <3>1, TaskGoesOn
    <2>3. Silent(p)'
        BY <1>9, <2>1, <2>2 DEF Silent, Counting, Flushing, Heading
    <2>4. \A h \in Calls, b \in Nat, n \in Nat : ~Carries(p, h, b, n)'
        BY <2>3 DEF Carries, Silent
    <2>5. \A h \in Calls, b \in Nat, n \in Nat : ~(h = hop /\ b < start /\ Waits(h, b, n))
        BY <1>5, <1>10
    <2>6. Counting(p) /\ ~Flushing(p) /\ ~Counting(p)' /\ ~Flushing(p)'
        BY <1>2, <2>3, RestOfTask DEF Silent, Counting, Flushing
    <2> QED
        BY <1>5, <1>6, <1>7, <2>4, <2>5, <2>6, Zenon
<1>11. CASE done # {}
    <2>1. PICK s, found : s \in Steps /\ s = <<"flush">> \o Rest(p) /\ found = done
        BY <1>9
    <2>2. s # <<>> /\ Head(s) = "flush"
        <3>1. PICK r \in Seq(StepNames) : r = Rest(p)
            BY <1>9 DEF Steps
        <3> QED
            BY <2>1, <3>1
    <2>3. Todo(p)' = s /\ Frame(p)' = Frame(p) /\ Found(p)' = found
        <3>1. GoesOn(p, s, found)
            BY <1>1, <1>11, <2>1
        <3> QED
            BY <1>2, <2>1, <2>2, <3>1, TaskGoesOn
    <2>4. Flushing(p)' /\ ~Counting(p)'
        BY <2>2, <2>3 DEF Counting, Flushing, Heading
    <2>5. \A h \in Calls, b \in Nat, n \in Nat :
              Carries(p, h, b, n)' <=> [hop |-> h, bucket |-> b, n |-> n] \in found
        BY <2>3, <2>4 DEF Carries
    <2>6. \A h \in Calls, b \in Nat, n \in Nat :
              Carries(p, h, b, n)' <=> h = hop /\ b < start /\ Waits(h, b, n)
        BY <1>5, <2>1, <2>5
    <2>7. Counting(p) /\ ~Flushing(p)
        BY <1>2, RestOfTask DEF Counting, Flushing
    <2>8. Found(p)' \subseteq [hop : {hop}, bucket : Nat, n : Nat]
        BY <1>4, <2>1, <2>3
    <2> QED
        BY <1>5, <1>6, <1>7, <2>3, <2>4, <2>6, <2>7, <2>8, Zenon
<1> QED
    BY <1>10, <1>11

LEMMA FlushEffect ==
    ASSUME IngestInv, TodoForm, CountType, NEW p \in Paths, Moves(p), FlushBuckets(p)
    PROVE  /\ Flushing(p) /\ ~Counting(p) /\ Silent(p)'
           /\ buckets' \subseteq [hop : Calls, bucket : Nat, of : SUBSET Nat]
           /\ \A h \in Calls, b \in Nat, n \in Nat :
                 Holds(h, b, n)' <=> IF \E m \in Nat : Carries(p, h, b, m)
                                     THEN Carries(p, h, b, n) ELSE Holds(h, b, n)
<1>1. /\ Does(p, "flush") /\ buckets' = Replaced(Found(p)) /\ GoesOn(p, Rest(p), None)
    BY DEF FlushBuckets, Finishes
<1>2. Busy(p) /\ Heading(p) = "flush"
    BY <1>1 DEF Does, Heading, Todo
<1>3. Flushing(p) /\ ~Counting(p)
    BY <1>2, RestOfTask DEF Counting, Flushing
<1>4. PICK done \in SUBSET [hop : Calls, bucket : Nat, n : Nat] : done = Found(p)
    <2>1. Frame(p).hop \in Calls
        BY <1>2, FrameOfStep
    <2> QED
        BY <1>3, <2>1 DEF CountType
<1>5. Silent(p)'
    <2>1. Rest(p) \in Steps /\ GoesOnWell(p, Rest(p)) /\ Form(Rest(p))
        BY <1>2, RestGoesWell DEF GoesOnWell
    <2>2. PICK s, found : s \in Steps /\ s = Rest(p) /\ found = None
        BY <2>1
    <2>3. Todo(p)' = s
        <3>1. GoesOn(p, s, found)
            BY <1>1, <2>2
        <3> QED
            BY <1>2, <2>2, <3>1, TaskGoesOn
    <2>4. s # <<>> => s[1] # "count" /\ In(s[1], s) /\ ~In("flush", s)
        BY <1>2, <2>1, <2>2 DEF GoesOnWell, In, Steps
    <2>5. s # <<>> => Head(s) = s[1]
        BY <2>2 DEF Steps
    <2> QED
        BY <2>3, <2>4, <2>5 DEF Silent, Counting, Flushing, Heading
<1>6. buckets' = Replaced(done)
    BY <1>1, <1>4
<1>7. /\ Replaced(done) \subseteq [hop : Calls, bucket : Nat, of : SUBSET Nat]
      /\ \A h \in Calls, b \in Nat, n \in Nat :
            (\E x \in Replaced(done) : x.hop = h /\ x.bucket = b /\ n \in x.of) <=>
                IF \E m \in Nat : [hop |-> h, bucket |-> b, n |-> m] \in done
                THEN [hop |-> h, bucket |-> b, n |-> n] \in done
                ELSE Holds(h, b, n)
    BY ReplacedHolds
<1>8. \A h, b, n : Carries(p, h, b, n) <=> [hop |-> h, bucket |-> b, n |-> n] \in done
    BY <1>3, <1>4 DEF Carries
<1>9. ASSUME NEW h \in Calls, NEW b \in Nat, NEW n \in Nat
      PROVE  Holds(h, b, n)' <=> IF \E m \in Nat : Carries(p, h, b, m)
                                 THEN Carries(p, h, b, n) ELSE Holds(h, b, n)
    <2>1. Holds(h, b, n)' <=> \E x \in Replaced(done) : x.hop = h /\ x.bucket = b /\ n \in x.of
        BY <1>6 DEF Holds
    <2>2. Holds(h, b, n)' <=> IF \E m \in Nat : [hop |-> h, bucket |-> b, n |-> m] \in done
                              THEN [hop |-> h, bucket |-> b, n |-> n] \in done
                              ELSE Holds(h, b, n)
        BY <1>7, <2>1
    <2>3. (\E m \in Nat : [hop |-> h, bucket |-> b, n |-> m] \in done) <=> \E m \in Nat : Carries(p, h, b, m)
        BY <1>8, Zenon
    <2>4. [hop |-> h, bucket |-> b, n |-> n] \in done <=> Carries(p, h, b, n)
        BY <1>8, Zenon
    <2> QED
        BY <2>2, <2>3, <2>4, Zenon
<1> QED
    BY <1>3, <1>5, <1>6, <1>7, <1>9

(* After a start nothing is under way; what the memory had is either there *)
(* again, or has been averaged, or its station is in torn.                 *)
LEMMA RestartEffect ==
    ASSUME IngestInv, CountType, NEW closed \in BOOLEAN, Restart(closed)
    PROVE  /\ \A p \in Paths : Silent(p)'
           /\ signals' = signals /\ torn \subseteq torn'
           /\ accum' \subseteq [hop : Calls, bucket : Nat, n : Nat]
           /\ buckets' \subseteq [hop : Calls, bucket : Nat, of : SUBSET Nat]
           /\ \A h \in Calls, b \in Nat, n \in Nat :
                 /\ Holds(h, b, n)' <=> IF closed /\ \E m \in Nat : Waits(h, b, m)
                                        THEN Waits(h, b, n) ELSE Holds(h, b, n)
                 /\ h \notin torn' =>
                        /\ \A p \in Paths : ~Counts(p, h, b, n) /\ ~Carries(p, h, b, n)
                        /\ Waits(h, b, n)' => Waits(h, b, n) /\ b >= Bucket(now)
                        /\ Waits(h, b, n) => Waits(h, b, n)' \/ (closed /\ b < Bucket(now))
<1> DEFINE busy == {p \in Paths : Busy(p)}
           kept == {x \in accum : closed /\ x.bucket < Bucket(now)}
           lost == (accum \ (Reloaded \cup kept)) \cup (Reloaded \ accum)
<1>1. /\ buckets' = IF closed THEN Replaced(accum) ELSE buckets
      /\ accum' = Reloaded /\ signals' = signals
      /\ task' = [p \in Paths |-> Idle]
      /\ torn' = torn \cup BrokenCalls(busy) \cup {x.hop : x \in lost}
    BY DEF Restart
<1>2. \A p \in Paths : Silent(p)'
    BY <1>1 DEF Silent, Counting, Flushing, Todo, Idle
<1>3. PICK start \in Nat : start = Bucket(now)
    BY BucketType DEF IngestInv, ClockType
<1>4. /\ Reloaded \subseteq [hop : Calls, bucket : Nat, n : Nat]
      /\ \A x \in Reloaded : x.bucket >= start
    <2>1. ASSUME NEW x \in Reloaded PROVE x \in [hop : Calls, bucket : Nat, n : Nat] /\ x.bucket >= start
        <3>1. PICK s \in signals :
                  s.at >= Bucket(now) /\ x = [hop |-> s.call, bucket |-> Bucket(s.at), n |-> s.n]
            BY DEF Reloaded
        <3>2. s.call \in Calls /\ s.at \in Nat /\ s.n \in Nat /\ now \in Nat
            BY DEF CountType, IngestInv, ClockType
        <3>3. PICK t, b : t \in Nat /\ t = s.at /\ b = Bucket(t)
            BY <3>2
        <3>4. b \in Nat /\ b >= Bucket(now)
            BY <3>1, <3>2, <3>3, BucketType, BucketOrder
        <3> QED
            BY <1>3, <3>1, <3>2, <3>3, <3>4
    <2> QED
        BY <2>1
<1>5. accum \in SUBSET [hop : Calls, bucket : Nat, n : Nat]
    BY DEF CountType
<1>6. /\ buckets' \subseteq [hop : Calls, bucket : Nat, of : SUBSET Nat]
      /\ \A h \in Calls, b \in Nat, n \in Nat :
            Holds(h, b, n)' <=> IF closed /\ \E m \in Nat : Waits(h, b, m)
                                THEN Waits(h, b, n) ELSE Holds(h, b, n)
    <2>1. CASE closed
        <3>1. buckets' = Replaced(accum)
            BY <1>1, <2>1
        <3> QED
            BY <1>5, <2>1, <3>1, ReplacedHolds DEF Holds, Waits
    <2>2. CASE ~closed
        BY <1>1, <2>2 DEF Holds, CountType
    <2> QED
        BY <2>1, <2>2
<1>7. ASSUME NEW h \in Calls, NEW b \in Nat, NEW n \in Nat, h \notin torn'
      PROVE  /\ \A p \in Paths : ~Counts(p, h, b, n) /\ ~Carries(p, h, b, n)
             /\ Waits(h, b, n)' => Waits(h, b, n) /\ b >= start
             /\ Waits(h, b, n) => Waits(h, b, n)' \/ (closed /\ b < start)
    <2>1. ASSUME NEW p \in Paths, Todo(p) # <<>> PROVE Frame(p).hop # h
        <3>1. p \in busy
            BY <2>1 DEF Todo, Busy
        <3> QED
            BY <1>1, <1>7, <3>1 DEF BrokenCalls
    <2>2. ASSUME NEW p \in Paths PROVE ~Counts(p, h, b, n) /\ ~Carries(p, h, b, n)
        <3>1. ASSUME Carries(p, h, b, n) PROVE Frame(p).hop = h
            <4>1. Found(p) \subseteq [hop : {Frame(p).hop}, bucket : Nat, n : Nat]
                BY <3>1 DEF Carries, CountType
            <4>2. [hop |-> h, bucket |-> b, n |-> n] \in [hop : {Frame(p).hop}, bucket : Nat, n : Nat]
                BY <3>1, <4>1 DEF Carries
            <4> QED
                BY <4>2
        <3> QED
            BY <2>1, <3>1 DEF Counts, Carries, Counting, Flushing
    <2>3. PICK r : r = [hop |-> h, bucket |-> b, n |-> n]
        OBVIOUS
    <2>4. r.hop = h /\ r.bucket = b
        BY <2>3
    <2>5. r \notin lost
        BY <1>1, <1>7, <2>4
    <2>6. r \in Reloaded => r \in accum /\ b >= start
        BY <1>4, <2>4, <2>5
    <2>7. r \in accum => r \in Reloaded \/ (closed /\ b < start)
        BY <1>3, <2>4, <2>5
    <2> QED
        BY <1>1, <2>2, <2>3, <2>6, <2>7 DEF Waits
<1> QED
    BY <1>1, <1>2, <1>3, <1>4, <1>6, <1>7

LEMMA CountTypeStays ==
    ASSUME IngestInv, TodoForm, CountType, [Next]_vars PROVE CountType'
<1>1. ASSUME UNCHANGED <<signals, accum, buckets>>, \A q \in Paths : Quiet(q) PROVE CountType'
    <2>1. ASSUME NEW q \in Paths
          PROVE  /\ Counting(q)' => Found(q)' \in Nat
                 /\ Flushing(q)' => Found(q)' \subseteq [hop : {Frame(q)'.hop}, bucket : Nat, n : Nat]
        <3>1. Quiet(q)
            BY <1>1
        <3>2. CASE Silent(q)'
            BY <3>2 DEF Silent
        <3>3. CASE Same(q)
            BY <3>3 DEF Same, CountType, Counting, Flushing, Heading
        <3> QED
            BY <3>1, <3>2, <3>3 DEF Quiet
    <2> QED
        BY <1>1, <2>1 DEF CountType
<1>2. ASSUME NEW p \in Paths, Moves(p)
      PROVE  \A q \in Paths \ {p} :
                 /\ Counting(q)' => Found(q)' \in Nat
                 /\ Flushing(q)' => Found(q)' \subseteq [hop : {Frame(q)'.hop}, bucket : Nat, n : Nat]
    <2>1. ASSUME NEW q \in Paths \ {p}
          PROVE  /\ Counting(q)' => Found(q)' \in Nat
                 /\ Flushing(q)' => Found(q)' \subseteq [hop : {Frame(q)'.hop}, bucket : Nat, n : Nat]
        <3>1. Same(q)
            BY <1>2 DEF Moves
        <3> QED
            BY <3>1 DEF Same, CountType, Counting, Flushing, Heading
    <2> QED
        BY <2>1
<1>3. ASSUME NEW p \in Paths, Moves(p), LogSignal(p) PROVE CountType'
    <2>1. /\ signals' = signals \cup {[call |-> Frame(p).src, hop |-> Frame(p).hop, at |-> At(p), n |-> next]}
          /\ accum' = accum /\ buckets' = buckets /\ Busy(p)
        BY <1>3 DEF LogSignal, memory, Does
    <2>2. next \in Nat
        BY DEF IngestInv, ClockType
    <2>3. \A s \in signals' : s.call \in Calls /\ s.hop \in Calls /\ s.at \in Nat /\ s.n \in Nat
        BY <2>1, <2>2, FrameOfStep DEF CountType
    <2>4. ~Flushing(p)' /\ Found(p)' \in Nat
        BY <1>3, <2>2, LogEffect
    <2> QED
        BY <1>2, <1>3, <2>1, <2>3, <2>4 DEF CountType
<1>4. ASSUME NEW p \in Paths, Moves(p), CountSignal(p) PROVE CountType'
    <2>1. Busy(p) /\ Heading(p) = "count" /\ signals' = signals /\ buckets' = buckets
        BY <1>4 DEF CountSignal, Does, Heading, Todo, tables
    <2>2. Found(p) \in Nat
        BY <2>1, RestOfTask DEF CountType, Counting
    <2>3. PICK hop \in Calls, time \in Nat : hop = Frame(p).hop /\ time = At(p)
        BY <2>1, FrameOfStep
    <2>4. PICK start \in Nat, new \in Nat : start = Bucket(At(p)) /\ new = Found(p)
        BY <2>2, <2>3, BucketType
    <2>5. /\ ~Counting(p)' /\ accum' \subseteq [hop : Calls, bucket : Nat, n : Nat]
          /\ Flushing(p)' =>
                Found(p)' \subseteq [hop : {hop}, bucket : Nat, n : Nat] /\ Frame(p)' = Frame(p)
        BY <1>4, <2>3, <2>4, CountEffect
    <2> QED
        BY <1>2, <1>4, <2>1, <2>3, <2>5 DEF CountType
<1>5. ASSUME NEW p \in Paths, Moves(p), FlushBuckets(p) PROVE CountType'
    <2>1. signals' = signals /\ accum' = accum
        BY <1>5 DEF FlushBuckets, memory
    <2>2. Silent(p)' /\ buckets' \subseteq [hop : Calls, bucket : Nat, of : SUBSET Nat]
        BY <1>5, FlushEffect
    <2> QED
        BY <1>2, <1>5, <2>1, <2>2 DEF CountType, Silent
<1>6. ASSUME NEW closed \in BOOLEAN, Restart(closed) PROVE CountType'
    <2>1. /\ \A p \in Paths : Silent(p)'
          /\ signals' = signals
          /\ accum' \subseteq [hop : Calls, bucket : Nat, n : Nat]
          /\ buckets' \subseteq [hop : Calls, bucket : Nat, of : SUBSET Nat]
        BY <1>6, RestartEffect
    <2> QED
        BY <2>1 DEF CountType, Silent
<1> QED
    BY <1>1, <1>3, <1>4, <1>5, <1>6, SignalCases

LEMMA SameCounts ==
    ASSUME NEW q \in Paths, Same(q), NEW h, NEW b, NEW n
    PROVE  (Counts(q, h, b, n)' <=> Counts(q, h, b, n)) /\ (Carries(q, h, b, n)' <=> Carries(q, h, b, n))
BY DEF Same, Counts, Carries, Counting, Flushing, Heading

LEMMA CarriesOwn ==
    ASSUME CountType, NEW p \in Paths, NEW h, NEW b, NEW n, Carries(p, h, b, n)
    PROVE  h = Frame(p).hop /\ b \in Nat /\ n \in Nat
<1>1. [hop |-> h, bucket |-> b, n |-> n] \in [hop : {Frame(p).hop}, bucket : Nat, n : Nat]
    BY DEF Carries, CountType
<1>2. PICK r : r = [hop |-> h, bucket |-> b, n |-> n]
    OBVIOUS
<1>3. r.hop = h /\ r.bucket = b /\ r.n = n
    BY <1>2
<1> QED
    BY <1>1, <1>2, <1>3

(* A step that has nothing to do with signals. *)
LEMMA QuietCounts ==
    ASSUME IngestInv, CountType, NEW q \in Paths, Quiet(q), NEW h \in Calls \ torn', NEW b \in Nat,
           NEW n \in Nat
    PROVE  (Counts(q, h, b, n)' <=> Counts(q, h, b, n)) /\ (Carries(q, h, b, n)' <=> Carries(q, h, b, n))
<1>1. CASE Same(q)
    BY <1>1, SameCounts
<1>2. ASSUME Silent(q) \/ Fails(q), Silent(q)'
      PROVE  (Counts(q, h, b, n)' <=> Counts(q, h, b, n)) /\ (Carries(q, h, b, n)' <=> Carries(q, h, b, n))
    <2>1. ~Counts(q, h, b, n)' /\ ~Carries(q, h, b, n)'
        BY <1>2 DEF Silent, Counts, Carries
    <2>2. Silent(q) => ~Counts(q, h, b, n) /\ ~Carries(q, h, b, n)
        BY DEF Silent, Counts, Carries
    <2>3. ASSUME Fails(q) PROVE ~Counts(q, h, b, n) /\ ~Carries(q, h, b, n)
        <3>1. Heading(q) # "count" /\ Frame(q).hop \in torn'
            BY <2>3 DEF Fails, Heading, Todo, BrokenCalls
        <3> QED
            BY <3>1, CarriesOwn DEF Counts, Counting
    <2> QED
        BY <1>2, <2>1, <2>2, <2>3
<1> QED
    BY <1>1, <1>2 DEF Quiet

(* Nothing changes for a bucket about which nothing changes. *)
LEMMA CountedStill ==
    ASSUME NEW h \in Calls, NEW b \in Nat, Counted(h, b),
           \A n \in Nat : Logs(h, b, n)' <=> Logs(h, b, n),
           \A n \in Nat : Waits(h, b, n)' <=> Waits(h, b, n),
           (\E c, m \in Nat : c > b /\ Waits(h, c, m)) => \E c, m \in Nat : c > b /\ Waits(h, c, m)',
           \A n \in Nat : Holds(h, b, n)' <=> Holds(h, b, n),
           \A p \in Paths, n \in Nat : /\ Counts(p, h, b, n)' <=> Counts(p, h, b, n)
                                       /\ Carries(p, h, b, n)' <=> Carries(p, h, b, n)
    PROVE  Counted(h, b)'
<1>1. OnlyLogged(h, b)'
    <2> SUFFICES ASSUME NEW n \in Nat
                 PROVE  /\ Waits(h, b, n)' \/ Holds(h, b, n)' => Logs(h, b, n)'
                        /\ \A p \in Paths : Counts(p, h, b, n)' \/ Carries(p, h, b, n)' =>
                               Logs(h, b, n)'
        BY DEF OnlyLogged
    <2> QED
        BY DEF Counted, OnlyLogged
<1>2. CarriedOnce(h, b)'
    <2> SUFFICES ASSUME NEW p \in Paths, NEW n \in Nat, Carries(p, h, b, n)'
                 PROVE  /\ \E c, m \in Nat : c > b /\ Waits(h, c, m)'
                        /\ \A m \in Nat : ~Waits(h, b, m)'
                        /\ \A q \in Paths, m \in Nat : Carries(q, h, b, m)' => q = p
        BY DEF CarriedOnce
    <2> QED
        BY DEF Counted, CarriedOnce
<1>3. AllCounted(h, b)'
    <2> SUFFICES ASSUME NEW n \in Nat, Logs(h, b, n)'
                 PROVE  \/ \E p \in Paths : Counts(p, h, b, n)'
                        \/ /\ (\E m \in Nat : Waits(h, b, m)') => Waits(h, b, n)'
                           /\ \A p \in Paths : (\E m \in Nat : Carries(p, h, b, m)') =>
                                  Carries(p, h, b, n)'
                           /\ \/ \E m \in Nat : Waits(h, b, m)' \/ \E p \in Paths : Carries(p, h, b, m)'
                              \/ Holds(h, b, n)'
        BY DEF AllCounted
    <2> QED
        BY DEF Counted, AllCounted
<1> QED
    BY <1>1, <1>2, <1>3 DEF Counted

LEMMA LogCounted ==
    ASSUME IngestInv, TodoForm, CountType, NEW p \in Paths, Moves(p), LogSignal(p),
           NEW h \in Calls, NEW b \in Nat, Counted(h, b)
    PROVE  Counted(h, b)'
<1>1. /\ signals' = signals \cup {[call |-> Frame(p).src, hop |-> Frame(p).hop, at |-> At(p), n |-> next]}
      /\ accum' = accum /\ buckets' = buckets
    BY DEF LogSignal, memory
<1>2. PICK hop, start, new : hop = Frame(p).hop /\ start = Bucket(At(p)) /\ new = next
    OBVIOUS
<1>3. \A n \in Nat : Logs(h, b, n)' <=> Logs(h, b, n) \/ (h = hop /\ b = start /\ n = new)
    <2>1. PICK s : s = [call |-> Frame(p).src, hop |-> Frame(p).hop, at |-> At(p), n |-> next]
        OBVIOUS
    <2>2. s.hop = hop /\ Bucket(s.at) = start /\ s.n = new
        BY <1>2, <2>1
    <2>3. signals' = signals \cup {s}
        BY <1>1, <2>1
    <2> QED
        BY <2>2, <2>3 DEF Logs
<1>4. \A n \in Nat : (Waits(h, b, n)' <=> Waits(h, b, n)) /\ (Holds(h, b, n)' <=> Holds(h, b, n))
    BY <1>1 DEF Waits, Holds
<1>5. \A c, n \in Nat : Waits(h, c, n)' <=> Waits(h, c, n)
    BY <1>1 DEF Waits
<1>6. \A n \in Nat : /\ ~Counts(p, h, b, n) /\ ~Carries(p, h, b, n) /\ ~Carries(p, h, b, n)'
                     /\ Counts(p, h, b, n)' <=> h = hop /\ b = start /\ n = new
    <2>1. /\ Silent(p) /\ Counting(p)' /\ ~Flushing(p)'
          /\ Frame(p)' = Frame(p) /\ At(p)' = At(p) /\ Found(p)' = next
        BY LogEffect
    <2>2. Bucket(At(p))' = Bucket(At(p))
        BY <2>1 DEF Bucket
    <2> QED
        BY <1>2, <2>1, <2>2 DEF Silent, Counts, Carries
<1>7. \A q \in Paths \ {p}, n \in Nat : /\ Counts(q, h, b, n)' <=> Counts(q, h, b, n)
                                        /\ Carries(q, h, b, n)' <=> Carries(q, h, b, n)
    BY SameCounts DEF Moves
<1>8. OnlyLogged(h, b)'
    <2> SUFFICES ASSUME NEW n \in Nat
                 PROVE  /\ Waits(h, b, n)' \/ Holds(h, b, n)' => Logs(h, b, n)'
                        /\ \A q \in Paths : Counts(q, h, b, n)' \/ Carries(q, h, b, n)' =>
                               Logs(h, b, n)'
        BY DEF OnlyLogged
    <2> QED
        BY <1>3, <1>4, <1>6, <1>7 DEF Counted, OnlyLogged
<1>9. CarriedOnce(h, b)'
    <2> SUFFICES ASSUME NEW q \in Paths, NEW n \in Nat, Carries(q, h, b, n)'
                 PROVE  /\ \E c, m \in Nat : c > b /\ Waits(h, c, m)'
                        /\ \A m \in Nat : ~Waits(h, b, m)'
                        /\ \A r \in Paths, m \in Nat : Carries(r, h, b, m)' => r = q
        BY DEF CarriedOnce
    <2> QED
        BY <1>4, <1>5, <1>6, <1>7 DEF Counted, CarriedOnce
<1>10. AllCounted(h, b)'
    <2> SUFFICES ASSUME NEW n \in Nat, Logs(h, b, n)'
                 PROVE  \/ \E q \in Paths : Counts(q, h, b, n)'
                        \/ /\ (\E m \in Nat : Waits(h, b, m)') => Waits(h, b, n)'
                           /\ \A q \in Paths : (\E m \in Nat : Carries(q, h, b, m)') =>
                                  Carries(q, h, b, n)'
                           /\ \/ \E m \in Nat : Waits(h, b, m)' \/ \E q \in Paths : Carries(q, h, b, m)'
                              \/ Holds(h, b, n)'
        BY DEF AllCounted
    <2> QED
        BY <1>3, <1>4, <1>6, <1>7 DEF Counted, AllCounted
<1> QED
    BY <1>8, <1>9, <1>10 DEF Counted

LEMMA FlushCounted ==
    ASSUME IngestInv, TodoForm, CountType, NEW p \in Paths, Moves(p), FlushBuckets(p),
           NEW h \in Calls, NEW b \in Nat, Counted(h, b)
    PROVE  Counted(h, b)'
<1>1. signals' = signals /\ accum' = accum
    BY DEF FlushBuckets, memory
<1>2. /\ \A n \in Nat : (Logs(h, b, n)' <=> Logs(h, b, n)) /\ (Waits(h, b, n)' <=> Waits(h, b, n))
      /\ \A c, n \in Nat : Waits(h, c, n)' <=> Waits(h, c, n)
    BY <1>1 DEF Logs, Waits
<1>3. /\ Flushing(p) /\ ~Counting(p) /\ Silent(p)'
      /\ \A n \in Nat : Holds(h, b, n)' <=> IF \E m \in Nat : Carries(p, h, b, m)
                                            THEN Carries(p, h, b, n) ELSE Holds(h, b, n)
    BY FlushEffect
<1>4. \A n \in Nat : ~Counts(p, h, b, n) /\ ~Counts(p, h, b, n)' /\ ~Carries(p, h, b, n)'
    BY <1>3 DEF Silent, Counts, Carries
<1>5. \A q \in Paths \ {p}, n \in Nat : /\ Counts(q, h, b, n)' <=> Counts(q, h, b, n)
                                        /\ Carries(q, h, b, n)' <=> Carries(q, h, b, n)
    BY SameCounts DEF Moves
<1>6. CASE \A m \in Nat : ~Carries(p, h, b, m)
    <2>1. \A n \in Nat : Holds(h, b, n)' <=> Holds(h, b, n)
        BY <1>3, <1>6
    <2>2. \A q \in Paths, n \in Nat : /\ Counts(q, h, b, n)' <=> Counts(q, h, b, n)
                                      /\ Carries(q, h, b, n)' <=> Carries(q, h, b, n)
        BY <1>4, <1>5, <1>6
    <2> QED
        BY <1>2, <2>1, <2>2, CountedStill
<1>7. ASSUME NEW k \in Nat, Carries(p, h, b, k) PROVE Counted(h, b)'
    <2>1. \A n \in Nat : Holds(h, b, n)' <=> Carries(p, h, b, n)
        BY <1>3, <1>7
    <2>2. \A n \in Nat : ~Waits(h, b, n)'
        BY <1>2, <1>7 DEF Counted, CarriedOnce
    <2>3. \A q \in Paths, n \in Nat : ~Carries(q, h, b, n)'
        BY <1>4, <1>5, <1>7 DEF Counted, CarriedOnce
    <2>4. OnlyLogged(h, b)'
        <3> SUFFICES ASSUME NEW n \in Nat
                     PROVE  /\ Waits(h, b, n)' \/ Holds(h, b, n)' => Logs(h, b, n)'
                            /\ \A q \in Paths : Counts(q, h, b, n)' \/ Carries(q, h, b, n)' =>
                                   Logs(h, b, n)'
            BY DEF OnlyLogged
        <3> QED
            BY <1>2, <1>4, <1>5, <2>1, <2>2, <2>3 DEF Counted, OnlyLogged
    <2>5. CarriedOnce(h, b)'
        BY <2>3 DEF CarriedOnce
    <2>6. AllCounted(h, b)'
        <3> SUFFICES ASSUME NEW n \in Nat, Logs(h, b, n)'
                     PROVE  (\E q \in Paths : Counts(q, h, b, n)') \/ Holds(h, b, n)'
            BY <2>2, <2>3 DEF AllCounted
        <3>1. (\E q \in Paths : Counts(q, h, b, n)) \/ Carries(p, h, b, n)
            BY <1>2, <1>7 DEF Counted, AllCounted
        <3> QED
            BY <1>4, <1>5, <2>1, <3>1
    <2> QED
        BY <2>4, <2>5, <2>6 DEF Counted
<1> QED
    BY <1>6, <1>7

LEMMA CountCounted ==
    ASSUME IngestInv, TodoForm, CountType, NEW p \in Paths, Moves(p), CountSignal(p),
           NEW h \in Calls \ torn', NEW b \in Nat, Counted(h, b)
    PROVE  Counted(h, b)'
<1>1. signals' = signals /\ buckets' = buckets /\ Busy(p) /\ Heading(p) = "count"
    BY DEF CountSignal, Does, Heading, Todo, tables
<1>2. PICK hop \in Calls, time \in Nat : hop = Frame(p).hop /\ time = At(p)
    BY <1>1, FrameOfStep
<1>3. PICK start \in Nat, new \in Nat : start = Bucket(At(p)) /\ new = Found(p)
    BY <1>1, <1>2, BucketType, RestOfTask DEF CountType, Counting
<1>4. /\ Counting(p) /\ ~Flushing(p) /\ ~Counting(p)'
      /\ \A k \in Calls, c \in Nat, n \in Nat :
            /\ Carries(p, k, c, n)' <=> k = hop /\ c < start /\ Waits(k, c, n)
            /\ Waits(k, c, n)' <=>
                   \/ Waits(k, c, n) /\ ~(k = hop /\ c < start)
                   \/ k = hop /\ c = start /\ n = new
      /\ hop \notin torn' =>
            /\ \A x \in accum \cup buckets : x.hop = hop => x.bucket <= start
            /\ (\E n \in Nat : Holds(hop, start, n)) => \E n \in Nat : Waits(hop, start, n)
    BY <1>2, <1>3, CountEffect
<1>5. \A n \in Nat : (Logs(h, b, n)' <=> Logs(h, b, n)) /\ (Holds(h, b, n)' <=> Holds(h, b, n))
    BY <1>1 DEF Logs, Holds
<1>6. \A n \in Nat : /\ ~Carries(p, h, b, n) /\ ~Counts(p, h, b, n)'
                     /\ Counts(p, h, b, n) <=> h = hop /\ b = start /\ n = new
    BY <1>2, <1>3, <1>4 DEF Counts, Carries
<1>7. \A q \in Paths \ {p}, n \in Nat : /\ Counts(q, h, b, n)' <=> Counts(q, h, b, n)
                                        /\ Carries(q, h, b, n)' <=> Carries(q, h, b, n)
    BY SameCounts DEF Moves
<1>8. ASSUME ~(h = hop /\ b = start), h = hop /\ b < start => \A n \in Nat : ~Waits(h, b, n)
      PROVE  Counted(h, b)'
    <2>1. \A n \in Nat : Waits(h, b, n)' <=> Waits(h, b, n)
        BY <1>4, <1>8
    <2>2. ASSUME NEW c \in Nat, NEW m \in Nat, c > b, Waits(h, c, m)
          PROVE  \E d, k \in Nat : d > b /\ Waits(h, d, k)'
        <3>1. CASE h = hop /\ c < start
            <4>1. start > b /\ Waits(h, start, new)'
                BY <1>4, <2>2, <3>1
            <4> QED
                BY <4>1
        <3>2. CASE ~(h = hop /\ c < start)
            BY <1>4, <2>2, <3>2
        <3> QED
            BY <3>1, <3>2
    <2>3. \A q \in Paths, n \in Nat : /\ Counts(q, h, b, n)' <=> Counts(q, h, b, n)
                                      /\ Carries(q, h, b, n)' <=> Carries(q, h, b, n)
        BY <1>4, <1>6, <1>7, <1>8
    <2> QED
        BY <1>5, <2>1, <2>2, <2>3, CountedStill
<1>9. ASSUME h = hop, b < start, NEW k \in Nat, Waits(h, b, k) PROVE Counted(h, b)'
    <2>1. \A n \in Nat : ~Waits(h, b, n)' /\ (Carries(p, h, b, n)' <=> Waits(h, b, n))
        BY <1>4, <1>9
    <2>2. \A q \in Paths \ {p}, n \in Nat : ~Carries(q, h, b, n)'
        BY <1>7, <1>9 DEF Counted, CarriedOnce
    <2>3. Waits(h, start, new)' /\ start > b
        BY <1>4, <1>9
    <2>4. OnlyLogged(h, b)'
        <3> SUFFICES ASSUME NEW n \in Nat
                     PROVE  /\ Waits(h, b, n)' \/ Holds(h, b, n)' => Logs(h, b, n)'
                            /\ \A q \in Paths : Counts(q, h, b, n)' \/ Carries(q, h, b, n)' =>
                                   Logs(h, b, n)'
            BY DEF OnlyLogged
        <3> QED
            BY <1>5, <1>6, <1>7, <2>1, <2>2 DEF Counted, OnlyLogged
    <2>5. CarriedOnce(h, b)'
        <3> SUFFICES ASSUME NEW q \in Paths, NEW n \in Nat, Carries(q, h, b, n)'
                     PROVE  /\ \E c, m \in Nat : c > b /\ Waits(h, c, m)'
                            /\ \A m \in Nat : ~Waits(h, b, m)'
                            /\ \A r \in Paths, m \in Nat : Carries(r, h, b, m)' => r = q
            BY DEF CarriedOnce
        <3> QED
            BY <2>1, <2>2, <2>3
    <2>6. AllCounted(h, b)'
        <3> SUFFICES ASSUME NEW n \in Nat, Logs(h, b, n)'
                     PROVE  (\E q \in Paths : Counts(q, h, b, n)') \/ Carries(p, h, b, n)'
            BY <1>9, <2>1, <2>2 DEF AllCounted
        <3>1. (\E q \in Paths : Counts(q, h, b, n)) \/ Waits(h, b, n)
            BY <1>5, <1>9 DEF Counted, AllCounted
        <3>2. ~Counts(p, h, b, n)
            BY <1>6, <1>9
        <3> QED
            BY <1>7, <2>1, <3>1, <3>2
    <2> QED
        BY <2>4, <2>5, <2>6 DEF Counted
<1>10. ASSUME h = hop, b = start PROVE Counted(h, b)'
    <2>1. /\ \A n \in Nat : Waits(h, b, n)' <=> Waits(h, b, n) \/ n = new
          /\ \A n \in Nat : ~Carries(p, h, b, n)'
          /\ \A n \in Nat : Counts(p, h, b, n) <=> n = new
        BY <1>4, <1>6, <1>10
    <2>2. /\ \A x \in accum : x.hop = h => x.bucket <= b
          /\ (\E n \in Nat : Holds(h, b, n)) => \E n \in Nat : Waits(h, b, n)
        BY <1>4, <1>10
    <2>3. ASSUME NEW c \in Nat, NEW m \in Nat, Waits(h, c, m) PROVE c <= b
        <3>1. PICK x : x = [hop |-> h, bucket |-> c, n |-> m]
            OBVIOUS
        <3>2. x \in accum /\ x.hop = h /\ x.bucket = c
            BY <2>3, <3>1 DEF Waits
        <3> QED
            BY <2>2, <3>2
    <2>4. \A q \in Paths, n \in Nat : ~Carries(q, h, b, n) /\ ~Carries(q, h, b, n)'
        <3>1. \A q \in Paths, n \in Nat : ~Carries(q, h, b, n)
            <4>1. \A c, m \in Nat : ~(c > b /\ Waits(h, c, m))
                BY <2>3
            <4> QED
                BY <4>1 DEF Counted, CarriedOnce
        <3> QED
            BY <1>7, <2>1, <3>1
    <2>5. OnlyLogged(h, b)'
        <3> SUFFICES ASSUME NEW n \in Nat
                     PROVE  /\ Waits(h, b, n)' \/ Holds(h, b, n)' => Logs(h, b, n)'
                            /\ \A q \in Paths : Counts(q, h, b, n)' \/ Carries(q, h, b, n)' =>
                                   Logs(h, b, n)'
            BY DEF OnlyLogged
        <3> QED
            BY <1>5, <1>6, <1>7, <2>1, <2>4 DEF Counted, OnlyLogged
    <2>6. CarriedOnce(h, b)'
        BY <2>4 DEF CarriedOnce
    <2>7. AllCounted(h, b)'
        <3> SUFFICES ASSUME NEW n \in Nat, Logs(h, b, n)'
                     PROVE  (\E q \in Paths : Counts(q, h, b, n)') \/ Waits(h, b, n)'
            BY <2>4 DEF AllCounted
        <3>1. (\E q \in Paths : Counts(q, h, b, n)) \/ Waits(h, b, n)
            BY <1>5, <2>2, <2>4 DEF Counted, AllCounted
        <3> QED
            BY <1>7, <2>1, <3>1
    <2> QED
        BY <2>5, <2>6, <2>7 DEF Counted
<1> QED
    BY <1>8, <1>9, <1>10

LEMMA RestartCounted ==
    ASSUME IngestInv, CountType, NEW closed \in BOOLEAN, Restart(closed),
           NEW h \in Calls \ torn', NEW b \in Nat, Counted(h, b)
    PROVE  Counted(h, b)'
<1>1. PICK start : start = Bucket(now)
    OBVIOUS
<1>2. /\ \A p \in Paths, n \in Nat : ~Counts(p, h, b, n) /\ ~Carries(p, h, b, n)
      /\ \A n \in Nat :
            /\ Holds(h, b, n)' <=> IF closed /\ \E m \in Nat : Waits(h, b, m)
                                   THEN Waits(h, b, n) ELSE Holds(h, b, n)
            /\ Waits(h, b, n)' => Waits(h, b, n) /\ b >= start
            /\ Waits(h, b, n) => Waits(h, b, n)' \/ (closed /\ b < start)
    BY <1>1, RestartEffect
<1>3. \A p \in Paths, n \in Nat : ~Counts(p, h, b, n)' /\ ~Carries(p, h, b, n)'
    <2>1. \A p \in Paths : Silent(p)'
        BY RestartEffect
    <2> QED
        BY <2>1 DEF Silent, Counts, Carries
<1>4. \A n \in Nat : Logs(h, b, n)' <=> Logs(h, b, n)
    <2>1. signals' = signals
        BY RestartEffect
    <2> QED
        BY <2>1 DEF Logs
<1>5. start \in Nat
    BY <1>1, BucketType DEF IngestInv, ClockType
<1>6. OnlyLogged(h, b)'
    <2> SUFFICES ASSUME NEW n \in Nat PROVE Waits(h, b, n)' \/ Holds(h, b, n)' => Logs(h, b, n)'
        BY <1>3 DEF OnlyLogged
    <2> QED
        BY <1>2, <1>4 DEF Counted, OnlyLogged
<1>7. CarriedOnce(h, b)'
    BY <1>3 DEF CarriedOnce
<1>8. AllCounted(h, b)'
    <2> SUFFICES ASSUME NEW n \in Nat, Logs(h, b, n)'
                 PROVE  /\ (\E m \in Nat : Waits(h, b, m)') => Waits(h, b, n)'
                        /\ (\E m \in Nat : Waits(h, b, m)') \/ Holds(h, b, n)'
        BY <1>3 DEF AllCounted
    <2>1. /\ (\E m \in Nat : Waits(h, b, m)) => Waits(h, b, n)
          /\ (\E m \in Nat : Waits(h, b, m)) \/ Holds(h, b, n)
        BY <1>2, <1>4 DEF Counted, AllCounted
    <2>2. CASE \E m \in Nat : Waits(h, b, m)'
        BY <1>2, <1>5, <2>1, <2>2
    <2>3. CASE ~ \E m \in Nat : Waits(h, b, m)'
        BY <1>2, <1>5, <2>1, <2>3
    <2> QED
        BY <2>2, <2>3
<1> QED
    BY <1>6, <1>7, <1>8 DEF Counted

(* While a bucket fills, all its readings wait in memory, and once it is   *)
(* written, all of them are in its average, whatever the tasks do between  *)
(* each other's steps and however often the service is closed or dies; for *)
(* the stations none of whose readings came late or was broken off         *)
(* (_accumulate_signal, _flush_completed_buckets).                         *)
THEOREM EverySignalCounts == Spec => []SignalsCounted
<1> DEFINE Inv == IngestInv /\ TodoForm /\ CountInv
<1>1. Init => Inv
    <2>1. Init => IngestInv
        BY IngestStart
    <2>2. Init => TodoForm /\ \A p \in Paths : Todo(p) = <<>>
        BY NothingBetween DEF Init, TodoForm, Todo, Idle, Between
    <2>3. Init => CountInv
        BY <2>2 DEF Init, CountInv, CountType, Counted, OnlyLogged, CarriedOnce, AllCounted, Logs,
                    Waits, Holds, Counts, Carries, Counting, Flushing
    <2> QED
        BY <2>1, <2>2, <2>3
<1>2. Inv /\ [Next]_vars => Inv'
    <2> SUFFICES ASSUME IngestInv, TodoForm, CountInv, [Next]_vars
                 PROVE  IngestInv' /\ TodoForm' /\ CountInv'
        OBVIOUS
    <2>1. IngestInv' /\ TodoForm' /\ CountType' /\ CountType
        BY IngestNext, FormStays, CountTypeStays DEF CountInv
    <2>2. ASSUME NEW h \in Calls \ torn', NEW b \in Nat PROVE Counted(h, b)'
        <3>1. Counted(h, b)
            BY TornGrows DEF CountInv
        <3>2. ASSUME UNCHANGED <<signals, accum, buckets>>, \A q \in Paths : Quiet(q)
              PROVE  Counted(h, b)'
            <4>1. \A c, n \in Nat : /\ Logs(h, c, n)' <=> Logs(h, c, n)
                                    /\ Waits(h, c, n)' <=> Waits(h, c, n)
                                    /\ Holds(h, c, n)' <=> Holds(h, c, n)
                BY <3>2 DEF Logs, Waits, Holds
            <4>2. \A q \in Paths, n \in Nat : /\ Counts(q, h, b, n)' <=> Counts(q, h, b, n)
                                              /\ Carries(q, h, b, n)' <=> Carries(q, h, b, n)
                BY <2>1, <3>2, QuietCounts
            <4>3. (\E c, m \in Nat : c > b /\ Waits(h, c, m)) =>
                      \E c, m \in Nat : c > b /\ Waits(h, c, m)'
                BY <4>1
            <4> QED
                BY <3>1, <4>1, <4>2, <4>3, CountedStill
        <3>3. ASSUME NEW p \in Paths, Moves(p), LogSignal(p) \/ CountSignal(p) \/ FlushBuckets(p)
              PROVE  Counted(h, b)'
            BY <2>1, <3>1, <3>3, LogCounted, CountCounted, FlushCounted
        <3>4. ASSUME NEW closed \in BOOLEAN, Restart(closed) PROVE Counted(h, b)'
            BY <2>1, <3>1, <3>4, RestartCounted
        <3> QED
            BY <3>2, <3>3, <3>4, SignalCases
    <2> QED
        BY <2>1, <2>2 DEF CountInv
<1>3. Inv => SignalsCounted
    <2> SUFFICES ASSUME CountInv, AtRest, NEW h \in Calls \ torn, NEW s \in signals,
                        NEW b, b = Bucket(s.at)
                 PROVE  Logged(h, b) = IF Waiting(h, b) = {} THEN Averaged(h, b) ELSE Waiting(h, b)
        BY DEF SignalsCounted
    <2>1. b \in Nat /\ CountType
        <3>1. PICK t \in Nat : t = s.at
            BY DEF CountInv, CountType
        <3> QED
            BY <3>1, BucketType DEF CountInv
    <2>2. Counted(h, b)
        BY <2>1 DEF CountInv
    <2>3. \A p \in Paths, n \in Nat : ~Counts(p, h, b, n) /\ ~Carries(p, h, b, n)
        BY DEF AtRest, Busy, Todo, Counts, Carries, Counting, Flushing
    <2>4. Logged(h, b) \subseteq Nat /\ \A n \in Nat : n \in Logged(h, b) <=> Logs(h, b, n)
        BY <2>1 DEF Logged, Logs, CountType
    <2>5. Waiting(h, b) \subseteq Nat /\ \A n \in Nat : n \in Waiting(h, b) <=> Waits(h, b, n)
        <3>1. ASSUME NEW x \in accum, x.hop = h, x.bucket = b PROVE x.n \in Nat /\ Waits(h, b, x.n)
            <4>1. x \in [hop : Calls, bucket : Nat, n : Nat]
                BY <2>1 DEF CountType
            <4>2. x = [hop |-> h, bucket |-> b, n |-> x.n] /\ x.n \in Nat
                BY <3>1, <4>1
            <4> QED
                BY <4>2 DEF Waits
        <3>2. ASSUME NEW n \in Nat, Waits(h, b, n) PROVE n \in Waiting(h, b)
            BY <3>2 DEF Waits, Waiting
        <3>3. ASSUME NEW n \in Waiting(h, b) PROVE n \in Nat /\ Waits(h, b, n)
            BY <3>1 DEF Waiting
        <3> QED
            BY <3>2, <3>3
    <2>6. Averaged(h, b) \subseteq Nat /\ \A n \in Nat : n \in Averaged(h, b) <=> Holds(h, b, n)
        BY <2>1 DEF Averaged, Holds, CountType
    <2>7. \A n \in Nat : /\ Waits(h, b, n) \/ Holds(h, b, n) => Logs(h, b, n)
                         /\ Logs(h, b, n) /\ (\E m \in Nat : Waits(h, b, m)) => Waits(h, b, n)
                         /\ Logs(h, b, n) => (\E m \in Nat : Waits(h, b, m)) \/ Holds(h, b, n)
        BY <2>2, <2>3 DEF Counted, OnlyLogged, AllCounted
    <2>8. CASE Waiting(h, b) = {}
        <3>1. \A n \in Nat : n \in Logged(h, b) <=> n \in Averaged(h, b)
            BY <2>4, <2>5, <2>6, <2>7, <2>8
        <3> QED
            BY <2>4, <2>6, <2>8, <3>1
    <2>9. CASE Waiting(h, b) # {}
        <3>1. \E m \in Nat : Waits(h, b, m)
            BY <2>5, <2>9
        <3>2. \A n \in Nat : n \in Logged(h, b) <=> n \in Waiting(h, b)
            BY <2>4, <2>5, <2>7, <3>1
        <3> QED
            BY <2>4, <2>5, <2>9, <3>2
    <2> QED
        BY <2>8, <2>9
<1> QED
    BY <1>1, <1>2, <1>3, PTL DEF Spec

-----------------------------------------------------------------------------
(* Telemetry *)

LEMMA Least == ASSUME NEW S \in SUBSET Nat, S # {} PROVE \E m \in S : \A k \in S : m <= k
<1>1. PICK R : R = OpToRel(<, Nat)
    BY Zenon
<1>2. IsWellFoundedOn(R, Nat)
    BY <1>1, NatLessThanWellFounded, Zenon
<1>3. \A i, j \in Nat : <<i, j>> \in R <=> i < j
    BY <1>1, Zenon DEF OpToRel
<1>4. PICK m \in S : \A k \in S : ~(<<k, m>> \in R)
    BY <1>2, WFMin
<1>5. \A k \in S : ~(k < m)
    BY <1>3, <1>4
<1> QED
    BY <1>5

LEMMA Greatest ==
    ASSUME NEW S, S # {}, NEW n \in Nat, \A k \in S : k \in Nat /\ k <= n
    PROVE  \E m \in S : \A k \in S : k <= m
<1>1. PICK T : T = {n - k : k \in S}
    OBVIOUS
<1>2. T \in SUBSET Nat /\ T # {}
    <2>1. \A k \in S : n - k \in Nat
        OBVIOUS
    <2> QED
        BY <1>1, <2>1
<1>3. PICK t \in T : \A u \in T : t <= u
    BY <1>2, Least
<1>4. PICK m \in S : t = n - m
    BY <1>1, <1>3
<1>5. \A k \in S : n - m <= n - k
    BY <1>1, <1>3, <1>4
<1> QED
    BY <1>4, <1>5

StoredVals == [Fields -> Values \cup {None}]
Of(c) == {r \in tele : r.call = c}

TeleType ==
    /\ tele \subseteq [n : Nat, call : Calls, at : Nat, vals : StoredVals]
    /\ \A r \in tele : r.n < next /\ r.at <= now
    /\ \A r, s \in tele : r.n = s.n => r = s
    /\ taken \subseteq Calls \X Nat \X Fields

Covers(vals, p) == \A w \in Fields : Frame(p).weather[w].prov = MEASURED => vals[w] # None
NoLoss(old, new) == \A w \in Fields : old[w] # None => new[w] # None
Wide(s, t) == s - t >= TeleWindow \/ t - s >= TeleWindow

(* Two tasks with weather of one station are what torn says. *)
OneWet ==
    /\ \A p, q \in Paths :
          p # q /\ HandlesWeather(p) /\ HandlesWeather(q) /\ Frame(p).src = Frame(q).src =>
              Frame(p).src \in torn
    /\ \A p \in Paths :
          Busy(p) /\ Frame(p).kind = "pos" /\ HasWeather(Frame(p))
              /\ (In("claim", Todo(p)) \/ In("look", Todo(p))) => In("recall", Todo(p))

(* What a task is about to write: it has the values of the row it was      *)
(* merged with, and what it measured itself.                               *)
Merging(p) ==
    \A x \in {"drop", "add", "amend"} : Does(p, x) =>
        /\ Found(p).vals \in StoredVals /\ Covers(Found(p).vals, p)
        /\ x # "add" => /\ Found(p).row \in Nat /\ Found(p).row < next
                        /\ \A r \in tele : r.n = Found(p).row => r.call = Frame(p).src

Dropping(p) ==
    Does(p, "drop") /\ Frame(p).src \notin torn =>
        \A r \in Of(Frame(p).src) :
            IF r.n = Found(p).row THEN r.at < At(p) /\ NoLoss(r.vals, Found(p).vals)
            ELSE Wide(r.at, At(p))
Adding(p) ==
    Does(p, "add") /\ Frame(p).src \notin torn => \A r \in Of(Frame(p).src) : Wide(r.at, At(p))
Amending(p) ==
    Does(p, "amend") /\ Frame(p).src \notin torn =>
        \E r \in Of(Frame(p).src) :
            r.n = Found(p).row /\ r.at > At(p) - TeleWindow /\ NoLoss(r.vals, Found(p).vals)
Merged(p) ==
    Does(p, "weather") /\ Frame(p).src \notin torn =>
        \E r \in Of(Frame(p).src) : r.at > At(p) - TeleWindow /\ Covers(r.vals, p)

(* What was taken in is in a row, or in the row that replaces it.          *)
TakenKept ==
    \A v \in taken : v[1] \notin torn =>
        \/ \E r \in Of(v[1]) : r.at > v[2] - TeleWindow /\ r.vals[v[3]] # None
        \/ \E p \in Paths : /\ Does(p, "add") /\ Frame(p).src = v[1]
                            /\ At(p) > v[2] - TeleWindow /\ Found(p).vals[v[3]] # None

WetTask(q) == Merging(q) /\ Dropping(q) /\ Adding(q) /\ Amending(q) /\ Merged(q)
WetInv == \A q \in Paths : WetTask(q)
TeleInv == TeleType /\ OneWet /\ WetInv /\ TelemetrySpaced /\ TakenKept

LEMMA SomeNewest ==
    ASSUME TeleType, ClockType, NEW S \in SUBSET tele, S # {} PROVE Newest(S) # {}
<1>1. \A r \in S : r.at \in Nat /\ r.at <= now /\ r.n \in Nat /\ r.n <= next
    BY DEF TeleType, ClockType
<1>2. now \in Nat /\ next \in Nat
    BY DEF ClockType
<1>3. PICK t \in {r.at : r \in S} : \A u \in {r.at : r \in S} : u <= t
    <2>1. PICK T : T = {r.at : r \in S}
        OBVIOUS
    <2>2. T # {} /\ \A k \in T : k \in Nat /\ k <= now
        BY <1>1, <2>1
    <2>3. \E m \in T : \A k \in T : k <= m
        BY <1>2, <2>2, Greatest
    <2> QED
        BY <2>1, <2>3
<1>4. PICK n \in {r.n : r \in {s \in S : s.at = t}} : \A m \in {r.n : r \in {s \in S : s.at = t}} : m <= n
    <2>1. PICK T : T = {r.n : r \in {s \in S : s.at = t}}
        OBVIOUS
    <2>2. T # {} /\ \A k \in T : k \in Nat /\ k <= next
        BY <1>1, <1>3, <2>1
    <2>3. \E m \in T : \A k \in T : k <= m
        BY <1>2, <2>2, Greatest
    <2> QED
        BY <2>1, <2>3
<1>5. PICK r \in S : r.at = t /\ r.n = n
    BY <1>4
<1>6. ASSUME NEW q \in S PROVE q.at < r.at \/ (q.at = r.at /\ q.n <= r.n)
    <2>1. q.at <= t /\ (q.at = t => q.n <= n)
        BY <1>3, <1>4
    <2> QED
        BY <1>1, <1>5, <2>1
<1>7. r \in Newest(S)
    BY <1>5, <1>6 DEF Newest
<1> QED
    BY <1>7

Wet == {"drop", "add", "amend", "weather"}
Dry(q) == \A x \in Wet : ~Does(q, x)
Calm(q) ==
    \/ Same(q)
    \/ Dry(q)' /\ (Dry(q) \/ Frame(q).src \in torn')

LEMMA WetSteps ==
    ASSUME IngestInv, TodoForm, NEW p \in Paths
    PROVE  /\ HandlesWeather(p) <=> \E x \in Wet \cup {"recall"} : In(x, Todo(p))
           /\ \A x \in Wet : In(x, Todo(p)) => Busy(p) /\ Heading(p) \in Wet
           /\ \A x : Does(p, x) <=> Busy(p) /\ Heading(p) = x
           /\ \A x : Does(p, x) => In(x, Todo(p))
<1>1. Todo(p) \in Steps /\ Todo(p) = task[p].todo /\ Form(Todo(p))
    BY DEF IngestInv, TaskInv, TaskType, Todo, TodoForm
<1>2. PICK s \in Seq(StepNames) : s = Todo(p)
    BY <1>1 DEF Steps
<1>3. DOMAIN s = 1 .. Len(s) /\ (s # <<>> => 1 \in 1 .. Len(s) /\ Head(s) = s[1])
    BY <1>2
<1>4. (\E i \in DOMAIN s : s[i] \in {"recall", "add", "amend", "drop", "weather"})
          <=> \E x \in Wet \cup {"recall"} : In(x, s)
    BY <1>3 DEF Wet, In
<1>5. \A x : In(x, s) => s # <<>>
    BY NoSteps
<1>6. HandlesWeather(p) <=> \E x \in Wet \cup {"recall"} : In(x, Todo(p))
    BY <1>1, <1>2, <1>4, <1>5 DEF HandlesWeather, Busy
<1>7. ASSUME NEW x \in Wet, In(x, Todo(p)) PROVE Busy(p) /\ Heading(p) \in Wet
    BY <1>1, <1>7, FormHeads DEF Wet, Busy, Heading
<1>8. \A x : Does(p, x) <=> Busy(p) /\ Heading(p) = x
    BY <1>1 DEF Does, Heading
<1>9. \A x : Does(p, x) => In(x, Todo(p))
    BY <1>1, <1>2, <1>3, <1>8 DEF In, Busy, Heading
<1> QED
    BY <1>6, <1>7, <1>8, <1>9

LEMMA WeatherCases ==
    ASSUME IngestInv, TodoForm, [Next]_vars
    PROVE  \/ UNCHANGED <<tele, taken>> /\ \A q \in Paths : Calm(q)
           \/ \E p \in Paths :
                 /\ Moves(p)
                 /\ Recall(p) \/ AddReading(p) \/ AmendReading(p) \/ DropReading(p) \/ UpsertWeather(p)
<1>0. DOMAIN task = Paths /\ TodoForm'
    BY FormStays DEF IngestInv, TaskInv, TaskType
<1>1. ASSUME NEW q, task'[q] = task[q] PROVE Same(q)
    BY <1>1 DEF Same, Todo, Frame, At, Found
<1>2. ASSUME NEW e \in agenda.coming, Arrive(e[1], e[2])
      PROVE  UNCHANGED <<tele, taken>> /\ \A q \in Paths : Calm(q)
    <2>0. PICK p \in Paths, f \in Frames : e = <<p, f>>
        BY DEF IngestInv, ClockType
    <2>1. Arrive(p, f)
        BY <1>2, <2>0
    <2>2. PICK t \in Stamps(p) :
              task' = [task EXCEPT ![p] = [frame |-> f, at |-> t, todo |-> Plan(f), found |-> None]]
        BY <2>1 DEF Arrive
    <2>3. \A q \in Paths : q # p => task'[q] = task[q]
        BY <1>0, <2>2
    <2>4. task'[p].todo = Plan(f) /\ ~Busy(p)
        BY <1>0, <2>1, <2>2 DEF Arrive
    <2>5. PICK s \in Steps : s = Plan(f) /\ AllPlanned(s)
        BY PlanForm
    <2>6. s # <<>> => Head(s) \in Planned
        BY <2>5 DEF AllPlanned, Steps
    <2>7. Dry(p)' /\ Dry(p)
        BY <2>4, <2>5, <2>6 DEF Dry, Does, Busy, Wet, Planned
    <2>8. ASSUME NEW q \in Paths PROVE Calm(q)
        <3>1. q # p => Same(q)
            BY <1>1, <2>3
        <3> QED
            BY <2>7, <3>1 DEF Calm
    <2> QED
        BY <2>1, <2>8 DEF Arrive, tables
<1>3. ASSUME NEW p \in Paths, Step(p)
      PROVE  /\ Moves(p)
             /\ \/ Recall(p) \/ AddReading(p) \/ AmendReading(p) \/ DropReading(p) \/ UpsertWeather(p)
                \/ UNCHANGED <<tele, taken>> /\ \A q \in Paths : Calm(q)
    <2>1. PICK s \in Steps : \E found :
              Busy(p) /\ GoesOn(p, s, found) /\ GoesOnWell(p, s) /\ Drops(p, s)
        BY <1>3, StepGoes
    <2>2. PICK found : Busy(p) /\ GoesOn(p, s, found) /\ GoesOnWell(p, s) /\ Drops(p, s)
        BY <2>1
    <2>3. /\ Todo(p)' = s
          /\ s # <<>> => Frame(p)' = Frame(p) /\ At(p)' = At(p)
          /\ \A r \in Paths \ {p} : Same(r)
        BY <2>2, TaskGoesOn DEF Same
    <2>4. Moves(p)
        BY <1>3, <2>2, <2>3 DEF Moves
    <2>5. \/ UNCHANGED <<tele, taken>>
          \/ AddReading(p) \/ AmendReading(p) \/ DropReading(p) \/ UpsertWeather(p)
        BY <1>3 DEF Step, Claim, RefuseClaimed, Look, LogSignal, CountSignal, FlushBuckets,
                    UpsertStation, Renew, InsertRow, MarkSent, MarkAcked, Receipt, Tell,
                    FindOriginal, Confirm, Recall, Fails, history, tables
    <2>6. ASSUME ~(Recall(p) \/ AddReading(p) \/ AmendReading(p) \/ DropReading(p) \/ UpsertWeather(p))
          PROVE  Calm(p)
        <3>1. /\ Fails(p) \/ Heading(p) \notin Wet \cup {"recall"}
              /\ Fails(p) /\ Heading(p) # "receipt" => GoesOn(p, <<>>, Found(p))
            BY <1>3, <2>6, HeadSteps, Zenon DEF Wet
        <3>2. Heading(p) \in Wet \cup {"recall"} => s = <<>>
            <4>1. ASSUME Heading(p) \in Wet \cup {"recall"} PROVE s = <<>>
                <5>1. PICK n, found2 : n \in Steps /\ n = <<>> /\ found2 = Found(p)
                    BY EndGoesWell
                <5>2. GoesOn(p, n, found2)
                    BY <3>1, <4>1, <5>1 DEF Wet
                <5> QED
                    BY <2>2, <2>3, <5>1, <5>2, TaskGoesOn
            <4> QED
                BY <4>1
        <3>3. ASSUME NEW x \in Wet, s # <<>>, Head(s) = x PROVE FALSE
            <4>1. In(x, s)
                BY <3>3 DEF In, Steps
            <4>2. Heading(p) = "recall" \/ In(x, Todo(p))
                BY <2>2, <4>1 DEF GoesOnWell, Wet
            <4>3. Heading(p) \in Wet \cup {"recall"}
                BY <4>2, WetSteps
            <4> QED
                BY <3>2, <3>3, <4>3
        <3>4. Dry(p)'
            <4>1. task'[p].todo = s
                BY <2>3 DEF Todo
            <4> QED
                BY <3>3, <4>1 DEF Dry, Does, Busy
        <3>5. Dry(p) \/ Frame(p).src \in torn'
            <4>1. Fails(p) => Frame(p).src \in torn'
                BY DEF Fails, BrokenCalls
            <4>2. Heading(p) \notin Wet => Dry(p)
                BY WetSteps DEF Dry
            <4> QED
                BY <3>1, <4>1, <4>2
        <3> QED
            BY <3>4, <3>5 DEF Calm
    <2>7. ASSUME NEW q \in Paths, Calm(p) PROVE Calm(q)
        BY <2>3, <2>7 DEF Calm
    <2> QED
        BY <2>4, <2>5, <2>6, <2>7
<1>4. ASSUME NEW closed, Restart(closed) PROVE UNCHANGED <<tele, taken>> /\ \A q \in Paths : Calm(q)
    <2>1. ASSUME NEW q \in Paths PROVE Calm(q)
        <3>1. task'[q].todo = <<>>
            BY <1>4 DEF Restart, Idle
        <3>2. Busy(q) => Frame(q).src \in torn'
            BY <1>4 DEF Restart, BrokenCalls
        <3> QED
            BY <3>1, <3>2 DEF Calm, Dry, Does, Busy
    <2> QED
        BY <1>4, <2>1 DEF Restart
<1>5. CASE (\E d \in Talks : DeleteTalk(d)) \/ Tick \/ UNCHANGED vars
    <2>1. task' = task /\ UNCHANGED <<tele, taken>>
        BY <1>5 DEF DeleteTalk, Tick, vars, history, tables
    <2>2. ASSUME NEW q \in Paths PROVE Calm(q)
        <3>1. Same(q)
            BY <1>1, <2>1
        <3> QED
            BY <3>1 DEF Calm
    <2> QED
        BY <2>1, <2>2
<1> QED
    BY <1>2, <1>3, <1>4, <1>5 DEF Next

LEMMA WeatherSteps ==
    ASSUME NEW s \in Steps
    PROVE  (s # <<>> /\ \E i \in DOMAIN s : s[i] \in {"recall", "add", "amend", "drop", "weather"})
               <=> \E x \in Wet \cup {"recall"} : In(x, s)
<1>1. DOMAIN s = 1 .. Len(s)
    BY DEF Steps
<1>2. (\E i \in DOMAIN s : s[i] \in {"recall", "add", "amend", "drop", "weather"})
          <=> \E x \in Wet \cup {"recall"} : In(x, s)
    BY <1>1 DEF Wet, In
<1> QED
    BY <1>2, NoSteps

(* A copy of a position that is not stored again keeps its weather. *)
LEMMA RecallIsKept ==
    ASSUME IngestInv, TodoForm, OneWet, NEW p \in Paths, Moves(p), Todo(p)' # <<>>,
           Frame(p).kind = "pos", HasWeather(Frame(p)),
           In("claim", Todo(p)') \/ In("look", Todo(p)')
    PROVE  In("recall", Todo(p)')
<1>0. /\ "recall" \in Planned /\ "claim" \in Planned /\ "look" \in Planned
      /\ "receipt" \notin Planned
      /\ Rank("recall") = 8 /\ Rank("claim") = 2 /\ Rank("look") = 3
      /\ Rank("again") = 10 /\ Rank("sent") = 12 /\ Rank("acked") = 13
    BY DEF Planned, Rank
<1>1. Busy(p) /\ Step(p)
    BY DEF Moves
<1>2. PICK y \in {"claim", "look"} : In(y, Todo(p)') /\ In(y, Todo(p)) /\ Heading(p) # y
    BY <1>0 DEF Moves, GoesOnWell
<1>3. In("recall", Todo(p))
    BY <1>1, <1>2 DEF OneWet
<1>4. /\ \A x : In(x, Todo(p)) <=> x = Heading(p) \/ In(x, Rest(p))
      /\ Heading(p) \in Planned => \A x : In(x, Rest(p)) => Rank(Heading(p)) < Rank(x)
      /\ Rest(p) \in Steps
    BY <1>1, RestOfTask
<1>5. Heading(p) # "recall" /\ In("recall", Rest(p))
    BY <1>0, <1>2, <1>3, <1>4
<1>6. ASSUME Fails(p) \/ Heading(p) \in {"claim", "look"} PROVE In("recall", Todo(p)')
    <2>1. \/ GoesOn(p, <<>>, Found(p))
          \/ \E found : GoesOn(p, Rest(p), found)
          \/ GoesOn(p, <<"recall">>, None)
        <3>1. CASE Fails(p)
            BY <1>1, <3>1, HeadSteps
        <3>2. CASE ~Fails(p)
            <4>1. Claim(p) \/ RefuseClaimed(p) \/ Look(p)
                BY <1>1, <1>6, <3>2 DEF Step, Heading, Todo, Does, Claim, RefuseClaimed, Look, LogSignal,
                   CountSignal, FlushBuckets, UpsertStation, Renew, InsertRow, MarkSent, MarkAcked,
                   Receipt, Tell, FindOriginal, Confirm, Recall, AddReading, AmendReading,
                   DropReading, UpsertWeather
            <4>2. Finishes(p) \/ Duplicate(p)
                BY <4>1 DEF Claim, RefuseClaimed, Look
            <4> QED
                BY <4>2 DEF Finishes, Duplicate, Weather
        <3> QED
            BY <3>1, <3>2
    <2>2. PICK s, found : s \in {<<>>, Rest(p), <<"recall">>} /\ GoesOn(p, s, found)
        BY <2>1
    <2>3. s \in Steps
        BY <1>4, <2>2, NoSteps, PartsOfPlan DEF Early
    <2>4. Todo(p)' = s
        BY <1>1, <2>2, <2>3, TaskGoesOn
    <2>5. s \in {Rest(p), <<"recall">>}
        BY <2>2, <2>4
    <2> QED
        BY <1>5, <2>4, <2>5, LeadSteps
<1>7. CASE ~In("recall", Todo(p)')
    <2>1. \/ Heading(p) = "recall" \/ Fails(p) \/ Heading(p) \in {"claim", "look"}
          \/ Heading(p) \in {"again", "sent", "acked"} /\ Rank(Heading(p)) < Rank("recall")
        BY <1>0, <1>3, <1>7, WhatIsDropped
    <2>2. Heading(p) \notin {"again", "sent", "acked"} \/ ~(Rank(Heading(p)) < Rank("recall"))
        BY <1>0
    <2> QED
        BY <1>5, <1>6, <2>1, <2>2
<1> QED
    BY <1>7

(* Weather comes with a frame. *)
LEMMA WeatherComes ==
    ASSUME IngestInv, TodoForm, OneWet, [Next]_vars, NEW q \in Paths, HandlesWeather(q)'
    PROVE  Begins(q) \/ (HandlesWeather(q) /\ Frame(q)' = Frame(q))
<1>1. PICK s \in Steps : s = Todo(q)'
    <2>1. IngestInv'
        BY IngestNext
    <2> QED
        BY <2>1 DEF IngestInv, TaskInv, TaskType
<1>2. /\ s # <<>> /\ \E i \in DOMAIN s : s[i] \in {"recall", "add", "amend", "drop", "weather"}
      /\ task'[q].todo = s
    BY <1>1 DEF HandlesWeather, Busy, Todo
<1>3. PICK x \in Wet \cup {"recall"} : In(x, s)
    BY <1>2, WeatherSteps
<1>4. CASE Same(q)
    <2>1. HandlesWeather(q)
        BY <1>1, <1>2, <1>4 DEF Same, HandlesWeather, Busy, Todo
    <2> QED
        BY <1>4, <2>1 DEF Same
<1>5. CASE Moves(q)
    <2>1. Busy(q) /\ Frame(q)' = Frame(q)
        BY <1>1, <1>2, <1>5 DEF Moves
    <2>2. \E y \in Wet \cup {"recall"} : In(y, Todo(q))
        <3>1. CASE x \in Wet
            <4>1. Heading(q) = "recall" \/ In(x, Todo(q))
                BY <1>1, <1>3, <1>5, <3>1 DEF Moves, GoesOnWell, Wet
            <4>2. In(Heading(q), Todo(q))
                BY <2>1, RestOfTask
            <4> QED
                BY <3>1, <4>1, <4>2
        <3>2. CASE x = "recall"
            <4>1. \/ In("recall", Todo(q))
                  \/ Heading(q) \in {"claim", "look"} /\ Frame(q).kind = "pos" /\ HasWeather(Frame(q))
                BY <1>1, <1>3, <1>5, <3>2 DEF Moves, GoesOnWell
            <4>2. In(Heading(q), Todo(q))
                BY <2>1, RestOfTask
            <4> QED
                BY <2>1, <4>1, <4>2 DEF OneWet
        <3> QED
            BY <1>3, <3>1, <3>2
    <2> QED
        BY <2>1, <2>2, WetSteps
<1>6. CASE Broken(q)
    BY <1>1, <1>2, <1>6 DEF Broken
<1>7. Same(q) \/ Begins(q) \/ Moves(q) \/ Broken(q)
    BY TaskCases
<1> QED
    BY <1>4, <1>5, <1>6, <1>7

LEMMA OneWetStays ==
    ASSUME IngestInv, TodoForm, OneWet, [Next]_vars PROVE OneWet'
<1>1. ASSUME NEW p \in Paths, NEW q \in Paths, p # q, HandlesWeather(p)', HandlesWeather(q)',
             Frame(p)'.src = Frame(q)'.src, ~Begins(p)
      PROVE  Frame(p)'.src \in torn'
    <2>1. HandlesWeather(p) /\ Frame(p)' = Frame(p)
        BY <1>1, WeatherComes
    <2>2. CASE Begins(q)
        <3>1. PICK f \in Frames : Arrive(q, f) /\ Todo(q)' = Plan(f) /\ Frame(q)' = f
            BY <2>2 DEF Begins
        <3>2. PICK s \in Steps : s = Plan(f) /\ AllPlanned(s)
                                 /\ (In("recall", s) <=> HasWeather(f) /\ f.kind \in {"tele", "pos"})
            BY PlanForm
        <3>3. task'[q].todo = s
            BY <3>1, <3>2 DEF Todo
        <3>4. s # <<>> /\ \E i \in DOMAIN s : s[i] \in {"recall", "add", "amend", "drop", "weather"}
            BY <1>1, <3>3 DEF HandlesWeather, Busy
        <3>5. PICK x \in Wet \cup {"recall"} : In(x, s)
            BY <3>4, WeatherSteps
        <3>6. x = "recall"
            BY <3>2, <3>5 DEF AllPlanned, In, Planned, Wet
        <3>7. HasWeather(f)
            BY <3>2, <3>5, <3>6
        <3>8. f.src = Frame(p).src /\ p \in AtWork(f.src)
            BY <1>1, <2>1, <3>1 DEF AtWork, HandlesWeather
        <3>9. f.src \in torn'
            BY <2>1, <3>1, <3>7, <3>8 DEF Arrive
        <3> QED
            BY <2>1, <3>8, <3>9
    <2>3. CASE ~Begins(q)
        <3>1. HandlesWeather(q) /\ Frame(q)' = Frame(q)
            BY <1>1, <2>3, WeatherComes
        <3> QED
            BY <1>1, <2>1, <3>1, TornGrows DEF OneWet
    <2> QED
        BY <2>2, <2>3
<1>2. ASSUME NEW p \in Paths, NEW q \in Paths, p # q, Begins(p), Begins(q) PROVE FALSE
    <2>1. PICK f : Arrive(p, f) /\ Todo(p)' = Plan(f)
        BY <1>2 DEF Begins
    <2>2. PICK g : Arrive(q, g) /\ Todo(q)' = Plan(g)
        BY <1>2 DEF Begins
    <2>3. task'[q] = task[q] /\ Todo(q) = <<>>
        BY <1>2, <2>1, <2>2 DEF Arrive, Busy, Todo, IngestInv, TaskInv, TaskType
    <2>4. Plan(g) # <<>>
        BY <2>2 DEF Arrive
    <2> QED
        BY <2>2, <2>3, <2>4 DEF Todo
<1>3. ASSUME NEW p \in Paths, Busy(p)', Frame(p)'.kind = "pos", HasWeather(Frame(p)'),
             In("claim", Todo(p)') \/ In("look", Todo(p)')
      PROVE  In("recall", Todo(p)')
    <2>1. Todo(p)' # <<>>
        BY <1>3 DEF Busy, Todo
    <2>2. CASE Same(p)
        BY <1>3, <2>1, <2>2 DEF Same, OneWet, Busy, Todo
    <2>3. CASE Begins(p)
        <3>1. PICK f \in Frames : Todo(p)' = Plan(f) /\ Frame(p)' = f
            BY <2>3 DEF Begins
        <3> QED
            BY <1>3, <3>1, PlanForm
    <2>4. CASE Moves(p)
        <3>1. Frame(p)' = Frame(p)
            BY <2>1, <2>4 DEF Moves
        <3>2. Frame(p).kind = "pos" /\ HasWeather(Frame(p))
            BY <1>3, <3>1
        <3> QED
            BY <1>3, <2>1, <2>4, <3>2, RecallIsKept
    <2>5. CASE Broken(p)
        BY <2>1, <2>5 DEF Broken
    <2> QED
        BY <2>2, <2>3, <2>4, <2>5, TaskCases
<1>4. ASSUME NEW p \in Paths, NEW q \in Paths, p # q, HandlesWeather(p)', HandlesWeather(q)',
             Frame(p)'.src = Frame(q)'.src
      PROVE  Frame(p)'.src \in torn'
    BY <1>1, <1>2, <1>4
<1> QED
    BY <1>3, <1>4 DEF OneWet

(* What a merge of a stored row keeps, and what it takes in. *)
LEMMA RowReading ==
    ASSUME NEW vals \in StoredVals
    PROVE  FromRow(vals) \in Readings /\ \A w \in Fields : FromRow(vals)[w].value = vals[w]
<1>1. ASSUME NEW w \in Fields
      PROVE  FromRow(vals)[w] \in Reading /\ FromRow(vals)[w].value = vals[w]
    <2>1. vals[w] \in Values \cup {None}
        BY DEF StoredVals
    <2>2. FromRow(vals)[w] = IF vals[w] = None THEN absent ELSE measured(vals[w])
        BY DEF FromRow
    <2> QED
        BY <2>1, <2>2 DEF absent, measured, Reading
<1>2. FromRow(vals) = [w \in Fields |-> FromRow(vals)[w]]
    BY DEF FromRow
<1> QED
    BY <1>1, <1>2 DEF Readings

LEMMA StoredReading ==
    ASSUME NEW m \in Readings
    PROVE  values_for(m) \in StoredVals /\ \A w \in Fields : values_for(m)[w] = m[w].value
<1>1. ASSUME NEW w \in Fields PROVE m[w].value \in Values \cup {None}
    <2>1. m[w] \in Reading
        BY DEF Readings
    <2> QED
        BY <2>1 DEF Reading
<1> QED
    BY <1>1 DEF values_for, StoredVals

LEMMA MergedValues ==
    ASSUME NEW vals \in StoredVals, NEW new \in Readings, NEW newer \in BOOLEAN,
           NEW m, m = values_for(Merge(FromRow(vals), new, newer))
    PROVE  /\ m \in StoredVals
           /\ NoLoss(vals, m)
           /\ \A w \in Fields : new[w].prov = MEASURED => m[w] # None
           /\ Changed(FromRow(vals), new, newer) = {} => \A w \in Fields : m[w] = vals[w]
<1>1. PICK old \in Readings : old = FromRow(vals) /\ \A w \in Fields : old[w].value = vals[w]
    BY RowReading
<1>2. PICK merged \in Readings : merged = Merge(old, new, newer)
    BY MergeType
<1>3. m \in StoredVals /\ \A w \in Fields : m[w] = merged[w].value
    BY <1>1, <1>2, StoredReading
<1>4. \A w \in Fields : merged[w].value = None => old[w].value = None /\ new[w].value = None
    BY <1>2, MergeLosesNothing
<1>5. ASSUME NEW w \in Fields, new[w].prov = MEASURED PROVE new[w].value # None
    <2>1. new[w] \in Reading
        BY DEF Readings
    <2> QED
        BY <1>5, <2>1, AbsentHasNoValue DEF MEASURED, ABSENT
<1>6. Changed(old, new, newer) = {} => \A w \in Fields : merged[w].value = old[w].value
    BY <1>2 DEF Changed
<1> QED
    BY <1>1, <1>3, <1>4, <1>5, <1>6 DEF NoLoss

LEMMA FreshValues ==
    ASSUME NEW new \in Readings, NEW m, m = values_for(new)
    PROVE  m \in StoredVals /\ \A w \in Fields : new[w].prov = MEASURED => m[w] # None
<1>1. m \in StoredVals /\ \A w \in Fields : m[w] = new[w].value
    BY StoredReading
<1>2. ASSUME NEW w \in Fields, new[w].prov = MEASURED PROVE new[w].value # None
    <2>1. new[w] \in Reading
        BY DEF Readings
    <2> QED
        BY <1>2, <2>1, AbsentHasNoValue DEF MEASURED, ABSENT
<1> QED
    BY <1>1, <1>2

(* The next step of a task that has just gone on to s. *)
LEMMA NextStep ==
    ASSUME IngestInv, NEW p \in Paths, Busy(p), NEW s \in Steps, s # <<>>, NEW found, GoesOn(p, s, found)
    PROVE  /\ \A x : Does(p, x)' <=> x = Head(s)
           /\ Frame(p)' = Frame(p) /\ At(p)' = At(p) /\ Found(p)' = found
           /\ \A q \in Paths \ {p} : Same(q)
<1>1. /\ Todo(p)' = s /\ Frame(p)' = Frame(p) /\ At(p)' = At(p) /\ Found(p)' = found
      /\ \A q \in Paths \ {p} : Same(q)
    BY TaskGoesOn DEF Same
<1>2. task'[p].todo = s
    BY <1>1 DEF Todo
<1>3. \A x : Does(p, x)' <=> x = Head(s)
    BY <1>2 DEF Does, Busy
<1> QED
    BY <1>1, <1>3

LEMMA LeadHeads ==
    ASSUME NEW s \in Seq(StepNames)
    PROVE  /\ <<"weather">> \o s # <<>> /\ Head(<<"weather">> \o s) = "weather"
           /\ <<"add", "weather">> \o s # <<>> /\ Head(<<"add", "weather">> \o s) = "add"
           /\ <<"amend", "weather">> \o s # <<>> /\ Head(<<"amend", "weather">> \o s) = "amend"
           /\ <<"drop", "add", "weather">> \o s # <<>>
           /\ Head(<<"drop", "add", "weather">> \o s) = "drop"
<1>1. ASSUME NEW a \in Seq(StepNames), Len(a) > 0 PROVE a \o s # <<>> /\ Head(a \o s) = a[1]
    <2>1. PICK t : t = a \o s
        OBVIOUS
    <2>2. t \in Seq(StepNames) /\ Len(t) = Len(a) + Len(s) /\ t[1] = a[1]
        BY <1>1, <2>1
    <2>3. Len(t) > 0
        BY <1>1, <2>2
    <2> QED
        BY <2>1, <2>2, <2>3
<1>2. /\ <<"weather">> \in Seq(StepNames) /\ <<"add", "weather">> \in Seq(StepNames)
      /\ <<"amend", "weather">> \in Seq(StepNames) /\ <<"drop", "add", "weather">> \in Seq(StepNames)
    BY DEF StepNames
<1>3. ASSUME NEW a, NEW b, NEW c
      PROVE  /\ Len(<<a>>) > 0 /\ <<a>>[1] = a /\ Len(<<a, b>>) > 0 /\ <<a, b>>[1] = a
             /\ Len(<<a, b, c>>) > 0 /\ <<a, b, c>>[1] = a
    OBVIOUS
<1> QED
    BY <1>1, <1>2, <1>3

First(action) ==
    CASE action = "skip" -> "weather"
      [] action = "update" -> "amend"
      [] action = "replace" -> "drop"

Goes(p, step, row, vals) ==
    /\ \A x : Does(p, x)' <=> x = step
    /\ Found(p)'.row = row /\ Found(p)'.vals = vals

LEMMA RecallCases ==
    ASSUME IngestInv, TodoForm, NEW p \in Paths, Recall(p)
    PROVE  /\ UNCHANGED <<now, next, tele, taken, torn>>
           /\ Busy(p) /\ Frame(p)' = Frame(p) /\ At(p)' = At(p) /\ \A q \in Paths \ {p} : Same(q)
           /\ \/ Recalled(p) = {} /\ Goes(p, "add", None, values_for(Frame(p).weather))
              \/ \E r \in Recalled(p) :
                    Goes(p, First(Action(FromRow(r.vals), Frame(p).weather, At(p) > r.at)), r.n,
                         values_for(Merge(FromRow(r.vals), Frame(p).weather, At(p) > r.at)))
<1>1. UNCHANGED <<now, next, tele, taken, torn>>
    BY DEF Recall, tables, history
<1>2. Busy(p) /\ Heading(p) = "recall"
    BY RecallGoesOn
<1>3. \A a \in Leads : a \o Rest(p) \in Steps
    BY <1>2, RestOfTask DEF Planned
<1>4. PICK rest \in Seq(StepNames) : rest = Rest(p)
    BY <1>2, RestOfTask DEF Steps
<1>5. ASSUME NEW s \in Steps, s # <<>>, NEW row, NEW vals, GoesOn(p, s, [row |-> row, vals |-> vals])
      PROVE  /\ Goes(p, Head(s), row, vals)
             /\ Frame(p)' = Frame(p) /\ At(p)' = At(p) /\ \A q \in Paths \ {p} : Same(q)
    <2>1. PICK found : found = [row |-> row, vals |-> vals]
        OBVIOUS
    <2>2. GoesOn(p, s, found)
        BY <1>5, <2>1
    <2>3. /\ \A x : Does(p, x)' <=> x = Head(s)
          /\ Frame(p)' = Frame(p) /\ At(p)' = At(p) /\ Found(p)' = found
          /\ \A q \in Paths \ {p} : Same(q)
        BY <1>2, <1>5, <2>2, NextStep
    <2>4. found.row = row /\ found.vals = vals
        BY <2>1
    <2> QED
        BY <2>3, <2>4 DEF Goes
<1>6. CASE /\ Recalled(p) = {}
           /\ GoesOn(p, <<"add", "weather">> \o Rest(p), [row |-> None, vals |-> values_for(Frame(p).weather)])
    <2>1. PICK s : s = <<"add", "weather">> \o Rest(p)
        OBVIOUS
    <2>2. s \in Steps /\ s # <<>> /\ Head(s) = "add"
        BY <1>3, <1>4, <2>1, LeadHeads DEF Leads
    <2>3. PICK vals : vals = values_for(Frame(p).weather)
        OBVIOUS
    <2>4. GoesOn(p, s, [row |-> None, vals |-> vals])
        BY <1>6, <2>1, <2>3
    <2>5. PICK row : row = None
        OBVIOUS
    <2>6. /\ Goes(p, Head(s), row, vals)
          /\ Frame(p)' = Frame(p) /\ At(p)' = At(p) /\ \A q \in Paths \ {p} : Same(q)
        BY <1>5, <2>2, <2>4, <2>5
    <2>7. Goes(p, "add", None, vals)
        BY <2>2, <2>5, <2>6
    <2> QED
        BY <1>1, <1>2, <1>6, <2>3, <2>6, <2>7
<1>7. ASSUME NEW r \in Recalled(p), NEW action \in {"skip", "update", "replace"}, NEW vals,
             GoesOn(p, Lead(action) \o Rest(p), [row |-> r.n, vals |-> vals])
      PROVE  /\ Goes(p, First(action), r.n, vals)
             /\ Frame(p)' = Frame(p) /\ At(p)' = At(p) /\ \A q \in Paths \ {p} : Same(q)
    <2>1. PICK s : s = Lead(action) \o Rest(p)
        OBVIOUS
    <2>2. Lead(action) \in Leads
        BY DEF Lead, Leads
    <2>3. s \in Steps
        BY <1>3, <2>1, <2>2
    <2>4. s # <<>> /\ Head(s) = First(action)
        <3>1. CASE action = "skip"
            BY <1>4, <2>1, <3>1, LeadHeads DEF Lead, First
        <3>2. CASE action = "update"
            BY <1>4, <2>1, <3>2, LeadHeads DEF Lead, First
        <3>3. CASE action = "replace"
            BY <1>4, <2>1, <3>3, LeadHeads DEF Lead, First
        <3> QED
            BY <3>1, <3>2, <3>3
    <2>5. PICK row : row = r.n
        OBVIOUS
    <2>6. GoesOn(p, s, [row |-> row, vals |-> vals])
        BY <1>7, <2>1, <2>5
    <2>7. /\ Goes(p, Head(s), row, vals)
          /\ Frame(p)' = Frame(p) /\ At(p)' = At(p) /\ \A q \in Paths \ {p} : Same(q)
        BY <1>5, <2>3, <2>4, <2>6
    <2> QED
        BY <2>4, <2>5, <2>7
<1>8. CASE \E r \in Recalled(p) :
              GoesOn(p, Lead(Action(FromRow(r.vals), Frame(p).weather, At(p) > r.at)) \o Rest(p),
                     [row |-> r.n,
                      vals |-> values_for(Merge(FromRow(r.vals), Frame(p).weather, At(p) > r.at))])
    <2>1. PICK r \in Recalled(p) :
              GoesOn(p, Lead(Action(FromRow(r.vals), Frame(p).weather, At(p) > r.at)) \o Rest(p),
                     [row |-> r.n,
                      vals |-> values_for(Merge(FromRow(r.vals), Frame(p).weather, At(p) > r.at))])
        BY <1>8
    <2>2. PICK action \in {"skip", "update", "replace"} :
              action = Action(FromRow(r.vals), Frame(p).weather, At(p) > r.at)
        BY DEF Action
    <2>3. PICK vals : vals = values_for(Merge(FromRow(r.vals), Frame(p).weather, At(p) > r.at))
        OBVIOUS
    <2>4. GoesOn(p, Lead(action) \o Rest(p), [row |-> r.n, vals |-> vals])
        BY <2>1, <2>2, <2>3
    <2>5. /\ Goes(p, First(action), r.n, vals)
          /\ Frame(p)' = Frame(p) /\ At(p)' = At(p) /\ \A q \in Paths \ {p} : Same(q)
        BY <1>7, <2>4
    <2>6. Goes(p, First(Action(FromRow(r.vals), Frame(p).weather, At(p) > r.at)), r.n,
               values_for(Merge(FromRow(r.vals), Frame(p).weather, At(p) > r.at)))
        BY <2>2, <2>3, <2>5
    <2> QED
        BY <1>1, <1>2, <2>5, <2>6
<1> QED
    BY <1>6, <1>8, RecallGoesOn

LEMMA WriteSteps ==
    ASSUME IngestInv, TodoForm, NEW p \in Paths,
           AddReading(p) \/ AmendReading(p) \/ DropReading(p) \/ UpsertWeather(p)
    PROVE  /\ Busy(p) /\ UNCHANGED <<now, torn>> /\ \A q \in Paths \ {p} : Same(q)
           /\ DropReading(p) => Does(p, "drop") /\ Goes(p, "add", Found(p).row, Found(p).vals)
           /\ AddReading(p) => Does(p, "add") /\ Goes(p, "weather", Found(p).row, Found(p).vals)
           /\ AmendReading(p) => Does(p, "amend") /\ Goes(p, "weather", Found(p).row, Found(p).vals)
           /\ ~UpsertWeather(p) => Frame(p)' = Frame(p) /\ At(p)' = At(p)
           /\ UpsertWeather(p) => Does(p, "weather") /\ Dry(p)'
<1>1. Busy(p) /\ UNCHANGED <<now, torn>>
    BY DEF AddReading, AmendReading, DropReading, UpsertWeather, Does, history
<1>2. PICK s \in Steps : s = Rest(p)
    BY <1>1, RestOfTask
<1>3. /\ Todo(p) \in Steps /\ Todo(p) # <<>> /\ Form(Todo(p)) /\ s = Tail(Todo(p))
    BY <1>1, <1>2, RestOfTask
<1>4. CASE ~UpsertWeather(p)
    <2>1. GoesOn(p, s, Found(p))
        BY <1>2, <1>4 DEF AddReading, AmendReading, DropReading
    <2>2. PICK x \in {"add", "amend", "drop"} :
              Does(p, x) /\ (AddReading(p) => x = "add") /\ (AmendReading(p) => x = "amend")
              /\ (DropReading(p) => x = "drop")
        BY <1>4 DEF AddReading, AmendReading, DropReading, Does
    <2>3. Head(Todo(p)) = x
        BY <2>2 DEF Does, Todo
    <2>4. s # <<>> /\ Head(s) = IF x = "drop" THEN "add" ELSE "weather"
        BY <1>3, <2>2, <2>3, FormOfRest
    <2>5. PICK found : found = Found(p)
        OBVIOUS
    <2>6. GoesOn(p, s, found)
        BY <2>1, <2>5
    <2>7. /\ \A y : Does(p, y)' <=> y = Head(s)
          /\ Frame(p)' = Frame(p) /\ At(p)' = At(p) /\ Found(p)' = found
          /\ \A q \in Paths \ {p} : Same(q)
        BY <1>1, <2>4, <2>6, NextStep
    <2>8. Goes(p, IF x = "drop" THEN "add" ELSE "weather", Found(p).row, Found(p).vals)
        BY <2>4, <2>5, <2>7 DEF Goes
    <2> QED
        BY <1>1, <1>4, <2>2, <2>7, <2>8
<1>5. CASE UpsertWeather(p)
    <2>1. Does(p, "weather") /\ GoesOn(p, s, None)
        BY <1>2, <1>5 DEF UpsertWeather, Finishes
    <2>2. Head(Todo(p)) = "weather"
        BY <2>1 DEF Does, Todo
    <2>3. AllPlanned(s)
        BY <1>3, <2>2, FormOfRest
    <2>4. PICK found : found = None
        OBVIOUS
    <2>5. GoesOn(p, s, found)
        BY <2>1, <2>4
    <2>6. Todo(p)' = s /\ \A q \in Paths \ {p} : Same(q)
        BY <1>1, <2>5, TaskGoesOn DEF Same
    <2>7. s # <<>> => Head(s) \in Planned
        BY <2>3 DEF AllPlanned, Steps
    <2>8. task'[p].todo = s
        BY <2>6 DEF Todo
    <2>9. Dry(p)'
        BY <2>7, <2>8 DEF Dry, Does, Busy, Wet, Planned
    <2>10. ~AddReading(p) /\ ~AmendReading(p) /\ ~DropReading(p)
        BY <2>2 DEF AddReading, AmendReading, DropReading, Does, Todo
    <2> QED
        BY <1>1, <1>5, <2>1, <2>6, <2>9, <2>10
<1> QED
    BY <1>4, <1>5

(* What the other task has in mind stays true: it works on another station. *)
LEMMA WetBeside ==
    ASSUME IngestInv, TeleType, NEW q \in Paths, Same(q), WetTask(q), torn \subseteq torn',
           next \in Nat, next' \in Nat, next <= next',
           \A r \in tele' : r.n = next \/ \E s \in tele : s.n = r.n /\ s.call = r.call,
           Dry(q) \/ Frame(q).src \in torn
               \/ \A r : r.call = Frame(q).src => (r \in tele' <=> r \in tele)
    PROVE  WetTask(q)'
<1>1. /\ \A x : Does(q, x)' <=> Does(q, x)
      /\ Frame(q)' = Frame(q) /\ At(q)' = At(q) /\ Found(q)' = Found(q)
    BY DEF Same, Does, Busy, Todo
<1>2. Merging(q)'
    <2> SUFFICES ASSUME NEW x \in {"drop", "add", "amend"}, Does(q, x)
                 PROVE  /\ Found(q).vals \in StoredVals /\ Covers(Found(q).vals, q)'
                        /\ x # "add" => /\ Found(q).row \in Nat /\ Found(q).row < next'
                                        /\ \A r \in tele' : r.n = Found(q).row => r.call = Frame(q).src
        BY <1>1 DEF Merging
    <2>1. /\ Found(q).vals \in StoredVals /\ Covers(Found(q).vals, q)
          /\ x # "add" => /\ Found(q).row \in Nat /\ Found(q).row < next
                          /\ \A r \in tele : r.n = Found(q).row => r.call = Frame(q).src
        BY DEF WetTask, Merging
    <2>2. Covers(Found(q).vals, q)'
        BY <1>1, <2>1 DEF Covers
    <2>3. ASSUME x # "add", NEW r \in tele', r.n = Found(q).row PROVE r.call = Frame(q).src
        BY <2>1, <2>3
    <2> QED
        BY <2>1, <2>2, <2>3
<1>3. CASE Dry(q)
    BY <1>1, <1>2, <1>3 DEF WetTask, Dry, Wet, Dropping, Adding, Amending, Merged
<1>4. CASE Frame(q).src \in torn
    BY <1>1, <1>2, <1>4 DEF WetTask, Dropping, Adding, Amending, Merged
<1>5. CASE \A r : r.call = Frame(q).src => (r \in tele' <=> r \in tele)
    <2>1. PICK c : c = Frame(q).src
        OBVIOUS
    <2>2. Of(c)' = Of(c)
        BY <1>5, <2>1 DEF Of
    <2>3. Frame(q)'.src = c /\ (c \notin torn' => c \notin torn)
        BY <1>1, <2>1
    <2>4. Dropping(q)'
        BY <1>1, <2>1, <2>2, <2>3 DEF WetTask, Dropping
    <2>5. Adding(q)'
        BY <1>1, <2>1, <2>2, <2>3 DEF WetTask, Adding
    <2>6. Amending(q)'
        BY <1>1, <2>1, <2>2, <2>3 DEF WetTask, Amending
    <2>7. Merged(q)'
        BY <1>1, <2>1, <2>2, <2>3 DEF WetTask, Merged, Covers
    <2> QED
        BY <1>2, <2>4, <2>5, <2>6, <2>7 DEF WetTask
<1> QED
    BY <1>3, <1>4, <1>5

LEMMA RecalledRow ==
    ASSUME IngestInv, TeleType, TelemetrySpaced, NEW p \in Paths, Busy(p)
    PROVE  /\ Recalled(p) = {} => \A s \in Of(Frame(p).src) : Wide(s.at, At(p))
           /\ \A r \in Recalled(p) :
                 /\ r \in tele /\ r.call = Frame(p).src /\ r.at > At(p) - TeleWindow
                 /\ At(p) > r.at /\ Frame(p).src \notin torn =>
                       \A s \in Of(Frame(p).src) : s # r => Wide(s.at, At(p))
<1>0. TeleWindow \in Nat \ {0} /\ At(p) \in Nat /\ \A s \in tele : s.at \in Nat
    BY IngestAssumption, FrameOfStep DEF TeleType
<1>1. PICK N : N = Near(Frame(p).src, At(p))
    OBVIOUS
<1>2. /\ N \subseteq tele /\ Recalled(p) = Newest(N)
      /\ \A s : s \in N <=> /\ s \in tele /\ s.call = Frame(p).src
                            /\ s.at > At(p) - TeleWindow /\ s.at < At(p) + TeleWindow
    BY <1>1 DEF Near, Recalled
<1>3. ASSUME NEW s \in Of(Frame(p).src), s \notin N PROVE Wide(s.at, At(p))
    BY <1>0, <1>2, <1>3 DEF Of, Wide
<1>4. Recalled(p) = {} => N = {}
    BY <1>2, SomeNewest DEF IngestInv
<1>5. ASSUME NEW r \in Recalled(p)
      PROVE  /\ r \in tele /\ r.call = Frame(p).src /\ r.at > At(p) - TeleWindow
             /\ At(p) > r.at /\ Frame(p).src \notin torn =>
                   \A s \in Of(Frame(p).src) : s # r => Wide(s.at, At(p))
    <2>1. r \in N /\ \A s \in N : s.at < r.at \/ s.at = r.at
        BY <1>2 DEF Newest
    <2>2. ASSUME At(p) > r.at, Frame(p).src \notin torn, NEW s \in Of(Frame(p).src), s # r, s \in N
          PROVE  FALSE
        <3>1. r.at - s.at >= TeleWindow \/ s.at - r.at >= TeleWindow
            BY <1>2, <2>1, <2>2 DEF TelemetrySpaced
        <3>2. s.at > At(p) - TeleWindow /\ (s.at < r.at \/ s.at = r.at) /\ s.at \in Nat /\ r.at \in Nat
            BY <1>0, <1>2, <2>1, <2>2
        <3> QED
            BY <1>0, <2>2, <3>1, <3>2
    <2> QED
        BY <1>2, <1>3, <2>1, <2>2
<1> QED
    BY <1>3, <1>4, <1>5

LEMMA RecallStays ==
    ASSUME IngestInv, TodoForm, TeleInv, NEW p \in Paths, Recall(p)
    PROVE  WetTask(p)'
<1>0. /\ UNCHANGED <<now, next, tele, taken, torn>> /\ Busy(p)
      /\ Frame(p)' = Frame(p) /\ At(p)' = At(p)
    BY RecallCases
<1>1. PICK c, t : c = Frame(p).src /\ t = At(p)
    OBVIOUS
<1>2. Frame(p)'.src = c /\ At(p)' = t /\ Of(c)' = Of(c)
    BY <1>0, <1>1 DEF Of
<1>3. PICK new \in Readings : new = Frame(p).weather
    BY <1>0, FrameOfStep, AgendasAssumption
<1>4. ASSUME NEW vals, \A w \in Fields : new[w].prov = MEASURED => vals[w] # None
      PROVE  Covers(vals, p)'
    BY <1>0, <1>3, <1>4 DEF Covers
<1>5. CASE Recalled(p) = {} /\ Goes(p, "add", None, values_for(Frame(p).weather))
    <2>1. PICK vals : vals = values_for(new)
        OBVIOUS
    <2>2. vals \in StoredVals /\ Covers(vals, p)'
        BY <1>4, <2>1, FreshValues
    <2>3. (\A x : Does(p, x)' <=> x = "add") /\ Found(p)'.vals = vals
        BY <1>3, <1>5, <2>1 DEF Goes
    <2>4. Merging(p)'
        BY <2>2, <2>3 DEF Merging
    <2>5. \A s \in Of(c) : Wide(s.at, t)
        BY <1>0, <1>1, <1>5, RecalledRow DEF TeleInv
    <2>6. Adding(p)'
        BY <1>2, <2>5 DEF Adding
    <2>7. Dropping(p)' /\ Amending(p)' /\ Merged(p)'
        BY <2>3 DEF Dropping, Amending, Merged
    <2> QED
        BY <2>4, <2>6, <2>7 DEF WetTask
<1>6. ASSUME NEW r \in Recalled(p),
             Goes(p, First(Action(FromRow(r.vals), Frame(p).weather, At(p) > r.at)), r.n,
                  values_for(Merge(FromRow(r.vals), Frame(p).weather, At(p) > r.at)))
      PROVE  WetTask(p)'
    <2>1. /\ r \in tele /\ r.call = c /\ r.at > t - TeleWindow
          /\ t > r.at /\ c \notin torn => \A s \in Of(c) : s # r => Wide(s.at, t)
        BY <1>0, <1>1, RecalledRow DEF TeleInv
    <2>2. r.n \in Nat /\ r.n < next /\ (\A s \in tele : s.n = r.n => s = r)
        BY <2>1 DEF TeleInv, TeleType
    <2>3. PICK old \in StoredVals : old = r.vals
        BY <2>1 DEF TeleInv, TeleType
    <2>4. PICK newer \in BOOLEAN : newer = (t > r.at)
        <3>1. CASE t > r.at
            <4>1. TRUE = (t > r.at)
                BY <3>1
            <4> QED
                BY <4>1, Zenon
        <3>2. CASE ~(t > r.at)
            <4>1. FALSE = (t > r.at)
                BY <3>2
            <4> QED
                BY <4>1, Zenon
        <3> QED
            BY <3>1, <3>2
    <2>5. PICK vals : vals = values_for(Merge(FromRow(old), new, newer))
        OBVIOUS
    <2>6. /\ vals \in StoredVals /\ NoLoss(old, vals)
          /\ \A w \in Fields : new[w].prov = MEASURED => vals[w] # None
          /\ Changed(FromRow(old), new, newer) = {} => \A w \in Fields : vals[w] = old[w]
        BY <2>5, MergedValues
    <2>7. PICK action : action = Action(FromRow(old), new, newer)
        OBVIOUS
    <2>8. /\ \A x : Does(p, x)' <=> x = First(action)
          /\ Found(p)'.row = r.n /\ Found(p)'.vals = vals
        BY <1>1, <1>3, <1>6, <2>3, <2>4, <2>5, <2>7 DEF Goes
    <2>9. Covers(vals, p)'
        BY <1>4, <2>6
    <2>10. Merging(p)'
        <3>1. \A s \in tele' : s.n = r.n => s.call = c
            BY <1>0, <2>1, <2>2
        <3> QED
            BY <1>0, <1>2, <2>2, <2>6, <2>8, <2>9, <3>1 DEF Merging
    <2>11. /\ action = "skip" => Changed(FromRow(old), new, newer) = {}
           /\ action = "replace" => newer
           /\ action \in {"skip", "update", "replace"}
        BY <2>7 DEF Action
    <2>12. CASE action = "skip"
        <3>1. \A x : Does(p, x)' <=> x = "weather"
            BY <2>8, <2>12 DEF First
        <3>2. \A w \in Fields : new[w].prov = MEASURED => r.vals[w] # None
            BY <2>3, <2>6, <2>11, <2>12
        <3>3. Covers(r.vals, p)'
            <4>1. PICK v : v = r.vals
                OBVIOUS
            <4>2. Covers(v, p)'
                BY <1>4, <3>2, <4>1
            <4> QED
                BY <4>1, <4>2
        <3>4. r \in Of(c)
            BY <2>1 DEF Of
        <3>5. Merged(p)'
            BY <1>2, <2>1, <3>3, <3>4 DEF Merged
        <3>6. Dropping(p)' /\ Amending(p)' /\ Adding(p)'
            BY <3>1 DEF Dropping, Amending, Adding
        <3> QED
            BY <2>10, <3>5, <3>6 DEF WetTask
    <2>13. CASE action = "update"
        <3>1. \A x : Does(p, x)' <=> x = "amend"
            BY <2>8, <2>13 DEF First
        <3>2. r \in Of(c) /\ NoLoss(r.vals, vals)
            BY <2>1, <2>3, <2>6 DEF Of
        <3>3. Amending(p)'
            BY <1>2, <2>1, <2>8, <3>2 DEF Amending
        <3>4. Dropping(p)' /\ Merged(p)' /\ Adding(p)'
            BY <3>1 DEF Dropping, Merged, Adding
        <3> QED
            BY <2>10, <3>3, <3>4 DEF WetTask
    <2>14. CASE action = "replace"
        <3>1. \A x : Does(p, x)' <=> x = "drop"
            BY <2>8, <2>14 DEF First
        <3>2. t > r.at
            BY <2>4, <2>11, <2>14
        <3>3. ASSUME c \notin torn, NEW s \in Of(c)
              PROVE  IF s.n = r.n THEN s.at < t /\ NoLoss(s.vals, vals) ELSE Wide(s.at, t)
            <4>1. s.n = r.n => s = r
                BY <2>2, <3>3 DEF Of
            <4>2. s # r => Wide(s.at, t)
                BY <2>1, <3>2, <3>3
            <4>3. r.at < t /\ NoLoss(r.vals, vals)
                <5>1. r.at \in Nat /\ t \in Nat
                    BY <1>0, <1>1, <2>1, FrameOfStep DEF TeleInv, TeleType
                <5> QED
                    BY <2>3, <2>6, <3>2, <5>1
            <4> QED
                BY <4>1, <4>2, <4>3
        <3>4. Dropping(p)'
            BY <1>0, <1>2, <2>8, <3>3 DEF Dropping
        <3>5. Amending(p)' /\ Merged(p)' /\ Adding(p)'
            BY <3>1 DEF Amending, Merged, Adding
        <3> QED
            BY <2>10, <3>4, <3>5 DEF WetTask
    <2> QED
        BY <2>11, <2>12, <2>13, <2>14
<1> QED
    BY <1>5, <1>6, RecallCases

(* What the other task is about to add is still to be added. *)
LEMMA StillAdding ==
    ASSUME NEW q \in Paths, Same(q), Does(q, "add"), NEW v, Frame(q).src = v[1],
           At(q) > v[2] - TeleWindow, Found(q).vals[v[3]] # None
    PROVE  \E r \in Paths : /\ Does(r, "add")' /\ Frame(r)'.src = v[1]
                            /\ At(r)' > v[2] - TeleWindow /\ Found(r)'.vals[v[3]] # None
<1>1. Does(q, "add")'
    BY DEF Same, Does, Busy, Todo
<1> QED
    BY <1>1 DEF Same

LEMMA DropStays ==
    ASSUME IngestInv, TodoForm, TeleInv, NEW p \in Paths, DropReading(p)
    PROVE  /\ TeleType' /\ TelemetrySpaced' /\ WetTask(p)' /\ TakenKept'
           /\ \A r \in tele' : r \in tele
           /\ \A r : r.call # Frame(p).src => (r \in tele' <=> r \in tele)
<1>0. /\ UNCHANGED <<now, next, taken, torn>> /\ Busy(p) /\ Does(p, "drop")
      /\ Frame(p)' = Frame(p) /\ At(p)' = At(p) /\ \A q \in Paths \ {p} : Same(q)
      /\ Goes(p, "add", Found(p).row, Found(p).vals) /\ \A x : Does(p, x) => x = "drop"
    <2>1. UNCHANGED <<next, taken>> /\ ~UpsertWeather(p)
        BY DEF DropReading, UpsertWeather, history, Does
    <2>2. \A x : Does(p, x) => x = "drop"
        BY DEF DropReading, Does
    <2> QED
        BY <2>1, <2>2, WriteSteps
<1>1. PICK c, t, row, vals : c = Frame(p).src /\ t = At(p) /\ row = Found(p).row /\ vals = Found(p).vals
    OBVIOUS
<1>2. tele' = {r \in tele : r.n # row}
    BY <1>1 DEF DropReading
<1>3. /\ vals \in StoredVals /\ Covers(vals, p)
      /\ \A r \in tele : r.n = row => r.call = c
    BY <1>0, <1>1 DEF TeleInv, WetInv, WetTask, Merging
<1>4. c \notin torn => \A r \in Of(c) :
          IF r.n = row THEN r.at < t /\ NoLoss(r.vals, vals) ELSE Wide(r.at, t)
    BY <1>0, <1>1 DEF TeleInv, WetInv, WetTask, Dropping
<1>5. TeleType' /\ TelemetrySpaced'
    BY <1>0, <1>2 DEF TeleInv, TeleType, TelemetrySpaced
<1>6. /\ \A x : Does(p, x)' <=> x = "add"
      /\ Found(p)'.vals = vals /\ Frame(p)'.src = c /\ At(p)' = t
    BY <1>0, <1>1 DEF Goes
<1>7. WetTask(p)'
    <2>1. Covers(vals, p)'
        BY <1>0, <1>3 DEF Covers
    <2>2. Merging(p)'
        BY <1>3, <1>6, <2>1 DEF Merging
    <2>3. c \notin torn => \A r \in Of(c)' : Wide(r.at, t)
        BY <1>2, <1>4 DEF Of
    <2>4. Adding(p)'
        BY <1>0, <1>6, <2>3 DEF Adding
    <2>5. Dropping(p)' /\ Amending(p)' /\ Merged(p)'
        BY <1>6 DEF Dropping, Amending, Merged
    <2> QED
        BY <2>2, <2>4, <2>5 DEF WetTask
<1>8. TakenKept'
    <2> SUFFICES ASSUME NEW v \in taken, v[1] \notin torn
                 PROVE  \/ \E r \in Of(v[1])' : r.at > v[2] - TeleWindow /\ r.vals[v[3]] # None
                        \/ \E q \in Paths : /\ Does(q, "add")' /\ Frame(q)'.src = v[1]
                                            /\ At(q)' > v[2] - TeleWindow
                                            /\ Found(q)'.vals[v[3]] # None
        BY <1>0 DEF TakenKept, Of
    <2>0. v[1] \in Calls /\ v[2] \in Nat /\ v[3] \in Fields
        BY DEF TeleInv, TeleType
    <2>1. CASE \E r \in Of(v[1]) : r.at > v[2] - TeleWindow /\ r.vals[v[3]] # None
        <3>1. PICK r \in Of(v[1]) : r.at > v[2] - TeleWindow /\ r.vals[v[3]] # None
            BY <2>1
        <3>2. r \in tele /\ r.call = v[1] /\ r.at \in Nat
            BY <3>1 DEF Of, TeleInv, TeleType
        <3>3. CASE r.n # row
            BY <1>2, <3>1, <3>2, <3>3 DEF Of
        <3>4. CASE r.n = row
            <4>1. v[1] = c /\ r \in Of(c)
                BY <1>3, <3>2, <3>4 DEF Of
            <4>2. r.at < t /\ NoLoss(r.vals, vals)
                BY <1>4, <3>4, <4>1
            <4>3. vals[v[3]] # None
                BY <2>0, <3>1, <4>2 DEF NoLoss
            <4>4. t > v[2] - TeleWindow
                <5>1. t \in Nat /\ TeleWindow \in Nat
                    BY <1>0, <1>1, FrameOfStep, IngestAssumption
                <5> QED
                    BY <2>0, <3>1, <3>2, <4>2, <5>1
            <4> QED
                BY <1>6, <4>1, <4>3, <4>4
        <3> QED
            BY <3>3, <3>4
    <2>2. CASE \E q \in Paths : /\ Does(q, "add") /\ Frame(q).src = v[1]
                                /\ At(q) > v[2] - TeleWindow /\ Found(q).vals[v[3]] # None
        <3>1. PICK q \in Paths : /\ Does(q, "add") /\ Frame(q).src = v[1]
                                 /\ At(q) > v[2] - TeleWindow /\ Found(q).vals[v[3]] # None
            BY <2>2
        <3>2. Same(q)
            BY <1>0, <3>1
        <3> QED
            BY <3>1, <3>2, StillAdding
    <2> QED
        BY <2>1, <2>2 DEF TeleInv, TakenKept
<1> QED
    BY <1>1, <1>2, <1>3, <1>5, <1>7, <1>8

LEMMA AddStays ==
    ASSUME IngestInv, TodoForm, TeleInv, NEW p \in Paths, AddReading(p)
    PROVE  /\ TeleType' /\ TelemetrySpaced' /\ WetTask(p)' /\ TakenKept'
           /\ \A r \in tele' : r.n = next \/ r \in tele
           /\ \A r : r.call # Frame(p).src => (r \in tele' <=> r \in tele)
<1>0. /\ UNCHANGED <<now, taken, torn>> /\ Busy(p) /\ Does(p, "add") /\ next' = next + 1
      /\ Frame(p)' = Frame(p) /\ At(p)' = At(p) /\ \A q \in Paths \ {p} : Same(q)
      /\ Goes(p, "weather", Found(p).row, Found(p).vals)
    <2>1. UNCHANGED taken /\ next' = next + 1 /\ ~UpsertWeather(p)
        BY DEF AddReading, UpsertWeather, history, Does
    <2> QED
        BY <2>1, WriteSteps
<1>1. PICK c, t, vals : c = Frame(p).src /\ t = At(p) /\ vals = Found(p).vals
    OBVIOUS
<1>2. c \in Calls /\ t \in Nat /\ t <= now /\ next \in Nat /\ now \in Nat /\ TeleWindow \in Nat \ {0}
    BY <1>0, <1>1, FrameOfStep, IngestAssumption DEF IngestInv, ClockType, TaskInv, TaskType
<1>3. PICK new : new = [n |-> next, call |-> c, at |-> t, vals |-> vals]
    OBVIOUS
<1>4. tele' = tele \cup {new} /\ new.n = next /\ new.call = c /\ new.at = t /\ new.vals = vals
    BY <1>1, <1>3 DEF AddReading
<1>5. vals \in StoredVals /\ Covers(vals, p)
    BY <1>0, <1>1 DEF TeleInv, WetInv, WetTask, Merging
<1>6. c \notin torn => \A r \in Of(c) : Wide(r.at, t)
    BY <1>0, <1>1 DEF TeleInv, WetInv, WetTask, Adding
<1>7. TeleType'
    <2>1. new \in [n : Nat, call : Calls, at : Nat, vals : StoredVals]
        BY <1>2, <1>3, <1>5
    <2>2. \A r \in tele : r.n < next /\ r.n \in Nat /\ r.at <= now
        BY DEF TeleInv, TeleType
    <2>3. tele' \subseteq [n : Nat, call : Calls, at : Nat, vals : StoredVals]
        BY <1>4, <2>1 DEF TeleInv, TeleType
    <2>4. \A r \in tele' : r.n < next' /\ r.at <= now'
        BY <1>0, <1>2, <1>4, <2>2
    <2>5. \A r, s \in tele' : r.n = s.n => r = s
        <3>1. \A r, s \in tele : r.n = s.n => r = s
            BY DEF TeleInv, TeleType
        <3>2. \A r \in tele : r.n # next
            BY <1>2, <2>2
        <3> QED
            BY <1>4, <3>1, <3>2
    <2> QED
        BY <1>0, <2>3, <2>4, <2>5 DEF TeleInv, TeleType
<1>8. TelemetrySpaced'
    <2> SUFFICES ASSUME NEW r \in tele', NEW s \in tele', r.call = s.call, r # s, r.call \notin torn
                 PROVE  Wide(r.at, s.at)
        BY <1>0 DEF TelemetrySpaced, Wide
    <2>1. CASE r \in tele /\ s \in tele
        BY <2>1 DEF TeleInv, TelemetrySpaced, Wide
    <2>2. CASE r = new /\ s \in tele
        BY <1>4, <1>6, <2>2 DEF Of, Wide
    <2>3. CASE r \in tele /\ s = new
        BY <1>4, <1>6, <2>3 DEF Of, Wide
    <2> QED
        BY <1>4, <2>1, <2>2, <2>3
<1>9. WetTask(p)'
    <2>1. \A x : Does(p, x)' <=> x = "weather"
        BY <1>0 DEF Goes
    <2>2. Covers(new.vals, p)'
        BY <1>0, <1>4, <1>5 DEF Covers
    <2>3. new \in Of(c)'
        BY <1>4 DEF Of
    <2>4. Frame(p)'.src = c /\ At(p)' = t /\ new.at > t - TeleWindow
        BY <1>0, <1>1, <1>2, <1>4
    <2>5. Merged(p)'
        BY <2>2, <2>3, <2>4 DEF Merged
    <2>6. Merging(p)' /\ Dropping(p)' /\ Adding(p)' /\ Amending(p)'
        BY <2>1 DEF Merging, Dropping, Adding, Amending
    <2> QED
        BY <2>5, <2>6 DEF WetTask
<1>10. TakenKept'
    <2> SUFFICES ASSUME NEW v \in taken, v[1] \notin torn
                 PROVE  \/ \E r \in Of(v[1])' : r.at > v[2] - TeleWindow /\ r.vals[v[3]] # None
                        \/ \E q \in Paths : /\ Does(q, "add")' /\ Frame(q)'.src = v[1]
                                            /\ At(q)' > v[2] - TeleWindow
                                            /\ Found(q)'.vals[v[3]] # None
        BY <1>0 DEF TakenKept, Of
    <2>1. CASE \E r \in Of(v[1]) : r.at > v[2] - TeleWindow /\ r.vals[v[3]] # None
        BY <1>4, <2>1 DEF Of
    <2>2. CASE \E q \in Paths : /\ Does(q, "add") /\ Frame(q).src = v[1]
                                /\ At(q) > v[2] - TeleWindow /\ Found(q).vals[v[3]] # None
        <3>1. PICK q \in Paths : /\ Does(q, "add") /\ Frame(q).src = v[1]
                                 /\ At(q) > v[2] - TeleWindow /\ Found(q).vals[v[3]] # None
            BY <2>2
        <3>2. CASE q = p
            BY <1>1, <1>4, <3>1, <3>2 DEF Of
        <3>3. CASE q # p
            BY <1>0, <3>1, <3>3, StillAdding
        <3> QED
            BY <3>2, <3>3
    <2> QED
        BY <2>1, <2>2 DEF TeleInv, TakenKept
<1> QED
    BY <1>1, <1>4, <1>7, <1>8, <1>9, <1>10

LEMMA AmendStays ==
    ASSUME IngestInv, TodoForm, TeleInv, NEW p \in Paths, AmendReading(p)
    PROVE  /\ TeleType' /\ TelemetrySpaced' /\ WetTask(p)' /\ TakenKept'
           /\ \A r \in tele' : \E s \in tele : s.n = r.n /\ s.call = r.call
           /\ \A r : r.call # Frame(p).src => (r \in tele' <=> r \in tele)
<1>0. /\ UNCHANGED <<now, next, taken, torn>> /\ Busy(p) /\ Does(p, "amend")
      /\ Frame(p)' = Frame(p) /\ At(p)' = At(p) /\ \A q \in Paths \ {p} : Same(q)
      /\ Goes(p, "weather", Found(p).row, Found(p).vals) /\ \A x : Does(p, x) => x = "amend"
    <2>1. UNCHANGED <<next, taken>> /\ ~UpsertWeather(p)
        BY DEF AmendReading, UpsertWeather, history, Does
    <2>2. \A x : Does(p, x) => x = "amend"
        BY DEF AmendReading, Does
    <2> QED
        BY <2>1, <2>2, WriteSteps
<1>1. PICK c, t, row, vals : c = Frame(p).src /\ t = At(p) /\ row = Found(p).row /\ vals = Found(p).vals
    OBVIOUS
<1>2. /\ vals \in StoredVals /\ Covers(vals, p)
      /\ \A r \in tele : r.n = row => r.call = c
    BY <1>0, <1>1 DEF TeleInv, WetInv, WetTask, Merging
<1>3. c \notin torn =>
          \E r \in Of(c) : r.n = row /\ r.at > t - TeleWindow /\ NoLoss(r.vals, vals)
    BY <1>0, <1>1 DEF TeleInv, WetInv, WetTask, Amending
<1>4. PICK to : to = [r \in tele |-> IF r.n = row THEN [r EXCEPT !.vals = vals] ELSE r]
    OBVIOUS
<1>5. tele' = {to[r] : r \in tele}
    BY <1>1, <1>4 DEF AmendReading
<1>6. ASSUME NEW r \in tele
      PROVE  /\ to[r] \in [n : Nat, call : Calls, at : Nat, vals : StoredVals]
             /\ to[r].n = r.n /\ to[r].call = r.call /\ to[r].at = r.at
             /\ to[r].vals = IF r.n = row THEN vals ELSE r.vals
             /\ r.n # row => to[r] = r
    <2>1. r \in [n : Nat, call : Calls, at : Nat, vals : StoredVals]
        BY DEF TeleInv, TeleType
    <2> QED
        BY <1>2, <1>4, <2>1
<1>7. TeleType'
    <2>1. \A r, s \in tele : r.n = s.n => r = s
        BY DEF TeleInv, TeleType
    <2>2. \A r, s \in tele' : r.n = s.n => r = s
        BY <1>5, <1>6, <2>1
    <2>3. \A r \in tele : r.n < next /\ r.at <= now
        BY DEF TeleInv, TeleType
    <2>4. \A r \in tele' : r.n < next /\ r.at <= now
        BY <1>5, <1>6, <2>3
    <2>5. tele' \subseteq [n : Nat, call : Calls, at : Nat, vals : StoredVals]
        BY <1>5, <1>6
    <2> QED
        BY <1>0, <2>2, <2>4, <2>5 DEF TeleInv, TeleType
<1>8. TelemetrySpaced'
    <2> SUFFICES ASSUME NEW r \in tele, NEW s \in tele, to[r].call = to[s].call, to[r] # to[s],
                        to[r].call \notin torn
                 PROVE  Wide(to[r].at, to[s].at)
        BY <1>0, <1>5 DEF TelemetrySpaced, Wide
    <2>1. r # s /\ r.call = s.call /\ r.call \notin torn
        BY <1>6
    <2>2. Wide(r.at, s.at)
        BY <2>1 DEF TeleInv, TelemetrySpaced, Wide
    <2> QED
        BY <1>6, <2>2
<1>9. WetTask(p)'
    <2>1. \A x : Does(p, x)' <=> x = "weather"
        BY <1>0 DEF Goes
    <2>2. Frame(p)'.src = c /\ At(p)' = t
        BY <1>0, <1>1
    <2>3. ASSUME c \notin torn PROVE \E r \in Of(c)' : r.at > t - TeleWindow /\ Covers(r.vals, p)'
        <3>1. PICK r \in Of(c) : r.n = row /\ r.at > t - TeleWindow
            BY <1>3, <2>3
        <3>2. r \in tele /\ r.call = c
            BY <3>1 DEF Of
        <3>3. /\ to[r] \in tele' /\ to[r].call = c /\ to[r].at > t - TeleWindow /\ to[r].vals = vals
            BY <1>5, <1>6, <3>1, <3>2
        <3>4. Covers(vals, p)'
            BY <1>0, <1>2 DEF Covers
        <3>5. PICK new : new = to[r]
            OBVIOUS
        <3>6. new \in Of(c)' /\ new.at > t - TeleWindow /\ Covers(new.vals, p)'
            BY <3>3, <3>4, <3>5 DEF Of
        <3> QED
            BY <3>6
    <2>4. Merged(p)'
        BY <1>0, <2>2, <2>3 DEF Merged
    <2>5. Merging(p)' /\ Dropping(p)' /\ Adding(p)' /\ Amending(p)'
        BY <2>1 DEF Merging, Dropping, Adding, Amending
    <2> QED
        BY <2>4, <2>5 DEF WetTask
<1>10. TakenKept'
    <2> SUFFICES ASSUME NEW v \in taken, v[1] \notin torn
                 PROVE  \/ \E r \in Of(v[1])' : r.at > v[2] - TeleWindow /\ r.vals[v[3]] # None
                        \/ \E q \in Paths : /\ Does(q, "add")' /\ Frame(q)'.src = v[1]
                                            /\ At(q)' > v[2] - TeleWindow
                                            /\ Found(q)'.vals[v[3]] # None
        BY <1>0 DEF TakenKept, Of
    <2>0. v[3] \in Fields
        BY DEF TeleInv, TeleType
    <2>1. CASE \E r \in Of(v[1]) : r.at > v[2] - TeleWindow /\ r.vals[v[3]] # None
        <3>1. PICK r \in Of(v[1]) : r.at > v[2] - TeleWindow /\ r.vals[v[3]] # None
            BY <2>1
        <3>2. r \in tele /\ r.call = v[1]
            BY <3>1 DEF Of
        <3>3. to[r].vals[v[3]] # None
            <4>1. CASE r.n # row
                BY <1>6, <3>1, <3>2, <4>1
            <4>2. CASE r.n = row
                <5>1. v[1] = c
                    BY <1>2, <3>2, <4>2
                <5>2. PICK s \in Of(c) : s.n = row /\ NoLoss(s.vals, vals)
                    BY <1>3, <5>1
                <5>3. s = r
                    BY <3>2, <4>2, <5>2 DEF Of, TeleInv, TeleType
                <5>4. vals[v[3]] # None
                    BY <2>0, <3>1, <5>2, <5>3 DEF NoLoss
                <5> QED
                    BY <1>6, <3>2, <4>2, <5>4
            <4> QED
                BY <4>1, <4>2
        <3>4. to[r] \in tele' /\ to[r].call = v[1] /\ to[r].at > v[2] - TeleWindow
            BY <1>5, <1>6, <3>1, <3>2
        <3> QED
            BY <3>3, <3>4 DEF Of
    <2>2. CASE \E q \in Paths : /\ Does(q, "add") /\ Frame(q).src = v[1]
                                /\ At(q) > v[2] - TeleWindow /\ Found(q).vals[v[3]] # None
        <3>1. PICK q \in Paths : /\ Does(q, "add") /\ Frame(q).src = v[1]
                                 /\ At(q) > v[2] - TeleWindow /\ Found(q).vals[v[3]] # None
            BY <2>2
        <3>2. Same(q)
            BY <1>0, <3>1
        <3> QED
            BY <3>1, <3>2, StillAdding
    <2> QED
        BY <2>1, <2>2 DEF TeleInv, TakenKept
<1>11. ASSUME NEW r, r.call # c PROVE r \in tele' <=> r \in tele
    <2>1. ASSUME NEW s \in tele, r = to[s] PROVE r \in tele
        BY <1>2, <1>6, <1>11, <2>1
    <2>2. ASSUME r \in tele PROVE r = to[r]
        BY <1>2, <1>6, <1>11, <2>2
    <2> QED
        BY <1>5, <2>1, <2>2
<1>12. \A r \in tele' : \E s \in tele : s.n = r.n /\ s.call = r.call
    BY <1>5, <1>6
<1> QED
    BY <1>1, <1>7, <1>8, <1>9, <1>10, <1>11, <1>12

LEMMA TakeStays ==
    ASSUME IngestInv, TodoForm, TeleInv, NEW p \in Paths, UpsertWeather(p)
    PROVE  /\ TeleType' /\ TelemetrySpaced' /\ WetTask(p)' /\ TakenKept'
           /\ tele' = tele
<1>0. /\ UNCHANGED <<now, next, tele, torn>> /\ Busy(p) /\ Does(p, "weather")
      /\ Dry(p)' /\ \A q \in Paths \ {p} : Same(q)
      /\ \A x : Does(p, x) => x = "weather"
    <2>1. UNCHANGED <<next, tele>>
        BY DEF UpsertWeather
    <2>2. \A x : Does(p, x) => x = "weather"
        BY DEF UpsertWeather, Does
    <2> QED
        BY <2>1, <2>2, WriteSteps
<1>1. PICK c, t : c = Frame(p).src /\ t = At(p)
    OBVIOUS
<1>2. c \in Calls /\ t \in Nat
    BY <1>0, <1>1, FrameOfStep
<1>3. \A v \in taken' : v \in taken \/ \E w \in Fields : Frame(p).weather[w].prov = MEASURED /\ v = <<c, t, w>>
    BY <1>1 DEF UpsertWeather
<1>4. TeleType'
    <2>1. taken' \subseteq Calls \X Nat \X Fields
        BY <1>2, <1>3 DEF TeleInv, TeleType
    <2> QED
        BY <1>0, <2>1 DEF TeleInv, TeleType
<1>5. TelemetrySpaced'
    BY <1>0 DEF TeleInv, TelemetrySpaced
<1>6. WetTask(p)'
    BY <1>0 DEF Dry, Wet, WetTask, Merging, Dropping, Adding, Amending, Merged
<1>7. TakenKept'
    <2> SUFFICES ASSUME NEW v \in taken', v[1] \notin torn
                 PROVE  \/ \E r \in Of(v[1]) : r.at > v[2] - TeleWindow /\ r.vals[v[3]] # None
                        \/ \E q \in Paths : /\ Does(q, "add")' /\ Frame(q)'.src = v[1]
                                            /\ At(q)' > v[2] - TeleWindow
                                            /\ Found(q)'.vals[v[3]] # None
        BY <1>0 DEF TakenKept, Of
    <2>1. CASE v \in taken
        <3>1. CASE \E q \in Paths : /\ Does(q, "add") /\ Frame(q).src = v[1]
                                    /\ At(q) > v[2] - TeleWindow /\ Found(q).vals[v[3]] # None
            <4>1. PICK q \in Paths : /\ Does(q, "add") /\ Frame(q).src = v[1]
                                     /\ At(q) > v[2] - TeleWindow /\ Found(q).vals[v[3]] # None
                BY <3>1
            <4>2. Same(q)
                BY <1>0, <4>1
            <4> QED
                BY <4>1, <4>2, StillAdding
        <3> QED
            BY <2>1, <3>1 DEF TeleInv, TakenKept
    <2>2. CASE v \notin taken
        <3>1. PICK w \in Fields : Frame(p).weather[w].prov = MEASURED /\ v = <<c, t, w>>
            BY <1>3, <2>2
        <3>2. v[1] = c /\ v[2] = t /\ v[3] = w
            BY <3>1
        <3>3. PICK r \in Of(c) : r.at > t - TeleWindow /\ Covers(r.vals, p)
            <4>1. Merged(p)
                BY DEF TeleInv, WetInv, WetTask
            <4>2. \E r \in Of(Frame(p).src) : r.at > At(p) - TeleWindow /\ Covers(r.vals, p)
                BY <1>0, <1>1, <3>2, <4>1 DEF Merged
            <4> QED
                BY <1>1, <4>2
        <3>4. r.vals[w] # None
            BY <3>1, <3>3 DEF Covers
        <3> QED
            BY <3>2, <3>3, <3>4
    <2> QED
        BY <2>1, <2>2
<1> QED
    BY <1>0, <1>4, <1>5, <1>6, <1>7

LEMMA CalmStays ==
    ASSUME IngestInv, TodoForm, TeleInv, [Next]_vars, UNCHANGED <<tele, taken>>,
           \A q \in Paths : Calm(q)
    PROVE  TeleType' /\ TelemetrySpaced' /\ WetInv' /\ TakenKept'
<1>1. torn \subseteq torn' /\ next \in Nat /\ next' \in Nat /\ next <= next'
    BY TornGrows, NextGrows
<1>2. TeleType'
    <2>1. now \in Nat /\ now' \in Nat /\ now <= now'
        <3>1. now \in Nat
            BY DEF IngestInv, ClockType
        <3>2. ASSUME NEW e, Arrive(e[1], e[2]) PROVE now' = now
            BY <3>2 DEF Arrive
        <3>3. ASSUME NEW p \in Paths, Step(p) PROVE now' = now
            BY <3>3 DEF Step, Claim, RefuseClaimed, Look, LogSignal, CountSignal, FlushBuckets,
                        UpsertStation, Renew, InsertRow, MarkSent, MarkAcked, Receipt, Tell,
                        FindOriginal, Confirm, Recall, AddReading, AmendReading, DropReading,
                        UpsertWeather, Fails
        <3>4. ASSUME NEW closed, Restart(closed) PROVE now' = now \/ now' = now + 1
            BY <3>4 DEF Restart
        <3>5. ASSUME (\E d \in Talks : DeleteTalk(d)) \/ Tick \/ UNCHANGED vars
              PROVE  now' = now \/ now' = now + 1
            BY <3>5 DEF DeleteTalk, Tick, vars
        <3>6. now' = now \/ now' = now + 1
            BY <3>2, <3>3, <3>4, <3>5 DEF Next
        <3> QED
            BY <3>1, <3>6
    <2>2. /\ tele' \subseteq [n : Nat, call : Calls, at : Nat, vals : StoredVals]
          /\ \A r, s \in tele' : r.n = s.n => r = s
          /\ taken' \subseteq Calls \X Nat \X Fields
        BY DEF TeleInv, TeleType
    <2>3. \A r \in tele : r.n \in Nat /\ r.at \in Nat /\ r.n < next /\ r.at <= now
        BY DEF TeleInv, TeleType
    <2>4. \A r \in tele' : r.n < next' /\ r.at <= now'
        BY <1>1, <2>1, <2>3
    <2> QED
        BY <2>2, <2>4 DEF TeleType
<1>3. TelemetrySpaced'
    BY <1>1 DEF TeleInv, TelemetrySpaced
<1>4. WetInv'
    <2> SUFFICES ASSUME NEW q \in Paths PROVE WetTask(q)'
        BY DEF WetInv
    <2>1. CASE Dry(q)'
        BY <2>1 DEF Dry, Wet, WetTask, Merging, Dropping, Adding, Amending, Merged
    <2>2. CASE Same(q)
        <3>1. WetTask(q) /\ TeleType
            BY DEF TeleInv, WetInv
        <3>2. \A r \in tele' : r.n = next \/ \E s \in tele : s.n = r.n /\ s.call = r.call
            OBVIOUS
        <3> QED
            BY <1>1, <2>2, <3>1, <3>2, WetBeside
    <2> QED
        BY <2>1, <2>2 DEF Calm
<1>5. TakenKept'
    <2> SUFFICES ASSUME NEW v \in taken, v[1] \notin torn'
                 PROVE  \/ \E r \in Of(v[1]) : r.at > v[2] - TeleWindow /\ r.vals[v[3]] # None
                        \/ \E q \in Paths : /\ Does(q, "add")' /\ Frame(q)'.src = v[1]
                                            /\ At(q)' > v[2] - TeleWindow
                                            /\ Found(q)'.vals[v[3]] # None
        BY DEF TakenKept, Of
    <2>1. CASE \E q \in Paths : /\ Does(q, "add") /\ Frame(q).src = v[1]
                                /\ At(q) > v[2] - TeleWindow /\ Found(q).vals[v[3]] # None
        <3>1. PICK q \in Paths : /\ Does(q, "add") /\ Frame(q).src = v[1]
                                 /\ At(q) > v[2] - TeleWindow /\ Found(q).vals[v[3]] # None
            BY <2>1
        <3>2. Same(q)
            BY <3>1 DEF Calm, Dry, Wet
        <3> QED
            BY <3>1, <3>2, StillAdding
    <2> QED
        BY <1>1, <2>1 DEF TeleInv, TakenKept
<1> QED
    BY <1>2, <1>3, <1>4, <1>5

LEMMA TeleStays ==
    ASSUME IngestInv, TodoForm, TeleInv, [Next]_vars PROVE TeleInv'
<1>1. OneWet'
    BY OneWetStays DEF TeleInv
<1>2. CASE UNCHANGED <<tele, taken>> /\ \A q \in Paths : Calm(q)
    BY <1>1, <1>2, CalmStays DEF TeleInv
<1>3. ASSUME NEW p \in Paths, Moves(p),
             Recall(p) \/ AddReading(p) \/ AmendReading(p) \/ DropReading(p) \/ UpsertWeather(p)
      PROVE  TeleInv'
    <2>1. HandlesWeather(p)
        <3>1. Does(p, "recall") \/ \E x \in Wet : Does(p, x)
            BY <1>3 DEF Recall, AddReading, AmendReading, DropReading, UpsertWeather, Wet
        <3> QED
            BY <3>1, WetSteps
    <2>2. /\ \A q \in Paths \ {p} : Same(q)
          /\ torn \subseteq torn' /\ next \in Nat /\ next' \in Nat /\ next <= next'
        BY <1>3, TornGrows, NextGrows DEF Moves
    <2>3. /\ TeleType' /\ TelemetrySpaced' /\ WetTask(p)' /\ TakenKept'
          /\ \A r \in tele' : r.n = next \/ \E s \in tele : s.n = r.n /\ s.call = r.call
          /\ \A r : r.call # Frame(p).src => (r \in tele' <=> r \in tele)
        <3>1. CASE Recall(p)
            <4>1. UNCHANGED <<now, next, tele, taken, torn>> /\ WetTask(p)'
                BY <3>1, RecallCases, RecallStays
            <4>2. TeleType' /\ TelemetrySpaced'
                BY <4>1 DEF TeleInv, TeleType, TelemetrySpaced
            <4>3. TakenKept'
                <5> SUFFICES ASSUME NEW v \in taken, v[1] \notin torn
                             PROVE  \/ \E r \in Of(v[1]) : r.at > v[2] - TeleWindow /\ r.vals[v[3]] # None
                                    \/ \E q \in Paths :
                                          /\ Does(q, "add")' /\ Frame(q)'.src = v[1]
                                          /\ At(q)' > v[2] - TeleWindow /\ Found(q)'.vals[v[3]] # None
                    BY <4>1 DEF TakenKept, Of
                <5>1. CASE \E q \in Paths : /\ Does(q, "add") /\ Frame(q).src = v[1]
                                            /\ At(q) > v[2] - TeleWindow /\ Found(q).vals[v[3]] # None
                    <6>1. PICK q \in Paths : /\ Does(q, "add") /\ Frame(q).src = v[1]
                                             /\ At(q) > v[2] - TeleWindow /\ Found(q).vals[v[3]] # None
                        BY <5>1
                    <6>2. q # p
                        BY <3>1, <6>1 DEF Recall, Does
                    <6> QED
                        BY <2>2, <6>1, <6>2, StillAdding
                <5> QED
                    BY <5>1 DEF TeleInv, TakenKept
            <4> QED
                BY <4>1, <4>2, <4>3
        <3>2. CASE DropReading(p)
            BY <3>2, DropStays
        <3>3. CASE AddReading(p)
            BY <3>3, AddStays
        <3>4. CASE AmendReading(p)
            BY <3>4, AmendStays
        <3>5. CASE UpsertWeather(p)
            BY <3>5, TakeStays
        <3> QED
            BY <1>3, <3>1, <3>2, <3>3, <3>4, <3>5
    <2>4. ASSUME NEW q \in Paths, q # p PROVE WetTask(q)'
        <3>1. Same(q) /\ WetTask(q) /\ TeleType
            BY <2>2, <2>4 DEF TeleInv, WetInv
        <3>2. Dry(q) \/ HandlesWeather(q)
            BY WetSteps DEF Dry
        <3>3. HandlesWeather(q) /\ Frame(q).src = Frame(p).src => Frame(q).src \in torn
            BY <2>1, <2>4 DEF TeleInv, OneWet
        <3>4. Frame(q).src # Frame(p).src =>
                  \A r : r.call = Frame(q).src => (r \in tele' <=> r \in tele)
            BY <2>3
        <3> QED
            BY <2>2, <2>3, <3>1, <3>2, <3>3, <3>4, WetBeside
    <2>5. WetInv'
        BY <2>3, <2>4 DEF WetInv
    <2> QED
        BY <1>1, <2>3, <2>5 DEF TeleInv
<1> QED
    BY <1>2, <1>3, WeatherCases

(* Whatever the two tasks do between each other's steps, two rows of a     *)
(* station are never within the window in which copies are merged, and     *)
(* what was measured and taken in is in a row from its time on             *)
(* (store_telemetry, reconcile).                                           *)
THEOREM NoReadingIsLost == Spec => []TelemetryKept
<1> DEFINE Inv == IngestInv /\ TodoForm /\ TeleInv
<1>1. Init => Inv
    <2>1. Init => IngestInv
        BY IngestStart
    <2>2. Init => TodoForm
        BY NothingBetween DEF Init, TodoForm, Todo, Idle, Between
    <2>3. ASSUME Init PROVE TeleInv
        <3>1. \A q \in Paths : task[q].todo = <<>>
            BY <2>3 DEF Init, Idle
        <3>2. \A q \in Paths : ~Busy(q)
            BY <3>1 DEF Busy
        <3>3. TeleType /\ TelemetrySpaced /\ TakenKept
            BY <2>3 DEF Init, TeleType, TelemetrySpaced, TakenKept
        <3>4. OneWet
            BY <3>2 DEF OneWet, HandlesWeather
        <3>5. WetInv
            BY <3>2 DEF WetInv, WetTask, Merging, Dropping, Adding, Amending, Merged, Does
        <3> QED
            BY <3>3, <3>4, <3>5 DEF TeleInv
    <2> QED
        BY <2>1, <2>2, <2>3
<1>2. Inv /\ [Next]_vars => Inv'
    BY IngestNext, FormStays, TeleStays
<1>3. Inv => TelemetryKept
    <2> SUFFICES ASSUME Inv PROVE TelemetrySpaced /\ ReadingsKept
        BY DEF TelemetryKept
    <2>1. ASSUME AtRest PROVE \A q \in Paths : ~Does(q, "add")
        BY <2>1 DEF AtRest, Does
    <2>2. AtRest => \A v \in taken : v[1] \notin torn =>
              \E r \in Of(v[1]) : r.at > v[2] - TeleWindow /\ r.vals[v[3]] # None
        BY <2>1 DEF TeleInv, TakenKept
    <2>3. ReadingsKept
        BY <2>2 DEF ReadingsKept, Of
    <2> QED
        BY <2>3 DEF TeleInv
<1> QED
    BY <1>1, <1>2, <1>3, PTL DEF Spec
=============================================================================
