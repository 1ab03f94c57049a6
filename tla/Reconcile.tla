------------------------------ MODULE Reconcile ------------------------------
(***************************************************************************)
(* Two readings of one transmission (storage/telemetry_reconcile.py).  A   *)
(* station's telemetry comes twice, over UDP and over Bluetooth, with      *)
(* different fields in either copy; what was stored before is merged with  *)
(* what comes in, field by field.  A reading is measured, or derived from  *)
(* another quantity, or absent.                                            *)
(***************************************************************************)
EXTENDS Integers

CONSTANTS
    None,
    Fields,     \* ALL_FIELDS
    Values      \* what a sensor can read

ASSUME NoneAssumption == None \notin Values

\* The provenances in their order, _validate and Reading.__post_init__.
ABSENT == 0
DERIVED == 1
MEASURED == 2
Reading ==
    [prov : {ABSENT}, value : {None}] \cup [prov : {DERIVED, MEASURED}, value : Values]
Readings == [Fields -> Reading]

absent == [prov |-> ABSENT, value |-> None]
measured(v) == [prov |-> MEASURED, value |-> v]
derived(v) == [prov |-> DERIVED, value |-> v]

\* A stored row has lost the provenances: a value counts as measured.
FromRow(vals) == [f \in Fields |-> IF vals[f] = None THEN absent ELSE measured(vals[f])]
values_for(merged) == [f \in Fields |-> merged[f].value]

\* _choose: presence first, then provenance, then age.
Choose(old, new, newer) ==
    IF old.prov = ABSENT THEN new
    ELSE IF new.prov = ABSENT THEN old
    ELSE IF new.prov # old.prov THEN (IF new.prov > old.prov THEN new ELSE old)
    ELSE IF newer THEN new ELSE old

Merge(old, new, newer) == [f \in Fields |-> Choose(old[f], new[f], newer)]

Changed(old, new, newer) ==
    {f \in Fields : Merge(old, new, newer)[f].value # old[f].value}

\* A measured value that came in won a field and changed it.
MeasuredWin(old, new, newer) ==
    \E f \in Changed(old, new, newer) :
        new[f].prov = MEASURED /\ Merge(old, new, newer)[f] = new[f]

\* What becomes of the stored row.
Action(old, new, newer) ==
    IF Changed(old, new, newer) = {} THEN "skip"
    ELSE IF MeasuredWin(old, new, newer) /\ newer THEN "replace"
    ELSE "update"
=============================================================================
