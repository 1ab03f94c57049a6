----------------------------- MODULE MessageLog -----------------------------
(***************************************************************************)
(* What the ingest of messages promises to everyone who reads the table:   *)
(* a log of accepted transmissions in which one transmission, known by its *)
(* sender and its id, appears once within the window, however many copies  *)
(* come over however many paths; entries that are never changed but in     *)
(* their delivery status, which only goes forward; entries that vanish     *)
(* only when their conversation is deleted.                                *)
(***************************************************************************)
EXTENDS Integers

CONSTANTS
    Keys,       \* senders with their ids
    Talks,      \* conversations
    Times,      \* when a transmission may come
    Window      \* DEDUP_WINDOW_MS

VARIABLE log

Status == [sent : BOOLEAN, acked : BOOLEAN]
Entry == [key : Keys, at : Times, talk : Talks, status : Status]
Fresh == [sent |-> FALSE, acked |-> FALSE]

Apart(s, t) == s - t >= Window \/ t - s >= Window

Init == log = {}

Accept ==
    \E new \in log' \ log :
        /\ new \in Entry /\ new.status = Fresh
        /\ \A e \in log : e.key = new.key => Apart(new.at, e.at)
        /\ log' = log \cup {new}

NotBefore(old, new) == (old.sent => new.sent) /\ (old.acked => new.acked)

Confirm ==
    \E e \in log \ log', s \in Status :
        /\ NotBefore(e.status, s)
        /\ log' = (log \ {e}) \cup {[e EXCEPT !.status = s]}

Delete == \E c \in Talks : log' = {e \in log : e.talk # c}

Next == Accept \/ Confirm \/ Delete

Spec == Init /\ [][Next]_log

(* One transmission is not stored twice within the window.                 *)
Spaced == \A d, e \in log : d.key = e.key /\ d # e => Apart(d.at, e.at)
=============================================================================
